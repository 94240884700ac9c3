CONSTANTS
  a1 = a1
  a2 = a2
  h1 = h1
  h2 = h2
  b1 = b1
  b2 = b2
  warsong = warsong
  arathi = arathi
  eye = eye
  isle = isle
  Players <- MCPlayers
  TeamOf <- MCTeamOf
  Types <- MCTypes
  BGs = {b1, b2}
  InstancesOf <- MCInstancesOf
  NoBg = NoBg
  MinPlayersPerTeam <- MCPlayersPerTeam
  MaxPlayersPerTeam <- MCPlayersPerTeam
  MaxQueues = 2
  Entries <- MCEntries
  CalmTravel = TRUE
  MaxEvents <- MCMaxEvents
  Leavers = {a1}
SPECIFICATION Spec
INVARIANTS
  TypeOK
  InvitedCounted
  NoTeamOverfull
  SlotsMatchQueue
  InvitationTimed
PROPERTIES
  OnlyOwnTimerRemoves
