\* The wait queue: reconnections, removals, a game master, a limit that changes.
CONSTANTS
  anna = anna
  boris = boris
  gm = gm
  none = none
  a1 = a1
  a2 = a2
  a3 = a3
  b1 = b1
  g1 = g1
  elf = elf
  orc = orc
  Accounts <- QueueAccounts
  AccountOf <- QueueAccountOf
  Security <- QueueSecurity
  Sessions <- QueueSessions
  NoSession = none
  Chars = {}
  OwnerOf <- NoOwners
  NoChar = none
  NoAccount = none
  InitLimit = 1
  Limits <- NewLimits
  CalmClients = FALSE
  MaxLogins = 0
  MaxProgress = 0
SPECIFICATION Spec
CHECK_DEADLOCK FALSE
INVARIANTS
  NoDeletedSession
  WaitsIffQueued
PROPERTIES
  AdmittedWithinLimit
  NoPlaceLeftEmpty
  QueueKeepsOrder
  ClosedSessionRemoved
