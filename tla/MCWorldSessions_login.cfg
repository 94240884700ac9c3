\* One account, two connections, two characters; calm clients.
CONSTANTS
  anna = anna
  boris = boris
  gm = gm
  none = none
  a1 = a1
  a2 = a2
  a3 = a3
  b1 = b1
  g1 = g1
  elf = elf
  orc = orc
  Accounts <- LoginAccounts
  AccountOf <- TwoAccountOf
  Security <- LoginSecurity
  Sessions <- TwoSessions
  NoSession = none
  Chars <- LoginChars
  OwnerOf <- LoginOwners
  NoChar = none
  NoAccount = none
  InitLimit = 0
  Limits <- NoLimits
  CalmClients = TRUE
  MaxLogins = 2
  MaxProgress = 1
SPECIFICATION Spec
CHECK_DEADLOCK FALSE
INVARIANTS
  TypeOK
  OneCharacterOnline
  AllSavedAtStop
PROPERTIES
  LoadSeesLastSave
  LoadingEnds
