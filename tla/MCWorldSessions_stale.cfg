\* A load answered to a later session of the account.
CONSTANTS
  anna = anna
  boris = boris
  gm = gm
  none = none
  a1 = a1
  a2 = a2
  a3 = a3
  b1 = b1
  g1 = g1
  elf = elf
  orc = orc
  Accounts <- LoginAccounts
  AccountOf <- LoginAccountOf
  Security <- LoginSecurity
  Sessions <- LoginSessions
  NoSession = none
  Chars <- LoginChars
  OwnerOf <- LoginOwners
  NoChar = none
  NoAccount = none
  InitLimit = 0
  Limits <- NoLimits
  CalmClients = FALSE
  MaxLogins = 2
  MaxProgress = 1
SPECIFICATION Spec
CHECK_DEADLOCK FALSE
INVARIANT
  OneCharacterOnline
