CONSTANTS
  Sockets = {s1}
  NoSocket = NoSocket
  Sessions = {x1, x2}
  NoSession = NoSession
  MaxPackets = 2

SPECIFICATION Spec
CHECK_DEADLOCK FALSE
INVARIANTS TypeOK RefsHeld SessionPointers
PROPERTIES EveryConnectionEnds
