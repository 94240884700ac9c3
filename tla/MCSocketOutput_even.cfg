CONSTANTS
  world = world
  Senders = {world}
  PacketSizes = {2}
  BufferSize = 3
  HighWater = 4
  KernelSize = 2
  MaxUnits = 15
SPECIFICATION Spec
CHECK_DEADLOCK FALSE
INVARIANTS TypeOK InOrder
PROPERTIES ChannelSpec AllDelivered
