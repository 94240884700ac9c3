CONSTANTS
  world = world
  Senders = {world}
  PacketSizes = {1, 3}
  BufferSize = 2
  HighWater = 3
  KernelSize = 2
  MaxUnits = 12
SPECIFICATION Spec
CHECK_DEADLOCK FALSE
INVARIANTS NoGap
