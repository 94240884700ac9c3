\* The last writes before the delay thread is halted.
CONSTANTS
  main = main
  world = world
  net = net
  none = none
  Threads <- CharThreads
  Main = main
  ResultThreads <- JustWorld
  DirectThreads <- NoThreads
  NoThread = none
  MainWrites = FALSE
  HolderSize = 2
  MaxOps = 4
SPECIFICATION Spec
INVARIANT
  FlushedAtHalt
