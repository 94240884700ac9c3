\* loginDatabase, written by the world thread and by a network thread.
CONSTANTS
  main = main
  world = world
  net = net
  none = none
  Threads <- LoginThreads
  Main = main
  ResultThreads <- JustWorld
  DirectThreads <- NoThreads
  NoThread = none
  MainWrites = TRUE
  HolderSize = 2
  MaxOps = 4
SPECIFICATION Spec
INVARIANT
  StatementInOwnTransaction
