\* CharacterDatabase while the server runs and halts; the world thread also
\* executes statements directly.
CONSTANTS
  main = main
  world = world
  net = net
  none = none
  Threads <- CharThreads
  Main = main
  ResultThreads <- JustWorld
  DirectThreads <- JustWorld
  NoThread = none
  MainWrites = FALSE
  HolderSize = 2
  MaxOps = 4
SPECIFICATION Spec
INVARIANTS
  TypeOK
PROPERTIES
  StoreSpec
  EveryOperationServed
  EveryAnswerDelivered
  HaltReturns
