CONSTANTS
  Main = main
  NoThread = none
  Threads = {main, t1}
  Lines <- TypedLines
  InitDisps <- OneStart
  Handles = {"SEGV"}
  MaxOdd = 1
  MaxDepth = 1
SPECIFICATION FairSpec
INVARIANTS
  TypeOK
  FrameWalk
  FaultsOnce
PROPERTIES
  ReturnsOnlyToDie
  EofDies
  Opens
CHECK_DEADLOCK FALSE
