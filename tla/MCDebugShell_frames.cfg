CONSTANTS
  Main = main
  NoThread = none
  Threads = {main}
  Lines <- TypedLines
  InitDisps <- OneStart
  Handles = {"SEGV"}
  MaxOdd = 1
  MaxDepth = 1
SPECIFICATION Spec
INVARIANT FramePairs
CHECK_DEADLOCK FALSE
