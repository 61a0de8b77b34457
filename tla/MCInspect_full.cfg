CONSTANTS
  Queries <- MCQueries
  Names <- VarNames
  Prefix <- Begins
  NoName <- Nameless
  NoAddr <- Absent
  NoDie <- None
  NoLoc <- NoExpr
  STACK_MAX = 3
  IntBits = 6
  LongBits = 12
  FrameBase = 16
SPECIFICATION InspectSpec
INVARIANTS
  InspectTypeOK
  FindsInnermost
  ListsVisible
  DecodesRight
  InspectReads
PROPERTIES
  InspectEnds
CHECK_DEADLOCK FALSE
