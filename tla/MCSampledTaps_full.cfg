CONSTANTS
  sampled = sampled
  watcher = watcher
  basic = basic
  Taps = {sampled, watcher, basic}
  NoTap = NoTap
  TapList <- FullList
  Installed = {sampled, watcher, basic}
  ThreadAware = {sampled, watcher}
  WithInit = {sampled, watcher, basic}
  KeyVar <- OwnKey
  LDM_MAX_TCTRS = 2
  Threads = {t1, t2}
  Sampled = sampled
  NoThread = NoThread
  Monitor = Monitor
  Nobody = Nobody
  MAX_NUM_THREADS = 2
  Rates = {0, 1}
  LateDelivery = TRUE
  MaxEarly = 1
SPECIFICATION SampledSpec
SYMMETRY ThreadSymmetry
INVARIANTS
  TypeOK
  RunsEveryCtor
  CtorOncePerTap
  DtrForEveryCtor
  HurriedOnlyEarly
PROPERTIES
  SamplerAsAssumed
CHECK_DEADLOCK FALSE
