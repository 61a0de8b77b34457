CONSTANTS
  sampled = sampled
  watcher = watcher
  basic = basic
  Taps = {sampled, watcher, basic}
  NoTap = NoTap
  TapList <- TwoShipped
  Installed = {sampled, watcher, basic}
  ThreadAware = {sampled, watcher}
  WithInit = {sampled, watcher, basic}
  KeyVar <- OwnKey
  LDM_MAX_TCTRS = 1
  Threads = {t1, t2}
  Sampled = sampled
  NoThread = NoThread
  Monitor = Monitor
  Nobody = Nobody
  MAX_NUM_THREADS = 2
  Rates = {1}
  LateDelivery = FALSE
  MaxEarly = 1
SPECIFICATION SampledSpec
INVARIANT TableBounds
CHECK_DEADLOCK FALSE
