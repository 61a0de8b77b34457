CONSTANTS
  sampled = sampled
  watcher = watcher
  Taps = {sampled, watcher, basic}
  NoTap = NoTap
  TapList <- TwoShipped
  Installed = {sampled, watcher, basic}
  ThreadAware = {sampled, watcher}
  WithInit = {sampled, watcher, basic}
  KeyVar <- OneKey
  LDM_MAX_TCTRS = 2
  Threads = {t1, t2}
  Sampled = sampled
  NoThread = NoThread
  Monitor = Monitor
  Nobody = Nobody
  MAX_NUM_THREADS = 2
  Rates = {1}
  LateDelivery = FALSE
  MaxEarly = 1
  basic = basic
SPECIFICATION SampledSpec
INVARIANT PokesLiving
CHECK_DEADLOCK FALSE
