CONSTANTS
  Threads = {t1, t2}
  NoThread = NoThread
  Monitor = Monitor
  Nobody = Nobody
  MAX_NUM_THREADS = 2
  Rates = {0, 1}
  LateDelivery = TRUE
SPECIFICATION Spec
INVARIANT InPhase
