SPECIFICATION TablesSpec
CONSTANTS
  MAX_PORTS = 5
  LIVE_BUCKETS = 2
  PROBE_LIMIT = 2
  QUEUE_DEPTH = 3
  BATCH = 1
  Pids = {v1, v2}
  Msgs = {m1, m2}
  NoMsg = NoMsg
  Handler = Handler
  NoHandler = NoHandler
  MayWrap = FALSE
  t1 = t1
  t2 = t2
  t3 = t3
  v1 = v1
  v2 = v2
  v3 = v3
  u1 = u1
  u2 = u2
  NoAddr = NoAddr
  None = None
SYMMETRY Alike
VIEW TablesView
INVARIANTS ChainsExact NoStaleSleep PiLockSound EveryLivePortFound
PROPERTIES ClaimDelivered FailsOnlyWhenFull ImplementsPorts
CHECK_DEADLOCK FALSE
