SPECIFICATION ProcessSpec
CONSTANTS
  main = main
  child = child
  t1 = t1
  t2 = t2
  k1 = k1
  k2 = k2
  w1 = w1
  r1 = r1
  f1 = f1
  f2 = f2
  init = init
  NoPid = NoPid
  NoTask = NoTask
  None = None
  Threads = {main, t1, t2}
  Leader = main
  Unborn = {t2}
  Ops = {"exit_group", "fatal", "lock", "tick", "stop", "cont"}
  Parent = main
  Workers = {}
  Kids = {k1, k2}
  MaxProcesses = 4
  Acts = {"exitgroup"}
  N = 4
  Pids = {2, 3, 6}
  Readers = {r1}
  MaxTasks = 3
  Cpus = {k1, k2}
  Frames = {f1, f2}
  Forker = main
  Child = child
  MaxForks = 1
  MaxDiscards = 1
SYMMETRY Alike
INVARIANTS LockHolderSurvives TeardownExclusive TableOutlivesUsers DeathReportedOnce
           EachDeathOnce EchildIsTrue NoSleepOnExit OrphansReachInit ThreadsSafe
           PidLookupExact NoStaleTranslation
CHECK_DEADLOCK FALSE
