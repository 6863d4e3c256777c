SPECIFICATION KsyncSpec
CONSTANTS
  t1 = t1
  t2 = t2
  t3 = t3
  t4 = t4
  u1 = u1
  u2 = u2
  Tasks = {t1, t2, t3}
  MaxBypass = 1
  COUNT_MAX = 2
  Slot <- SharedSlot
  Modes = {"try", "sleep", "qspin", "spin"}
  Timeouts = {"ahead"}
  Classes = {"fifo", "prio", "resume"}
  NoOwner = NoOwner
  all = all
  w1 = w1
  w2 = w2
  Pids = {t1, t2}
  Wakers = {u1, u2}
  Cpus = {c1, c2}
  SLOTS = 2
  NoPid = NoPid
SYMMETRY Symmetry
INVARIANTS RwCountNeverLow
