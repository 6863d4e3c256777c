SPECIFICATION SchedSpec
CONSTANTS
  a1 = a1
  a2 = a2
  b1 = b1
  b2 = b2
  c1 = c1
  c2 = c2
  NoTask = NoTask
  Cpus = {c1, c2}
  Tasks = {a1, a2, b1, b2}
  TgidOf <- TwoGroups
  Forkers = {a1, a2, b2}
  Killers = {a2}
INVARIANTS OneCpuPerTask HintCovers CloneAlone OwnerCanRun
PROPERTIES QuiesceEnds TeardownEnds
