SPECIFICATION Spec
CONSTANTS
  Self = Self
  Waiters = {w1}
  Ctls = {c1}
  Ios = {i1}
  Objs = {pa}
  Watched = {}
  Edge = {}
  Oneshot = {}
  Ops = {"add"}
  MaxEvents = 1
  MaxSeq = 1
  MaxCtl = 1
INVARIANTS CtlEdgeReaches
CHECK_DEADLOCK FALSE
