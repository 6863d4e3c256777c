SPECIFICATION GapSpec
CONSTANTS
  p1 = p1
  p2 = p2
  e1 = e1
  c1 = c1
  i0 = i0
  pa = pa
  pb = pb
  Self = Self
  s1 = s1
  f1 = f1
  q1 = q1
  r1 = r1
  None = None
  NoTask = NoTask
INVARIANTS ReadsSeeLatest
CHECK_DEADLOCK FALSE
