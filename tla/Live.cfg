SPECIFICATION LiveSpec
CONSTANTS
  MAX_ORDER = 3
  Size <- Powers
  Regions <- TwoRegions
  Reserved = {}
  LOW_RESERVED_END = 1
  BitmapPages = 1
  t1 = t1
  t2 = t2
  t3 = t3
  t4 = t4
  w1 = w1
  all = all
  NoOwner = NoOwner
  p0 = p0
  p1 = p1
  p2 = p2
  NoPort = NoPort
INVARIANTS PagesExact AnswersTrue RepliesArrive
PROPERTIES EveryWaitEnds
CHECK_DEADLOCK FALSE
