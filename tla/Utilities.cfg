SPECIFICATION UtilitiesSpec
CONSTANTS
  a = a
  b = b
  c = c
  Procs = {a, b, c}
  Founders = {a, b}
  FLOK_AGE_LIMIT = 200
  Senders = {b}
  Changers = {b, c}
  MaxChanges = 2
  MaxData = 1
  MaxAhead = 1
  Junk = Junk
  Empty = Empty
  Keys = {1, 2}
  Vals = {1, 2}
  HcodeBits = 4
  MIN_AUTO_ALLOC = 3
  STDSIZE_BITS = 8
  VSizes = {1, 4}
  TableMin = 1
  STDSKL_MAX_HEIGHT = 2
  FirstHeight = 1
  ArraySize = 5
  RingSize = 4
  MapSize = 3
  MaxAtOnce = 2
  HashAtOnce = 1
  Sources = {s1, s2}
  Timers = {t1, t2}
  NUM_PRIORITY = 2
  MAX_FD_EVENTS = 2
  Delays = {0, 2}
  Second = 3
  Started = 1
  MaxTime = 4
  MaxCalls = 1
  ObjTypes = {o1, o2}
  BLOCK_OBJECT = BLOCK_OBJECT
  ObjSize = 3
  Header = 1
  Thresholds = {0, 1, 2}
  MaxInitial = 1
  MaxObjects = 3
  MaxLength = 2
INVARIANTS Sound ViewSynchrony QuietIsSteady SequencesRight MapsRight LoopAndPoolsRight
CHECK_DEADLOCK FALSE
