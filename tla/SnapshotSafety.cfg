SPECIFICATION FairSpec
CHECK_DEADLOCK FALSE
CONSTANTS
  s1 = s1  s2 = s2  s3 = s3  t1 = t1  t2 = t2
  NoTimer = NoTimer  NoExporter = NoExporter
  Spans = {s1, s2, s3}
  TraceOf <- SharedTrace
  Intervals = {1, 2}
  FirstInterval = 1
  Timers = {1, 2, 3}
  MaxStrays = 1
INVARIANTS
  TypeOK
  CountBalanced
  NoFilterLeaks
  InactiveIsQuiet
  FreshPeriodHonest
PROPERTIES
  QuietWhenIdle
