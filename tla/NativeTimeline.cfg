SPECIFICATION Spec
CHECK_DEADLOCK FALSE
CONSTANTS
  a = a  b = b  plain = plain  s = s  t = t  x = x
  NoSpan = NoSpan  NoMatch = NoMatch  NoBlock = NoBlock  NoActivation = NoActivation
  Contexts = {a, b, plain}
  SpanOf <- MCSpanOf
  TraceOf <- MCTraceOf
  HashOf <- MCHashOf
  PageSize = 6
  Alignment = 2
  MemoryOffset = 1
  kMaxActivations = 1
  SpillFactor = 2
  kActivationBinWidth = 1
  kActivationsPerBin = 1
  kBinsPerActivationPeriod = 2
  SamplingInterval = 2
  MaxCutoffDelay = 2
  MaxTime = 2
  MaxWait = 1
  MaxDepth = 3
  MaxPages = 2
  MaxPerBin = 2
INVARIANTS
  TypeOK
  SamplesFindLatest
  MemoryIsOwn
  RateIsBounded
PROPERTIES
  ActivationsAreTrue
  ImplementsTimeline
  OnlyFreePagesAreLost
