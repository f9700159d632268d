SPECIFICATION FairSpec
CHECK_DEADLOCK FALSE
CONSTANTS
  c1 = c1  c2 = c2  c3 = c3
  h1 = h1  h2 = h2  h3 = h3
  b1 = b1  b2 = b2
  u1 = u1  u2 = u2
  NoConfig = NoConfig  EmptyHash = EmptyHash  NoHash = NoHash  Unreadable = Unreadable
  NoBody = NoBody  NoPush = NoPush  NoUid = NoUid
  Configs = {c1, c2}
  FirstConfig = c1
  ConfigSteps <- OneWaySteps
  Hashes = {h1, h2}
  Bodies = {b1, b2}
  Pushes <- HashedPushes
  RemoteEnabled = TRUE
  Uids = {u1}
  FirstUid = u1
  Failures = {"lost", "cut", "conflict"}
  SeqMod = 3
  MaxFailures = 2
INVARIANTS
  OmittedConfigIsKnown
PROPERTIES
  PollsForever
  ConfigReported
  DesiredGetsVerdict
