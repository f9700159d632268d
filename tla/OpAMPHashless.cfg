SPECIFICATION Spec
CHECK_DEADLOCK FALSE
CONSTANTS
  c1 = c1  c2 = c2  c3 = c3
  h1 = h1  h2 = h2  h3 = h3
  b1 = b1  b2 = b2
  u1 = u1  u2 = u2
  NoConfig = NoConfig  EmptyHash = EmptyHash  NoHash = NoHash  Unreadable = Unreadable
  NoBody = NoBody  NoPush = NoPush  NoUid = NoUid
  Configs = {c1}
  FirstConfig = c1
  ConfigSteps <- NoSteps
  Hashes = {EmptyHash}
  Bodies = {b1, b2}
  Pushes <- DecodedPushes
  RemoteEnabled = TRUE
  Uids = {u1}
  FirstUid = u1
  Failures = {"lost"}
  SeqMod = 4
  MaxFailures = 2
PROPERTIES
  ChangeIsAttempted
