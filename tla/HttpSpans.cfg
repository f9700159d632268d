SPECIFICATION Spec
CONSTANTS
  s1 = s1  s2 = s2  q1 = q1  q2 = q2  t1 = t1
  NoTrace = NoTrace  Background = Background
  Servers = {s1, s2}
  Clients = {q1, q2}
  Upstream = {t1}
SYMMETRY Symmetry
INVARIANTS
  TypeOK
  SettledOnce
  OpenIsInFlight
  TracesContinue
