--------------------------- MODULE MCOpAMPClient ---------------------------
(* Small instances of OpAMPClient for TLC. *)
EXTENDS OpAMPClient

CONSTANTS c1, c2, c3, h1, h2, h3, b1, b2, u1, u2

Push(h, b, p) == [hash |-> h, body |-> b, parses |-> p]

\* The effective configuration only moves on to values it never had.
OneWaySteps == {<<c1, c2>>, <<c2, c3>>} \cap (Configs \X Configs)

\* The effective configuration may return to a former value.
RevertingSteps == {<<c1, c2>>, <<c2, c1>>}

NoSteps == {}

NoPushes == {}

\* With a hash (one does not parse), without one, and with one that cannot be read.
MixedPushes == {Push(h1, b1, TRUE), Push(h2, b2, FALSE), Push(NoHash, b1, TRUE), Push(Unreadable, b2, TRUE)}

\* Pushes of a conformant server, which always sends a hash.
HashedPushes == {Push(h1, b1, TRUE), Push(h2, b2, TRUE)}

\* Hashless pushes as the protobuf decoder delivers them.
DecodedPushes == {Push(EmptyHash, b1, TRUE), Push(EmptyHash, b2, TRUE)}
============================================================================
