---------------------------- MODULE MCHttpSpans ----------------------------
(* Small instances of HttpSpans for TLC. *)
EXTENDS HttpSpans, TLC

CONSTANTS s1, s2, q1, q2, t1

\* The exchanges of a kind are alike.
Symmetry == Permutations({s1, s2}) \cup Permutations({q1, q2})
============================================================================
