------------------------ MODULE MCSnapshotProfiler ------------------------
(* A small instance of SnapshotProfiler for TLC. *)
EXTENDS SnapshotProfiler

CONSTANTS s1, s2, s3, t1, t2

\* Two local root spans of one trace, one of another.
SharedTrace == [s \in Spans |-> IF s = s3 THEN t2 ELSE t1]
============================================================================
