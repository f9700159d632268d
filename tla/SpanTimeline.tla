---------------------------- MODULE SpanTimeline ----------------------------
(***************************************************************************)
(* What a native profiler promises about spans: a plain stack of open      *)
(* activations per context hash, and the set of the activations that ended *)
(* since the last profile.  A sample belongs to the latest of those that   *)
(* were active when it was taken.  Whether an activation is recorded at    *)
(* all is not promised: a profiler that is stopped, or filters traces,     *)
(* leaves some out, and every profile forgets the open ones.               *)
(***************************************************************************)
EXTENDS Naturals, Sequences

CONSTANTS
  Hashes,
  Spans,
  Times,
  NoMatch

VARIABLES
  open,   \* per hash, the open activations, innermost last
  done    \* the activations that ended since the last profile

Activations == [span : Spans, start : Times]

Init == open = [h \in Hashes |-> <<>>] /\ done = {}

Activate(h, activation) ==
  /\ open' = [open EXCEPT ![h] = Append(@, activation)]
  /\ UNCHANGED done

\* The innermost activation of a hash ends.
Deactivate(h, now) ==
  /\ open[h] # <<>>
  /\ LET last == open[h][Len(open[h])] IN
     done' = done \cup {[span |-> last.span, start |-> last.start, end |-> now]}
  /\ open' = [open EXCEPT ![h] = SubSeq(@, 1, Len(@) - 1)]

\* A profile is taken, or a profiler starts or stops.
Forget == open' = [h \in Hashes |-> <<>>] /\ done' = {}

Next ==
  \/ \E h \in Hashes, a \in Activations : Activate(h, a)
  \/ \E h \in Hashes, now \in Times : Deactivate(h, now)
  \/ Forget

Spec == Init /\ [][Next]_<<open, done>>

----------------------------------------------------------------------------

Active(ts) == {a \in done : a.start <= ts /\ ts <= a.end}

\* The activations a sample taken at ts may be given.
Latest(ts) ==
  IF Active(ts) = {} THEN {NoMatch}
                     ELSE {a \in Active(ts) : \A b \in Active(ts) : b.start <= a.start}
============================================================================
