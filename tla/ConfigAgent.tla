----------------------------- MODULE ConfigAgent -----------------------------
(***************************************************************************)
(* What an agent promises to whoever offers it configurations: one apply   *)
(* at a time, an attempt only of what is not the last one attempted, a     *)
(* verdict on what was attempted and on nothing else, and no attempt once  *)
(* it is closed.  How an offer arrives, and how a verdict is reported, is  *)
(* not its business.                                                       *)
(***************************************************************************)

CONSTANTS
  Offers,    \* the configurations that may be offered
  NoOffer,
  Key,       \* a function: offers with one key are one configuration
  Label,     \* a function: what a verdict says which offer it is about
  NoLabel,
  Illegible  \* the offers refused at sight, even during an apply

VARIABLES
  closed,    \* no attempt begins any more
  last,      \* the offer attempted last
  applying,  \* the offer whose apply is awaited
  verdict    \* [state, hash]: how the attempt goes, and the offer's label

Init ==
  /\ closed = FALSE
  /\ last = NoOffer /\ applying = NoOffer
  /\ verdict = [state |-> "none", hash |-> NoLabel]

IsNew(p) == last = NoOffer \/ Key[p] # Key[last]

Verdict(state, p) == verdict' = [state |-> state, hash |-> Label[p]]

\* The apply of an offer starts.
Take(p) ==
  /\ ~closed /\ applying = NoOffer /\ p \notin Illegible /\ IsNew(p)
  /\ last' = p /\ applying' = p /\ Verdict("applying", p)
  /\ UNCHANGED closed

\* An offer fails before its apply starts.
Refuse(p) ==
  /\ ~closed /\ (applying = NoOffer \/ p \in Illegible) /\ IsNew(p)
  /\ last' = p /\ Verdict("failed", p)
  /\ UNCHANGED <<closed, applying>>

\* The apply that is awaited ends, also after the agent was closed.
Conclude(state) ==
  /\ applying # NoOffer
  /\ applying' = NoOffer /\ Verdict(state, applying)
  /\ UNCHANGED <<closed, last>>

Close ==
  /\ ~closed /\ closed' = TRUE
  /\ UNCHANGED <<last, applying, verdict>>

Next ==
  \/ \E p \in Offers : Take(p) \/ Refuse(p)
  \/ \E state \in {"applied", "failed"} : Conclude(state)
  \/ Close

Spec == Init /\ [][Next]_<<closed, last, applying, verdict>>
==============================================================================
