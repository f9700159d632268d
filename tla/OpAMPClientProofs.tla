-------------------------- MODULE OpAMPClientProofs --------------------------
(* Theorems about OpAMPClient, for every value of its constants. *)
EXTENDS OpAMPClient, TLAPS

(***************************************************************************)
(* Type correctness.                                                       *)
(***************************************************************************)

\* The hash a status reports is the one pushed, or the empty one.
LEMMA ReportedHashType ==
  ASSUME NEW p \in Pushes
  PROVE  ReportedHash(p) \in Hashes \cup {EmptyHash}
BY DEF ReportedHash

\* What createAgentToServer builds is a request, sent and unanswered.
LEMMA MessageType ==
  ASSUME TypeOK, NEW kind \in {"poll", "disconnect"}, NEW e \in Configs \cup {NoConfig},
         NEW st \in Statuses
  PROVE  Message(kind, e, st) \in Requests
BY DEF Message, Requests, TypeOK, Unanswered, Replies, FailureKinds

\* doPoll keeps the types of what it writes.
LEMMA PollType ==
  ASSUME TypeOK, Poll
  PROVE  /\ polling' \in BOOLEAN /\ pollAgain' \in BOOLEAN
         /\ seq' \in 0 .. SeqMod - 1 /\ uid' \in Uids
         /\ lastSent' \in Configs \cup {NoConfig} /\ pending' \in Configs \cup {NoConfig}
         /\ requests' \subseteq Requests /\ told' \in Statuses
<1>1. Message("poll", IF cfg # lastSent THEN cfg ELSE NoConfig, status) \in Requests
  BY MessageType DEF TypeOK
<1>2. (seq + 1) % SeqMod \in 0 .. SeqMod - 1
  BY BoundAssumption DEF TypeOK
<1> QED
  BY <1>1, <1>2 DEF Poll, TypeOK

\* scheduleNextPoll leaves a known kind of timer and a counted backoff.
LEMMA ScheduleType ==
  ASSUME TypeOK, NEW now \in BOOLEAN, NEW b \in [failures : 0 .. MaxFailures, floor : BOOLEAN],
         ScheduleNextPoll(now, b)
  PROVE  /\ timer' \in {"none", "now", "interval", "backoff"}
         /\ backoff' \in [failures : 0 .. MaxFailures, floor : BOOLEAN]
BY BoundAssumption DEF ScheduleNextPoll, TypeOK, NextDelay, CountDelay, NoBackoff

\* Attempting a pushed config keeps the types of what it writes.
LEMMA AttemptType ==
  ASSUME TypeOK, NEW p \in Pushes, Attempt(p)
  PROVE  /\ lastHash' \in Hashes \cup {NoHash} /\ lastHashless' \in Bodies \cup {NoBody}
         /\ status' \in Statuses /\ applyInFlight' \in BOOLEAN
         /\ applies' \subseteq Pushes
         /\ tried' \in Pushes \cup {NoPush} /\ tries' \in 0 .. 2
<1>1. p.body \in Bodies /\ p.parses \in BOOLEAN
  BY PushAssumption
<1>2. status' \in Statuses
  BY ReportedHashType DEF Attempt, AttemptWith, Parses, Statuses
<1> QED
  BY <1>1, <1>2 DEF Attempt, AttemptWith, Parses, TypeOK

\* An answer replaces the reply of a request and nothing else of it.
LEMMA AnswerType ==
  ASSUME TypeOK, NEW m \in requests, NEW reply \in Replies, Answer(m, reply)
  PROVE  requests' \subseteq Requests
BY DEF Answer, TypeOK, Requests

\* TypeOK is an invariant: the base of every other proof.
THEOREM TypeCorrect == Spec => []TypeOK
<1>. 0 \in 0 .. SeqMod - 1 /\ 0 \in 0 .. MaxFailures /\ 0 \in 0 .. 2
  BY BoundAssumption
<1>1. Init => TypeOK
  <2>1. NoBackoff \in [failures : 0 .. MaxFailures, floor : BOOLEAN] /\ NoStatus \in Statuses
    BY DEF NoBackoff, NoStatus, Statuses
  <2> QED
    BY <2>1, ConfigAssumption, UidAssumption DEF Init, TypeOK
<1>2. TypeOK /\ [Next]_vars => TypeOK'
  <2> SUFFICES ASSUME TypeOK, [Next]_vars PROVE TypeOK'
    OBVIOUS
  <2> USE DEF reportVars, loopVars, remoteVars, worldVars
  <2>1. CASE Start
    <3>1. phase' \in {"new", "starting", "started"} /\ stopping' \in BOOLEAN /\ seq' \in 0 .. SeqMod - 1
      BY <2>1 DEF Start
    <3>2. UNCHANGED <<polling, pollAgain, timer, backoff, uid, lastSent, pending, requests, cfg, srvCfg, desired, told>>
      BY <2>1 DEF Start
    <3>3. UNCHANGED <<lastHash, lastHashless, applyInFlight, status, applies, tried, tries>>
      BY <2>1 DEF Start
    <3> QED
      BY <3>1, <3>2, <3>3 DEF TypeOK
  <2>2. CASE FirstPoll
    BY <2>2, PollType DEF FirstPoll, TypeOK
  <2>3. CASE TimerFires
    BY <2>3, PollType DEF TimerFires, TypeOK
  <2>4. CASE Stop
    <3>1. Message("disconnect", NoConfig, NoStatus) \in Requests
      BY MessageType DEF NoStatus, Statuses
    <3>2. (seq + 1) % SeqMod \in 0 .. SeqMod - 1
      BY BoundAssumption DEF TypeOK
    <3>3. /\ stopping' \in BOOLEAN /\ pollAgain' \in BOOLEAN
          /\ timer' \in {"none", "now", "interval", "backoff"}
          /\ seq' \in 0 .. SeqMod - 1 /\ requests' \subseteq Requests
      BY <2>4, <3>1, <3>2 DEF Stop, TypeOK
    <3>4. UNCHANGED <<phase, polling, backoff, uid, lastSent, pending, remoteVars, worldVars, told>>
      BY <2>4 DEF Stop
    <3> QED
      BY <3>3, <3>4 DEF TypeOK
  <2>5. ASSUME NEW m \in requests, PollResumes(m) PROVE TypeOK'
    <3>1. m \in Requests /\ m.reply \in Replies
      BY DEF TypeOK, Requests
    <3>2. m.reply.push \in Pushes \cup {NoPush} /\ m.reply.uid \in Uids \cup {NoUid}
      BY <3>1 DEF Replies
    <3>3. /\ timer' \in {"none", "now", "interval", "backoff"}
          /\ backoff' \in [failures : 0 .. MaxFailures, floor : BOOLEAN]
      <4>1. pollAgain' \in BOOLEAN
        BY <2>5 DEF PollResumes, TypeOK, Ignored
      <4>2. (IF Http200(m.reply) /\ m.reply.code # "garbled"
                 THEN ResetBackoff(ResponseBackoff(m.reply)) ELSE backoff)
              \in [failures : 0 .. MaxFailures, floor : BOOLEAN]
        BY BoundAssumption DEF ResetBackoff, NoBackoff, TypeOK
      <4> QED
        BY <4>1, <4>2, <2>5, ScheduleType DEF PollResumes
    <3>4. /\ lastHash' \in Hashes \cup {NoHash} /\ lastHashless' \in Bodies \cup {NoBody}
          /\ status' \in Statuses /\ applyInFlight' \in BOOLEAN
          /\ applies' \subseteq Pushes
          /\ tried' \in Pushes \cup {NoPush} /\ tries' \in 0 .. 2
      <4>1. CASE m.reply.code = "ok" /\ ~Ignored(m.reply.push)
        <5>1. m.reply.push \in Pushes
          BY <4>1, <3>2 DEF Ignored
        <5> QED
          BY <4>1, <5>1, <2>5, AttemptType DEF PollResumes
      <4>2. CASE ~(m.reply.code = "ok" /\ ~Ignored(m.reply.push))
        BY <4>2, <2>5 DEF PollResumes, TypeOK
      <4> QED
        BY <4>1, <4>2
    <3>5. /\ requests' \subseteq Requests /\ polling' \in BOOLEAN /\ uid' \in Uids
          /\ lastSent' \in Configs \cup {NoConfig} /\ pending' \in Configs \cup {NoConfig}
      BY <2>5, <3>2 DEF PollResumes, TypeOK, LastSentAfter
    <3>6. pollAgain' \in BOOLEAN
      BY <2>5 DEF PollResumes, TypeOK, Ignored
    <3> QED
      BY <2>5, <3>3, <3>4, <3>5, <3>6 DEF PollResumes, TypeOK
  <2>6. ASSUME NEW m \in requests, PollFails(m) PROVE TypeOK'
    <3>1. /\ timer' \in {"none", "now", "interval", "backoff"}
          /\ backoff' \in [failures : 0 .. MaxFailures, floor : BOOLEAN]
      BY <2>6, ScheduleType DEF PollFails, TypeOK
    <3>2. requests' \subseteq Requests /\ polling' \in BOOLEAN
      BY <2>6 DEF PollFails, TypeOK
    <3>3. UNCHANGED <<phase, stopping, pollAgain, seq, uid, lastSent, pending, remoteVars,
                      worldVars, told>>
      BY <2>6 DEF PollFails
    <3> QED
      BY <3>1, <3>2, <3>3 DEF TypeOK
  <2>7. ASSUME NEW m \in requests, DisconnectSettles(m) PROVE TypeOK'
    BY <2>7 DEF DisconnectSettles, TypeOK
  <2>8. ASSUME NEW m \in requests, NEW full \in BOOLEAN, NEW newUid \in Uids \cup {NoUid},
               NEW push \in Pushes \cup {NoPush}, ServerProcesses(m, full, newUid, push)
        PROVE  TypeOK'
    <3>1. [code |-> "ok", full |-> full, uid |-> newUid, push |-> push] \in Replies
      BY DEF Replies
    <3>2. requests' \subseteq Requests
      BY <2>8, <3>1, AnswerType DEF ServerProcesses
    <3>3. srvCfg' \in Configs \cup {NoConfig}
      BY <2>8 DEF ServerProcesses, TypeOK, Requests
    <3> QED
      BY <2>8, <3>2, <3>3 DEF ServerProcesses, TypeOK
  <2>9. ASSUME NEW m \in requests, NEW code \in FailureKinds, ServerRefuses(m, code) PROVE TypeOK'
    <3>1. Refusal(code) \in Replies
      BY DEF Refusal, Unanswered, Replies
    <3>2. requests' \subseteq Requests
      BY <2>9, <3>1, AnswerType DEF ServerRefuses
    <3> QED
      BY <2>9, <3>2 DEF ServerRefuses, TypeOK
  <2>14. ASSUME NEW m \in requests, ResponseCutOff(m) PROVE TypeOK'
    <3>1. Refusal("cut") \in Replies
      BY OptionAssumption DEF Refusal, Unanswered, Replies, FailureKinds
    <3>2. requests' \subseteq Requests
      BY <2>14, <3>1, AnswerType DEF ResponseCutOff
    <3> QED
      BY <2>14, <3>2 DEF ResponseCutOff, TypeOK
  <2>10. ASSUME NEW p \in applies, NEW ok \in BOOLEAN, ApplySettles(p, ok) PROVE TypeOK'
    <3>1. status' \in Statuses
      BY <2>10, ReportedHashType DEF ApplySettles, Statuses, TypeOK
    <3>2. /\ timer' \in {"none", "now", "interval", "backoff"}
          /\ backoff' \in [failures : 0 .. MaxFailures, floor : BOOLEAN]
          /\ pollAgain' \in BOOLEAN
      <4>1. CASE polling /\ ~stopping
        BY <2>10, <4>1 DEF ApplySettles, TriggerPoll, TypeOK
      <4>2. CASE ~(polling /\ ~stopping)
        BY <2>10, <4>2, ScheduleType DEF ApplySettles, TriggerPoll, TypeOK
      <4> QED
        BY <4>1, <4>2
    <3>3. /\ applies' \subseteq Pushes /\ applyInFlight' \in BOOLEAN
          /\ UNCHANGED <<phase, stopping, polling, reportVars, lastHash, lastHashless,
                         tried, tries, worldVars, told>>
      BY <2>10 DEF ApplySettles, TypeOK
    <3> QED
      BY <3>1, <3>2, <3>3 DEF TypeOK
  <2>11. ASSUME NEW c \in Configs, ConfigChanges(c) PROVE TypeOK'
    BY <2>11 DEF ConfigChanges, TypeOK
  <2>12. ASSUME NEW p \in Pushes, OperatorChanges(p) PROVE TypeOK'
    BY <2>12 DEF OperatorChanges, TypeOK
  <2>13. CASE UNCHANGED vars
    BY <2>13 DEF vars, TypeOK
  <2> QED
    BY <2>1, <2>2, <2>3, <2>4, <2>5, <2>6, <2>7, <2>8, <2>9, <2>10, <2>11, <2>12, <2>13,
     <2>14 DEF Next, Server
<1> QED
  BY <1>1, <1>2, PTL DEF Spec

(***************************************************************************)
(* The polling loop.  SinglePollLoop is not inductive: before the first    *)
(* poll nothing may be armed or applied (an apply that settled there would *)
(* arm a timer beside the first poll), and stop() leaves no timer behind.  *)
(***************************************************************************)

LoopInv ==
  /\ SinglePollLoop
  /\ phase # "started" => ~polling /\ timer = "none" /\ applies = {} /\ told = status
  /\ stopping => timer = "none"

\* The polling loop starts idle.
LEMMA LoopInit == Init => LoopInv
BY DEF Init, LoopInv, SinglePollLoop, Polls

\* An answer neither adds a poll in flight nor ends one.
LEMMA AnsweredPolls ==
  ASSUME TypeOK, NEW m \in Polls, NEW reply, Answer(m, reply)
  PROVE  /\ Polls # {} <=> Polls' # {}
         /\ (\A n, o \in Polls : n = o) => (\A n, o \in Polls' : n = o)
<1>1. [m EXCEPT !.reply = reply] \in Polls'
  BY DEF Answer, Polls, TypeOK, Requests
<1>2. Polls' = (Polls \ {m}) \cup {[m EXCEPT !.reply = reply]}
  BY <1>1 DEF Answer, Polls
<1> QED
  BY <1>1, <1>2

\* A poll is handed to the transport when none is in flight.
LEMMA PollStarts ==
  ASSUME TypeOK, LoopInv, ~polling, Poll
  PROVE  polling' /\ Polls' # {} /\ \A m, n \in Polls' : m = n
<1> DEFINE new == Message("poll", IF cfg # lastSent THEN cfg ELSE NoConfig, status)
<1>1. new.kind = "poll" /\ requests' = requests \cup {new}
  BY DEF Poll, Message
<1>2. Polls = {}
  BY DEF LoopInv, SinglePollLoop
<1>3. Polls' = {new}
  BY <1>1, <1>2 DEF Polls
<1> QED
  BY <1>3 DEF Poll

\* The one poll in flight ends.
LEMMA PollEnds ==
  ASSUME LoopInv, NEW m \in Polls, requests' = requests \ {m}
  PROVE  Polls' = {}
BY DEF LoopInv, SinglePollLoop, Polls

\* Every step of the client, the server and the operator keeps LoopInv.
LEMMA LoopStep == TypeOK /\ LoopInv /\ [Next]_vars => LoopInv'
<1> SUFFICES ASSUME TypeOK, LoopInv, [Next]_vars PROVE LoopInv'
  OBVIOUS
<1> USE DEF loopVars, reportVars, remoteVars, worldVars
<1>1. CASE Start
  BY <1>1 DEF Start, LoopInv, SinglePollLoop, Polls
<1>2. CASE FirstPoll
  <2>1. CASE stopping
    BY <1>2, <2>1 DEF FirstPoll, LoopInv, SinglePollLoop, Polls
  <2>2. CASE ~stopping
    BY <1>2, <2>2, PollStarts DEF FirstPoll, LoopInv, SinglePollLoop
  <2> QED
    BY <2>1, <2>2
<1>3. CASE TimerFires
  <2>1. ~stopping /\ phase = "started" /\ ~polling
    BY <1>3 DEF TimerFires, LoopInv, SinglePollLoop, TypeOK
  <2> QED
    BY <1>3, <2>1, PollStarts DEF TimerFires, LoopInv, SinglePollLoop
<1>4. CASE Stop
  <2>1. Polls' = Polls
    BY <1>4 DEF Stop, Polls, Message
  <2> QED
    BY <1>4, <2>1 DEF Stop, LoopInv, SinglePollLoop
<1>5. ASSUME NEW m \in requests, PollResumes(m) PROVE LoopInv'
  <2>1. Polls' = {} /\ polling' = FALSE /\ phase = "started"
    BY <1>5, PollEnds DEF PollResumes, LoopInv, SinglePollLoop
  <2>2. timer' = "none" <=> stopping
    BY <1>5 DEF PollResumes, ScheduleNextPoll, LoopInv, NextDelay
  <2> QED
    BY <1>5, <2>1, <2>2 DEF PollResumes, LoopInv, SinglePollLoop
<1>6. ASSUME NEW m \in requests, PollFails(m) PROVE LoopInv'
  <2>1. Polls' = {} /\ polling' = FALSE /\ phase = "started"
    BY <1>6, PollEnds DEF PollFails, LoopInv, SinglePollLoop
  <2>2. timer' = "none" <=> stopping
    BY <1>6 DEF PollFails, ScheduleNextPoll, LoopInv, NextDelay
  <2> QED
    BY <1>6, <2>1, <2>2 DEF PollFails, LoopInv, SinglePollLoop
<1>7. ASSUME NEW m \in requests, DisconnectSettles(m) PROVE LoopInv'
  <2>1. Polls' = Polls
    BY <1>7 DEF DisconnectSettles, Polls
  <2> QED
    BY <1>7, <2>1 DEF DisconnectSettles, LoopInv, SinglePollLoop
<1>8. ASSUME NEW m \in requests, Server(m) PROVE LoopInv'
  <2>1. PICK reply : m \in Polls /\ Answer(m, reply)
    BY <1>8 DEF Server, ServerProcesses, ServerRefuses, ResponseCutOff
  <2>2. UNCHANGED <<loopVars, applies, status, told>>
    BY <1>8 DEF Server, ServerProcesses, ServerRefuses, ResponseCutOff
  <2> QED
    BY <2>1, <2>2, AnsweredPolls DEF LoopInv, SinglePollLoop
<1>9. ASSUME NEW p \in applies, NEW ok \in BOOLEAN, ApplySettles(p, ok) PROVE LoopInv'
  <2>1. phase = "started" /\ Polls' = Polls
    BY <1>9 DEF ApplySettles, LoopInv, Polls
  <2>2. CASE polling /\ ~stopping
    BY <1>9, <2>1, <2>2 DEF ApplySettles, TriggerPoll, LoopInv, SinglePollLoop
  <2>3. CASE ~(polling /\ ~stopping)
    BY <1>9, <2>1, <2>3 DEF ApplySettles, TriggerPoll, ScheduleNextPoll, LoopInv, SinglePollLoop
  <2> QED
    BY <2>2, <2>3
<1>10. ASSUME NEW c \in Configs, ConfigChanges(c) PROVE LoopInv'
  BY <1>10 DEF ConfigChanges, LoopInv, SinglePollLoop, Polls
<1>11. ASSUME NEW p \in Pushes, OperatorChanges(p) PROVE LoopInv'
  BY <1>11 DEF OperatorChanges, LoopInv, SinglePollLoop, Polls
<1>12. CASE UNCHANGED vars
  BY <1>12 DEF vars, LoopInv, SinglePollLoop, Polls
<1> QED
  BY <1>1, <1>2, <1>3, <1>4, <1>5, <1>6, <1>7, <1>8, <1>9, <1>10, <1>11, <1>12 DEF Next

\* The polling loop neither dies nor forks: until stop(), a started client has
\* one poll in flight or its timer armed, never both, never two polls.
THEOREM LoopCorrect == Spec => []LoopInv
BY LoopInit, LoopStep, TypeCorrect, PTL DEF Spec

\* Of a started client at most one poll is in flight, and its timer is armed exactly
\* when none is (doPoll, scheduleNextPoll): the property as the runs check it.
THEOREM SinglePollLoopCorrect == Spec => []SinglePollLoop
<1>1. LoopInv => SinglePollLoop
  BY DEF LoopInv
<1> QED
  BY <1>1, LoopCorrect, PTL

\* After stop() nothing but the disconnect message is sent.
THEOREM SilentAfterStopCorrect == Spec => SilentAfterStop
<1> DEFINE Silent == stopping => {m.seq : m \in requests'} \subseteq {m.seq : m \in requests}
<1>1. TypeOK /\ LoopInv /\ [Next]_vars => [Silent]_vars
  <2> SUFFICES ASSUME TypeOK, LoopInv, Next, stopping
               PROVE  {m.seq : m \in requests'} \subseteq {m.seq : m \in requests}
    OBVIOUS
  <2> USE DEF reportVars
  <2>1. timer = "none"
    BY DEF LoopInv
  <2>2. CASE requests' \subseteq requests
    BY <2>2
  <2>3. ASSUME NEW m \in requests, Server(m)
        PROVE  {n.seq : n \in requests'} \subseteq {n.seq : n \in requests}
    <3>1. PICK reply : Answer(m, reply)
      BY <2>3 DEF Server, ServerProcesses, ServerRefuses, ResponseCutOff
    <3>2. [m EXCEPT !.reply = reply].seq = m.seq
      BY DEF TypeOK, Requests
    <3> QED
      BY <3>1, <3>2 DEF Answer
  <2>4. CASE Start \/ FirstPoll \/ TimerFires \/ Stop
    BY <2>1, <2>2, <2>4 DEF Start, FirstPoll, TimerFires, Stop
  <2>5. CASE \E m \in requests : PollResumes(m) \/ PollFails(m) \/ DisconnectSettles(m)
    BY <2>2, <2>5 DEF PollResumes, PollFails, DisconnectSettles
  <2>6. CASE \/ \E p \in applies, ok \in BOOLEAN : ApplySettles(p, ok)
             \/ \E c \in Configs : ConfigChanges(c)
             \/ \E p \in Pushes : OperatorChanges(p)
    BY <2>2, <2>6 DEF ApplySettles, ConfigChanges, OperatorChanges
  <2> QED
    BY <2>3, <2>4, <2>5, <2>6 DEF Next
<1> QED
  BY <1>1, TypeCorrect, LoopCorrect, PTL DEF Spec, SilentAfterStop

(***************************************************************************)
(* Applying remote configuration.                                          *)
(***************************************************************************)

\* What an attempt leaves: only a push with a readable hash waits for the apply
\* in flight, so the apply it starts is the only one.
LEMMA AttemptKeepsOneApply ==
  ASSUME TypeOK, OneApply, NEW p \in Pushes, ~Ignored(p), Attempt(p)
  PROVE  OneApply'
<1>1. CASE p.hash = Unreadable
  BY <1>1, PushAssumption DEF Attempt, AttemptWith, Parses, OneApply
<1>2. CASE p.hash # Unreadable
  <2>1. applies = {} /\ ~applyInFlight
    BY <1>2 DEF Ignored, OneApply
  <2>2. CASE Parses(p)
    BY <1>2, <2>1, <2>2 DEF Attempt, AttemptWith, Parses, OneApply, ReportedHash
  <2>3. CASE ~Parses(p)
    BY <1>2, <2>1, <2>3 DEF Attempt, AttemptWith, Parses, OneApply
  <2> QED
    BY <2>2, <2>3
<1> QED
  BY <1>1, <1>2

\* A poll that resumes attempts the config it brought, or changes nothing of
\* the remote configuration.
LEMMA PollResumesRemote ==
  ASSUME TypeOK, NEW m \in requests, PollResumes(m)
  PROVE  \/ m.reply.push \in Pushes /\ ~Ignored(m.reply.push) /\ Attempt(m.reply.push)
         \/ UNCHANGED remoteVars
<1>1. m.reply.push \in Pushes \cup {NoPush}
  BY DEF TypeOK, Requests, Replies
<1> QED
  BY <1>1 DEF PollResumes, Ignored

\* No step starts an apply beside one in flight (applyInFlight).
LEMMA OneApplyStep == TypeOK /\ OneApply /\ [Next]_vars => OneApply'
<1> SUFFICES ASSUME TypeOK, OneApply, [Next]_vars PROVE OneApply'
  OBVIOUS
<1>1. CASE UNCHANGED remoteVars
  BY <1>1 DEF remoteVars, OneApply, ReportedHash
<1>2. ASSUME NEW m \in requests, PollResumes(m) PROVE OneApply'
  BY <1>1, <1>2, PollResumesRemote, AttemptKeepsOneApply
<1>3. ASSUME NEW p \in applies, NEW ok \in BOOLEAN, ApplySettles(p, ok) PROVE OneApply'
  <2>1. applies' = {} /\ applyInFlight' = FALSE /\ status'.state # "applying"
    BY <1>3 DEF ApplySettles, OneApply
  <2> QED
    BY <2>1 DEF OneApply
<1>4. ASSUME NEW p \in Pushes, OperatorChanges(p) PROVE OneApply'
  BY <1>4 DEF OperatorChanges, OneApply, ReportedHash
<1>5. CASE Start \/ FirstPoll \/ TimerFires \/ Stop
  BY <1>1, <1>5 DEF Start, FirstPoll, TimerFires, Stop
<1>6. CASE \E m \in requests : PollFails(m) \/ DisconnectSettles(m) \/ Server(m)
  BY <1>1, <1>6 DEF PollFails, DisconnectSettles, Server, ServerProcesses, ServerRefuses, ResponseCutOff
<1>7. CASE (\E c \in Configs : ConfigChanges(c)) \/ UNCHANGED vars
  BY <1>1, <1>7 DEF ConfigChanges, vars
<1> QED
  BY <1>2, <1>3, <1>4, <1>5, <1>6, <1>7 DEF Next

\* Applies never overlap, _applyInFlight is exact, and the status the server
\* is told says "applying" only while one is awaited.
THEOREM OneApplyCorrect == Spec => []OneApply
<1>1. Init => OneApply
  BY DEF Init, OneApply, NoStatus
<1> QED
  BY <1>1, OneApplyStep, TypeCorrect, PTL DEF Spec

\* No apply starts after stop(), not even from a poll that was in flight.
THEOREM NoApplyAfterStopCorrect == Spec => NoApplyAfterStop
<1> DEFINE NoneStarts == stopping => applies' \subseteq applies
<1>1. TypeOK /\ [Next]_vars => [NoneStarts]_vars
  <2> SUFFICES ASSUME TypeOK, Next, stopping PROVE applies' \subseteq applies
    OBVIOUS
  <2>1. CASE UNCHANGED remoteVars
    BY <2>1 DEF remoteVars
  <2>2. ASSUME NEW m \in requests, PollResumes(m) PROVE applies' \subseteq applies
    BY <2>1, <2>2, PollResumesRemote DEF Ignored
  <2>3. CASE \/ \E p \in applies, ok \in BOOLEAN : ApplySettles(p, ok)
             \/ \E p \in Pushes : OperatorChanges(p)
    BY <2>3 DEF ApplySettles, OperatorChanges
  <2>4. CASE Start \/ FirstPoll \/ TimerFires \/ Stop
    BY <2>1, <2>4 DEF Start, FirstPoll, TimerFires, Stop
  <2>5. CASE \E m \in requests : PollFails(m) \/ DisconnectSettles(m) \/ Server(m)
    BY <2>1, <2>5 DEF PollFails, DisconnectSettles, Server, ServerProcesses, ServerRefuses, ResponseCutOff
  <2>6. CASE \E c \in Configs : ConfigChanges(c)
    BY <2>1, <2>6 DEF ConfigChanges
  <2> QED
    BY <2>2, <2>3, <2>4, <2>5, <2>6 DEF Next
<1> QED
  BY <1>1, TypeCorrect, PTL DEF Spec, NoApplyAfterStop

\* Whatever was on its way when stop() was called, nothing follows it: the
\* property as the run checks it.
THEOREM StopIsFinalCorrect == Spec => StopIsFinal
BY SilentAfterStopCorrect, NoApplyAfterStopCorrect, PTL DEF StopIsFinal

(***************************************************************************)
(* One attempt per change.  Once the desired config was attempted it is    *)
(* the recorded dedup key, and the only config an answer on its way may    *)
(* still offer: an older one was offered before the operator's last change *)
(* to the poll that was then in flight, and there is only one.             *)
(***************************************************************************)

TriedInv ==
  /\ tries <= 1
  /\ tries = 1 => /\ desired # NoPush /\ Repeats(desired)
                  /\ \A m \in Polls : m.reply.push \in {NoPush, desired}

\* A config that was just attempted is recognised as a repetition.
LEMMA AttemptRecords ==
  ASSUME NEW p \in Pushes, Attempt(p), desired' = desired
  PROVE  Repeats(p)'
BY DEF Attempt, AttemptWith, Parses, Repeats

\* Every step keeps TriedInv: nothing resets the keys of the desired config.
LEMMA TriedStep == TypeOK /\ LoopInv /\ TriedInv /\ [Next]_vars => TriedInv'
<1> SUFFICES ASSUME TypeOK, LoopInv, TriedInv, [Next]_vars PROVE TriedInv'
  OBVIOUS
<1> USE DEF reportVars, remoteVars, worldVars
\* The steps that answer no poll and attempt nothing.
<1>1. ASSUME UNCHANGED <<remoteVars, desired>>,
             \A m \in Polls' : m \in Polls \/ m.reply.push = NoPush
      PROVE  TriedInv'
  BY <1>1 DEF TriedInv, Repeats
<1>2. ASSUME NEW m \in requests, PollResumes(m) PROVE TriedInv'
  <2>1. Polls' = {} /\ desired' = desired
    BY <1>2, PollEnds DEF PollResumes
  <2>2. CASE UNCHANGED remoteVars
    BY <2>1, <2>2 DEF TriedInv, Repeats
  <2>3. ASSUME m.reply.push \in Pushes, ~Ignored(m.reply.push), Attempt(m.reply.push)
        PROVE  TriedInv'
    <3>1. tries = 0
      <4>1. ~Repeats(m.reply.push) /\ m.reply.push # NoPush
        BY <2>3 DEF Ignored
      <4>2. m \in Polls
        BY <1>2 DEF PollResumes
      <4> QED
        BY <4>1, <4>2 DEF TriedInv, TypeOK
    <3>2. CASE m.reply.push = desired
      BY <2>1, <2>3, <3>1, <3>2, AttemptRecords, PushAssumption
         DEF TriedInv, Attempt, AttemptWith, Repeats
    <3>3. CASE m.reply.push # desired
      BY <2>1, <2>3, <3>1, <3>3 DEF TriedInv, Attempt, AttemptWith
    <3> QED
      BY <3>2, <3>3
  <2> QED
    BY <1>2, <2>2, <2>3, PollResumesRemote
<1>3. ASSUME NEW p \in applies, NEW ok \in BOOLEAN, ApplySettles(p, ok) PROVE TriedInv'
  BY <1>3 DEF ApplySettles, TriedInv, Repeats, Polls
<1>4. ASSUME NEW p \in Pushes, OperatorChanges(p) PROVE TriedInv'
  BY <1>4 DEF OperatorChanges, TriedInv
<1>5. ASSUME NEW m \in requests, Server(m) PROVE TriedInv'
  <2>0. \A code : Refusal(code).push = NoPush
    BY DEF Refusal, Unanswered
  <2>1. PICK reply : reply.push \in {NoPush, desired} /\ Answer(m, reply)
    <3>1. CASE (\E code \in FailureKinds : ServerRefuses(m, code)) \/ ResponseCutOff(m)
      BY <2>0, <3>1 DEF ServerRefuses, ResponseCutOff
    <3>2. ASSUME NEW full, NEW newUid, NEW push, ServerProcesses(m, full, newUid, push)
          PROVE  \E reply : reply.push \in {NoPush, desired} /\ Answer(m, reply)
      <4> DEFINE reply == [code |-> "ok", full |-> full, uid |-> newUid, push |-> push]
      <4>1. Answer(m, reply) /\ reply.push \in {NoPush, desired}
        BY <3>2 DEF ServerProcesses
      <4> QED
        BY <4>1
    <3> QED
      BY <1>5, <3>1, <3>2 DEF Server
  <2>2. [m EXCEPT !.reply = reply].reply = reply
    BY DEF TypeOK, Requests
  <2>3. UNCHANGED <<remoteVars, desired>>
    BY <1>5 DEF Server, ServerProcesses, ServerRefuses, ResponseCutOff
  <2>4. \A n \in Polls' : n \in Polls \/ n.reply.push \in {NoPush, desired}
    BY <2>1, <2>2 DEF Answer, Polls
  <2> QED
    BY <2>3, <2>4 DEF TriedInv, Repeats
<1>6. CASE Start \/ FirstPoll \/ TimerFires \/ Stop
  <2>1. UNCHANGED <<remoteVars, desired>>
    BY <1>6 DEF Start, FirstPoll, TimerFires, Stop
  <2>2. \A m \in Polls' : m \in Polls \/ m.reply.push = NoPush
    BY <1>6 DEF Start, FirstPoll, TimerFires, Stop, Poll, Polls, Message, Unanswered
  <2> QED
    BY <1>1, <2>1, <2>2 DEF TypeOK
<1>7. CASE \/ \E m \in requests : PollFails(m) \/ DisconnectSettles(m)
           \/ \E c \in Configs : ConfigChanges(c)
           \/ UNCHANGED vars
  <2>1. UNCHANGED <<remoteVars, desired>> /\ Polls' \subseteq Polls
    BY <1>7 DEF PollFails, DisconnectSettles, ConfigChanges, vars, Polls
  <2> QED
    BY <1>1, <2>1
<1> QED
  BY <1>2, <1>3, <1>4, <1>5, <1>6, <1>7 DEF Next

\* However often the server re-sends a config, and whatever becomes of the
\* attempt, the client attempts it once until the operator changes the config.
THEOREM TriedOnceCorrect == Spec => []TriedOnce
<1>1. Init => TriedInv
  BY DEF Init, TriedInv
<1>2. TriedInv => TriedOnce
  BY DEF TriedInv, TriedOnce
<1> QED
  BY <1>1, <1>2, TriedStep, TypeCorrect, LoopCorrect, PTL DEF Spec

(***************************************************************************)
(* Changes are attempted.                                                  *)
(***************************************************************************)

\* A hash that is omitted does not pass for one: no push has the empty hash the
\* decoder makes of it (with them ChangeIsAttempted does not hold).
OmittedIsAbsent == \A p \in Pushes : p.hash # EmptyHash

\* The dedup keys are those of the config attempted last, and an answer that offers
\* a config is not an error, which would be handled without looking at it.
KeyInv ==
  /\ tried = NoPush => lastHash = NoHash /\ lastHashless = NoBody
  /\ tried # NoPush =>
       /\ lastHash = IF tried.hash \in Hashes THEN tried.hash ELSE NoHash
       /\ lastHashless = IF tried.hash \in Hashes THEN NoBody ELSE tried.body
  /\ \A m \in Polls : m.reply.push # NoPush => m.reply.code = "ok"

\* Every step keeps the keys those of the config attempted last: an attempt, which
\* replaces both, is the only one that touches them (_handleRemoteConfig).
LEMMA KeyStep == TypeOK /\ LoopInv /\ KeyInv /\ [Next]_vars => KeyInv'
<1> SUFFICES ASSUME TypeOK, LoopInv, KeyInv, [Next]_vars PROVE KeyInv'
  OBVIOUS
<1> USE DEF reportVars, remoteVars, worldVars
\* The steps that attempt nothing, and answer no poll with an offer but well.
<1>1. ASSUME UNCHANGED <<tried, lastHash, lastHashless>>,
             \A m \in Polls' : \/ m \in Polls
                               \/ m.reply.push # NoPush => m.reply.code = "ok"
      PROVE  KeyInv'
  BY <1>1 DEF KeyInv
<1>2. ASSUME NEW m \in requests, PollResumes(m) PROVE KeyInv'
  <2>1. Polls' = {}
    BY <1>2, PollEnds DEF PollResumes
  <2>2. CASE UNCHANGED remoteVars
    BY <1>1, <2>1, <2>2
  <2>3. ASSUME m.reply.push \in Pushes, ~Ignored(m.reply.push), Attempt(m.reply.push)
        PROVE  KeyInv'
    BY <2>1, <2>3, PushAssumption DEF KeyInv, Attempt, AttemptWith
  <2> QED
    BY <1>2, <2>2, <2>3, PollResumesRemote
<1>3. ASSUME NEW m \in requests, Server(m) PROVE KeyInv'
  <2>1. \A code : Refusal(code).push = NoPush
    BY DEF Refusal, Unanswered
  <2>2. PICK reply : (reply.push # NoPush => reply.code = "ok") /\ Answer(m, reply)
    <3>1. CASE (\E code \in FailureKinds : ServerRefuses(m, code)) \/ ResponseCutOff(m)
      BY <2>1, <3>1 DEF ServerRefuses, ResponseCutOff
    <3>2. ASSUME NEW full, NEW newUid, NEW push, ServerProcesses(m, full, newUid, push)
          PROVE  \E reply : (reply.push # NoPush => reply.code = "ok") /\ Answer(m, reply)
      <4> DEFINE reply == [code |-> "ok", full |-> full, uid |-> newUid, push |-> push]
      <4>1. Answer(m, reply) /\ reply.code = "ok"
        BY <3>2 DEF ServerProcesses
      <4> QED
        BY <4>1
    <3> QED
      BY <1>3, <3>1, <3>2 DEF Server
  <2>3. [m EXCEPT !.reply = reply].reply = reply
    BY DEF TypeOK, Requests
  <2>4. UNCHANGED <<tried, lastHash, lastHashless>>
    BY <1>3 DEF Server, ServerProcesses, ServerRefuses, ResponseCutOff
  <2>5. \A n \in Polls' : n \in Polls \/ (n.reply.push # NoPush => n.reply.code = "ok")
    BY <2>2, <2>3 DEF Answer, Polls
  <2> QED
    BY <1>1, <2>4, <2>5
<1>4. CASE Start \/ FirstPoll \/ TimerFires \/ Stop
  <2>1. UNCHANGED <<tried, lastHash, lastHashless>>
    BY <1>4 DEF Start, FirstPoll, TimerFires, Stop
  <2>2. \A m \in Polls' : m \in Polls \/ m.reply.push = NoPush
    BY <1>4 DEF Start, FirstPoll, TimerFires, Stop, Poll, Polls, Message, Unanswered
  <2> QED
    BY <1>1, <2>1, <2>2
<1>5. CASE \/ \E m \in requests : PollFails(m) \/ DisconnectSettles(m)
           \/ \E c \in Configs : ConfigChanges(c)
           \/ \E p \in applies, ok \in BOOLEAN : ApplySettles(p, ok)
           \/ \E p \in Pushes : OperatorChanges(p)
           \/ UNCHANGED vars
  <2>1. UNCHANGED <<tried, lastHash, lastHashless>> /\ Polls' \subseteq Polls
    BY <1>5 DEF PollFails, DisconnectSettles, ConfigChanges, ApplySettles, OperatorChanges, vars, Polls
  <2> QED
    BY <1>1, <2>1
<1> QED
  BY <1>2, <1>3, <1>4, <1>5 DEF Next

\* A config other than the one attempted last is attempted when it arrives, unless an
\* apply is in flight: neither key takes it for the last one.
THEOREM ChangeIsAttemptedCorrect ==
  ASSUME OmittedIsAbsent
  PROVE  Spec => ChangeIsAttempted
<1> DEFINE Attempted(m) ==
             PollResumes(m) /\ m.reply.push # NoPush /\ RemoteEnabled /\ ~stopping /\ ~applyInFlight
               /\ (tried = NoPush \/ Identity(m.reply.push) # Identity(tried))
               => tried' = m.reply.push
<1>1. Init => KeyInv
  BY DEF Init, KeyInv, Polls
<1>2. TypeOK /\ KeyInv => \A m \in Polls : Attempted(m)
  <2> SUFFICES ASSUME TypeOK, KeyInv, NEW m \in Polls, PollResumes(m), m.reply.push # NoPush,
                      RemoteEnabled, ~stopping, ~applyInFlight,
                      tried = NoPush \/ Identity(m.reply.push) # Identity(tried)
               PROVE  tried' = m.reply.push
    OBVIOUS
  <2> DEFINE p == m.reply.push
  <2>1. p \in Pushes /\ m.reply.code = "ok"
    BY DEF TypeOK, KeyInv, Polls, Requests, Replies
  <2> HIDE DEF p
  <2>2. ~Repeats(p)
    <3>1. p.body # NoBody /\ NoHash \notin Hashes
      BY <2>1, PushAssumption
    <3>2. CASE tried = NoPush
      BY <2>1, <3>1, <3>2, PushAssumption DEF Repeats, KeyInv
    <3>3. CASE tried # NoPush
      <4>1. tried \in Pushes /\ Identity(p) # Identity(tried)
        BY <3>3 DEF TypeOK, p
      <4>2. p.hash # EmptyHash /\ tried.hash # EmptyHash
        BY <2>1, <4>1 DEF OmittedIsAbsent
      <4> QED
        BY <3>1, <3>3, <4>1, <4>2, PushAssumption DEF Repeats, KeyInv, Identity
    <3> QED
      BY <3>2, <3>3
  <2>3. ~Ignored(p)
    BY <2>1, <2>2, PushAssumption DEF Ignored
  <2>4. Attempt(p)
    BY <2>1, <2>3 DEF PollResumes, p
  <2> QED
    BY <2>4 DEF Attempt, AttemptWith, p
<1> QED
  BY <1>1, <1>2, KeyStep, TypeCorrect, LoopCorrect, PTL DEF Spec, ChangeIsAttempted

(***************************************************************************)
(* The client implements ConfigAgent.  Beside OneApply (the apply that is  *)
(* awaited is the only one, and known as such) and KeyInv (the keys are    *)
(* those of the config attempted last) only one thing is needed: start(),  *)
(* which clears _stopping, has nothing to clear.                           *)
(***************************************************************************)

NewIsOpen == phase = "new" => ~stopping

\* No step leaves stop() called before start(): stop() has no start() to await then.
LEMMA NewIsOpenStep == NewIsOpen /\ [Next]_vars => NewIsOpen'
<1> SUFFICES ASSUME NewIsOpen, [Next]_vars PROVE NewIsOpen'
  OBVIOUS
<1> USE DEF NewIsOpen, loopVars
<1>1. CASE Start \/ FirstPoll \/ TimerFires \/ Stop
  BY <1>1 DEF Start, FirstPoll, TimerFires, Stop
<1>2. ASSUME NEW m \in requests, PollResumes(m) \/ PollFails(m) \/ DisconnectSettles(m) \/ Server(m)
      PROVE  NewIsOpen'
  BY <1>2 DEF PollResumes, PollFails, DisconnectSettles, Server, ServerProcesses, ServerRefuses, ResponseCutOff
<1>3. CASE \/ \E p \in applies, ok \in BOOLEAN : ApplySettles(p, ok)
           \/ \E c \in Configs : ConfigChanges(c)
           \/ \E p \in Pushes : OperatorChanges(p)
           \/ UNCHANGED vars
  BY <1>3 DEF ApplySettles, ConfigChanges, OperatorChanges, vars
<1> QED
  BY <1>1, <1>2, <1>3 DEF Next

\* The apply that is awaited is the agent's.
LEMMA ApplyingIsAwaited ==
  ASSUME OneApply, TypeOK
  PROVE  /\ \A p \in applies : Applying = p
         /\ applies = {} => Applying = NoPush
         /\ Applying = NoPush <=> applies = {}
<1>1. applies # {} => Applying \in applies
  BY DEF Applying
<1>2. applies = {} => Applying = NoPush
  BY DEF Applying
<1> QED
  BY <1>1, <1>2, PushAssumption DEF OneApply, TypeOK

\* A config whose attempt begins is new to the agent: no key takes it for the last one.
LEMMA NewToTheAgent ==
  ASSUME TypeOK, KeyInv, NEW p \in Pushes, ~Repeats(p)
  PROVE  Agent!IsNew(p)
<1> SUFFICES ASSUME tried # NoPush PROVE Keyed(p) # Keyed(tried)
  BY DEF Agent!IsNew, TypeOK
<1>1. CASE p.hash \in Hashes
  BY <1>1 DEF Keyed, KeyInv, Repeats
<1>2. CASE p.hash \notin Hashes
  BY <1>2 DEF Keyed, KeyInv, Repeats
<1> QED
  BY <1>1, <1>2

\* An attempt is the agent's: it takes a config whose apply starts and refuses another.
LEMMA AttemptIsTheAgents ==
  ASSUME TypeOK, OneApply, KeyInv, NEW p \in Pushes, ~Ignored(p), Attempt(p), UNCHANGED stopping
  PROVE  Agent!Take(p) \/ Agent!Refuse(p)
<1> DEFINE starts == Parses(p) /\ p.hash # Unreadable
<1>1. Agent!IsNew(p)
  BY NewToTheAgent DEF Ignored
<1>2. ~stopping /\ (applies = {} \/ p.hash = Unreadable)
  BY DEF Ignored, OneApply
<1>3. status' = [state |-> IF starts THEN "applying" ELSE "failed", hash |-> ReportedHash(p)]
      /\ tried' = p /\ applies' = IF starts THEN applies \cup {p} ELSE applies
  BY DEF Attempt, AttemptWith
<1>4. CASE starts
  <2>1. applies = {} /\ applies' = {p}
    BY <1>2, <1>3, <1>4
  <2>2. Applying' = p
    BY <2>1 DEF Applying
  <2>3. Applying = NoPush
    BY <2>1, ApplyingIsAwaited
  <2> QED
    BY <1>1, <1>2, <1>3, <1>4, <2>2, <2>3 DEF Agent!Take, Agent!Verdict
<1>5. CASE ~starts
  <2>1. UNCHANGED Applying
    <3>1. applies' = applies
      BY <1>3, <1>5
    <3> QED
      BY <3>1 DEF Applying
  <2>2. Applying = NoPush \/ p.hash = Unreadable
    BY <1>2, ApplyingIsAwaited
  <2> QED
    BY <1>1, <1>2, <1>3, <1>5, <2>1, <2>2 DEF Agent!Refuse, Agent!Verdict
<1> QED
  BY <1>4, <1>5

\* Every step of the client is one of the agent or none: an attempt takes or
\* refuses, an apply that settles concludes, stop() closes.
LEMMA StepIsTheAgents ==
  ASSUME TypeOK, OneApply, KeyInv, NewIsOpen, [Next]_vars
  PROVE  [Agent!Next]_<<stopping, tried, Applying, status>>
<1> USE DEF loopVars, reportVars, remoteVars
<1> DEFINE Stutters == UNCHANGED <<stopping, tried, Applying, status>>
<1>1. ASSUME UNCHANGED <<stopping, tried, applies, status>> PROVE Stutters
  BY <1>1 DEF Applying
<1>2. CASE Start
  BY <1>1, <1>2 DEF Start, NewIsOpen, TypeOK
<1>3. CASE Stop
  <2>1. Agent!Close
    BY <1>3 DEF Stop, Applying, Agent!Close
  <2> QED
    BY <2>1 DEF Agent!Next
<1>4. CASE FirstPoll \/ TimerFires
  BY <1>1, <1>4 DEF FirstPoll, TimerFires
<1>5. ASSUME NEW m \in requests, PollResumes(m)
      PROVE  Stutters \/ Agent!Next
  <2>1. UNCHANGED stopping
    BY <1>5 DEF PollResumes
  <2>2. CASE UNCHANGED remoteVars
    BY <1>1, <2>1, <2>2
  <2>3. ASSUME m.reply.push \in Pushes, ~Ignored(m.reply.push), Attempt(m.reply.push)
        PROVE  Agent!Next
    BY <2>1, <2>3, AttemptIsTheAgents DEF Agent!Next
  <2> QED
    BY <1>5, <2>2, <2>3, PollResumesRemote
<1>6. ASSUME NEW p \in applies, NEW ok \in BOOLEAN, ApplySettles(p, ok)
      PROVE  Agent!Next
  <2> DEFINE state == IF ok THEN "applied" ELSE "failed"
  <2>1. p \in Pushes /\ Applying = p /\ Applying # NoPush
    BY ApplyingIsAwaited DEF TypeOK
  <2>2. applies' = {}
    BY <1>6 DEF ApplySettles, OneApply
  <2>3. Applying' = NoPush
    BY <2>2 DEF Applying
  <2>4. status' = [state |-> state, hash |-> ReportedHash(p)] /\ UNCHANGED <<stopping, tried>>
    BY <1>6 DEF ApplySettles
  <2>5. Agent!Conclude(state)
    BY <2>1, <2>3, <2>4 DEF Agent!Conclude, Agent!Verdict
  <2>6. state \in {"applied", "failed"}
    OBVIOUS
  <2> HIDE DEF state
  <2> QED
    BY <2>5, <2>6 DEF Agent!Next
<1>7. ASSUME NEW m \in requests, PollFails(m) \/ DisconnectSettles(m) \/ Server(m)
      PROVE  Stutters
  BY <1>1, <1>7 DEF PollFails, DisconnectSettles, Server, ServerProcesses, ServerRefuses, ResponseCutOff
<1>8. CASE \/ \E c \in Configs : ConfigChanges(c)
           \/ \E p \in Pushes : OperatorChanges(p)
           \/ UNCHANGED vars
  BY <1>1, <1>8 DEF ConfigChanges, OperatorChanges, vars
<1> QED
  BY <1>2, <1>3, <1>4, <1>5, <1>6, <1>7, <1>8 DEF Next

\* The client is an agent that attempts one config at a time, each only if it differs
\* from the one before, and answers for the one it attempted (_handleRemoteConfig),
\* however its polls, failures, retries and shutdown interleave.
THEOREM AgentImplemented == Spec => ImplementsAgent
<1>1. Init => Agent!Init
  BY DEF Init, Agent!Init, Applying, NoStatus
<1>2. Init => OneApply /\ KeyInv /\ NewIsOpen
  BY DEF Init, OneApply, KeyInv, NewIsOpen, Polls, NoStatus
<1> QED
  BY <1>1, <1>2, OneApplyStep, KeyStep, NewIsOpenStep, StepIsTheAgents, TypeCorrect, LoopCorrect, PTL
     DEF Spec, ImplementsAgent, Agent!Spec

(***************************************************************************)
(* Prompt status reports.                                                  *)
(***************************************************************************)

\* A step that leaves the server untold has triggered an immediate poll.
LEMMA StatusStep == TypeOK /\ LoopInv /\ StatusIsPushed /\ [Next]_vars => StatusIsPushed'
<1> SUFFICES ASSUME TypeOK, LoopInv, StatusIsPushed, [Next]_vars,
                    ~stopping', told' # status'
             PROVE  timer' = "now" \/ (polling' /\ pollAgain')
  BY DEF StatusIsPushed
<1> USE DEF loopVars, remoteVars
<1>1. CASE UNCHANGED <<loopVars, status, told>>
  BY <1>1 DEF StatusIsPushed
<1>2. CASE Start
  BY <1>2 DEF Start, LoopInv
<1>3. CASE FirstPoll \/ TimerFires
  BY <1>3 DEF FirstPoll, TimerFires, Poll
<1>4. CASE Stop
  BY <1>4 DEF Stop
<1>5. ASSUME NEW m \in requests, PollResumes(m) PROVE timer' = "now"
  <2>1. polling /\ timer = "none"
    BY <1>5 DEF PollResumes, LoopInv, SinglePollLoop
  <2>2. pollAgain'
    BY <1>5, <2>1 DEF PollResumes, StatusIsPushed
  <2> QED
    BY <1>5, <2>2 DEF PollResumes, ScheduleNextPoll
<1>6. ASSUME NEW m \in requests, PollFails(m) PROVE timer' = "now"
  <2>1. polling /\ timer = "none"
    BY <1>6 DEF PollFails, LoopInv, SinglePollLoop
  <2>2. pollAgain
    BY <1>6, <2>1 DEF PollFails, StatusIsPushed
  <2> QED
    BY <1>6, <2>2 DEF PollFails, ScheduleNextPoll
<1>7. ASSUME NEW p \in applies, NEW ok \in BOOLEAN, ApplySettles(p, ok)
      PROVE  timer' = "now" \/ (polling' /\ pollAgain')
  BY <1>7 DEF ApplySettles, TriggerPoll, ScheduleNextPoll
<1>8. CASE \/ \E m \in requests : DisconnectSettles(m) \/ Server(m)
           \/ \E c \in Configs : ConfigChanges(c)
           \/ \E p \in Pushes : OperatorChanges(p)
           \/ UNCHANGED vars
  <2>1. UNCHANGED <<loopVars, status, told>>
    BY <1>8 DEF DisconnectSettles, Server, ServerProcesses, ServerRefuses, ResponseCutOff,
                ConfigChanges, OperatorChanges, vars
  <2> QED
    BY <1>1, <2>1
<1> QED
  BY <1>2, <1>3, <1>4, <1>5, <1>6, <1>7, <1>8 DEF Next

\* A status the last poll did not carry is on its way with the next, due now.
THEOREM StatusIsPushedCorrect == Spec => []StatusIsPushed
<1>1. Init => StatusIsPushed
  BY DEF Init, StatusIsPushed
<1> QED
  BY <1>1, StatusStep, TypeCorrect, LoopCorrect, PTL DEF Spec

(***************************************************************************)
(* What is left out is known.                                              *)
(***************************************************************************)

\* The effective configuration never returns to a former value.
Forward(rank) ==
  /\ rank \in [Configs -> Nat]
  /\ \A c, d \in Configs : <<c, d>> \in ConfigSteps => rank[c] < rank[d]

\* A 200 response is that of a server that processed the message.
Delivers == Failures \cap {"unavailable", "badRequest", "garbled"} = {}

\* c is in effect, or was.
Former(rank, c) == c = cfg \/ rank[c] < rank[cfg]

\* What the client takes for delivered, and what it waits to be confirmed: the
\* later of the two is the pending one, and without a pending one the server
\* has what was delivered, or nothing.
DeliveryInv(rank) ==
  /\ lastSent # NoConfig => Former(rank, lastSent)
  /\ pending # NoConfig =>
       Former(rank, pending) /\ (lastSent = NoConfig \/ rank[lastSent] < rank[pending])
  /\ pending = NoConfig /\ lastSent # NoConfig => srvCfg \in {lastSent, NoConfig}

\* A poll in flight carries what is pending, or stands for what was delivered.
Carried(m) ==
  /\ m.effective # NoConfig => pending = m.effective
  /\ m.effective = NoConfig => pending = NoConfig /\ lastSent = m.current
  /\ m.reply.code \in {"ok", "lost"} \cup Failures
  /\ m.reply.code = "ok" /\ m.effective # NoConfig => srvCfg \in {m.effective, NoConfig}

KnownInv(rank) == DeliveryInv(rank) /\ \A m \in Polls : Carried(m)

\* A step that touches no config and sends no poll keeps KnownInv.
LEMMA KnownKept ==
  ASSUME NEW rank, KnownInv(rank), UNCHANGED <<lastSent, pending, cfg, srvCfg>>, Polls' \subseteq Polls
  PROVE  KnownInv(rank)'
BY DEF KnownInv, DeliveryInv, Former, Carried

\* A poll carries what is pending, or stands for what was delivered.
LEMMA PollCarries ==
  ASSUME NEW rank, Forward(rank), TypeOK, LoopInv, KnownInv(rank), ~polling, Poll,
         UNCHANGED <<cfg, srvCfg>>
  PROVE  KnownInv(rank)'
<1> DEFINE new == Message("poll", IF cfg # lastSent THEN cfg ELSE NoConfig, status)
<1>1. Polls' = {new}
  <2>1. Polls = {} /\ new.kind = "poll"
    BY DEF LoopInv, SinglePollLoop, Message
  <2> QED
    BY <2>1 DEF Poll, Polls
<1>2. /\ new.effective = (IF cfg # lastSent THEN cfg ELSE NoConfig)
      /\ new.current = cfg /\ new.reply.code = "lost"
  BY DEF Message, Unanswered
<1> HIDE DEF new
<1>3. /\ cfg \in Configs /\ cfg # NoConfig /\ rank[cfg] \in Nat
      /\ lastSent' = lastSent /\ pending' = IF cfg # lastSent THEN cfg ELSE pending
  BY ConfigAssumption DEF TypeOK, Poll, Forward
<1>4. CASE cfg # lastSent
  <2>1. lastSent = NoConfig \/ rank[lastSent] < rank[cfg]
    BY <1>4 DEF KnownInv, DeliveryInv, Former
  <2> QED
    BY <1>1, <1>2, <1>3, <1>4, <2>1 DEF KnownInv, DeliveryInv, Former, Carried
<1>5. CASE cfg = lastSent
  \* A pending config would be later than the one in effect.
  <2>1. pending = NoConfig
    <3>1. ASSUME pending # NoConfig PROVE FALSE
      <4>1. rank[lastSent] < rank[pending] /\ (pending = cfg \/ rank[pending] < rank[cfg])
        BY <1>3, <1>5, <3>1 DEF KnownInv, DeliveryInv, Former
      <4>2. rank[pending] \in Nat
        BY <3>1 DEF TypeOK, Forward
      <4> QED
        BY <1>3, <1>5, <4>1, <4>2
    <3> QED
      BY <3>1
  <2> QED
    BY <1>1, <1>2, <1>3, <1>5, <2>1 DEF KnownInv, DeliveryInv, Former, Carried
<1> QED
  BY <1>4, <1>5

\* Handling a response settles the pending config as the response says.
LEMMA ResumesKnown ==
  ASSUME NEW rank, Forward(rank), Delivers, TypeOK, LoopInv, KnownInv(rank),
         NEW m \in requests, PollResumes(m)
  PROVE  KnownInv(rank)'
<1>1. m \in Polls /\ Polls' = {} /\ UNCHANGED <<cfg, srvCfg>>
  BY PollEnds DEF PollResumes, worldVars
<1>2. Carried(m) /\ DeliveryInv(rank)
  BY <1>1 DEF KnownInv
<1>3. /\ lastSent' = LastSentAfter(m.reply)
      /\ pending' = IF Http200(m.reply) \/ m.reply.code = "conflict" THEN NoConfig ELSE pending
  BY DEF PollResumes
<1>4. Http200(m.reply) => m.reply.code = "ok"
  BY <1>2 DEF Carried, Http200, Delivers
<1>5. CASE lastSent' = NoConfig
  BY <1>1, <1>2, <1>3, <1>5 DEF KnownInv, DeliveryInv, Former
<1>6. CASE lastSent' # NoConfig /\ Http200(m.reply) /\ pending # NoConfig
  <2>1. lastSent' = pending /\ pending' = NoConfig
    BY <1>3, <1>6 DEF LastSentAfter
  <2>2. srvCfg \in {pending, NoConfig}
    BY <1>2, <1>4, <1>6 DEF Carried
  <2> QED
    BY <1>1, <1>2, <1>6, <2>1, <2>2 DEF KnownInv, DeliveryInv, Former
<1>7. CASE lastSent' # NoConfig /\ ~(Http200(m.reply) /\ pending # NoConfig)
  <2>1. lastSent' = lastSent /\ pending' = pending
    BY <1>3, <1>7 DEF LastSentAfter
  <2> QED
    BY <1>1, <1>2, <2>1 DEF KnownInv, DeliveryInv, Former
<1> QED
  BY <1>5, <1>6, <1>7

\* Whatever the server answers, it has what the poll in flight carried.
LEMMA ServerKnown ==
  ASSUME NEW rank, TypeOK, LoopInv, KnownInv(rank), NEW m \in requests, Server(m)
  PROVE  KnownInv(rank)'
<1>1. /\ m \in Polls /\ UNCHANGED <<lastSent, pending, cfg>>
  BY DEF Server, ServerProcesses, ServerRefuses, ResponseCutOff, worldVars
<1>2. Carried(m) /\ DeliveryInv(rank)
  BY <1>1 DEF KnownInv
<1>3. PICK reply :
        /\ Answer(m, reply) /\ reply.code \in {"ok"} \cup Failures
        /\ srvCfg' \in {NoConfig, srvCfg, m.effective}
        /\ m.effective = NoConfig => srvCfg' \in {NoConfig, srvCfg}
        /\ reply.code = "ok" /\ m.effective # NoConfig => srvCfg' \in {m.effective, NoConfig}
  <2>1. ASSUME NEW full, NEW newUid, NEW push, ServerProcesses(m, full, newUid, push)
        PROVE  \E reply :
                 /\ Answer(m, reply) /\ reply.code \in {"ok"} \cup Failures
                 /\ srvCfg' \in {NoConfig, srvCfg, m.effective}
                 /\ m.effective = NoConfig => srvCfg' \in {NoConfig, srvCfg}
                 /\ reply.code = "ok" /\ m.effective # NoConfig => srvCfg' \in {m.effective, NoConfig}
    <3> DEFINE reply == [code |-> "ok", full |-> full, uid |-> newUid, push |-> push]
    <3>1. Answer(m, reply) /\ reply.code = "ok"
      BY <2>1 DEF ServerProcesses
    <3>2. srvCfg' = IF full THEN NoConfig ELSE IF m.effective # NoConfig THEN m.effective ELSE srvCfg
      BY <2>1 DEF ServerProcesses
    <3> HIDE DEF reply
    <3> QED
      BY <3>1, <3>2
  <2>2. ASSUME NEW code, ServerRefuses(m, code)
        PROVE  /\ Answer(m, Refusal(code)) /\ code \in Failures \ {"lost"}
               /\ srvCfg' \in {NoConfig, srvCfg} /\ Refusal(code).code = code
    BY <2>2 DEF ServerRefuses, Refusal, Unanswered
  <2>3. ASSUME ResponseCutOff(m)
        PROVE  /\ Answer(m, Refusal("cut")) /\ "cut" \in Failures
               /\ srvCfg' = srvCfg /\ Refusal("cut").code = "cut"
    BY <2>3 DEF ResponseCutOff, Refusal, Unanswered, worldVars
  <2>4. "ok" \notin Failures
    BY OptionAssumption DEF FailureKinds
  <2> QED
    BY <2>1, <2>2, <2>3, <2>4 DEF Server
<1>4. Polls' = {[m EXCEPT !.reply = reply]}
  <2>1. \A n \in Polls : n = m
    BY <1>1 DEF LoopInv, SinglePollLoop
  <2>2. [m EXCEPT !.reply = reply].kind = "poll"
    BY <1>1 DEF Polls, TypeOK, Requests
  <2> QED
    BY <1>1, <1>3, <2>1, <2>2 DEF Answer, Polls
<1>5. LET n == [m EXCEPT !.reply = reply] IN
      n.effective = m.effective /\ n.current = m.current /\ n.reply = reply
  BY DEF TypeOK, Requests
<1>6. DeliveryInv(rank)'
  BY <1>1, <1>2, <1>3 DEF DeliveryInv, Former, Carried
<1>7. Carried([m EXCEPT !.reply = reply])'
  BY <1>1, <1>2, <1>3, <1>5 DEF Carried
<1> QED
  BY <1>4, <1>6, <1>7 DEF KnownInv

\* Every step keeps KnownInv, a change of the config because the rank grows.
LEMMA KnownStep ==
  ASSUME NEW rank, Forward(rank), Delivers
  PROVE  TypeOK /\ LoopInv /\ KnownInv(rank) /\ [Next]_vars => KnownInv(rank)'
<1> SUFFICES ASSUME TypeOK, LoopInv, KnownInv(rank), [Next]_vars PROVE KnownInv(rank)'
  OBVIOUS
<1> USE DEF loopVars, reportVars, remoteVars, worldVars
<1>1. CASE Start \/ Stop
  <2>1. Polls' \subseteq Polls /\ UNCHANGED <<lastSent, pending, cfg, srvCfg>>
    BY <1>1 DEF Start, Stop, Polls, Message
  <2> QED
    BY <2>1, KnownKept
<1>2. CASE FirstPoll
  <2>1. CASE stopping
    BY <1>2, <2>1, KnownKept DEF FirstPoll, Polls
  <2>2. CASE ~stopping
    BY <1>2, <2>2, PollCarries DEF FirstPoll, LoopInv
  <2> QED
    BY <2>1, <2>2
<1>3. CASE TimerFires
  <2>1. ~stopping /\ phase = "started" /\ ~polling
    BY <1>3 DEF TimerFires, LoopInv, SinglePollLoop, TypeOK
  <2> QED
    BY <1>3, <2>1, PollCarries DEF TimerFires
<1>4. ASSUME NEW m \in requests, PollResumes(m) PROVE KnownInv(rank)'
  BY <1>4, ResumesKnown
<1>5. ASSUME NEW m \in requests, Server(m) PROVE KnownInv(rank)'
  BY <1>5, ServerKnown
<1>6. CASE \/ \E m \in requests : PollFails(m) \/ DisconnectSettles(m)
           \/ \E p \in applies, ok \in BOOLEAN : ApplySettles(p, ok)
           \/ \E p \in Pushes : OperatorChanges(p)
           \/ UNCHANGED vars
  <2>1. Polls' \subseteq Polls /\ UNCHANGED <<lastSent, pending, cfg, srvCfg>>
    BY <1>6 DEF PollFails, DisconnectSettles, ApplySettles, OperatorChanges, vars, Polls
  <2> QED
    BY <2>1, KnownKept
<1>7. ASSUME NEW c \in Configs, ConfigChanges(c) PROVE KnownInv(rank)'
  <2>1. /\ cfg' = c /\ Polls' = Polls /\ UNCHANGED <<lastSent, pending, srvCfg>>
        /\ rank[cfg] < rank[c]
    BY <1>7 DEF ConfigChanges, Polls, Forward, TypeOK
  <2>2. ASSUME NEW d \in Configs, Former(rank, d) PROVE Former(rank, d)'
    <3>1. rank[d] \in Nat /\ rank[cfg] \in Nat /\ rank[c] \in Nat
      BY DEF Forward, TypeOK
    <3> QED
      BY <2>1, <2>2, <3>1 DEF Former
  <2>3. lastSent \in Configs \cup {NoConfig} /\ pending \in Configs \cup {NoConfig}
    BY DEF TypeOK
  <2>4. DeliveryInv(rank)'
    BY <2>1, <2>2, <2>3 DEF KnownInv, DeliveryInv
  <2> QED
    BY <2>1, <2>4 DEF KnownInv, Carried
<1> QED
  BY <1>1, <1>2, <1>3, <1>4, <1>5, <1>6, <1>7 DEF Next

\* If the effective configuration never returns to a former value and no answer
\* stands for a message the server did not process, then whatever is lost, asked
\* for again or reset, a message leaves the configuration out only if the server
\* has it or knows that it has none (_lastSentEffectiveConfig).
THEOREM OmittedConfigIsKnownCorrect ==
  ASSUME NEW CONSTANT rank, Forward(rank), Delivers
  PROVE  Spec => []OmittedConfigIsKnown
<1>1. Init => KnownInv(rank)
  BY DEF Init, KnownInv, DeliveryInv, Polls
<1>2. TypeOK /\ KnownInv(rank) => OmittedConfigIsKnown
  <2> SUFFICES ASSUME TypeOK, KnownInv(rank), NEW m \in Polls, m.effective = NoConfig
               PROVE  srvCfg \in {m.current, NoConfig}
    BY DEF OmittedConfigIsKnown
  <2>1. Carried(m) /\ DeliveryInv(rank)
    BY DEF KnownInv
  <2>2. m.current \in Configs /\ m.current # NoConfig
    BY ConfigAssumption DEF Polls, TypeOK, Requests
  <2> QED
    BY <2>1, <2>2 DEF Carried, DeliveryInv
<1>3. TypeOK /\ LoopInv /\ KnownInv(rank) /\ [Next]_vars => KnownInv(rank)'
  BY KnownStep
<1> QED
  BY <1>1, <1>2, <1>3, TypeCorrect, LoopCorrect, PTL DEF Spec
=============================================================================
