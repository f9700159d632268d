---------------------------- MODULE OpAMPClient ----------------------------
(***************************************************************************)
(* The OpAMP agent of src/opamp/OpAMPClient.ts: a polling loop over HTTP   *)
(* that reports the effective configuration, receives remote               *)
(* configuration, applies it and reports the outcome, with the backoff of  *)
(* src/opamp/backoff.ts.  JavaScript runs one callback at a time: an       *)
(* action is one callback, from its first statement to its next await.     *)
(*                                                                         *)
(* Simplifications:                                                        *)
(*   - time is not modelled: an armed timer may fire at any moment, and    *)
(*     only the kind of its delay is kept;                                 *)
(*   - effective configurations, config hashes and bodies are atoms;       *)
(*   - health, capabilities and agent description never change what the    *)
(*     client does next, so messages leave them out;                       *)
(*   - the server is the environment.  It answers a request once; a        *)
(*     request is lost before the server reads it, or its answer is lost,  *)
(*     or the answer is cut off in its body, which settles nothing.        *)
(***************************************************************************)
EXTENDS Naturals, FiniteSets

CONSTANTS
  Configs,        \* effective configurations (getEffectiveConfig's results)
  FirstConfig,    \* the one in effect when the client is created
  ConfigSteps,    \* pairs <<c, d>>: the effective configuration may go from c to d
  NoConfig,       \* null
  Hashes,         \* config hashes; EmptyHash too when messages cross the wire
  EmptyHash,      \* the empty byte array
  NoHash,         \* no configHash in the message
  Unreadable,     \* a configHash that `new Uint8Array()` throws on
  Bodies, NoBody, \* bodies of remote configs; null
  Pushes,         \* the remote configs the server may send
  NoPush,         \* a response without remote config
  RemoteEnabled,  \* options.applyRemoteConfig is set
  Uids, FirstUid, NoUid,
  Failures,       \* the ways an exchange may fail in this instance
  SeqMod,         \* bound: sequence numbers are counted modulo SeqMod
  MaxFailures     \* bound: 1000 * 2^MaxFailures reaches the 60 s backoff cap

\* No answer; a response cut off in its body; HTTP 200 with an error response, or
\* with a body that does not decode; HTTP 409; any other HTTP status.
FailureKinds == {"lost", "cut", "unavailable", "badRequest", "garbled", "conflict", "httpError"}

ASSUME ConfigAssumption ==
  FirstConfig \in Configs /\ NoConfig \notin Configs /\ ConfigSteps \subseteq Configs \X Configs
ASSUME PushAssumption ==
  /\ Pushes \subseteq [hash : Hashes \cup {NoHash, Unreadable}, body : Bodies, parses : BOOLEAN]
  /\ NoPush \notin Pushes /\ NoBody \notin Bodies
  /\ NoHash \notin Hashes /\ Unreadable \notin Hashes
ASSUME UidAssumption == FirstUid \in Uids /\ NoUid \notin Uids
ASSUME OptionAssumption == RemoteEnabled \in BOOLEAN /\ Failures \subseteq FailureKinds
ASSUME BoundAssumption == SeqMod \in Nat /\ SeqMod > 2 /\ MaxFailures \in Nat \ {0}

VARIABLES
  phase,          \* progress of start(): "new", "starting" (its await), "started"
  stopping,       \* _stopping
  polling,        \* _polling
  pollAgain,      \* _pollAgainImmediately
  timer,          \* the armed _pollingTimer: its kind of delay, or "none"
  backoff,        \* _backoff: [failures, floor], floor = a minimum delay is set
  seq,            \* _sequenceNum
  uid,            \* _instanceUid
  lastSent,       \* _lastSentEffectiveConfig
  pending,        \* _pendingEffectiveConfig
  lastHash,       \* _lastRemoteConfigHash
  lastHashless,   \* _lastHashlessConfig
  applyInFlight,  \* _applyInFlight
  status,         \* _remoteConfigStatus
  applies,        \* the applyRemoteConfig() calls being awaited
  requests,       \* the _transport.send() calls being awaited
  cfg,            \* what getEffectiveConfig() returns now
  srvCfg,         \* the effective configuration the server has for the agent
  desired,        \* the remote config the server wants in force
  tried,          \* history: the last config attempted
  tries,          \* history: attempts of desired since it became desired (2: more)
  told            \* history: the status in the last poll sent

loopVars   == <<phase, stopping, polling, pollAgain, timer, backoff>>
reportVars == <<seq, uid, lastSent, pending, requests>>
remoteVars == <<lastHash, lastHashless, applyInFlight, status, applies, tried, tries>>
worldVars  == <<cfg, srvCfg, desired>>
vars == <<loopVars, reportVars, remoteVars, worldVars, told>>

----------------------------------------------------------------------------
(* Messages. *)

Statuses == [state : {"none", "applying", "applied", "failed"}, hash : Hashes \cup {EmptyHash}]

NoStatus == [state |-> "none", hash |-> EmptyHash]

Replies == [code : FailureKinds \cup {"ok"}, full : BOOLEAN,
            uid : Uids \cup {NoUid}, push : Pushes \cup {NoPush}]

\* A request the server has not answered yet holds this reply.
Unanswered == [code |-> "lost", full |-> FALSE, uid |-> NoUid, push |-> NoPush]

Refusal(code) == [Unanswered EXCEPT !.code = code]

\* A message: `effective' is the config it carries, `current' (not on the wire)
\* the one in effect when it was built.
Requests == [kind : {"poll", "disconnect"}, seq : 0 .. SeqMod - 1, uid : Uids,
             effective : Configs \cup {NoConfig}, current : Configs,
             status : Statuses, reply : Replies]

Polls == {m \in requests : m.kind = "poll"}

\* The response to m ends in its body: HttpTransport hears neither its end nor an
\* error of the request, and the promise of send() never settles.
CutOff(m) == m.reply.code = "cut"

Message(kind, effective, st) ==
  [kind |-> kind, seq |-> seq, uid |-> uid, effective |-> effective,
   current |-> cfg, status |-> st, reply |-> Unanswered]

----------------------------------------------------------------------------
(* The backoff: every operator maps the backoff's state to its next state. *)

NoBackoff == [failures |-> 0, floor |-> FALSE]

ResetBackoff(b) == NoBackoff

SetMinDelay(b) == [b EXCEPT !.floor = TRUE]

NextDelay(b) == IF b = NoBackoff THEN "interval" ELSE "backoff"

CountDelay(b) ==
  IF b = NoBackoff THEN b
  ELSE [failures |-> IF b.failures < MaxFailures THEN b.failures + 1 ELSE MaxFailures,
        floor |-> FALSE]

----------------------------------------------------------------------------
(* Scheduling. *)

\* _scheduleNextPoll: replaces the armed timer.  now: the delay 0 was given.
ScheduleNextPoll(now, b) ==
  /\ timer' = IF stopping THEN timer ELSE IF now THEN "now" ELSE NextDelay(b)
  /\ backoff' = IF stopping \/ now THEN b ELSE CountDelay(b)

\* Mutant: a running poll is not waited for.
TriggerPollAnyway == ScheduleNextPoll(TRUE, backoff) /\ UNCHANGED pollAgain

\* Mutant: a trigger during a poll is dropped.
TriggerPollDropped ==
  /\ IF polling THEN UNCHANGED <<timer, backoff>> ELSE ScheduleNextPoll(TRUE, backoff)
  /\ UNCHANGED pollAgain

\* _triggerPoll, called outside processServerResponse.
TriggerPoll ==
  IF polling /\ ~stopping
    THEN pollAgain' = TRUE /\ UNCHANGED <<timer, backoff>>
    ELSE ScheduleNextPoll(TRUE, backoff) /\ UNCHANGED pollAgain

\* Mutant: a config counts as sent before the server confirms it.
PollTrusting ==
  LET changed == cfg # lastSent IN
  /\ polling' = TRUE
  /\ pollAgain' = FALSE
  /\ requests' = requests \cup {Message("poll", IF changed THEN cfg ELSE NoConfig, status)}
  /\ lastSent' = cfg
  /\ seq' = (seq + 1) % SeqMod
  /\ told' = status
  /\ UNCHANGED <<uid, pending>>

\* _poll up to its await: builds the next message and hands it to the transport.
Poll ==
  LET changed == cfg # lastSent IN
  /\ polling' = TRUE
  /\ pollAgain' = FALSE
  /\ pending' = IF changed THEN cfg ELSE pending
  /\ requests' = requests \cup {Message("poll", IF changed THEN cfg ELSE NoConfig, status)}
  /\ seq' = (seq + 1) % SeqMod
  /\ told' = status
  /\ UNCHANGED <<uid, lastSent>>

----------------------------------------------------------------------------
(* Remote configuration. *)

\* Mutant: a null hash stays null.
RawHash(p) == p.hash

\* The hash a status carries for push p: a null hash becomes an empty array.
ReportedHash(p) == IF p.hash \in Hashes THEN p.hash ELSE EmptyHash

\* p is what was attempted last: by its hash, or by its body when it has none.
Repeats(p) == IF p.hash \in Hashes THEN p.hash = lastHash ELSE p.body = lastHashless

\* Mutant: an apply in flight does not matter.
IgnoredUnlessNew(p) == p = NoPush \/ ~RemoteEnabled \/ stopping \/ Repeats(p)

\* Mutant: shutdown does not matter.
IgnoredUnlessIdle(p) ==
  p = NoPush \/ ~RemoteEnabled \/ Repeats(p) \/ (applyInFlight /\ p.hash # Unreadable)

\* _handleRemoteConfig returns without doing anything.  A push whose hash cannot
\* be read is failed even while another apply is in flight.
Ignored(p) ==
  \/ p = NoPush
  \/ ~RemoteEnabled
  \/ stopping
  \/ Repeats(p)
  \/ applyInFlight /\ p.hash # Unreadable

\* _parseRemoteConfig accepts p: YAML content type, well-formed body.
Parses(p) == p.parses

\* _handleRemoteConfig up to its await: the attempt of p is recorded under the
\* key (hash, body), then p fails on the spot (unreadable hash, body that does
\* not parse) or its apply starts.
AttemptWith(p, hash, body) ==
  LET starts == Parses(p) /\ p.hash # Unreadable IN
  /\ lastHash' = hash
  /\ lastHashless' = body
  /\ status' = [state |-> IF starts THEN "applying" ELSE "failed", hash |-> ReportedHash(p)]
  /\ applyInFlight' = (applyInFlight \/ starts)
  /\ applies' = IF starts THEN applies \cup {p} ELSE applies
  /\ tried' = p
  /\ tries' = IF p = desired /\ tries < 2 THEN tries + 1 ELSE tries

\* Mutant: a config that fails to parse is not recorded as attempted.
AttemptForgettingFailures(p) ==
  IF Parses(p)
    THEN AttemptWith(p, IF p.hash \in Hashes THEN p.hash ELSE NoHash,
                     IF p.hash \in Hashes THEN NoBody ELSE p.body)
    ELSE AttemptWith(p, lastHash, lastHashless)

\* Mutant: a config with a hash leaves the last hashless body recorded.
AttemptKeepingBody(p) ==
  AttemptWith(p, IF p.hash \in Hashes THEN p.hash ELSE NoHash,
              IF p.hash \in Hashes THEN lastHashless ELSE p.body)

\* p's key: its hash, or its body when it has no readable hash; the other is cleared.
Attempt(p) ==
  AttemptWith(p, IF p.hash \in Hashes THEN p.hash ELSE NoHash,
              IF p.hash \in Hashes THEN NoBody ELSE p.body)

\* Mutant: a rejected apply leaves _applyInFlight set.
ApplySettlesIfOk(p, ok) ==
  /\ p \in applies
  /\ applies' = applies \ {p}
  /\ applyInFlight' = ~ok
  /\ status' = [state |-> IF ok THEN "applied" ELSE "failed", hash |-> ReportedHash(p)]
  /\ TriggerPoll
  /\ UNCHANGED <<phase, stopping, polling, reportVars, lastHash, lastHashless,
                 tried, tries, worldVars, told>>

\* Mutant: the verdict is about the config attempted last.
ApplySettlesForLast(p, ok) ==
  /\ p \in applies
  /\ applies' = applies \ {p}
  /\ applyInFlight' = FALSE
  /\ status' = [state |-> IF ok THEN "applied" ELSE "failed", hash |-> ReportedHash(tried)]
  /\ TriggerPoll
  /\ UNCHANGED <<phase, stopping, polling, reportVars, lastHash, lastHashless,
                 tried, tries, worldVars, told>>

\* applyRemoteConfig(p) settles: the rest of _handleRemoteConfig.
ApplySettles(p, ok) ==
  /\ p \in applies
  /\ applies' = applies \ {p}
  /\ applyInFlight' = FALSE
  /\ status' = [state |-> IF ok THEN "applied" ELSE "failed", hash |-> ReportedHash(p)]
  /\ TriggerPoll
  /\ UNCHANGED <<phase, stopping, polling, reportVars, lastHash, lastHashless,
                 tried, tries, worldVars, told>>

----------------------------------------------------------------------------
(* The polling loop. *)

Init ==
  /\ phase = "new" /\ stopping = FALSE
  /\ polling = FALSE /\ pollAgain = FALSE /\ timer = "none" /\ backoff = NoBackoff
  /\ seq = 0 /\ uid = FirstUid
  /\ lastSent = NoConfig /\ pending = NoConfig
  /\ lastHash = NoHash /\ lastHashless = NoBody
  /\ applyInFlight = FALSE /\ status = NoStatus
  /\ applies = {} /\ requests = {}
  /\ cfg = FirstConfig /\ srvCfg = NoConfig /\ desired = NoPush
  /\ tried = NoPush /\ tries = 0 /\ told = NoStatus

\* start() up to its await of the resource attributes.
Start ==
  /\ phase = "new"
  /\ phase' = "starting"
  /\ stopping' = FALSE
  /\ seq' = 0
  /\ UNCHANGED <<polling, pollAgain, timer, backoff, uid, lastSent, pending, requests,
                 remoteVars, worldVars, told>>

\* Mutant: stop() during start() is not noticed.
FirstPollAnyway ==
  /\ phase = "starting"
  /\ phase' = "started"
  /\ Poll
  /\ UNCHANGED <<stopping, timer, backoff, remoteVars, worldVars>>

\* The attributes arrive: start() runs the first poll, unless stop() was called.
FirstPoll ==
  /\ phase = "starting"
  /\ phase' = "started"
  /\ IF stopping THEN UNCHANGED <<polling, pollAgain, reportVars, told>> ELSE Poll
  /\ UNCHANGED <<stopping, timer, backoff, remoteVars, worldVars>>

\* The polling timer fires; _pollingTimer keeps a spent timer, which is inert.
TimerFires ==
  /\ timer # "none"
  /\ timer' = "none"
  /\ IF stopping THEN UNCHANGED <<polling, pollAgain, reportVars, told>> ELSE Poll
  /\ UNCHANGED <<phase, stopping, backoff, remoteVars, worldVars>>

\* What processServerResponse does to the backoff.
ResponseBackoff(reply) ==
  CASE reply.code = "unavailable" -> SetMinDelay(backoff)
    [] reply.code = "badRequest"  -> backoff
    [] OTHER                      -> ResetBackoff(backoff)

\* The responses after which _poll takes its message for delivered.
Http200(reply) == reply.code \in {"ok", "unavailable", "badRequest", "garbled"}

\* Mutant: the ReportFullState flag is ignored.
LastSentDeaf(reply) ==
  IF reply.code = "conflict" THEN NoConfig
  ELSE IF Http200(reply) /\ pending # NoConfig THEN pending ELSE lastSent

\* What the client takes for delivered once it has handled the response.
LastSentAfter(reply) ==
  IF reply.full \/ reply.code = "conflict" THEN NoConfig
  ELSE IF Http200(reply) /\ pending # NoConfig THEN pending ELSE lastSent

\* _poll resumes with the HTTP response to m.
PollResumes(m) ==
  LET reply     == m.reply
      attempted == reply.code = "ok" /\ ~Ignored(reply.push)
  IN
  /\ m \in Polls /\ reply # Unanswered /\ ~CutOff(m)
  /\ requests' = requests \ {m}
  /\ polling' = FALSE
  /\ lastSent' = LastSentAfter(reply)
  /\ pending' = IF Http200(reply) \/ reply.code = "conflict" THEN NoConfig ELSE pending
  /\ uid' = IF reply.uid # NoUid THEN reply.uid ELSE uid
  /\ IF attempted THEN Attempt(reply.push) ELSE UNCHANGED remoteVars
  /\ pollAgain' = (pollAgain \/ attempted)
  /\ ScheduleNextPoll(pollAgain',
       IF Http200(reply) /\ reply.code # "garbled"
         THEN ResetBackoff(ResponseBackoff(reply)) ELSE backoff)
  /\ UNCHANGED <<phase, stopping, seq, worldVars, told>>

\* Mutant: a transport error ends the loop.
PollFailsForGood(m) ==
  /\ "lost" \in Failures
  /\ m \in Polls /\ ~CutOff(m)
  /\ requests' = requests \ {m}
  /\ polling' = FALSE
  /\ UNCHANGED <<phase, stopping, pollAgain, timer, backoff, seq, uid, lastSent, pending,
                 remoteVars, worldVars, told>>

\* _poll resumes with a transport error: m or its answer was lost, or the
\* transport's 30 s timeout expired.
PollFails(m) ==
  /\ "lost" \in Failures
  /\ m \in Polls /\ ~CutOff(m)
  /\ requests' = requests \ {m}
  /\ polling' = FALSE
  /\ ScheduleNextPoll(pollAgain, backoff)
  /\ UNCHANGED <<phase, stopping, pollAgain, seq, uid, lastSent, pending, remoteVars,
                 worldVars, told>>

\* stop() up to its await: no more polls, and the disconnect message is sent.
Stop ==
  /\ phase # "new" /\ ~stopping
  /\ stopping' = TRUE
  /\ timer' = "none"
  /\ pollAgain' = FALSE
  /\ requests' = requests \cup {Message("disconnect", NoConfig, NoStatus)}
  /\ seq' = (seq + 1) % SeqMod
  /\ UNCHANGED <<phase, polling, backoff, uid, lastSent, pending, remoteVars, worldVars, told>>

\* stop() resumes, whatever became of the disconnect message.
DisconnectSettles(m) ==
  /\ m \in requests /\ m.kind = "disconnect"
  /\ requests' = requests \ {m}
  /\ UNCHANGED <<loopVars, seq, uid, lastSent, pending, remoteVars, worldVars, told>>

----------------------------------------------------------------------------
(* The environment: the runtime's configuration, the server, its operator. *)

ConfigChanges(c) ==
  /\ <<cfg, c>> \in ConfigSteps
  /\ cfg' = c
  /\ UNCHANGED <<loopVars, reportVars, remoteVars, srvCfg, desired, told>>

OperatorChanges(p) ==
  /\ RemoteEnabled /\ p \in Pushes /\ p # desired
  /\ desired' = p
  /\ tries' = 0
  /\ UNCHANGED <<loopVars, reportVars, lastHash, lastHashless, applyInFlight, status,
                 applies, tried, cfg, srvCfg, told>>

Answer(m, reply) == requests' = (requests \ {m}) \cup {[m EXCEPT !.reply = reply]}

\* The server processes m.  It asks for the full state (full) whenever it is
\* left without the agent's configuration, and may ask at any time, having
\* restarted.  It may offer the desired config, or a new instance uid.
ServerProcesses(m, full, newUid, push) ==
  LET known == IF m.effective # NoConfig THEN m.effective ELSE srvCfg IN
  /\ m \in Polls /\ m.reply = Unanswered
  /\ ~full => known # NoConfig
  /\ push \in {NoPush, desired}
  /\ srvCfg' = IF full THEN NoConfig ELSE known
  /\ Answer(m, [code |-> "ok", full |-> full, uid |-> newUid, push |-> push])
  /\ UNCHANGED <<loopVars, seq, uid, lastSent, pending, remoteVars, cfg, desired, told>>

\* The server answers without processing m; on a conflict it has dropped what
\* it knew of the agent.
ServerRefuses(m, code) ==
  /\ m \in Polls /\ m.reply = Unanswered
  /\ code \in Failures \ {"lost", "cut"}
  /\ srvCfg' = IF code = "conflict" THEN NoConfig ELSE srvCfg
  /\ Answer(m, Refusal(code))
  /\ UNCHANGED <<loopVars, seq, uid, lastSent, pending, remoteVars, cfg, desired, told>>

\* The response to m, whatever it was to be, is cut off on its way.
ResponseCutOff(m) ==
  /\ "cut" \in Failures
  /\ m \in Polls /\ m.reply # Unanswered
  /\ Answer(m, Refusal("cut"))
  /\ UNCHANGED <<loopVars, seq, uid, lastSent, pending, remoteVars, worldVars, told>>

Server(m) ==
  \/ \E full \in BOOLEAN, newUid \in (Uids \ {FirstUid}) \cup {NoUid}, push \in Pushes \cup {NoPush} :
       ServerProcesses(m, full, newUid, push)
  \/ \E code \in FailureKinds : ServerRefuses(m, code)
  \/ ResponseCutOff(m)

Next ==
  \/ Start \/ FirstPoll \/ TimerFires \/ Stop
  \/ \E m \in requests : PollResumes(m) \/ PollFails(m) \/ DisconnectSettles(m) \/ Server(m)
  \/ \E p \in applies, ok \in BOOLEAN : ApplySettles(p, ok)
  \/ \E c \in Configs : ConfigChanges(c)
  \/ \E p \in Pushes : OperatorChanges(p)

Spec == Init /\ [][Next]_vars

\* The event loop runs what is due: the start continuation, an armed timer and
\* every settled promise; the transport settles each request (30 s timeout) whose
\* response is not cut off, and the controller settles each apply.
AgentFairness ==
  /\ WF_vars(FirstPoll)
  /\ WF_vars(TimerFires)
  /\ WF_vars(\E m \in requests : PollResumes(m) \/ PollFails(m))
  /\ WF_vars(\E p \in applies, ok \in BOOLEAN : ApplySettles(p, ok))

\* The server answers m, asking for the full state only if it needs it.
ServerAnswers(m, push) ==
  ServerProcesses(m, m.effective = NoConfig /\ srvCfg = NoConfig, NoUid, push)

\* A server that is reached again and again is, again and again, reached with
\* what matters: a message that carries the config, one whose lack of a config
\* makes it ask, one whose status is not about the desired config (which it then
\* offers); and answers that ask or offer come through.
ServerFairness ==
  /\ SF_vars(\E m \in Polls : m.effective # NoConfig /\ ServerAnswers(m, NoPush))
  /\ SF_vars(\E m \in Polls : m.effective = NoConfig /\ srvCfg = NoConfig /\ ServerAnswers(m, NoPush))
  /\ SF_vars(\E m \in Polls : desired # NoPush /\ m.status.hash # desired.hash
                                /\ ServerAnswers(m, desired))
  /\ SF_vars(\E m \in Polls : m.reply.full /\ PollResumes(m))
  /\ SF_vars(\E m \in Polls : m.reply.push # NoPush /\ PollResumes(m))

FairSpec == Spec /\ AgentFairness /\ ServerFairness

----------------------------------------------------------------------------
(* Properties. *)

\* The variables have their types.
TypeOK ==
  /\ phase \in {"new", "starting", "started"}
  /\ stopping \in BOOLEAN /\ polling \in BOOLEAN /\ pollAgain \in BOOLEAN
  /\ timer \in {"none", "now", "interval", "backoff"}
  /\ backoff \in [failures : 0 .. MaxFailures, floor : BOOLEAN]
  /\ seq \in 0 .. SeqMod - 1 /\ uid \in Uids
  /\ lastSent \in Configs \cup {NoConfig} /\ pending \in Configs \cup {NoConfig}
  /\ lastHash \in Hashes \cup {NoHash} /\ lastHashless \in Bodies \cup {NoBody}
  /\ applyInFlight \in BOOLEAN
  /\ status \in Statuses /\ told \in Statuses
  /\ applies \subseteq Pushes
  /\ requests \subseteq Requests
  /\ cfg \in Configs /\ srvCfg \in Configs \cup {NoConfig}
  /\ desired \in Pushes \cup {NoPush} /\ tried \in Pushes \cup {NoPush}
  /\ tries \in 0 .. 2

\* The loop neither dies nor forks (the race of the comment on _polling): until
\* stop(), a started client has either its one poll in flight or its timer
\* armed, never both and never two polls.
SinglePollLoop ==
  /\ polling <=> Polls # {}
  /\ \A m, n \in Polls : m = n
  /\ phase = "started" /\ ~stopping => (polling <=> timer = "none")

\* At most one apply is awaited and _applyInFlight says whether.  The server is
\* told "applying" only meanwhile, and meanwhile nothing but a failure to read a
\* later hash (which does not wait for the apply) takes that status' place.
OneApply ==
  /\ \A p, q \in applies : p = q
  /\ applyInFlight <=> applies # {}
  /\ status.state = "applying" => applyInFlight
  /\ \A p \in applies : \/ status = [state |-> "applying", hash |-> ReportedHash(p)]
                        \/ tried.hash = Unreadable

\* A status change reaches the server with the next message, sent at once: if
\* the last poll did not carry the current status, the next is due now.
StatusIsPushed ==
  ~stopping /\ told # status => timer = "now" \/ (polling /\ pollAgain)

\* A server that blindly re-sends a config, failing or not, makes the client
\* attempt it once: again only after the operator has changed the config.
TriedOnce == tries <= 1

\* The client leaves the effective config out of a message only if the server
\* has it already, or knows that it has none (and will ask for the full state).
OmittedConfigIsKnown ==
  \A m \in Polls :
    m.reply = Unanswered /\ m.effective = NoConfig => srvCfg \in {m.current, NoConfig}

\* After stop() nothing is sent: the disconnect message is the last one.
SilentAfterStop ==
  [][stopping => {m.seq : m \in requests'} \subseteq {m.seq : m \in requests}]_vars

\* No apply starts once stop() was called, even from a poll that was in flight.
NoApplyAfterStop == [][stopping => applies' \subseteq applies]_vars

\* Once stop() was called, whatever is in flight then, nothing new is sent or applied.
StopIsFinal == SilentAfterStop /\ NoApplyAfterStop

\* What tells two remote configs apart: the hash or, when it is omitted or
\* unreadable, the body.  On the wire an omitted hash is the empty one.
Identity(p) == IF p.hash \in Hashes \ {EmptyHash} THEN p.hash ELSE <<p.body>>

\* A config that is not the one attempted last is attempted as soon as it
\* arrives, unless an apply is in flight (then it must be offered again).
ChangeIsAttempted ==
  [][\A m \in Polls :
       LET p == m.reply.push IN
       PollResumes(m) /\ p # NoPush /\ RemoteEnabled /\ ~stopping /\ ~applyInFlight
         /\ (tried = NoPush \/ Identity(p) # Identity(tried)) => tried' = p]_vars

\* What the client takes for a repetition: one hash or, without a readable one, one body.
Keyed(p) == IF p.hash \in Hashes THEN <<"hash", p.hash>> ELSE <<"body", p.body>>

Applying == IF applies = {} THEN NoPush ELSE CHOOSE p \in applies : TRUE

\* Two dedup keys, a flag and a status that every path through
\* _handleRemoteConfig sets anew, over polls, retries and shutdown, amount to an
\* agent that attempts one config at a time and answers for the one it attempted.
Agent == INSTANCE ConfigAgent WITH
  Offers <- Pushes, NoOffer <- NoPush,
  Key <- [p \in Pushes |-> Keyed(p)], Label <- [p \in Pushes |-> ReportedHash(p)],
  NoLabel <- EmptyHash, Illegible <- {p \in Pushes : p.hash = Unreadable},
  closed <- stopping, last <- tried, applying <- Applying, verdict <- status

ImplementsAgent == Agent!Spec

\* Nothing is expected of the loop any more: it is not running yet, was stopped, or
\* awaits a response that was cut off (which the transport never reports).
LoopIsOver == phase # "started" \/ stopping \/ \E m \in Polls : CutOff(m)

\* Unless a response is cut off, polls begin and end until the client is stopped,
\* whatever is lost, refused or garbled.
PollsForever == []<>(LoopIsOver \/ polling) /\ []<>(LoopIsOver \/ ~polling)

\* The server learns the effective configuration, again after every restart.
ConfigReported == []<>(LoopIsOver \/ srvCfg = cfg)

\* If the operator settles on a config, the client reaches a verdict on it.
DesiredGetsVerdict ==
  \A p \in Pushes :
    <>[](desired = p) =>
      []<>(LoopIsOver \/ (status.state \in {"applied", "failed"} /\ status.hash = ReportedHash(p)))
============================================================================
