------------------------ MODULE ProfilingController ------------------------
(***************************************************************************)
(* The always-on profiler and its runtime reconfiguration:                 *)
(* src/profiling/ProfilingController.ts (a queue of jobs, one at a time),  *)
(* startProfiling of src/profiling/index.ts (one session per call, half of *)
(* it deferred by setImmediate), and what they need of the native CPU and  *)
(* heap profilers, which all sessions of a process share.                  *)
(*                                                                         *)
(* Promise continuations run before any timer, socket or setImmediate      *)
(* callback, so a job runs in one step up to an await that needs the       *)
(* network: the flush of the last samples when a session stops.            *)
(*                                                                         *)
(* Simplifications: profiles, exporters and metrics are left out; the      *)
(* snapshot profiler is its activation and its interval (module            *)
(* SnapshotProfiler has the rest).                                         *)
(***************************************************************************)
EXTENDS Naturals, Sequences

CONSTANTS
  Controllers,      \* one controller per start() of the SDK
  Intervals,        \* sampling intervals; 0 stands for an absent or invalid one
  BaseInterval,     \* _baseOptions.callstackInterval
  BaseMemory,       \* _baseOptions.memoryProfilingEnabled
  Configs,          \* the parsed remote configurations
  SnapshotInterval, \* the snapshot profiler's interval at registration
  MaxJobs,          \* bound: jobs given to a controller
  NoJob, NoSession

ASSUME IntervalAssumption ==
  /\ Intervals \subseteq Nat \ {0}
  /\ BaseInterval \in Intervals /\ SnapshotInterval \in Intervals
ASSUME ConfigAssumption ==
  Configs \subseteq [cpu : BOOLEAN, interval : Intervals \cup {0}, memory : BOOLEAN,
                     calls : BOOLEAN, callsInterval : Intervals \cup {0}]
ASSUME OptionAssumption == BaseMemory \in BOOLEAN
ASSUME BoundAssumption == MaxJobs \in Nat
ASSUME NullAssumption ==
  NoSession \notin Nat /\ NoJob \notin [kind : {"apply"}, cfg : Configs] \cup [kind : {"stop"}]

VARIABLES
  phase,        \* per controller: "new", "up", or "closing" once stopAll() was called
  queue,        \* per controller: the jobs chained on _queue that have not begun
  job,          \* per controller: the job that awaits the stop of a session
  flushing,     \* per controller: that stop awaits the network
  running,      \* per controller: _running, the number of its session
  sessions,     \* the startProfiling() calls so far, and the timers each has
  immediates,   \* the sessions whose setImmediate callback is due, in order
  native,       \* native profilers: loaded (the extension is there), cpu (the interval
                \* it samples at, or 0), heap (v8 samples the heap), heapFlag
                \* (v8ProfilerRunning)
  snapshot,     \* the snapshot profiler: registered (with a native handle), active,
                \* interval
  effective,    \* the recorded effective state of both profilers
  jobs,         \* jobs given to the controllers, for the bound MaxJobs
  last          \* history, per controller: the last job to finish, and how

vars == <<phase, queue, job, flushing, running, sessions, immediates, native, snapshot,
          effective, jobs, last>>

Jobs == [kind : {"apply"}, cfg : Configs] \cup [kind : {"stop"}]

StopJob == [kind |-> "stop"]

Session(interval, memory) ==
  [interval |-> interval, memory |-> memory, ready |-> FALSE,
   cpuLoop |-> FALSE, memLoop |-> FALSE, early |-> FALSE]

Init ==
  /\ phase = [c \in Controllers |-> "new"]
  /\ queue = [c \in Controllers |-> <<>>]
  /\ job = [c \in Controllers |-> NoJob]
  /\ flushing = [c \in Controllers |-> FALSE]
  /\ running = [c \in Controllers |-> NoSession]
  /\ sessions = <<>> /\ immediates = <<>>
  /\ \E loaded \in BOOLEAN : \E registered \in {FALSE, loaded} : \E active \in {FALSE, registered} :
       /\ native = [loaded |-> loaded, cpu |-> 0, heap |-> FALSE, heapFlag |-> FALSE]
       /\ snapshot = [registered |-> registered, active |-> active, interval |-> SnapshotInterval]
       /\ effective = [cpu |-> FALSE, memory |-> FALSE, interval |-> 0,
                       calls |-> active, callsInterval |-> SnapshotInterval]
  /\ jobs = 0
  /\ last = [c \in Controllers |-> [job |-> NoJob, ok |-> TRUE]]

----------------------------------------------------------------------------
(* The native profilers. *)

\* StopProfiling.
StopCpuProfiler(n) == [n EXCEPT !.cpu = 0]

\* StartMemoryProfiling: ignored while v8ProfilerRunning is set.
StartHeapProfiler(n) == IF n.heapFlag THEN n ELSE [n EXCEPT !.heap = TRUE, !.heapFlag = TRUE]

\* StopMemoryProfiling stops v8's sampling and leaves v8ProfilerRunning set.
StopHeapProfiler(n) == IF n.heapFlag THEN [n EXCEPT !.heap = FALSE] ELSE n

----------------------------------------------------------------------------
(* startProfiling: a session starts, its setImmediate callback runs, it stops. *)

\* Mutant: what was asked for is recorded, extension or not.
EffectiveRequested(interval, memory) ==
  [effective EXCEPT !.cpu = TRUE, !.memory = memory, !.interval = interval]

\* The effective state startProfiling records.
EffectiveStart(interval, memory) ==
  IF native.loaded
    THEN [effective EXCEPT !.cpu = TRUE, !.memory = memory, !.interval = interval]
    ELSE [effective EXCEPT !.cpu = FALSE, !.memory = FALSE]

\* _startCpu succeeds: not without the extension, and the native start throws
\* while a profiler of the same name is running.
CanStart(n) == n.loaded /\ n.cpu = 0

StartCpu(c, interval, memory, n) ==
  IF CanStart(n)
    THEN /\ sessions' = Append(sessions, Session(interval, memory))
         /\ immediates' = Append(immediates, Len(sessions) + 1)
         /\ running' = [running EXCEPT ![c] = Len(sessions) + 1]
         /\ native' = [n EXCEPT !.cpu = interval]
    ELSE native' = n /\ UNCHANGED <<sessions, immediates, running>>

\* What a session's setImmediate callback makes of it.
Readied(s) == [s EXCEPT !.ready = TRUE, !.cpuLoop = TRUE, !.memLoop = s.memory]

\* The event loop's check phase: the exporters are made and the collection
\* intervals set, whether or not the session was stopped meanwhile.
RunImmediate ==
  /\ immediates # <<>>
  /\ LET i == Head(immediates) IN
     /\ sessions' = [sessions EXCEPT ![i] = Readied(@)]
     /\ native' = IF sessions[i].memory THEN StartHeapProfiler(native) ELSE native
  /\ immediates' = Tail(immediates)
  /\ UNCHANGED <<phase, queue, job, flushing, running, snapshot, effective, jobs, last>>

\* Mutant: the collection of heap profiles goes on.
HaltedCpu(s) == [s EXCEPT !.cpuLoop = FALSE, !.early = ~s.ready]

\* stop() of a session up to its await: its intervals are cleared, the native
\* profilers stop.  early (history): it had not run its setImmediate callback.
Halted(s) == [s EXCEPT !.cpuLoop = FALSE, !.memLoop = FALSE, !.early = ~s.ready]

\* Mutant: the native CPU profiler goes on.
HaltHeapOnly(s, n) == IF s.memory THEN StopHeapProfiler(n) ELSE n

HaltNative(s, n) == StopCpuProfiler(IF s.memory THEN StopHeapProfiler(n) ELSE n)

\* The last profile is sent by the exporters, if there are any yet.
Flushes(s) == s.ready /\ native.cpu # 0

----------------------------------------------------------------------------
(* The jobs. *)

\* Mutant: an interval that is not positive is taken as it is.
IntervalAsGiven(cfg) == cfg.interval

IntervalOf(cfg) == IF cfg.interval > 0 THEN cfg.interval ELSE BaseInterval

\* Mutant: a change of memory profiling alone is not a change.
UnchangedInterval(s, cfg) == s.interval = IntervalOf(cfg)

\* The requested always-on profiler is the one session s runs.
Unchanged(s, cfg) == s.interval = IntervalOf(cfg) /\ s.memory = cfg.memory

\* Memory profiling without CPU profiling is refused, before anything is stopped.
Refused(j) == j.kind = "apply" /\ ~j.cfg.cpu /\ j.cfg.memory

\* Job j stops the running session of controller c first.
StopsFirst(c, j) ==
  /\ running[c] # NoSession
  /\ ~Refused(j)
  /\ j.kind = "apply" /\ j.cfg.cpu => ~Unchanged(sessions[running[c]], j.cfg)

\* Job j then starts a session.
Starts(c, j, stopped) ==
  /\ j.kind = "apply" /\ j.cfg.cpu
  /\ stopped \/ running[c] = NoSession

\* _applyCallgraphs: setSnapshotProfilingActive, then the check of its result.
CallgraphsReached(cfg) == cfg.calls => snapshot.registered

ApplyCallgraphs(cfg) ==
  snapshot' = IF snapshot.registered
                THEN [snapshot EXCEPT !.active = cfg.calls,
                                      !.interval = IF cfg.callsInterval > 0
                                                     THEN cfg.callsInterval ELSE @]
                ELSE snapshot

\* Mutant: a job that fails blocks the queue.
SettledIfOk(c, j, ok) ==
  /\ job' = [job EXCEPT ![c] = IF ok THEN NoJob ELSE j]
  /\ flushing' = [flushing EXCEPT ![c] = FALSE]
  /\ last' = [last EXCEPT ![c] = [job |-> j, ok |-> ok]]

\* The promise of job j resolves or rejects, and the queue goes on either way.
Settled(c, j, ok) ==
  /\ job' = [job EXCEPT ![c] = NoJob]
  /\ flushing' = [flushing EXCEPT ![c] = FALSE]
  /\ last' = [last EXCEPT ![c] = [job |-> j, ok |-> ok]]

\* The rest of job j, after its stop if it had one (stopped).
Finish(c, j, stopped) ==
  LET starts == Starts(c, j, stopped)
      ok == j.kind = "apply" =>
              ~Refused(j) /\ (starts => CanStart(native)) /\ CallgraphsReached(j.cfg)
      idle == IF stopped THEN [effective EXCEPT !.cpu = FALSE, !.memory = FALSE] ELSE effective
      cpu == IF starts THEN EffectiveStart(IntervalOf(j.cfg), j.cfg.memory) ELSE idle
  IN
  /\ Settled(c, j, ok)
  /\ IF starts THEN StartCpu(c, IntervalOf(j.cfg), j.cfg.memory, native)
               ELSE UNCHANGED <<sessions, immediates, running, native>>
  /\ IF j.kind = "apply"
       THEN /\ ApplyCallgraphs(j.cfg)
            /\ effective' = IF snapshot.registered
                              THEN [cpu EXCEPT !.calls = snapshot'.active,
                                               !.callsInterval = snapshot'.interval]
                              ELSE cpu
       ELSE UNCHANGED snapshot /\ effective' = cpu
  /\ UNCHANGED <<phase, jobs>>

\* The next job begins: it stops the running session and awaits that, or runs
\* to its end.
BeginJob(c) ==
  /\ job[c] = NoJob /\ queue[c] # <<>>
  /\ queue' = [queue EXCEPT ![c] = Tail(@)]
  /\ LET j == Head(queue[c])
         i == running[c]
     IN IF StopsFirst(c, j)
          THEN /\ job' = [job EXCEPT ![c] = j]
               /\ running' = [running EXCEPT ![c] = NoSession]
               /\ sessions' = [sessions EXCEPT ![i] = Halted(@)]
               /\ native' = HaltNative(sessions[i], native)
               /\ flushing' = [flushing EXCEPT ![c] = Flushes(sessions[i])]
               /\ UNCHANGED <<phase, immediates, snapshot, effective, jobs, last>>
          ELSE Finish(c, j, FALSE)

\* The stop of the session resolves and the job runs to its end.
EndJob(c) ==
  /\ job[c] # NoJob
  /\ Finish(c, job[c], TRUE)
  /\ UNCHANGED queue

\* Some continuation is due before the event loop may go on.
ContinuationDue ==
  \E c \in Controllers : (job[c] = NoJob /\ queue[c] # <<>>) \/ (job[c] # NoJob /\ ~flushing[c])

----------------------------------------------------------------------------
(* The calls the controllers get. *)

\* startInitial(enabled), which throws if the native start does: the controller
\* is then lost to the SDK.
InitialThrows(enabled) == enabled /\ native.loaded /\ ~CanStart(native)

InitialSession(c, enabled) ==
  /\ phase[c] = "new"
  /\ phase' = [phase EXCEPT ![c] = IF InitialThrows(enabled) THEN "closing" ELSE "up"]
  /\ IF enabled THEN StartCpu(c, BaseInterval, BaseMemory, native)
                ELSE UNCHANGED <<sessions, immediates, running, native>>

InitialEffective(enabled) ==
  IF enabled THEN EffectiveStart(BaseInterval, BaseMemory)
             ELSE [effective EXCEPT !.cpu = FALSE, !.memory = FALSE]

\* start(): the constructor and startInitial(enabled).
StartInitial(c, enabled) ==
  /\ InitialSession(c, enabled)
  /\ effective' = InitialEffective(enabled)
  /\ UNCHANGED <<queue, job, flushing, snapshot, jobs, last>>

\* A job is chained onto the queue.
Chain(c, j) ==
  /\ jobs < MaxJobs
  /\ jobs' = jobs + 1
  /\ queue' = [queue EXCEPT ![c] = Append(@, j)]
  /\ UNCHANGED <<job, flushing, running, sessions, immediates, native, last>>

Enqueue(c, j) == Chain(c, j) /\ UNCHANGED <<snapshot, effective>>

\* The OpAMP client's callback.
ApplyRemoteConfiguration(c, cfg) ==
  /\ phase[c] = "up"
  /\ Enqueue(c, [kind |-> "apply", cfg |-> cfg])
  /\ UNCHANGED phase

\* stop() of the SDK, once; no apply is requested after it.
StopAll(c) ==
  /\ phase[c] = "up"
  /\ phase' = [phase EXCEPT ![c] = "closing"]
  /\ Enqueue(c, StopJob)

\* A macrotask: an API call, a socket or the check phase.
Macrotask ==
  \/ \E c \in Controllers :
       \/ \E enabled \in BOOLEAN : StartInitial(c, enabled)
       \/ \E cfg \in Configs : ApplyRemoteConfiguration(c, cfg)
       \/ StopAll(c)
       \/ flushing[c] /\ EndJob(c)
  \/ RunImmediate

\* A continuation of a promise that is settled.
Microtask == \E c \in Controllers : BeginJob(c) \/ (~flushing[c] /\ EndJob(c))

Next == Microtask \/ (~ContinuationDue /\ Macrotask)

Spec == Init /\ [][Next]_vars

\* The event loop runs continuations and setImmediate callbacks, and the
\* exporters' requests end (they time out).
FairSpec ==
  /\ Spec
  /\ WF_vars(Microtask)
  /\ WF_vars(RunImmediate)
  /\ \A c \in Controllers : WF_vars(~ContinuationDue /\ flushing[c] /\ EndJob(c))

----------------------------------------------------------------------------
(* Properties. *)

TypeOK ==
  /\ phase \in [Controllers -> {"new", "up", "closing"}]
  /\ queue \in [Controllers -> Seq(Jobs)]
  /\ job \in [Controllers -> Jobs \cup {NoJob}]
  /\ flushing \in [Controllers -> BOOLEAN]
  /\ sessions \in Seq([interval : Intervals, memory : BOOLEAN, ready : BOOLEAN,
                       cpuLoop : BOOLEAN, memLoop : BOOLEAN, early : BOOLEAN])
  /\ running \in [Controllers -> DOMAIN sessions \cup {NoSession}]
  /\ immediates \in Seq(DOMAIN sessions)
  /\ native \in [loaded : BOOLEAN, cpu : Intervals \cup {0}, heap : BOOLEAN, heapFlag : BOOLEAN]
  /\ snapshot \in [registered : BOOLEAN, active : BOOLEAN, interval : Intervals]
  /\ effective \in [cpu : BOOLEAN, memory : BOOLEAN, interval : Intervals \cup {0},
                    calls : BOOLEAN, callsInterval : Intervals]
  /\ jobs \in 0 .. MaxJobs
  /\ last \in [Controllers -> [job : Jobs \cup {NoJob}, ok : BOOLEAN]]

AtRest(c) == job[c] = NoJob

\* A controller's idea of what runs is the native profiler's: between jobs, the
\* native CPU profiler samples at the interval of the controller's session.
RunningIsNative ==
  /\ \A c \in Controllers : running[c] # NoSession => native.cpu = sessions[running[c]].interval
  /\ (\A c \in Controllers : running[c] = NoSession) => native.cpu = 0

\* "Applied" means applied: when an apply succeeded last, every part of its
\* config is in force; the callgraphs part is, even if the rest was refused.
VerdictHonest ==
  \A c \in Controllers : AtRest(c) /\ last[c].job \in Jobs \ {StopJob} =>
    LET cfg == last[c].job.cfg IN
    /\ last[c].ok =>
         /\ cfg.cpu <=> running[c] # NoSession
         /\ cfg.cpu => /\ sessions[running[c]].interval = IntervalOf(cfg)
                       /\ sessions[running[c]].memory = cfg.memory
         /\ ~cfg.memory \/ cfg.cpu
         /\ snapshot.active = cfg.calls
    /\ snapshot.registered =>
         /\ snapshot.active = cfg.calls
         /\ cfg.callsInterval > 0 => snapshot.interval = cfg.callsInterval

\* The effective state that OpAMP reports is the state of the profilers.
EffectiveHonest ==
  \A c \in Controllers : AtRest(c) /\ phase[c] # "new" =>
    /\ effective.cpu <=> native.cpu # 0
    /\ effective.cpu => effective.interval = native.cpu
    /\ effective.memory <=> (running[c] # NoSession /\ sessions[running[c]].memory)
    /\ effective.calls = snapshot.active /\ effective.callsInterval = snapshot.interval

Collects(i) == sessions[i].cpuLoop \/ sessions[i].memLoop

Runs(i) == \E c \in Controllers : running[c] = i

\* Nothing outlives a session that was stopped once its setImmediate callback
\* had run; and a session stopped before that leaks no more than itself.  (A
\* leaked interval drains the native profiler of the next session and sends its
\* samples with the wrong period.)
NothingReadyLeaks ==
  /\ \A i \in DOMAIN sessions : Collects(i) => Runs(i) \/ sessions[i].early
  /\ native.heap => \E i \in DOMAIN sessions :
                      sessions[i].memory /\ (Runs(i) \/ (sessions[i].early /\ sessions[i].ready))

\* Memory profiling that is reported as on is on, once the deferred part of the
\* start has run.
MemoryReported == immediates = <<>> /\ effective.memory => native.heap

\* Every job finishes, whatever became of the jobs before it.
JobsFinish ==
  \A c \in Controllers : []<>(queue[c] = <<>> /\ job[c] = NoJob)
============================================================================
