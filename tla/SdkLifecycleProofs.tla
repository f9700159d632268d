------------------------- MODULE SdkLifecycleProofs -------------------------
(* Theorems about SdkLifecycle: any number of starts and stops, any options, *)
(* and any configurations and number of jobs.  Each start's controller keeps *)
(* the invariant of module ProfilingControllerProofs; what is added here is  *)
(* that a controller the SDK let go of has its stop job last in its queue.   *)
EXTENDS SdkLifecycle, ProfilingControllerProofs

(***************************************************************************)
(* The order of the steps of start().                                      *)
(***************************************************************************)

LEMMA StepOrder ==
  ASSUME NEW t
  PROVE  /\ \A step : ~Done(step, "profiling")
         /\ Done("opamp", t) => Done("snapshots", t)
         /\ Done("propagator", t) /\ t # "spanProcessor" => Done("spanProcessor", t)
<1>1. /\ DOMAIN Steps = 1 .. 9
      /\ Steps[1] = "profiling" /\ Steps[2] = "snapshots" /\ Steps[3] = "assert"
      /\ Steps[4] = "propagator" /\ Steps[5] = "spanProcessor" /\ Steps[6] = "logging"
      /\ Steps[7] = "secureapp" /\ Steps[8] = "metrics" /\ Steps[9] = "opamp"
  BY DEF Steps
<1>2. ASSUME NEW step PROVE ~Done(step, "profiling")
  BY <1>1, NowhereAssumption DEF Done
<1>3. Done("opamp", t) => Done("snapshots", t)
  BY <1>1 DEF Done
<1>4. Done("propagator", t) /\ t # "spanProcessor" => Done("spanProcessor", t)
  BY <1>1 DEF Done
<1> QED
  BY <1>2, <1>3, <1>4

\* Only a start() whose profiler throws loses its controller.
LEMMA ThrowsAtProfiling ==
  ASSUME NEW on, NEW t \in ThrowsAt(on)
  PROVE  t = "profiling" <=> InitialThrows("profiling" \in on)
BY NowhereAssumption DEF ThrowsAt, Pipelines

(***************************************************************************)
(* The context manager.                                                    *)
(***************************************************************************)

Managers == [holder : {"none", "tracing", "profiling"}, tracingOwns : BOOLEAN,
             profilingSet : BOOLEAN]

LEMMA ClaimsType ==
  ASSUME NEW m \in Managers
  PROVE  /\ EnsureProfilingContextManager(m) \in Managers /\ ClaimedByProfiling(m) \in Managers
         /\ ClaimedByTracing(m) \in Managers /\ GivenUpByTracing(m) \in Managers
<1>1. EnsureProfilingContextManager(m) \in Managers
  BY DEF EnsureProfilingContextManager, Claimed, Managers
<1>2. ClaimedByProfiling(m) \in Managers
  BY <1>1 DEF ClaimedByProfiling
<1>3. ClaimedByTracing(m) \in Managers
  BY DEF ClaimedByTracing, Claimed, Managers
<1>4. GivenUpByTracing(m) \in Managers
  BY DEF GivenUpByTracing, Managers
<1> QED
  BY <1>1, <1>2, <1>3, <1>4

\* Manager m is profiling's, or tracing's, or nobody's.
Owned(m) ==
  /\ m.tracingOwns <=> m.holder = "tracing"
  /\ m.profilingSet <=> m.holder = "profiling"

LEMMA ClaimsOwned ==
  ASSUME NEW m \in Managers, Owned(m)
  PROVE  /\ ~m.tracingOwns =>
              /\ Owned(EnsureProfilingContextManager(m))
              /\ EnsureProfilingContextManager(m).profilingSet
         /\ Owned(ClaimedByProfiling(m))
         /\ native.loaded /\ ~m.tracingOwns => ClaimedByProfiling(m).profilingSet
         /\ Owned(ClaimedByTracing(m))
         /\ Owned(GivenUpByTracing(m)) /\ ~GivenUpByTracing(m).tracingOwns
         /\ m.profilingSet => /\ EnsureProfilingContextManager(m) = m /\ ClaimedByProfiling(m) = m
                              /\ ClaimedByTracing(m) = m /\ GivenUpByTracing(m) = m
<1>1. ~m.tracingOwns => /\ Owned(EnsureProfilingContextManager(m))
                        /\ EnsureProfilingContextManager(m).profilingSet
  BY DEF EnsureProfilingContextManager, Claimed, Owned, Managers
<1>2. Owned(ClaimedByProfiling(m))
  BY <1>1 DEF ClaimedByProfiling
<1>3. native.loaded /\ ~m.tracingOwns => ClaimedByProfiling(m).profilingSet
  BY <1>1 DEF ClaimedByProfiling
<1>4. Owned(ClaimedByTracing(m))
  BY DEF ClaimedByTracing, Claimed, Owned, Managers
<1>5. Owned(GivenUpByTracing(m)) /\ ~GivenUpByTracing(m).tracingOwns
  BY DEF GivenUpByTracing, Owned, Managers
<1>6. m.profilingSet => /\ EnsureProfilingContextManager(m) = m /\ ClaimedByProfiling(m) = m
                        /\ ClaimedByTracing(m) = m /\ GivenUpByTracing(m) = m
  BY DEF EnsureProfilingContextManager, ClaimedByProfiling, ClaimedByTracing, GivenUpByTracing,
         Owned, Managers
<1> QED
  BY <1>1, <1>2, <1>3, <1>4, <1>5, <1>6

(***************************************************************************)
(* The invariant.                                                          *)
(***************************************************************************)

SdkVarsOK ==
  /\ controller \in Controllers \cup {NoController}
  /\ pipelines \subseteq Pipelines
  /\ contextManager \in Managers
  /\ tracingStarted \in BOOLEAN /\ exporterEnv \in BOOLEAN
  /\ overlapped \in BOOLEAN /\ aborted \in BOOLEAN

EndsInStop(s) == s # <<>> /\ s[Len(s)] = StopJob

\* Whatever controller c still does, its stop job is done last.
Closed(c) ==
  /\ queue[c] # <<>> => EndsInStop(queue[c])
  /\ running[c] # NoSession \/ job[c] \notin {NoJob, StopJob} => queue[c] # <<>>

LetGoIsClosed ==
  /\ \A c \in Controllers : c # controller => Closed(c)
  /\ controller # NoController => phase[controller] = "up"
  /\ controller = NoController => pipelines = {} /\ ~snapshot.registered

\* Controller c runs a session, or has a job that may start one.
Willing(c) ==
  \/ running[c] # NoSession
  \/ job[c] \notin {NoJob, StopJob}
  \/ \E k \in DOMAIN queue[c] : queue[c][k] # StopJob

ContextInv ==
  ~aborted =>
    /\ Owned(contextManager)
    /\ contextManager.tracingOwns => "tracing" \in pipelines
    /\ "opamp" \in pipelines => contextManager.profilingSet
    /\ \A c \in Controllers : Willing(c) => contextManager.profilingSet

SdkInv == Inv /\ SdkVarsOK /\ LetGoIsClosed /\ ContextInv

LEMMA SdkInvInit == SdkInit => SdkInv
<1> SUFFICES ASSUME SdkInit PROVE SdkInv
  OBVIOUS
<1>1. Inv
  BY InvInit DEF SdkInit
<1>2. SdkVarsOK
  BY DEF SdkInit, SdkVarsOK, Managers
<1>3. \A c \in Controllers : queue[c] = <<>> /\ running[c] = NoSession /\ job[c] = NoJob
  BY DEF SdkInit, Init
<1>4. LetGoIsClosed
  BY <1>3 DEF SdkInit, LetGoIsClosed, Closed
<1>5. ContextInv
  BY <1>3 DEF SdkInit, ContextInv, Willing, Owned
<1> QED
  BY <1>1, <1>2, <1>4, <1>5 DEF SdkInv

\* A queue that ends in the stop job still does without its head, or is empty.
LEMMA TailEnds ==
  ASSUME NEW s \in Seq(Jobs), EndsInStop(s)
  PROVE  /\ Tail(s) # <<>> => EndsInStop(Tail(s))
         /\ Head(s) # StopJob => Tail(s) # <<>>
<1>1. /\ s # <<>> /\ Len(s) \in Nat /\ Len(s) # 0 /\ Tail(s) \in Seq(Jobs)
      /\ Head(s) = s[1] /\ Len(Tail(s)) = Len(s) - 1
      /\ s[Len(s)] = StopJob
  BY DEF EndsInStop
<1>2. \A k \in 1 .. Len(s) - 1 : Tail(s)[k] = s[k + 1]
  BY <1>1
<1>3. ASSUME Head(s) # StopJob PROVE Tail(s) # <<>>
  <2>1. Len(s) # 1
    BY <1>1, <1>3
  <2>2. 1 \in 1 .. Len(Tail(s))
    BY <1>1, <2>1
  <2>3. DOMAIN Tail(s) = 1 .. Len(Tail(s))
    BY <1>1
  <2>4. DOMAIN <<>> = {}
    OBVIOUS
  <2> QED
    BY <2>2, <2>3, <2>4, Zenon
<1>4. ASSUME Tail(s) # <<>> PROVE EndsInStop(Tail(s))
  <2>1. Len(s) - 1 \in 1 .. Len(s) - 1
    BY <1>1, <1>4
  <2>2. Tail(s)[Len(s) - 1] = s[Len(s) - 1 + 1]
    BY <1>2, <2>1
  <2>3. Len(s) - 1 + 1 = Len(s)
    BY <1>1
  <2> QED
    BY <1>1, <1>4, <2>2, <2>3 DEF EndsInStop
<1> QED
  BY <1>3, <1>4

\* What a job's step does to the queues and the sessions.
LEMMA FinishLeaves ==
  ASSUME Inv, NEW c \in Controllers, NEW j \in Jobs, NEW stopped \in BOOLEAN,
         Finish(c, j, stopped)
  PROVE  /\ job' = [job EXCEPT ![c] = NoJob] /\ job'[c] = NoJob
         /\ \A d \in Controllers : d # c => running'[d] = running[d]
         /\ running'[c] # NoSession => running[c] # NoSession \/ Starts(c, j, stopped)
         /\ snapshot'.registered = snapshot.registered
         /\ UNCHANGED phase
<1>1. job' = [job EXCEPT ![c] = NoJob] /\ UNCHANGED phase
  BY DEF Finish, Settled
<1>2. \/ running' = running
      \/ Starts(c, j, stopped) /\ running' = [running EXCEPT ![c] = Len(sessions) + 1]
  BY DEF Finish, StartCpu
<1>3. snapshot'.registered = snapshot.registered
  BY DEF Finish, ApplyCallgraphs, Inv, ReportTypeOK
<1> QED
  BY <1>1, <1>2, <1>3 DEF Inv, JobTypeOK, SessionInv, SessionTypeOK

LEMMA StartsIsApply ==
  ASSUME NEW c, NEW j, NEW stopped, Starts(c, j, stopped)
  PROVE  j # StopJob
BY DEF Starts, StopJob

LEMMA BeginJobLeaves ==
  ASSUME Inv, NEW c \in Controllers, BeginJob(c)
  PROVE  /\ job[c] = NoJob /\ queue[c] # <<>> /\ queue[c] \in Seq(Jobs)
         /\ queue' = [queue EXCEPT ![c] = Tail(@)]
         /\ \A d \in Controllers : d # c => running'[d] = running[d] /\ job'[d] = job[d]
         /\ job'[c] \in {NoJob, Head(queue[c])}
         /\ Head(queue[c]) = StopJob => running'[c] = NoSession
         /\ snapshot'.registered = snapshot.registered
         /\ UNCHANGED phase
<1> DEFINE j == Head(queue[c])
<1>1. /\ job[c] = NoJob /\ queue[c] # <<>> /\ queue' = [queue EXCEPT ![c] = Tail(@)]
      /\ j \in Jobs /\ queue[c] \in Seq(Jobs)
  BY QueuedJob DEF BeginJob, Inv, JobTypeOK
<1>2. CASE StopsFirst(c, j)
  <2>1. /\ job' = [job EXCEPT ![c] = j] /\ running' = [running EXCEPT ![c] = NoSession]
        /\ UNCHANGED <<phase, snapshot>>
    BY <1>2 DEF BeginJob
  <2> QED
    BY <1>1, <2>1 DEF Inv, JobTypeOK, SessionInv, SessionTypeOK
<1>3. CASE ~StopsFirst(c, j)
  <2>1. Finish(c, j, FALSE)
    BY <1>3 DEF BeginJob
  <2>2. ASSUME j = StopJob PROVE running'[c] = NoSession
    <3>1. running[c] = NoSession
      BY <1>3, <2>2 DEF StopsFirst, Refused, StopJob
    <3> QED
      BY <1>1, <2>1, <2>2, <3>1, FinishLeaves, StartsIsApply
  <2>3. job' = [job EXCEPT ![c] = NoJob]
    BY <1>1, <2>1, FinishLeaves
  <2>4. \A d \in Controllers : d # c => job'[d] = job[d]
    BY <2>3 DEF Inv, JobTypeOK
  <2> QED
    BY <1>1, <2>1, <2>2, <2>4, FinishLeaves
<1> QED
  BY <1>2, <1>3

LEMMA EndJobLeaves ==
  ASSUME Inv, NEW c \in Controllers, EndJob(c)
  PROVE  /\ job[c] \in Jobs /\ job[c] # NoJob /\ queue' = queue
         /\ \A d \in Controllers : d # c => running'[d] = running[d] /\ job'[d] = job[d]
         /\ job'[c] = NoJob
         /\ job[c] = StopJob => running'[c] = NoSession
         /\ snapshot'.registered = snapshot.registered
         /\ UNCHANGED phase
<1>1. /\ job[c] # NoJob /\ job[c] \in Jobs /\ Finish(c, job[c], TRUE) /\ queue' = queue
      /\ running[c] = NoSession
  BY AwaitingJob DEF EndJob
<1>2. job' = [job EXCEPT ![c] = NoJob]
  BY <1>1, FinishLeaves
<1>3. \A d \in Controllers : d # c => job'[d] = job[d]
  BY <1>2 DEF Inv, JobTypeOK
<1> QED
  BY <1>1, <1>3, FinishLeaves, StartsIsApply

\* A job's step closes no queue, and makes no controller willing.
LEMMA JobLeaves ==
  ASSUME Inv, NEW c \in Controllers, BeginJob(c) \/ EndJob(c), NEW d \in Controllers
  PROVE  /\ Closed(d) => Closed(d)'
         /\ Willing(d)' => Willing(d)
         /\ snapshot'.registered = snapshot.registered
         /\ UNCHANGED phase
<1>1. CASE BeginJob(c)
  <2>1. CASE d # c
    <3>1. queue'[d] = queue[d] /\ running'[d] = running[d] /\ job'[d] = job[d]
      BY <1>1, <2>1, BeginJobLeaves DEF Inv, JobTypeOK
    <3> QED
      BY <1>1, <3>1, BeginJobLeaves DEF Closed, Willing
  <2>2. CASE d = c
    <3>1. /\ queue[c] # <<>> /\ queue[c] \in Seq(Jobs) /\ queue'[c] = Tail(queue[c])
          /\ job'[c] \in {NoJob, Head(queue[c])}
          /\ Head(queue[c]) = StopJob => running'[c] = NoSession
      BY <1>1, BeginJobLeaves DEF Inv, JobTypeOK
    <3>2. Closed(c) => Closed(c)'
      BY <3>1, TailEnds DEF Closed
    <3>3. /\ 1 \in DOMAIN queue[c] /\ queue[c][1] = Head(queue[c])
          /\ \A k \in DOMAIN queue'[c] : k + 1 \in DOMAIN queue[c] /\ queue'[c][k] = queue[c][k + 1]
      BY <3>1
    <3>4. Willing(c)' => Willing(c)
      BY <3>1, <3>3 DEF Willing
    <3> QED
      BY <1>1, <2>2, <3>2, <3>4, BeginJobLeaves
  <2> QED
    BY <2>1, <2>2
<1>2. CASE EndJob(c)
  <2>1. CASE d # c
    <3>1. queue'[d] = queue[d] /\ running'[d] = running[d] /\ job'[d] = job[d]
      BY <1>2, <2>1, EndJobLeaves
    <3> QED
      BY <1>2, <3>1, EndJobLeaves DEF Closed, Willing
  <2>2. CASE d = c
    <3>1. /\ job[c] # NoJob /\ queue' = queue /\ job'[c] = NoJob
          /\ job[c] = StopJob => running'[c] = NoSession
      BY <1>2, EndJobLeaves
    <3> QED
      BY <1>2, <2>2, <3>1, EndJobLeaves DEF Closed, Willing
  <2> QED
    BY <2>1, <2>2
<1> QED
  BY <1>1, <1>2

(***************************************************************************)
(* The steps.                                                              *)
(***************************************************************************)

\* The context manager only goes to profiling, and a step that does not let
\* tracing go keeps the invariant about it.
LEMMA JobKeeps ==
  ASSUME SdkInv, NEW c \in Controllers, Job(c)
  PROVE  SdkInv'
<1>1. /\ BeginJob(c) \/ EndJob(c)
      /\ UNCHANGED <<controller, pipelines, tracingStarted, exporterEnv, overlapped, aborted>>
  BY DEF Job
<1>2. Inv /\ contextManager \in Managers
  BY DEF SdkInv, SdkVarsOK
<1>3. Inv'
  BY <1>1, <1>2, BeginJobKeeps, EndJobKeeps
<1>4. /\ contextManager' = contextManager \/ contextManager' = ClaimedByProfiling(contextManager)
      /\ contextManager' # contextManager => Willing(c)
  <2>1. CASE /\ BeginJob(c)
             /\ ClaimIf(~StopsFirst(c, Head(queue[c])) /\ Starts(c, Head(queue[c]), FALSE))
    <3>1. 1 \in DOMAIN queue[c] /\ queue[c][1] = Head(queue[c])
      BY <1>2, <2>1, BeginJobLeaves
    <3>2. Starts(c, Head(queue[c]), FALSE) => Willing(c)
      BY <3>1, StartsIsApply DEF Willing
    <3> QED
      BY <2>1, <3>2 DEF ClaimIf
  <2>2. CASE EndJob(c) /\ ClaimIf(Starts(c, job[c], TRUE))
    <3>1. job[c] # NoJob
      BY <2>2 DEF EndJob
    <3>2. Starts(c, job[c], TRUE) => Willing(c)
      BY <3>1, StartsIsApply DEF Willing
    <3> QED
      BY <2>2, <3>2 DEF ClaimIf
  <2> QED
    BY <2>1, <2>2 DEF Job
<1>5. SdkVarsOK'
  BY <1>1, <1>4, ClaimsType DEF SdkInv, SdkVarsOK
<1>6. LetGoIsClosed'
  BY <1>1, <1>2, JobLeaves DEF SdkInv, LetGoIsClosed
<1>7. ContextInv'
  <2>1. ~aborted => contextManager' = contextManager
    BY <1>2, <1>4, ClaimsOwned DEF SdkInv, ContextInv
  <2>2. \A d \in Controllers : Willing(d)' => Willing(d)
    BY <1>1, <1>2, JobLeaves
  <2> QED
    BY <1>1, <2>1, <2>2 DEF SdkInv, ContextInv, Owned
<1> QED
  BY <1>3, <1>5, <1>6, <1>7 DEF SdkInv

LEMMA RemoteConfigurationKeeps ==
  ASSUME SdkInv, NEW cfg \in Configs, RemoteConfiguration(cfg)
  PROVE  SdkInv'
<1> DEFINE j == [kind |-> "apply", cfg |-> cfg]
<1>1. /\ "opamp" \in pipelines /\ phase[controller] = "up" /\ Enqueue(controller, j)
      /\ UNCHANGED phase /\ UNCHANGED sdkVars
  BY DEF RemoteConfiguration, ApplyRemoteConfiguration
<1>2. /\ controller \in Controllers /\ j \in Jobs /\ Inv
  BY <1>1 DEF SdkInv, SdkVarsOK, LetGoIsClosed, Jobs
<1>3. Inv'
  BY <1>1, <1>2, EnqueueKeeps
<1>4. /\ \A d \in Controllers : d # controller => queue'[d] = queue[d]
      /\ UNCHANGED <<running, job, snapshot>>
  BY <1>1, <1>2 DEF Enqueue, Chain, Inv, JobTypeOK
<1>5. SdkVarsOK'
  BY <1>1 DEF SdkInv, SdkVarsOK, sdkVars
<1>6. LetGoIsClosed'
  BY <1>1, <1>2, <1>4 DEF SdkInv, LetGoIsClosed, Closed, sdkVars
<1>7. ContextInv'
  BY <1>1, <1>2, <1>4 DEF SdkInv, ContextInv, Willing, Owned, sdkVars
<1> QED
  BY <1>3, <1>5, <1>6, <1>7 DEF SdkInv

LEMMA StopKeeps ==
  ASSUME SdkInv, Stop
  PROVE  SdkInv'
<1>1. /\ snapshot' = [snapshot EXCEPT !.registered = FALSE, !.active = FALSE]
      /\ effective' = [cpu |-> FALSE, memory |-> FALSE, interval |-> 0, calls |-> FALSE,
                       callsInterval |-> snapshot.interval]
      /\ contextManager' = IF "tracing" \in pipelines THEN GivenUpByTracing(contextManager)
                                                      ELSE contextManager
      /\ controller' = NoController /\ pipelines' = {}
      /\ UNCHANGED <<tracingStarted, exporterEnv, overlapped, aborted>>
  BY DEF Stop
<1>2. /\ SessionInv' /\ JobTypeOK' /\ JobInv'
      /\ \A d \in Controllers : Closed(d)' /\ (Willing(d)' => Willing(d))
  <2>1. CASE controller # NoController
    <3>1. /\ controller \in Controllers /\ StopJob \in Jobs /\ Chain(controller, StopJob)
          /\ phase' = [phase EXCEPT ![controller] = "closing"] /\ phase[controller] = "up"
      BY <2>1 DEF Stop, StoppedController, SdkInv, SdkVarsOK, LetGoIsClosed, Jobs, StopJob
    <3>2. SessionInv' /\ JobTypeOK' /\ JobInv'
      BY <3>1, ChainKeeps DEF SdkInv
    <3>3. queue[controller] \in Seq(Jobs) /\ queue' = [queue EXCEPT ![controller] = Append(@, StopJob)]
          /\ UNCHANGED <<running, job>>
      BY <3>1 DEF Chain, SdkInv, Inv, JobTypeOK
    <3>4. queue'[controller] = Append(queue[controller], StopJob)
          /\ \A d \in Controllers : d # controller => queue'[d] = queue[d]
      BY <3>1, <3>3 DEF SdkInv, Inv, JobTypeOK
    <3>5. EndsInStop(queue'[controller])
      BY <3>1, <3>3, <3>4 DEF EndsInStop
    <3>6. \A d \in Controllers : Closed(d)'
      BY <3>3, <3>4, <3>5 DEF SdkInv, LetGoIsClosed, Closed, EndsInStop
    <3>7. \A d \in Controllers : Willing(d)' => Willing(d)
      <4>1. \A k \in DOMAIN queue'[controller] :
              queue'[controller][k] # StopJob =>
                k \in DOMAIN queue[controller] /\ queue[controller][k] = queue'[controller][k]
        BY <3>1, <3>3, <3>4
      <4> QED
        BY <3>3, <3>4, <4>1 DEF Willing
    <3> QED
      BY <3>2, <3>6, <3>7
  <2>2. CASE controller = NoController
    <3>1. UNCHANGED <<phase, queue, job, flushing, running, sessions, immediates, native, jobs, last>>
      BY <2>2 DEF Stop, StoppedController
    <3>2. SessionInv' /\ JobTypeOK' /\ JobInv'
      BY <3>1, SessionInvKept DEF SdkInv, Inv, JobTypeOK, JobInv
    <3>3. \A d \in Controllers : Closed(d)' /\ (Willing(d)' => Willing(d))
      BY <2>2, <3>1, ControllerAssumption DEF SdkInv, LetGoIsClosed, Closed, Willing
    <3> QED
      BY <3>2, <3>3
  <2> QED
    BY <2>1, <2>2
<1>3. ReportTypeOK' /\ ReportInv'
  BY <1>1 DEF SdkInv, Inv, ReportTypeOK, ReportInv, Effectives
<1>4. SdkVarsOK'
  BY <1>1, ClaimsType DEF SdkInv, SdkVarsOK
<1>5. LetGoIsClosed'
  <2>1. ~snapshot'.registered
    BY <1>1 DEF SdkInv, Inv, ReportTypeOK
  <2> QED
    BY <1>1, <1>2, <2>1 DEF LetGoIsClosed
<1>6. ContextInv'
  <2>1. ~aborted => /\ Owned(contextManager)' /\ ~contextManager'.tracingOwns
                    /\ contextManager.profilingSet => contextManager'.profilingSet
    <3> SUFFICES ASSUME ~aborted
                 PROVE  /\ Owned(contextManager') /\ ~contextManager'.tracingOwns
                        /\ contextManager.profilingSet => contextManager'.profilingSet
      BY DEF Owned
    <3>1. Owned(contextManager) /\ contextManager \in Managers
          /\ (contextManager.tracingOwns => "tracing" \in pipelines)
      BY DEF SdkInv, ContextInv, SdkVarsOK
    <3> QED
      BY <1>1, <3>1, ClaimsOwned
  <2> QED
    BY <1>1, <1>2, <2>1 DEF SdkInv, ContextInv
<1> QED
  BY <1>2, <1>3, <1>4, <1>5, <1>6 DEF SdkInv, Inv

LEMMA StartKeepsSdk ==
  ASSUME SdkInv, NEW on \in StartOptions, Start(on)
  PROVE  SdkInv'
<1>1. PICK c \in Controllers, t \in ThrowsAt(on) :
        /\ controller = NoController /\ phase[c] = "new"
        /\ InitialSession(c, "profiling" \in on)
        /\ controller' = IF t = "profiling" THEN NoController ELSE c
        /\ IF Registers(on) /\ Done("snapshots", t)
             THEN snapshot' = SnapshotStarted(on)
             ELSE UNCHANGED snapshot
        /\ effective' = IF Done("snapshots", t)
                          THEN [InitialEffective("profiling" \in on) EXCEPT
                                  !.calls = snapshot'.active,
                                  !.callsInterval = IF Registers(on) THEN SnapshotInterval ELSE @]
                          ELSE InitialEffective("profiling" \in on)
        /\ contextManager' = ContextManagerAfter(on, t)
        /\ tracingStarted' = (tracingStarted \/ ("tracing" \in on /\ Done("assert", t)))
        /\ exporterEnv' = (exporterEnv /\ t # "spanProcessor")
        /\ pipelines' = pipelines \cup StartedPipelines(on, t)
        /\ aborted' = (aborted \/ t = "spanProcessor")
        /\ overlapped' = (overlapped \/ ~StopsOver)
        /\ UNCHANGED <<queue, job, flushing, jobs, last>>
  <2> DEFINE c == CHOOSE k \in Controllers : phase[k] = "new"
  <2>1. c \in Controllers /\ phase[c] = "new"
    BY DEF Start
  <2> HIDE DEF c
  <2> QED
    BY <2>1 DEF Start, c
<1> DEFINE enabled == "profiling" \in on
<1>2. enabled \in BOOLEAN /\ Inv /\ pipelines = {} /\ ~snapshot.registered
  BY <1>1 DEF SdkInv, LetGoIsClosed
<1>3. SessionInv' /\ JobTypeOK' /\ JobInv'
  BY <1>1, <1>2, InitialSessionKeeps
<1>4. ReportTypeOK' /\ ReportInv'
  <2>1. /\ InitialEffective(enabled) \in Effectives
        /\ InitialEffective(enabled).calls = snapshot.active
        /\ InitialEffective(enabled).callsInterval = snapshot.interval
    BY <1>2, InitialEffectiveType DEF Inv, ReportInv
  <2>2. native.loaded \in BOOLEAN
    BY <1>2 DEF Inv, SessionInv, SessionTypeOK, Natives
  <2>3. CASE Registers(on) /\ Done("snapshots", t)
    <3>1. /\ snapshot' = SnapshotStarted(on)
          /\ effective' = [InitialEffective(enabled) EXCEPT !.calls = snapshot'.active,
                                                           !.callsInterval = SnapshotInterval]
      BY <1>1, <2>3
    <3>2. /\ snapshot' \in [registered : BOOLEAN, active : BOOLEAN, interval : Intervals]
          /\ snapshot'.interval = SnapshotInterval
          /\ ~snapshot'.registered => ~snapshot'.active
      BY <2>2, <3>1, IntervalAssumption DEF SnapshotStarted
    <3>3. /\ effective' \in Effectives /\ effective'.calls = snapshot'.active
          /\ effective'.callsInterval = SnapshotInterval
      BY <2>1, <3>1, <3>2, IntervalAssumption DEF Effectives
    <3> QED
      BY <3>2, <3>3 DEF ReportTypeOK, ReportInv
  <2>4. CASE ~(Registers(on) /\ Done("snapshots", t))
    <3>1. snapshot' = snapshot
      BY <1>1, <2>4
    <3>2. effective' \in Effectives /\ effective'.calls = snapshot.active
          /\ effective'.callsInterval = snapshot.interval
      <4>1. CASE Done("snapshots", t)
        <5>1. effective' = [InitialEffective(enabled) EXCEPT
                              !.calls = snapshot.active,
                              !.callsInterval = InitialEffective(enabled).callsInterval]
          BY <1>1, <2>4, <3>1, <4>1
        <5>2. snapshot.active \in BOOLEAN
          BY <1>2 DEF Inv, ReportTypeOK
        <5> QED
          BY <2>1, <5>1, <5>2 DEF Effectives
      <4>2. CASE ~Done("snapshots", t)
        BY <1>1, <2>1, <4>2
      <4> QED
        BY <4>1, <4>2
    <3> QED
      BY <1>2, <3>1, <3>2 DEF Inv, ReportTypeOK, ReportInv
  <2> QED
    BY <2>3, <2>4
<1>5. contextManager \in Managers /\ contextManager' \in Managers
  <2>1. contextManager \in Managers
    BY DEF SdkInv, SdkVarsOK
  <2>2. /\ ClaimedByProfiling(contextManager) \in Managers
        /\ EnsureProfilingContextManager(contextManager) \in Managers
        /\ EnsureProfilingContextManager(ClaimedByProfiling(contextManager)) \in Managers
    BY <2>1, ClaimsType
  <2> QED
    BY <1>1, <2>1, <2>2, ClaimsType DEF ContextManagerAfter
<1>6. SdkVarsOK'
  <2>1. StartedPipelines(on, t) \subseteq Pipelines
    BY DEF StartedPipelines
  <2>2. (Done("assert", t) \in BOOLEAN) /\ (StopsOver \in BOOLEAN)
    BY DEF Done, StopsOver
  <2> QED
    BY <1>1, <1>5, <2>1, <2>2 DEF SdkInv, SdkVarsOK
<1>7. /\ \A d \in Controllers : d # c => running'[d] = running[d] /\ phase'[d] = phase[d]
      /\ phase'[c] = IF InitialThrows(enabled) THEN "closing" ELSE "up"
      /\ running'[c] # NoSession => enabled /\ native.loaded /\ ~InitialThrows(enabled)
      /\ running[c] = NoSession /\ job[c] = NoJob /\ queue[c] = <<>>
  <2>1. \/ running' = running
        \/ enabled /\ CanStart(native) /\ running' = [running EXCEPT ![c] = Len(sessions) + 1]
    BY <1>1 DEF InitialSession, StartCpu
  <2>2. running[c] = NoSession /\ job[c] = NoJob /\ queue[c] = <<>>
    BY <1>1, <1>2 DEF Inv, JobInv
  <2> QED
    BY <1>1, <1>2, <2>1, <2>2 DEF InitialSession, InitialThrows, CanStart, Inv, JobTypeOK,
                                 SessionInv, SessionTypeOK
<1>8. t = "profiling" <=> InitialThrows(enabled)
  BY ThrowsAtProfiling
<1>9. LetGoIsClosed'
  <2>1. \A d \in Controllers : Closed(d)
    BY <1>1, ControllerAssumption DEF SdkInv, LetGoIsClosed
  <2>2. \A d \in Controllers : d # controller' => Closed(d)'
    BY <1>1, <1>7, <1>8, <2>1 DEF Closed, EndsInStop
  <2>3. controller' # NoController => phase'[controller'] = "up"
    BY <1>1, <1>7, <1>8
  <2>4. controller' = NoController => pipelines' = {} /\ ~snapshot'.registered
    BY <1>1, <1>2, ControllerAssumption, StepOrder DEF StartedPipelines
  <2> QED
    BY <2>2, <2>3, <2>4 DEF LetGoIsClosed
<1>10. ContextInv'
  <2> SUFFICES ASSUME ~aborted'
               PROVE  /\ Owned(contextManager')
                      /\ contextManager'.tracingOwns => "tracing" \in pipelines'
                      /\ "opamp" \in pipelines' => contextManager'.profilingSet
                      /\ \A d \in Controllers : Willing(d)' => contextManager'.profilingSet
    BY DEF ContextInv, Owned
  <2> DEFINE m1 == IF enabled THEN ClaimedByProfiling(contextManager) ELSE contextManager
             m2 == IF Registers(on) /\ Done("snapshots", t)
                     THEN EnsureProfilingContextManager(m1) ELSE m1
             m3 == IF "tracing" \in on /\ Done("propagator", t) THEN ClaimedByTracing(m2) ELSE m2
  <2>1. /\ Owned(contextManager) /\ ~contextManager.tracingOwns /\ t # "spanProcessor"
        /\ \A d \in Controllers : Willing(d) => contextManager.profilingSet
    BY <1>1, <1>2 DEF SdkInv, ContextInv
  <2>2. /\ m1 \in Managers /\ Owned(m1) /\ ~m1.tracingOwns
        /\ enabled /\ native.loaded => m1.profilingSet
        /\ contextManager.profilingSet => m1.profilingSet
    <3>1. m1 \in Managers /\ Owned(m1)
          /\ (enabled /\ native.loaded => m1.profilingSet)
          /\ (contextManager.profilingSet => m1.profilingSet)
      BY <1>5, <2>1, ClaimsType, ClaimsOwned
    <3>2. ~m1.tracingOwns
      BY <1>5, <2>1, <3>1 DEF ClaimedByProfiling, EnsureProfilingContextManager, Claimed, Managers
    <3> QED
      BY <3>1, <3>2
  <2>3. /\ m2 \in Managers /\ Owned(m2) /\ ~m2.tracingOwns
        /\ m1.profilingSet => m2.profilingSet
        /\ Registers(on) /\ Done("snapshots", t) => m2.profilingSet
    <3>1. m2 \in Managers /\ Owned(m2)
          /\ (m1.profilingSet => m2.profilingSet)
          /\ (Registers(on) /\ Done("snapshots", t) => m2.profilingSet)
      BY <2>2, ClaimsType, ClaimsOwned
    <3>2. ~m2.tracingOwns
      BY <2>2, <3>1 DEF Owned, Managers, EnsureProfilingContextManager, Claimed
    <3> QED
      BY <3>1, <3>2
  <2>4. /\ Owned(m3) /\ (m2.profilingSet => m3.profilingSet)
        /\ m3.tracingOwns => "tracing" \in on /\ Done("propagator", t)
    BY <2>3, ClaimsType, ClaimsOwned
  <2>5. contextManager' = m3
    BY <1>1 DEF ContextManagerAfter
  <2>6. m3.tracingOwns => "tracing" \in pipelines'
    BY <1>1, <2>1, <2>4, StepOrder DEF StartedPipelines, Pipelines
  <2>7. "opamp" \in pipelines' => m3.profilingSet
    <3>1. "opamp" \in pipelines' => "opamp" \in on /\ Done("opamp", t)
      BY <1>1, <1>2 DEF StartedPipelines
    <3>2. "opamp" \in on => Registers(on)
      BY DEF Registers
    <3> QED
      BY <2>3, <2>4, <3>1, <3>2, StepOrder
  <2>8. ASSUME NEW d \in Controllers, Willing(d)' PROVE m3.profilingSet
    <3>1. Willing(d) \/ (d = c /\ running'[c] # NoSession)
      BY <1>1, <1>7, <2>8 DEF Willing
    <3> QED
      BY <1>7, <2>1, <2>2, <2>3, <2>4, <3>1
  <2> QED
    BY <2>4, <2>5, <2>6, <2>7, <2>8
<1> QED
  BY <1>2, <1>3, <1>4, <1>6, <1>9, <1>10 DEF SdkInv, Inv

LEMMA SdkInvStep == SdkInv /\ [SdkNext]_allVars => SdkInv'
<1> SUFFICES ASSUME SdkInv, [SdkNext]_allVars PROVE SdkInv'
  OBVIOUS
<1>1. ASSUME NEW c \in Controllers, Job(c) PROVE SdkInv'
  BY <1>1, JobKeeps
<1>2. ASSUME NEW on \in StartOptions, Start(on) PROVE SdkInv'
  BY <1>2, StartKeepsSdk
<1>3. CASE Stop
  BY <1>3, StopKeeps
<1>4. ASSUME NEW cfg \in Configs, RemoteConfiguration(cfg) PROVE SdkInv'
  BY <1>4, RemoteConfigurationKeeps
<1>5. ASSUME UNCHANGED sdkVars, Inv', UNCHANGED <<phase, queue, job, running, snapshot>>
      PROVE  SdkInv'
  <2>1. SdkVarsOK'
    BY <1>5 DEF SdkInv, SdkVarsOK, sdkVars
  <2>2. LetGoIsClosed'
    BY <1>5 DEF SdkInv, LetGoIsClosed, Closed, sdkVars
  <2>3. ContextInv'
    BY <1>5 DEF SdkInv, ContextInv, Willing, Owned, sdkVars
  <2> QED
    BY <1>5, <2>1, <2>2, <2>3 DEF SdkInv
<1>6. CASE RunImmediate /\ UNCHANGED sdkVars
  <2>1. Inv'
    <3>1. SessionInv'
      BY <1>6, ImmediateKeeps DEF SdkInv, Inv
    <3> QED
      BY <1>6, <3>1 DEF RunImmediate, SdkInv, Inv, JobTypeOK, ReportTypeOK, JobInv, ReportInv
  <2> QED
    BY <1>5, <1>6, <2>1 DEF RunImmediate
<1>7. CASE UNCHANGED allVars
  <2>1. UNCHANGED vars /\ UNCHANGED sdkVars
    BY <1>7 DEF allVars
  <2>2. Inv'
    BY <2>1, InvStep DEF SdkInv
  <2> QED
    BY <1>5, <2>1, <2>2 DEF vars
<1> QED
  BY <1>1, <1>2, <1>3, <1>4, <1>6, <1>7 DEF SdkNext, Continuation, FlushEnds

LEMMA SdkInvAlways == SdkSpec => []SdkInv
BY SdkInvInit, SdkInvStep, PTL DEF SdkSpec

\* Every variable keeps its type.
THEOREM SdkTypeCorrect == SdkSpec => []SdkTypeOK
<1>1. SdkInv => SdkTypeOK
  BY DEF SdkInv, Inv, SessionInv, SessionTypeOK, JobTypeOK, ReportTypeOK, TypeOK,
         SessionRecords, Natives, Effectives, SdkVarsOK, Managers, SdkTypeOK
<1> QED
  BY <1>1, SdkInvAlways, PTL

\* However often the SDK was started and stopped, waited for or not, and wherever
\* a start() threw: once it is stopped and its stops are over, nothing samples.
THEOREM StoppedIsOffCorrect == SdkSpec => []StoppedIsOff
<1>1. SdkInv => StoppedIsOff
  <2> SUFFICES ASSUME SdkInv, controller = NoController, StopsOver
               PROVE  native.cpu = 0 /\ pipelines = {} /\ ~snapshot.registered /\ NothingReadyLeaks
    BY DEF StoppedIsOff
  <2>1. \A c \in Controllers : running[c] = NoSession
    BY ControllerAssumption DEF SdkInv, LetGoIsClosed, Closed, StopsOver
  <2> QED
    BY <2>1 DEF SdkInv, LetGoIsClosed, Inv, SessionInv, RunningIsNative
<1> QED
  BY <1>1, SdkInvAlways, PTL

\* While a session runs the context manager is profiling's, unless a start() threw
\* in the middle of startTracing().
THEOREM SessionsCorrelateCorrect == SdkSpec => []SessionsCorrelate
<1>1. SdkInv => SessionsCorrelate
  BY DEF SdkInv, ContextInv, Willing, Owned, SessionsCorrelate
<1> QED
  BY <1>1, SdkInvAlways, PTL

(***************************************************************************)
(* A program that waits for its stops has one controller at a time that is *)
(* not idle, and what holds of a lone controller holds of it.              *)
(***************************************************************************)

Idle(d) == running[d] = NoSession /\ job[d] = NoJob /\ queue[d] = <<>>

FreshInv ==
  controller # NoController /\ ~overlapped =>
    /\ \A d \in Controllers : d # controller => Idle(d)
    /\ EffectiveCpu(controller)

LEMMA FreshFrom ==
  ASSUME NEW c \in Controllers, controller' = c, EffectiveCpu(c)',
         \A d \in Controllers : d # c => Idle(d)'
  PROVE  FreshInv'
BY DEF FreshInv, EffectiveCpu, AtRest, Idle

LEMMA FreshJob ==
  ASSUME SdkInv, FreshInv, NEW c \in Controllers, Job(c)
  PROVE  FreshInv'
<1>1. (BeginJob(c) \/ EndJob(c)) /\ UNCHANGED <<controller, overlapped>> /\ Inv
  BY DEF Job, SdkInv
<1> SUFFICES ASSUME controller # NoController, ~overlapped
             PROVE  FreshInv'
  BY <1>1 DEF FreshInv
<1>2. c = controller /\ Alone(c) /\ EffectiveCpu(c)
      /\ \A d \in Controllers : d # c => Idle(d)
  <2>1. ~Idle(c)
    BY <1>1 DEF BeginJob, EndJob, Idle
  <2> QED
    BY <2>1 DEF FreshInv, Idle, Alone
<1>3. CASE BeginJob(c)
  <2> DEFINE j == Head(queue[c])
  <2>1. job[c] = NoJob /\ j \in Jobs /\ phase[c] # "new"
    BY <1>1, <1>3, QueuedJob DEF BeginJob
  <2>2. \A d \in Controllers : d # c => Idle(d)'
    <3>1. queue' = [queue EXCEPT ![c] = Tail(@)]
          /\ \A d \in Controllers : d # c => running'[d] = running[d] /\ job'[d] = job[d]
      BY <1>1, <1>3, BeginJobLeaves
    <3>2. \A d \in Controllers : d # c => queue'[d] = queue[d]
      BY <1>1, <3>1 DEF Inv, JobTypeOK
    <3> QED
      BY <1>2, <3>1, <3>2 DEF Idle
  <2>3. CASE StopsFirst(c, j)
    <3>1. job'[c] # NoJob
      BY <1>1, <1>3, <2>1, <2>3, JobParts DEF BeginJob, Inv, JobTypeOK
    <3> QED
      BY <1>1, <1>2, <2>2, <3>1, FreshFrom DEF EffectiveCpu, AtRest
  <2>4. CASE ~StopsFirst(c, j)
    <3>1. Finish(c, j, FALSE)
      BY <1>3, <2>4 DEF BeginJob
    <3>2. EffectiveCpu(c)'
      BY <1>1, <1>2, <2>1, <3>1, FinishEffective DEF AtRest
    <3> QED
      BY <1>1, <1>2, <2>2, <3>2, FreshFrom
  <2> QED
    BY <2>3, <2>4
<1>4. CASE EndJob(c)
  <2>1. Finish(c, job[c], TRUE) /\ job[c] \in Jobs /\ running[c] = NoSession
    BY <1>1, <1>4, AwaitingJob DEF EndJob
  <2>2. EffectiveCpu(c)'
    BY <1>1, <1>2, <2>1, FinishEffective
  <2>3. \A d \in Controllers : d # c => Idle(d)'
    BY <1>1, <1>2, <1>4, EndJobLeaves DEF Idle
  <2> QED
    BY <1>1, <1>2, <2>2, <2>3, FreshFrom
<1> QED
  BY <1>1, <1>3, <1>4

LEMMA FreshStart ==
  ASSUME SdkInv, NEW on \in StartOptions, Start(on)
  PROVE  FreshInv'
<1> SUFFICES ASSUME controller' # NoController, ~overlapped'
             PROVE  FreshInv'
  BY DEF FreshInv
<1>1. PICK c \in Controllers, t \in ThrowsAt(on) :
        /\ controller = NoController
        /\ InitialSession(c, "profiling" \in on)
        /\ controller' = IF t = "profiling" THEN NoController ELSE c
        /\ effective' = IF Done("snapshots", t)
                          THEN [InitialEffective("profiling" \in on) EXCEPT
                                  !.calls = snapshot'.active,
                                  !.callsInterval = IF Registers(on) THEN SnapshotInterval ELSE @]
                          ELSE InitialEffective("profiling" \in on)
        /\ UNCHANGED <<queue, job>>
  <2> DEFINE c == CHOOSE k \in Controllers : phase[k] = "new"
  <2>1. c \in Controllers /\ phase[c] = "new"
    BY DEF Start
  <2> HIDE DEF c
  <2> QED
    BY <2>1 DEF Start, c
<1> DEFINE enabled == "profiling" \in on
<1>2. controller' = c /\ Inv /\ SessionInv' /\ enabled \in BOOLEAN
  BY <1>1, StartKeepsSdk DEF SdkInv, Inv
<1>3. \A d \in Controllers : Idle(d)
  <2>1. StopsOver
    BY DEF Start, SdkInv, SdkVarsOK
  <2> QED
    BY <1>1, <2>1, ControllerAssumption DEF SdkInv, LetGoIsClosed, Closed, StopsOver, Idle
<1>4. \A d \in Controllers : d # c => Idle(d)'
  <2>1. running' = running \/ running' = [running EXCEPT ![c] = Len(sessions) + 1]
    BY <1>1 DEF InitialSession, StartCpu
  <2> QED
    BY <1>1, <1>2, <1>3, <2>1 DEF Idle, Inv, SessionInv, SessionTypeOK
<1>5. EffectiveCpu(c)'
  <2>1. InitialEffective(enabled) \in Effectives
    BY <1>2, InitialEffectiveType
  <2>2. /\ effective'.cpu = InitialEffective(enabled).cpu
        /\ effective'.memory = InitialEffective(enabled).memory
        /\ effective'.interval = InitialEffective(enabled).interval
    BY <1>1, <2>1 DEF Effectives
  <2>3. Alone(c)
    BY <1>3 DEF Alone, Idle
  <2> QED
    BY <1>1, <1>2, <2>2, <2>3, InitialEffectiveHonest
<1> QED
  BY <1>2, <1>4, <1>5, FreshFrom

LEMMA FreshStep == SdkInv /\ FreshInv /\ [SdkNext]_allVars => FreshInv'
<1> SUFFICES ASSUME SdkInv, FreshInv, [SdkNext]_allVars PROVE FreshInv'
  OBVIOUS
<1>1. ASSUME NEW c \in Controllers, Job(c) PROVE FreshInv'
  BY <1>1, FreshJob
<1>2. ASSUME NEW on \in StartOptions, Start(on) PROVE FreshInv'
  BY <1>2, FreshStart
<1>3. CASE Stop
  BY <1>3 DEF Stop, FreshInv
<1>4. ASSUME UNCHANGED <<controller, overlapped, running, job, phase, effective>>,
             native'.cpu = native.cpu,
             \A d \in Controllers : d # controller => queue'[d] = queue[d],
             \A i \in DOMAIN sessions : sessions'[i].interval = sessions[i].interval
                                        /\ sessions'[i].memory = sessions[i].memory
      PROVE  FreshInv'
  <2>1. controller # NoController => controller \in Controllers
    BY DEF SdkInv, SdkVarsOK
  <2>2. controller # NoController /\ running[controller] # NoSession =>
          sessions'[running[controller]].memory = sessions[running[controller]].memory
    BY <1>4, <2>1, SettingsKept DEF SdkInv
  <2> QED
    BY <1>4, <2>1, <2>2 DEF FreshInv, Idle, EffectiveCpu, AtRest
<1>5. ASSUME NEW cfg \in Configs, RemoteConfiguration(cfg) PROVE FreshInv'
  <2>1. /\ UNCHANGED <<controller, overlapped, running, job, phase, effective, native, sessions>>
        /\ queue' = [queue EXCEPT ![controller] = Append(@, [kind |-> "apply", cfg |-> cfg])]
    BY <1>5 DEF RemoteConfiguration, ApplyRemoteConfiguration, Enqueue, Chain, sdkVars
  <2>2. \A d \in Controllers : d # controller => queue'[d] = queue[d]
    BY <2>1 DEF SdkInv, Inv, JobTypeOK
  <2> QED
    BY <2>1, <2>2, <1>4
<1>6. CASE RunImmediate /\ UNCHANGED sdkVars
  <2>1. UNCHANGED <<controller, overlapped, running, job, phase, effective, queue>>
    BY <1>6 DEF RunImmediate, sdkVars
  <2> QED
    BY <1>4, <1>6, <2>1, ImmediateSettings DEF SdkInv
<1>7. CASE UNCHANGED allVars
  BY <1>4, <1>7 DEF allVars, vars, sdkVars
<1> QED
  BY <1>1, <1>2, <1>3, <1>5, <1>6, <1>7 DEF SdkNext, Continuation, FlushEnds

\* A program that waits for its stops gets the effective state of the run it is
\* in, whatever the runs before left in the process.
THEOREM FreshStateHonestCorrect == SdkSpec => []FreshStateHonest
<1>1. SdkInv /\ FreshInv => FreshStateHonest
  <2> SUFFICES ASSUME SdkInv, FreshInv, controller # NoController, ~overlapped, AtRest(controller)
               PROVE  /\ effective.cpu = (native.cpu # 0)
                      /\ effective.cpu => effective.interval = native.cpu
                      /\ effective.calls = snapshot.active
    BY DEF FreshStateHonest
  <2>1. phase[controller] # "new" /\ effective.cpu \in BOOLEAN
    BY DEF SdkInv, LetGoIsClosed, Inv, ReportTypeOK, Effectives
  <2> QED
    BY <2>1 DEF FreshInv, EffectiveCpu, SdkInv, Inv, ReportInv
<1>2. SdkInit => FreshInv
  BY DEF SdkInit, FreshInv
<1> QED
  BY <1>1, <1>2, FreshStep, SdkInvAlways, PTL DEF SdkSpec
=============================================================================
