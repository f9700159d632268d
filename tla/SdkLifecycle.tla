---------------------------- MODULE SdkLifecycle ----------------------------
(***************************************************************************)
(* start() and stop() of the SDK (src/start.ts) as often as the program    *)
(* likes, with startTracing() and stopTracing() (src/tracing/index.ts) and *)
(* the context manager that tracing and profiling compete for.  It is      *)
(* built on module ProfilingController: each start() makes a controller,   *)
(* whose jobs go on after stop() has returned its promise.                 *)
(*                                                                         *)
(* start() is one step.  It may throw half way: an assertion fails, the    *)
(* native profiler still runs, or a factory of the user's options throws;  *)
(* what has been started by then stays.                                    *)
(*                                                                         *)
(* Simplifications: the options are the features that are enabled in the   *)
(* end; OpAMP is with remote configuration; an entry missing in the        *)
(* effective state is that of a feature that is off; what the pipelines    *)
(* of the OpenTelemetry SDK do is left out.                                *)
(***************************************************************************)
EXTENDS ProfilingController

CONSTANTS
  StartOptions,   \* the features start() may be called with
  NoController,
  Nowhere         \* start() does not throw

Pipelines == {"tracing", "logging", "secureapp", "metrics", "opamp"}

Features == Pipelines \cup {"profiling", "snapshots"}

ASSUME StartAssumption ==
  /\ StartOptions \subseteq SUBSET Features
  /\ \A on \in StartOptions : "secureapp" \in on => "logging" \in on
ASSUME ControllerAssumption == NoController \notin Controllers
ASSUME NowhereAssumption ==
  Nowhere \notin {"profiling", "assert", "propagator", "spanProcessor"} \cup Pipelines

VARIABLES
  controller,      \* running.profilingController
  pipelines,       \* the other features of running that are set
  tracingStarted,  \* isStarted of tracing/index.ts
  contextManager,  \* holder, the owner of the global context manager; tracingOwns
                   \* (tracingContextManagerEnabled), profilingSet
                   \* (profilingContextManagerEnabled)
  exporterEnv,     \* OTEL_TRACES_EXPORTER is as the user set it
  overlapped,      \* history: a start() did not wait for the stop() before it
  aborted          \* history: startTracing() threw once it had claimed the context manager

sdkVars == <<controller, pipelines, tracingStarted, contextManager, exporterEnv,
             overlapped, aborted>>

allVars == <<vars, sdkVars>>

SdkInit ==
  /\ Init /\ ~snapshot.registered
  /\ controller = NoController /\ pipelines = {}
  /\ tracingStarted = FALSE
  /\ contextManager = [holder |-> "none", tracingOwns |-> FALSE, profilingSet |-> FALSE]
  /\ exporterEnv = TRUE /\ overlapped = FALSE /\ aborted = FALSE

----------------------------------------------------------------------------
(* The context manager. *)

\* setGlobalContextManager of the OpenTelemetry API does not replace one.
Claimed(m, who) == IF m.holder = "none" THEN [m EXCEPT !.holder = who] ELSE m

EnsureProfilingContextManager(m) ==
  IF m.profilingSet THEN m ELSE [Claimed(m, "profiling") EXCEPT !.profilingSet = TRUE]

\* What startProfiling() does about it, with the native extension.
ClaimedByProfiling(m) ==
  IF native.loaded /\ ~m.tracingOwns THEN EnsureProfilingContextManager(m) ELSE m

\* startTracing() and stopTracing().
ClaimedByTracing(m) ==
  IF m.profilingSet THEN m ELSE [Claimed(m, "tracing") EXCEPT !.tracingOwns = TRUE]

GivenUpByTracing(m) ==
  IF m.tracingOwns THEN [m EXCEPT !.holder = "none", !.tracingOwns = FALSE] ELSE m

----------------------------------------------------------------------------
(* start() *)

\* What start() does, in order; startTracing() is in three parts.
Steps == <<"profiling", "snapshots", "assert", "propagator", "spanProcessor",
           "logging", "secureapp", "metrics", "opamp">>

Done(step, throwing) ==
  throwing = Nowhere \/ \E i, j \in DOMAIN Steps :
                            i < j /\ Steps[i] = step /\ Steps[j] = throwing

\* The steps at which start(on) may throw, or not at all.
ThrowsAt(on) ==
  IF InitialThrows("profiling" \in on) THEN {"profiling"}
  ELSE IF "tracing" \in on /\ tracingStarted THEN {"assert"}
  ELSE {Nowhere} \cup (on \cap {"logging", "secureapp", "metrics"})
         \cup {step \in {"propagator", "spanProcessor"} : "tracing" \in on}

\* Mutant: no snapshot profiler is registered for remote configuration.
RegistersAsAsked(on) == "snapshots" \in on

\* A snapshot profiler is registered, inactive if only for remote configuration.
Registers(on) == on \cap {"snapshots", "opamp"} # {}

\* Mutant: the default sampling interval is missing.
SnapshotWithoutDefault(on) ==
  [registered |-> native.loaded, active |-> native.loaded /\ "snapshots" \in on, interval |-> 0]

\* The snapshot profiler and what is recorded of it, once start() is done with it.
SnapshotStarted(on) ==
  [registered |-> native.loaded, active |-> native.loaded /\ "snapshots" \in on,
   interval |-> SnapshotInterval]

ContextManagerAfter(on, throwing) ==
  LET profiling == IF "profiling" \in on THEN ClaimedByProfiling(contextManager)
                                         ELSE contextManager
      snapshots == IF Registers(on) /\ Done("snapshots", throwing)
                     THEN EnsureProfilingContextManager(profiling) ELSE profiling
  IN IF "tracing" \in on /\ Done("propagator", throwing)
       THEN ClaimedByTracing(snapshots) ELSE snapshots

\* A pipeline is remembered once it has started.
StartedPipelines(on, throwing) ==
  {p \in Pipelines \cap on :
     Done(IF p = "tracing" THEN "spanProcessor" ELSE p, throwing)}

\* Stops are over when no controller has a job left.
StopsOver == \A c \in Controllers : queue[c] = <<>> /\ job[c] = NoJob

\* start() when the SDK is not running; otherwise it throws at once.
Start(on) ==
  /\ controller = NoController /\ pipelines \cap {"tracing", "logging", "metrics"} = {}
  /\ \E c \in Controllers : phase[c] = "new"
  /\ LET c == CHOOSE k \in Controllers : phase[k] = "new" IN
     /\ InitialSession(c, "profiling" \in on)
     /\ \E throwing \in ThrowsAt(on) :
          /\ controller' = IF throwing = "profiling" THEN NoController ELSE c
          /\ IF Registers(on) /\ Done("snapshots", throwing)
               THEN snapshot' = SnapshotStarted(on)
               ELSE UNCHANGED snapshot
          /\ effective' = IF Done("snapshots", throwing)
                            THEN [InitialEffective("profiling" \in on) EXCEPT
                                    !.calls = snapshot'.active,
                                    !.callsInterval = IF Registers(on) THEN SnapshotInterval ELSE @]
                            ELSE InitialEffective("profiling" \in on)
          /\ contextManager' = ContextManagerAfter(on, throwing)
          /\ tracingStarted' = (tracingStarted \/ ("tracing" \in on /\ Done("assert", throwing)))
          /\ exporterEnv' = (exporterEnv /\ throwing # "spanProcessor")
          /\ pipelines' = pipelines \cup StartedPipelines(on, throwing)
          /\ aborted' = (aborted \/ throwing = "spanProcessor")
  /\ overlapped' = (overlapped \/ ~StopsOver)
  /\ UNCHANGED <<queue, job, flushing, jobs, last>>

----------------------------------------------------------------------------
(* stop() *)

\* Mutant: a start() that did not get past tracing has nothing to stop.
StoppedIfTracing == IF "tracing" \in pipelines THEN controller ELSE NoController

\* The controller whose stopAll() is called.
StoppedController == controller

\* stop() up to the promise it returns.
Stop ==
  /\ IF StoppedController # NoController
       THEN /\ Chain(StoppedController, StopJob)
            /\ phase' = [phase EXCEPT ![StoppedController] = "closing"]
       ELSE UNCHANGED <<phase, queue, job, flushing, running, sessions, immediates, native,
                        jobs, last>>
  /\ snapshot' = [snapshot EXCEPT !.registered = FALSE, !.active = FALSE]
  /\ effective' = [cpu |-> FALSE, memory |-> FALSE, interval |-> 0, calls |-> FALSE,
                   callsInterval |-> snapshot.interval]
  /\ contextManager' = IF "tracing" \in pipelines THEN GivenUpByTracing(contextManager)
                                                  ELSE contextManager
  /\ controller' = NoController /\ pipelines' = {}
  /\ UNCHANGED <<tracingStarted, exporterEnv, overlapped, aborted>>

----------------------------------------------------------------------------
(* The rest of the process. *)

\* A job starts a session, or tries to: the context manager is claimed.
ClaimIf(starts) ==
  contextManager' = IF starts THEN ClaimedByProfiling(contextManager) ELSE contextManager

Job(c) ==
  /\ \/ /\ BeginJob(c)
        /\ ClaimIf(~StopsFirst(c, Head(queue[c])) /\ Starts(c, Head(queue[c]), FALSE))
     \/ EndJob(c) /\ ClaimIf(Starts(c, job[c], TRUE))
  /\ UNCHANGED <<controller, pipelines, tracingStarted, exporterEnv, overlapped, aborted>>

\* The OpAMP client hands over a remote configuration.
RemoteConfiguration(cfg) ==
  /\ "opamp" \in pipelines
  /\ ApplyRemoteConfiguration(controller, cfg)
  /\ UNCHANGED sdkVars

Continuation == \E c \in Controllers : ~flushing[c] /\ Job(c)

FlushEnds(c) == ~ContinuationDue /\ flushing[c] /\ Job(c)

\* The program may call stop() and start() in one go.
SdkNext ==
  \/ Continuation
  \/ \E on \in StartOptions : Start(on)
  \/ Stop
  \/ \E c \in Controllers : FlushEnds(c)
  \/ ~ContinuationDue /\ \E cfg \in Configs : RemoteConfiguration(cfg)
  \/ ~ContinuationDue /\ RunImmediate /\ UNCHANGED sdkVars

\* Jobs run and the flushes they await end.
SdkSpec ==
  /\ SdkInit /\ [][SdkNext]_allVars
  /\ WF_allVars(Continuation)
  /\ \A c \in Controllers : WF_allVars(FlushEnds(c))

----------------------------------------------------------------------------
(* Properties. *)

SdkTypeOK ==
  /\ TypeOK
  /\ controller \in Controllers \cup {NoController}
  /\ pipelines \subseteq Pipelines
  /\ contextManager \in [holder : {"none", "tracing", "profiling"},
                         tracingOwns : BOOLEAN, profilingSet : BOOLEAN]
  /\ tracingStarted \in BOOLEAN /\ exporterEnv \in BOOLEAN
  /\ overlapped \in BOOLEAN /\ aborted \in BOOLEAN

\* However many starts and stops there were, and wherever a start() threw, when
\* the SDK is stopped and its stops are over nothing samples and nothing collects
\* but what a session leaves behind that was stopped too early.
StoppedIsOff ==
  controller = NoController /\ StopsOver =>
    /\ native.cpu = 0 /\ pipelines = {} /\ ~snapshot.registered
    /\ NothingReadyLeaks

\* Profiles can be told which span they belong to: while a session runs, the
\* context manager is profiling's, also when remote configuration started it
\* after tracing (start.ts:208), unless an earlier start() threw in the middle of
\* startTracing().
SessionsCorrelate ==
  (\E c \in Controllers : running[c] # NoSession) /\ ~aborted =>
    contextManager.holder = "profiling"

\* A program that waits for its stops gets the effective state of the run it is
\* in, and nothing of the runs before (start.ts:354).
FreshStateHonest ==
  controller # NoController /\ ~overlapped => LET c == controller IN
    AtRest(c) /\ queue[c] = <<>> =>
      /\ effective.cpu = (native.cpu # 0)
      /\ effective.cpu => effective.interval = native.cpu
      /\ effective.calls = snapshot.active

\* Once the SDK is stopped the native profiler stops, unless it is started again.
StopTurnsOff ==
  controller = NoController ~> (native.cpu = 0 \/ controller # NoController)
============================================================================
