# TLA+ models of splunk-otel-js

The Splunk distribution of OpenTelemetry JS is an agent that lives inside an application's process: it starts tracing, metrics,
logging and profiling, and an OpAMP client lets a server reconfigure the profilers while the application runs. This directory
holds models of the parts of it whose difficulty is in the order of events, the TLC runs that check them, and TLAPS proofs.

All paths below are relative to the repository root.

## The system

JavaScript runs one callback at a time, so every step of a model is one callback, from its first statement to its next `await`.
What interleaves is what happens between two callbacks: timers, HTTP responses, settled promises, `setImmediate` callbacks, and
calls of the application (`start`, `stop`, spans). The native extension runs on the same thread.

| Part | State | Operations | Correct when | Model |
|---|---|---|---|---|
| OpAMP client (`src/opamp/`) | polling timer and flags, backoff, last sent and pending effective config, last attempted remote config, apply in flight, status | start, stop, poll, response, transport error, apply settles, timer | one loop that never dies or forks; nothing is sent or applied after stop; a config is attempted once; the server learns config and status | `OpAMPClient`, `ConfigAgent` |
| Profiling controller (`src/profiling/`) | promise queue, running session, each session's intervals | startInitial, applyRemoteConfiguration, stopAll, setImmediate | jobs do not interleave; APPLIED means applied; reported state is real; nothing outlives its session | `ProfilingController` |
| Snapshot profiler (`src/tracing/snapshots/`) | active flag, counter, linger timer, interval, recorded spans | span start and end, timer, off/on, interval, start, stop | traces in flight are sampled, nothing else is; samples are reported with the period they are kept at | `SnapshotProfiler` |
| Native CPU profiler (`src/native_ext/profiling.cpp`), profiling context manager | activation stacks per context hash, bins and periods of ended activations, trace filters, start time and cutoff | enter and exit context, start, stop, collect, filters | samples are matched to the span that was active; the table is rebuilt with every profile | `NativeProfiler`, `ActivationStack`, `SpanTimeline` |
| Native arena (`src/native_ext/util/arena.cpp`) | lists of used and of free pages, an offset per page | alloc, reset | no memory is handed out twice | `PagedArena` |
| Native heap profiler | running flag | start, stop | can be turned off and on | in `ProfilingController`, without the samples |
| Effective state (`src/opamp/effective-state.ts`) | one record | record, reset | equals what runs | in `ProfilingController`, `SdkLifecycle` |
| SDK lifecycle (`src/start.ts`, `src/tracing/index.ts`) | `running`, `isStarted`, who owns the global context manager | start, stop | stop undoes start, wherever start threw and in any order of completion | `SdkLifecycle` |
| HTTP instrumentation (`instrumentations/httpdc/`), `SnapshotPropagator.ts`, `SnapshotSpanProcessor.ts` | span, details and context per exchange, snapshotted spans | diagnostics channel events, extract, span start and end, enable, disable | every span ends once, none stays open, traces continue | `HttpSpans` |
| Runtime metrics (`metrics.cpp`, `src/metrics/`) | counters | callbacks, collect, reset | every observation in one window | not modelled |
| Configuration, samplers, Next.js span processor | pure, or one remembered span | parse, map | agree with their documentation | not modelled |

How they interact: the server's answer to a poll carries a remote config; the client parses it and awaits
`ProfilingController.applyRemoteConfiguration`, which chains a job on its queue. The job stops and starts the native CPU profiler
and calls `setSnapshotProfilingActive`. All of them write the effective state, which the client's next message reports. `stop()` stops
the client first, the snapshot profiler next and the controller last, none of them awaited before the next is called. Both
profilers are entries of one native registry that outlives `stop()`. Tracing and profiling compete for the one global context
manager: the profiling one tells the native profiler of every context that is entered and exited. The propagator decides on
`extract` which traces are snapshotted and leaves the decision in the baggage, where the span processor finds it.

## The modules

### OpAMPClient

State: the client's fields under their names without the underscore (`polling`, `pollAgain`, `lastSent`, `pending`, `lastHash`,
`lastHashless`, `applyInFlight`, `status`...); `requests`, the `send()` calls being awaited, each with the server's reply once
there is one; `applies`, the `applyRemoteConfig()` calls being awaited; and the environment: `cfg` (what `getEffectiveConfig()`
returns), `srvCfg` (what the server has), `desired` (what the operator wants). `tried`, `tries` and `told` are history, read by
properties only.

Actions: `Start`, `FirstPoll` (start's continuation), `TimerFires`, `PollResumes` (an HTTP response: it contains
`processServerResponse`, `_handleRemoteConfig` up to its await and the trailing schedule), `PollFails`, `ApplySettles`, `Stop`,
`DisconnectSettles`; and of the environment `ConfigChanges`, `OperatorChanges`, `ServerProcesses`, `ServerRefuses`,
`ResponseCutOff`.
`_handleRemoteConfig` is `Ignored` (its early returns, in their order) and `Attempt` (everything else up to its await).

Abstractions: time (an armed timer may fire at any moment; only the kind of its delay is kept: now, interval, backoff), message
encoding, health and capabilities, YAML. A remote config is a hash (or none, or one that cannot be read), a body and whether the
body parses. A lost request and a lost answer are one action, before or after the server has processed the message. A response
may be ok, carry an error of the server, fail to decode, be a conflict (409) or another status. It may also be cut off in its body:
`HttpTransport.send` settles on the response's `end` or the request's `error` only, and hears neither, so the poll is awaited for
ever and the loop is over (`CutOff`, `LoopIsOver`).

`ConfigAgent` is what the remote configuration amounts to, whatever the transport: a config is taken or refused if it is not the last
one attempted, what is taken is concluded with a verdict about it, and a closed agent attempts nothing. One step of it is odd, and
the code's: a config whose hash cannot be read is refused even during the apply of another, whose verdict then follows.
`OpAMPClient` implements it (`ImplementsAgent`): `_stopping` is `closed`, the awaited apply is `applying`, the status is the verdict
and the two dedup keys stand for `last`. Polls, schedules, the server and what it knows cannot be seen from there.

### ProfilingController

State: per controller the `queue` of jobs, the `job` that awaits the stop of a session, `running`; the `sessions` made by
`startProfiling` with the intervals each has; `immediates`, the setImmediate callbacks that are due; the `native` profilers; the
snapshot profiler's activation and interval; the `effective` state. Promise continuations run before any macrotask
(`ContinuationDue`), so a job runs to its end in one step, or in two when it stops a session whose last profile is being sent.
Whether the native extension loads and a snapshot profiler is registered is chosen initially.

### SnapshotProfiler

State: the profiler's fields; `recorded`, the span processor's map; `armed` and `exporting`, its linger timers that will fire or
whose callback awaits an export; `strays`, timers left by a profiler that was stopped; `native`, with the interval set last and the
`rate` v8 samples at. v8 takes the interval when sampling starts, and with each profile the collection loop begins it may take it
again (`Collect`); the native profiler takes it at once and thins by it whatever v8 samples, so that samples are kept at the larger of
the two (`SamplePeriod`). `steady` is history: the session began as one the profiler knew for new, and its interval has not changed.
A SetSnapshotProfilingActive step is a remote configuration, which
needs a response of the OpAMP server and so comes after the setImmediate callbacks of `start()`.

### SdkLifecycle

Extends `ProfilingController` with `start()` and `stop()`. `Start` is one step, as no `await` is in it; its parts are listed in
`Steps`, and `ThrowsAt` says at which of them it may throw: what came before them stays (`Done`). `Stop` is `stop()` up to its
promise: the controller's `stopAll` is chained, the snapshot profiler unregistered, the effective state reset, the context manager
given up. The jobs go on (`Job`) while the program may start again; `start()` makes a new controller each time. `contextManager`
is who holds the global context manager and what the two flags of `tracing/index.ts` and `profiling/index.ts` say of it.
`overlapped` (a start that did not wait for the stop before it) and `aborted` (a `start()` that threw after tracing had claimed the
context manager) are history; the properties they guard do not hold without them: the effective state of the new run is then
overwritten by the queued stop of the old one, and the context manager stays with a tracing that never started.

### PagedArena, ActivationStack, NativeProfiler, SpanTimeline

`PagedArena` and `ActivationStack` are operators on records: the arena's alloc and reset, and the stack that begins in a struct and
moves to arena blocks: the first `SpillFactor` times as large (four in the code, two in the run), each further one half as large again. `NativeProfiler` is one profiler: the context manager's own stack (`contexts`), a stack of
open activations per identity hash (`stacks`), the `table` of arena, periods and bins, `startTime`, `cutoff` and the filters. A
bin's chain of fixed-size bins is the sequence of its activations with the blocks it needed. `CollectProfilingData` starts the next
profile before it looks the last one's samples up, and the lookup of the last sample makes the periods up to it (`LookedUp`); which
samples are reported is the operator `ProfilingBuildStacktraces` over any set of sample times and any moment between start time and
cutoff at which v8 may have begun the profile.

`SpanTimeline` is what that amounts to: plain stacks, a set of ended activations, and a sample that may be given any of the latest
of those active when it was taken. `NativeProfiler` implements it (`ImplementsTimeline`), with the stacks' contents for the open
activations and the union of the bins for the ended ones: neither where a stack's entries are, nor how activations are spread over
bins, nor that pages are used again can be seen from outside.

### HttpSpans

State: per exchange its `stage`, its `span` (kind, trace, recorded), whether its details are still on the message (`details`), how
often its span ended and its duration was recorded; the span processor's `snapshots`; whether instrumentation and snapshot profiler
are on. The actions are the channels' handlers (`ServerRequestStart`, `ServerResponseFinished`, `ClientRequestCreated`,
`ClientRequestReported`...) and the listeners they add (`ServerResponseError`, `ClientRequestClosed`), `ServerAborted`, which no
handler hears, and the synchronous throw of `http.request`. `Extracted` is the propagator, `BeginsSnapshot` the span processor.

Three things a reader may not expect are in the model because they are in the code. The listeners of a request run in the context
that is active when node emits it, not in the one that was extracted (`HandlerContext` has no volume). The span of an incoming
request that may not be traced is a noop span, and it passes for the parent that outgoing requests may be required to have. And the
span of a connection that is lost never ends (`test/instrumentation/httpdc/http-enable.test.ts` says so of it), so that the snapshot it began
goes on.

`MCOpAMPClient`, `MCProfilingController`, `MCSnapshotProfiler`, `MCSdkLifecycle`, `MCNativeProfiler` and `MCHttpSpans` name the sets
the configurations use. A module `XProofs` holds the proofs about module `X` (`ActivationStackProofs` those about the arena too); `FoldLemmas` has lemmas about numbers and folds.
Operators marked "Mutant" are faulty versions of the operator that follows them; no specification uses them.

## The runs

| Run | Shows |
|---|---|
| `OpAMPSafety` | The client implements `ConfigAgent`; one loop, one apply, one attempt per config, statuses pushed at once, silence after stop, with every kind of failure and pushes of every kind of hash |
| `OpAMPLiveness` | Polls begin and end until a response is cut off, the server learns the configuration (and no message omits a config the server lacks), the desired config gets a verdict |
| `ProfilingSafety` | Controller, native profilers, effective state and verdicts agree; every job finishes |
| `SnapshotSafety` | Counter, filters and native profiler in step over off/on, interval changes, restarts; a changed interval is reported with the next session; sampling ends |
| `SdkRestart` | Started and stopped at will, overlapping, throwing half way: once stopped nothing samples, sessions can be correlated, a fresh run reports its own state |
| `NativeTimeline` | Stacks, bins, periods and pages implement plain stacks and sets; samples find the latest activation, no activation lies, no memory is handed out twice, samples come at their rate |
| `HttpSpans` | Exchanges that are answered, fail, close or vanish in any order, with everything turned off and on meanwhile: one end per span, none left open, traces continue |
| `OpAMPRevert` (violated) | a configuration that changes and reverts around a lost answer is left out though the server has another |
| `OpAMPHashless` (violated) | an omitted hash is an empty, truthy array on the wire, so two hashless configs are taken for one |
| `ProfilingMemory` (violated) | heap profiling cannot be turned on a second time |
| `SnapshotLinger` (violated) | the linger timer of one snapshot stops the native profiler during the next |
| `SnapshotPeriod` (violated) | an interval that changes in mid-session is applied to the running session, whose samples are reported with the old one |

A violated run checks one statement of the repository's comments, tests or protocol files, quoted in `PROJECT.json`.

`OmittedConfigIsKnown` and `ConfigReported` are checked where they can hold: the effective configuration never returns to a former
value (`OneWaySteps`; `OpAMPRevert` shows what happens otherwise), and no 200 response stands for a message the server did not
process (an error or an undecodable body makes the client take its message for delivered, and the property does not hold with them). `ChangeIsAttempted` is checked with hashes as the client's callers in the tests give them, and violated with
hashes as the decoder gives them. `NothingReadyLeaks` sets aside the
sessions that were stopped before their setImmediate callback ran: `stop()` cannot clear what the callback sets up later. `FreshPeriodHonest` is
`PeriodHonest` for a session that was known for a new one and whose interval has not changed since: that an interval changed while the
profiler was off, between sessions or over a restart is reported with the first samples that use it. What happens otherwise is what
`SnapshotPeriod` shows; a session that begins while the linger callback awaits its export is not known for a new one either
(`Snapshots.ts:98`), so that it is reported with the former interval. Of the retry delay a server asks for, no property says anything: the
model has it as in the code, where `_poll` resets the backoff right after `processServerResponse` has set it (`OpAMPClient.ts:244, 526`).

Deadlock is checked in the run `HttpSpans` alone. Elsewhere it is not: a stopped client, an empty queue, an idle profiler and a clock at its
bound may stop for good.

### Bounds

- `OpAMPClient`: one effective configuration for the safety run (nothing in its properties compares two), two for the liveness
  run; four pushes, one of each kind of hash and one that does not parse, so that each can follow each; sequence numbers modulo
  4 or 3 (at most two messages are in flight, and only equality matters); two failures to the backoff's cap.
- `ProfilingController`: four jobs, so that a start, a change and a stop can each be followed by one more while one awaits its
  flush; two intervals; five configurations: off, on at the base and at another interval, with memory, memory alone, with and
  without callgraphs. One controller: `start()` throws while one is up (several are in `SdkLifecycle`).
- `SnapshotProfiler`: three spans, two of them roots of one trace; two intervals; three timer handles, enough for one whose
  callback awaits an export, one it lost sight of and one it knows; one stray timer. Ids are used again, so runs are unbounded.
- `SdkLifecycle`: three controllers, so that two stops can be pending when a third run begins; five jobs; five sets of options,
  one with everything, one that can start again, and three that put tracing first; remote configurations on and off.
- `NativeProfiler`: two spans of one trace and a context without a span that shares a hash with one of them; three nested
  contexts; a clock of three instants that may stand still, bins one instant wide with one activation each, up to two by chaining,
  two bins to a period, two pages of six units, which a period and two more blocks (a stack
  or a chained bin each) overflow. A third page is never needed:
  what can go wrong with a page (used twice, freed and in use, lost) shows with two. Stacks begin with one entry, so that every
  second nesting moves one to the arena. A sampling interval of two lets a profile report
  two samples or thin the second, by when it began; with it and a cutoff delay of two every reason to leave a sample out occurs.
- `HttpSpans`: two incoming and two outgoing exchanges and one upstream trace, so that a request can be made by an incoming one, by
  another, or by none; exchanges of a kind are interchangeable (symmetry; only invariants are checked).

### Fairness

The event loop runs what is due: settled promises, armed timers, setImmediate callbacks (weak fairness). Requests settle within
the transport's 30 s timeout, except those whose response is cut off in its body, which nothing settles: after one of them
`PollsForever`, `ConfigReported` and `DesiredGetsVerdict` promise nothing (`LoopIsOver`), as little as after `stop()`. A response that
merely stalls is destroyed by the timeout with an error of the request, and settles. Exports settle within the exporter's timeout.
Applies settle because the controller's jobs finish (`JobsFinish`). `SdkSpec` assumes that
every controller's jobs run and that the flush each awaits ends; nothing of the program. Nothing is
assumed of the application, the operator or the configuration. `ConfigReported` and `DesiredGetsVerdict` need a server: strong
fairness says that if the client reaches it again and again, it is also reached with a message that carries what matters.

## The proofs

All theorems hold for every value of the constants under the assumptions their modules name. The argument is the same each time: an
invariant that implies the property, is true initially and is kept by every step.

`OpAMPClientProofs`:

- `TypeCorrect`: the type invariant.
- `LoopCorrect`, and from it `SinglePollLoopCorrect`. `SinglePollLoop` alone is not inductive: that a poll in flight has no timer
  beside it says nothing of the client before its first poll or after `stop()`, and a response that arrives then must not find a
  second poll. `LoopInv` adds that before the first poll nothing is in flight, armed, applied or untold, and that after `stop()` no timer is
  armed.
- `SilentAfterStopCorrect` and `NoApplyAfterStopCorrect`, action properties, from the types and `LoopInv`; `StopIsFinalCorrect` is both.
- `OneApplyCorrect`: inductive with the types; the case of interest is a push with an unreadable hash, which replaces the status
  while an apply is in flight.
- `TriedOnceCorrect`: `TriedInv` says that once the desired config was attempted, the dedup keys (`lastHash`, `lastHashless`)
  recognise it, and that no answer on its way offers anything else that could replace them.
- `StatusIsPushedCorrect`: from the types and `LoopInv`.
- `OmittedConfigIsKnownCorrect`, under the two conditions of the run, now exact: there is a rank that every change of the effective
  configuration increases, and no 200 response stands for a message that was not processed. `KnownInv` says that what is pending is
  later than what was delivered, that the poll in flight carries what is pending or stands for what was delivered, and that without
  a pending config the server has what was delivered, or nothing. The rank is what forbids a pending config beside one in effect that
  was delivered before.
- `ChangeIsAttemptedCorrect`, under the condition that no push carries the empty hash. `KeyInv` says that the dedup keys are those of
  the config attempted last, and that an answer which offers a config is no error; so what the keys do not recognise is attempted and
  what they recognise is what was attempted. The condition is `OmittedIsAbsent`, and `OpAMPHashless` shows what happens without it.
- `AgentImplemented`, without that condition: `ConfigAgent` compares by the client's keys. From `OneApply` (the apply that settles is the
  agent's), `KeyInv` (what the keys do not recognise is new to the agent) and `NewIsOpen` (`start()`, which clears `_stopping`, has
  nothing to clear): every attempt takes or refuses, every settled apply concludes, `stop()` closes, and nothing else is seen.

`ProfilingControllerProofs`: `TypeCorrect`, `RunningIsNativeCorrect` and `NothingReadyLeaksCorrect` with any number of controllers
that share the native profiler. `SessionInv` adds to `RunningIsNative` that at most one controller runs a session, that a session's
deferred half runs once, and that a session that no longer runs had its callback or was stopped early; `JobInv` that a job awaiting
a flush has no session, and that a controller not yet made has nothing; `ReportInv` what the effective state says of callgraphs.
`VerdictHonestCorrect` and `EffectiveHonestCorrect` assume one controller (`Lone`): with two, the stop of one writes the state that
the other reports.

`SdkLifecycleProofs` builds on it: `SdkInv` is the controllers' invariant with `LetGoIsClosed` (the queue of a controller that the
SDK let go of ends in its stop job) and `ContextInv` (tracing and profiling never both believe to hold the context manager, and
whoever may start a session has claimed it). `StoppedIsOffCorrect` and `SessionsCorrelateCorrect` follow; `FreshStateHonestCorrect`
needs `FreshInv`, that in a run that waited for the stops before it no other controller can write.

`SnapshotProfilerProofs`: `TypeCorrect`, `CountBalancedCorrect` and `NoFilterLeaksCorrect` from `CountInv` (what is recorded is in
flight, and nothing is without a registered profiler); `InactiveIsQuietCorrect` and `FreshPeriodHonestCorrect` from `PeriodInv`, which
relates the interval of the profiler, of the native one and of v8: in a steady session all three are the reported one, and before the
exporter is made the interval cannot change.

`HttpSpansProofs`: `TypeCorrect`; `SettledOnceCorrect` from `SettledInv` (an exchange without a span has nothing to end, an unused
one nothing at all); `OpenIsInFlightCorrect`; `TracesContinueCorrect` from `TraceInv`, that spans have traces, that the exchange
which makes a request has started, and that a trace is named after an exchange only where that exchange began it.

`ActivationStackProofs`: that a push appends to a stack's contents and a pop drops the last (`PushAppends`, `PoppedDropsLast`),
whichever block the entries are in; `AllocatedIsOwn`, that whatever sizes are asked for no two blocks handed out since the last
reset overlap and no page is in two places, and `ResetStaysApart`, that a reset keeps it so. `ArenaOK` is inductive because a live
block ends below the offset of its page, from which the next one is taken, rounded up. These are facts of the
operators, which the native profiler's invariants rest on. `FreeIsEmpty` (the pages on the free list hold no live block) is what
lets every step keep the pages and blocks in use (`AllocKeeps`, `ResetKeeps`).

`NativeProfilerProofs`: every property of the run `NativeTimeline`, for every width and capacity of bins, periods and stacks, every
page size, and every set of contexts, spans, traces and hashes. One inductive invariant, `IInv`, has the parts

- `TableSound` and `StacksSound`: the table and every stack are well-formed and made of live blocks. `MemoryIsOwnCorrect` follows from
  these and `AllocatedIsOwn`;
- `Covered`: a recorded activation lies between start time and clock and is in the bin of every instant it was active at. This is why
  one bin is enough to search (`SamplesFindLatestCorrect`), and it is not implied by the types: `InsertActivation` has to make the
  periods up to each bin (`Reached`) and to lose nothing in the bins before it (`Inserted`);
- `IdleIsEmpty`: a stopped profiler has no activation, open or ended. `StartCpuProfiler` moves the start time without a reset, which
  would break `Covered` otherwise;
- `Witnessed`: the open activations of a hash match, in order and one to one, contexts with that hash on the context manager's stack
  which were entered no later. It makes `ActivationsAreTrueCorrect` hold although exits are told for every context and entries are
  not: the context that exits need not be the one that opened what is popped, but whichever did is still on the stack.

`TimelineImplemented` maps each step to one of `SpanTimeline` or to none: `StepIsOfAKind` says that a step opens an activation on a
stack's contents, ends the last of one, forgets everything, or changes neither. `OnlyFreePagesAreLostCorrect` comes from the same
case split. `RateIsBoundedCorrect` goes through the samples in order (`Reported`): after each, the next turn is as many intervals after
the profile began as samples were reported.

`FoldLemmas` has what the proofs about folds need. The provers cannot instantiate the library's induction theorems, which take an
operator as a parameter; but `NatLessThanWellFounded` and `WFMin` do not, and from them follows induction over a set of numbers
(`FiniteInduction`) and that a step which is a function on a set of accumulators has a fold (`FoldExists`). The folds of the community
modules are then expanded to the recursive function they choose. Sorting stays out of reach (`SortSeq` is evaluated by TLC
only), so `ProfilingBuildStacktraces` folds the sample times from the earliest to the latest by taking the largest last.

Model-checked only: the liveness properties (`PollsForever`, `ConfigReported`, `DesiredGetsVerdict`, `JobsFinish`, `StopTurnsOff`,
`QuietWhenIdle`), because fairness and `ENABLED` are out of this prover's reach.

## Plan

Done: the OpAMP client, both profilers, the SDK's lifecycle, the native profiler with its arena, the HTTP instrumentation, and the
proofs above, which state every safety property of the passing runs. Left, in this order:

1. The metrics counters: the window between collect and reset, and readers of one gauge.
2. The single remembered request span of the Next.js processor, and the rule parser of the samplers against its grammar.
3. The substitution automaton of the declarative configuration as a function against a reference definition.
4. `ConfigAgent` and `ProfilingController` composed: what the agent concludes as applied is what the profilers run. The theorems about
   each (`AgentImplemented`, `VerdictHonestCorrect`) hold of each alone.

## Not modelled

Two thirds of the implementation's lines are data rather than behaviour: generated protobuf code (`opamp.js`, `profile.js`, over 17,000
lines), the configuration schema and the mapping of configuration to SDK objects, semantic-convention attributes
(`httpdc/utils.ts`), vendored hashing and containers. So are the wrappers around third-party libraries (nocode, Elasticsearch, Neo4j,
Redis, GraphQL), exporters and resource detection: configuration of OpenTelemetry components with no protocol of their own. The
models therefore stand for a small share of the lines and for most of what in them depends on the order of events.

Of the modelled parts, these are left out: the stack tree and sample deduplication of the heap profiler, attributes and hooks of
HTTP spans (the options `disableIncomingRequestInstrumentation` and `disableOutgoingRequestInstrumentation` are declared in
`types.ts` and read nowhere, so they have no place in the model), the rendering of the effective configuration, failing allocations.

Hazards no property covers, with the reason each, are in `PROJECT.json` as well: an instance uid assigned after the disconnect message,
a session stopped before its setImmediate callback, a native start that is refused, an effective state that an overlapping stop
overwrites, a context manager kept by a tracing that threw, two local roots of one trace, free arena pages that a reset forgets, server
spans whose end is never heard of, the noop parent, the Next.js processor, the metrics windows, and the baggage that stops at a server
span. Most of them are things the models show the code to do and nothing in the repository speaks about; where a property
has to make an exception for one, the comment of the property names it.
`PROJECT.json` lists every component with its status, and every hazard with the properties that cover it.
