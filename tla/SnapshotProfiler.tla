-------------------------- MODULE SnapshotProfiler --------------------------
(***************************************************************************)
(* The snapshot profiler: src/tracing/snapshots/Snapshots.ts, the span     *)
(* processor that begins and ends its snapshots                            *)
(* (SnapshotSpanProcessor.ts), and the named native profiler they use,     *)
(* which outlives start()/stop() cycles of the SDK.                        *)
(*                                                                         *)
(* When the last snapshot ends, the native profiler goes on for a linger   *)
(* period and is then stopped by a timer whose callback awaits an export.  *)
(*                                                                         *)
(* Simplifications: profiles are left out, what matters is whether the     *)
(* native profiler samples, which traces it keeps, how often, and the      *)
(* period its samples are reported with; time is not modelled, an armed    *)
(* timer may fire at any moment; the native handle is valid.  v8 takes the *)
(* sampling interval when sampling starts, and may take it again with the  *)
(* next profile of the collection loop; the native profiler thins what v8  *)
(* samples by the interval set last.                                       *)
(***************************************************************************)
EXTENDS Naturals, FiniteSets

CONSTANTS
  Spans,          \* span ids; an id is used again once nothing refers to it
  TraceOf,        \* the trace of a span
  Intervals,
  FirstInterval,  \* the interval given to startSnapshotProfiling
  Timers,         \* bound: timer handles, used again likewise
  MaxStrays,      \* bound: armed timers left over by earlier starts
  NoTimer,        \* undefined
  NoExporter      \* undefined

ASSUME IntervalAssumption ==
  Intervals \subseteq Nat /\ FirstInterval \in Intervals /\ NoExporter \notin Intervals
ASSUME SpanAssumption == DOMAIN TraceOf = Spans /\ IsFiniteSet(Spans)
ASSUME TimerAssumption == NoTimer \notin Timers /\ IsFiniteSet(Timers)
ASSUME BoundAssumption == MaxStrays \in Nat

VARIABLES
  registered,   \* a SnapshotProfiler is in the module's `profiler'
  active,       \* its active
  count,        \* its activeSnapshots
  stopTimeout,  \* its stopTimeout: a timer, armed or spent, or NoTimer
  interval,     \* its _samplingIntervalMs
  exporter,     \* its exporter._callstackInterval, or NoExporter
  immediate,    \* its setImmediate callback is due
  recorded,     \* the spans in the processor's snapshotSpans
  open,         \* the spans that have started and not ended
  armed,        \* its linger timers that will fire
  exporting,    \* its linger timers whose callback awaits the export
  strays,       \* the linger timers of earlier profilers that will still fire
  native,       \* the native profiler: running, interval (the one set), rate (the
                \* one v8 samples at) and filters (trace ids)
  steady        \* history: the begin that started the native session took it for new,
                \* and the interval has not been changed since

profilerVars == <<registered, active, count, stopTimeout, interval, exporter, immediate, recorded>>
timerVars == <<armed, exporting, strays>>
vars == <<profilerVars, timerVars, open, native, steady>>

Traces == {TraceOf[s] : s \in Spans}

Init ==
  /\ registered = FALSE /\ active = FALSE /\ count = 0 /\ stopTimeout = NoTimer
  /\ interval = FirstInterval /\ exporter = NoExporter /\ immediate = FALSE
  /\ recorded = {} /\ open = {}
  /\ armed = {} /\ exporting = {} /\ strays = 0
  /\ native = [running |-> FALSE, interval |-> FirstInterval, rate |-> FirstInterval, filters |-> {}]
  /\ steady = TRUE

----------------------------------------------------------------------------
(* The native profiler. *)

\* addTraceIdFilter, then startCpuProfiler, which leaves a running one alone.
Begun(n, trace) ==
  [n EXCEPT !.running = TRUE,
            !.rate = IF n.running THEN @ ELSE n.interval,
            !.filters = @ \cup {trace}]

\* getOrCreateCpuProfiler of a known name, whether or not it runs.
ApplyProfilingOptions(n, i) == [n EXCEPT !.interval = i]

\* The period of the samples that are kept: v8's, thinned by the interval set last.
SamplePeriod(n) == IF n.interval > n.rate THEN n.interval ELSE n.rate

\* stop: the filters stay.
Stopped(n) == [n EXCEPT !.running = FALSE]

\* Mutant: the filters of the spans in flight stay.
DrainedKeepingFilters(n) == Stopped(n)

\* The filters of the spans in flight are removed, then the profiler stops.
Drained(n) == Stopped([n EXCEPT !.filters = @ \ {TraceOf[s] : s \in recorded}])

----------------------------------------------------------------------------
(* Spans. *)

\* Mutant: a profiler that was stopped or turned off still begins snapshots.
BeginsAnyway(highest) == highest

\* traceSnapshotBegin returns true for a local root span of volume `highest'.
Begins(highest) == highest /\ registered /\ active

\* The profiler takes a begin for the start of a new native session.
TakenForNew == count = 0 /\ stopTimeout = NoTimer

\* Mutant: the period is that of the first interval.
StalePeriod == exporter

\* A new session is reported with the interval it samples at.
SyncedPeriod == IF TakenForNew /\ exporter # NoExporter THEN interval ELSE exporter

\* onStart of the span processor.
SpanStarts(s, highest) ==
  /\ s \notin open
  /\ open' = open \cup {s}
  /\ IF Begins(highest)
       THEN /\ exporter' = SyncedPeriod
            /\ native' = Begun(native, TraceOf[s])
            /\ count' = count + 1
            /\ recorded' = recorded \cup {s}
            /\ steady' = IF native.running THEN steady ELSE TakenForNew
       ELSE UNCHANGED <<exporter, native, count, recorded, steady>>
  /\ UNCHANGED <<registered, active, stopTimeout, interval, immediate, timerVars>>

UsedTimers == armed \cup exporting \cup {stopTimeout}

\* Mutant: an armed timer is cleared and not armed again.
RearmedOnce(last) ==
  IF last /\ stopTimeout = NoTimer
    THEN \E t \in Timers \ UsedTimers :
           stopTimeout' = t /\ armed' = armed \cup {t}
    ELSE stopTimeout' = NoTimer /\ armed' = armed \ {stopTimeout}

\* The linger timer starts over when the last snapshot ends.
Rearmed(last) ==
  IF last
    THEN \E t \in Timers \ UsedTimers :
           stopTimeout' = t /\ armed' = (armed \ {stopTimeout}) \cup {t}
    ELSE stopTimeout' = NoTimer /\ armed' = armed \ {stopTimeout}

\* onEnd of the span processor, and traceSnapshotEnd.
SpanEnds(s) ==
  /\ s \in open
  /\ open' = open \ {s}
  /\ IF s \in recorded
       THEN /\ count' = IF count > 0 THEN count - 1 ELSE 0
            /\ native' = [native EXCEPT !.filters = @ \ {TraceOf[s]}]
            /\ Rearmed(count' = 0)
            /\ recorded' = recorded \ {s}
       ELSE UNCHANGED <<count, native, stopTimeout, armed, recorded>>
  /\ UNCHANGED <<registered, active, interval, exporter, immediate, exporting, strays, steady>>

----------------------------------------------------------------------------
(* The linger timer and the collection loop. *)

\* The timer fires, whatever has begun since.  Its callback stops the native
\* profiler and awaits the export of the last profile (pending: over the network).
LingerFires(t, pending) ==
  /\ t \in armed
  /\ armed' = armed \ {t}
  /\ pending => native.running /\ exporter # NoExporter
  /\ native' = Stopped(native)
  /\ IF pending
       THEN exporting' = exporting \cup {t} /\ UNCHANGED stopTimeout
       ELSE stopTimeout' = NoTimer /\ UNCHANGED exporting
  /\ UNCHANGED <<registered, active, count, interval, exporter, immediate, recorded, open,
                 strays, steady>>

\* The export settles: the rest of the callback.
ExportSettles(t) ==
  /\ t \in exporting
  /\ exporting' = exporting \ {t}
  /\ stopTimeout' = NoTimer
  /\ UNCHANGED <<registered, active, count, interval, exporter, immediate, recorded, open,
                 armed, strays, native, steady>>

\* A timer of an earlier profiler fires: the native profiler is the same.
StrayFires ==
  /\ strays > 0
  /\ strays' = strays - 1
  /\ native' = Stopped(native)
  /\ UNCHANGED <<profilerVars, open, armed, exporting, steady>>

\* The collection loop exports a profile and begins the next of the session, with
\* which v8 may take the interval set.
Collect(rate) ==
  /\ registered /\ active /\ native.running
  /\ rate \in {native.rate, native.interval}
  /\ native' = [native EXCEPT !.rate = rate]
  /\ UNCHANGED <<profilerVars, timerVars, open, steady>>

----------------------------------------------------------------------------
(* Start, remote configuration, stop. *)

\* startSnapshotProfiling: a new profiler on the native profiler of that name.
StartSnapshotProfiling(on) ==
  /\ ~registered
  /\ registered' = TRUE /\ active' = on
  /\ count' = 0 /\ stopTimeout' = NoTimer /\ recorded' = {}
  /\ interval' = FirstInterval /\ exporter' = NoExporter /\ immediate' = TRUE
  /\ native' = ApplyProfilingOptions(native, FirstInterval)
  /\ UNCHANGED <<open, timerVars, steady>>

\* The setImmediate callback of the constructor makes the exporter.
RunImmediate ==
  /\ immediate
  /\ immediate' = FALSE
  /\ exporter' = interval
  /\ UNCHANGED <<registered, active, count, stopTimeout, interval, recorded, open, timerVars,
                 native, steady>>

\* Mutant: turning off leaves activeSnapshots.
CountWhenOff == count

CountAfterOff == 0

\* setSnapshotProfilingActive, called with the first OpAMP response at the
\* earliest, when the callbacks of start() have run.  The native profiler takes
\* the interval also while it runs; the reported period waits for a new session.
SetSnapshotProfilingActive(on, i) ==
  LET off == active /\ ~on IN
  /\ registered /\ ~immediate
  /\ interval' = i
  /\ active' = on
  /\ count' = IF off THEN CountAfterOff ELSE count
  /\ recorded' = IF off THEN {} ELSE recorded
  /\ stopTimeout' = IF off THEN NoTimer ELSE stopTimeout
  /\ armed' = IF off THEN armed \ {stopTimeout} ELSE armed
  /\ native' = LET n == ApplyProfilingOptions(native, i) IN IF off THEN Drained(n) ELSE n
  /\ steady' = (steady /\ (native.running => i = interval))
  /\ UNCHANGED <<registered, exporter, immediate, open, exporting, strays>>

\* stopSnapshotProfiling; what was armed and is no longer known to the profiler
\* stays armed.
StopSnapshotProfiling ==
  /\ registered
  /\ registered' = FALSE /\ active' = FALSE
  /\ recorded' = {} /\ armed' = {} /\ exporting' = {}
  /\ strays' = strays + Cardinality(armed \ {stopTimeout})
  /\ strays' <= MaxStrays
  /\ native' = Drained(native)
  \* the old profiler is unreachable from here on
  /\ count' = 0 /\ stopTimeout' = NoTimer /\ exporter' = NoExporter /\ immediate' = FALSE
  /\ UNCHANGED <<interval, open, steady>>

Next ==
  \/ \E s \in Spans : SpanEnds(s) \/ \E highest \in BOOLEAN : SpanStarts(s, highest)
  \/ \E t \in Timers : ExportSettles(t) \/ \E pending \in BOOLEAN : LingerFires(t, pending)
  \/ StrayFires
  \/ \E rate \in Intervals : Collect(rate)
  \/ \E on \in BOOLEAN : StartSnapshotProfiling(on)
  \/ RunImmediate
  \/ \E on \in BOOLEAN, i \in Intervals : SetSnapshotProfilingActive(on, i)
  \/ StopSnapshotProfiling

Spec == Init /\ [][Next]_vars

\* Armed timers fire, exports end.
FairSpec ==
  /\ Spec
  /\ \A t \in Timers : WF_vars(\E pending \in BOOLEAN : LingerFires(t, pending)) /\ WF_vars(ExportSettles(t))
  /\ WF_vars(StrayFires)

----------------------------------------------------------------------------
(* Properties. *)

\* The variables have their types.
TypeOK ==
  /\ registered \in BOOLEAN /\ active \in BOOLEAN /\ immediate \in BOOLEAN /\ steady \in BOOLEAN
  /\ count \in 0 .. Cardinality(Spans)
  /\ stopTimeout \in Timers \cup {NoTimer}
  /\ interval \in Intervals /\ exporter \in Intervals \cup {NoExporter}
  /\ recorded \subseteq Spans /\ open \subseteq Spans
  /\ armed \subseteq Timers /\ exporting \subseteq Timers /\ strays \in 0 .. MaxStrays
  /\ native \in [running : BOOLEAN, interval : Intervals, rate : Intervals, filters : SUBSET Traces]

\* Every begin is matched by one end or by being turned off: the counter of
\* snapshots in flight neither drifts nor goes stale across off/on cycles.
CountBalanced == count = Cardinality(recorded)

\* The native filters, which nothing clears, hold traces in flight only.
NoFilterLeaks == native.filters \subseteq {TraceOf[s] : s \in recorded}

\* A profiler that is off, or was stopped, does not sample.
InactiveIsQuiet == native.running => registered /\ active

\* Samples are reported with the period they are kept at.
PeriodHonest == native.running /\ exporter # NoExporter => exporter = SamplePeriod(native)

\* Intervals that were changed while the profiler was off, between sessions or over
\* a restart are reported with the samples that use them: the period is honest
\* until the interval changes in mid-session, if the profiler knew the session
\* for a new one.
FreshPeriodHonest == steady => PeriodHonest

\* Sampling ends: it does not go on for ever without a snapshot in flight.
QuietWhenIdle == []<>(recorded # {} \/ ~native.running)

\* The traces in flight are being profiled.
ActiveIsSampled == count > 0 => native.running
============================================================================
