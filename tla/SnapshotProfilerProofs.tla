----------------------- MODULE SnapshotProfilerProofs -----------------------
(* Theorems about SnapshotProfiler, for every set of spans, traces, intervals *)
(* and timers.                                                                *)
EXTENDS SnapshotProfiler, FiniteSetTheorems, TLAPS

(***************************************************************************)
(* Types, the counter and the filters.  The counter is within its type     *)
(* because it counts what is recorded; to count a span once, it must not   *)
(* be recorded when it starts, so recorded spans are open.  A profiler     *)
(* that was stopped has nothing recorded, hence no filter that could       *)
(* outlive it.                                                             *)
(***************************************************************************)

ShapeOK ==
  /\ registered \in BOOLEAN /\ active \in BOOLEAN /\ immediate \in BOOLEAN /\ steady \in BOOLEAN
  /\ stopTimeout \in Timers \cup {NoTimer}
  /\ interval \in Intervals /\ exporter \in Intervals \cup {NoExporter}
  /\ recorded \subseteq Spans /\ open \subseteq Spans
  /\ armed \subseteq Timers /\ exporting \subseteq Timers /\ strays \in 0 .. MaxStrays
  /\ native \in [running : BOOLEAN, interval : Intervals, rate : Intervals, filters : SUBSET Traces]

CountInv ==
  /\ recorded \subseteq open
  /\ ~registered => recorded = {}
  /\ CountBalanced
  /\ NoFilterLeaks

LEMMA RecordedIsFinite ==
  ASSUME ShapeOK
  PROVE  /\ IsFiniteSet(recorded) /\ Cardinality(recorded) \in Nat
         /\ Cardinality(recorded) <= Cardinality(Spans)
BY SpanAssumption, FS_Subset, FS_CardinalityType DEF ShapeOK

LEMMA NativeType ==
  ASSUME ShapeOK
  PROVE  /\ \A s \in Spans : Begun(native, TraceOf[s]) \in [running : BOOLEAN, interval : Intervals,
                                             rate : Intervals, filters : SUBSET Traces]
         /\ \A n \in [running : BOOLEAN, interval : Intervals, rate : Intervals,
                      filters : SUBSET Traces] :
              /\ Stopped(n) \in [running : BOOLEAN, interval : Intervals, rate : Intervals,
                                 filters : SUBSET Traces]
              /\ Drained(n) \in [running : BOOLEAN, interval : Intervals, rate : Intervals,
                                 filters : SUBSET Traces]
BY DEF ShapeOK, Begun, Stopped, Drained, Traces

LEMMA ShapeKept == ShapeOK /\ [Next]_vars => ShapeOK'
<1> SUFFICES ASSUME ShapeOK, [Next]_vars PROVE ShapeOK'
  OBVIOUS
<1> USE DEF ApplyProfilingOptions, profilerVars, timerVars
<1> DEFINE Natives == [running : BOOLEAN, interval : Intervals, rate : Intervals,
                       filters : SUBSET Traces]
<1>1. ASSUME NEW s \in Spans, NEW highest \in BOOLEAN, SpanStarts(s, highest) PROVE ShapeOK'
  <2>1. native' \in Natives /\ recorded' \subseteq Spans
    BY <1>1, NativeType DEF SpanStarts, ShapeOK
  <2>2. exporter' \in Intervals \cup {NoExporter} /\ steady' \in BOOLEAN
    BY <1>1 DEF SpanStarts, SyncedPeriod, TakenForNew, ShapeOK
  <2> QED
    BY <1>1, <2>1, <2>2 DEF SpanStarts, ShapeOK
<1>2. ASSUME NEW s \in Spans, SpanEnds(s) PROVE ShapeOK'
  <2>1. native' \in Natives /\ recorded' \subseteq Spans
    BY <1>2 DEF SpanEnds, ShapeOK
  <2>2. stopTimeout' \in Timers \cup {NoTimer} /\ armed' \subseteq Timers
    BY <1>2 DEF SpanEnds, Rearmed, ShapeOK
  <2> QED
    BY <1>2, <2>1, <2>2 DEF SpanEnds, ShapeOK
<1>3. ASSUME NEW t \in Timers, NEW pending \in BOOLEAN, LingerFires(t, pending) PROVE ShapeOK'
  BY <1>3, NativeType DEF LingerFires, ShapeOK
<1>4. ASSUME NEW t \in Timers, ExportSettles(t) PROVE ShapeOK'
  BY <1>4 DEF ExportSettles, ShapeOK
<1>5. CASE StrayFires
  BY <1>5, NativeType, BoundAssumption DEF StrayFires, ShapeOK
<1>6. ASSUME NEW on \in BOOLEAN, StartSnapshotProfiling(on) PROVE ShapeOK'
  BY <1>6, IntervalAssumption DEF StartSnapshotProfiling, ShapeOK
<1>7. CASE RunImmediate
  BY <1>7 DEF RunImmediate, ShapeOK
<1>8. ASSUME NEW on \in BOOLEAN, NEW i \in Intervals, SetSnapshotProfilingActive(on, i)
      PROVE  ShapeOK'
  <2>1. [native EXCEPT !.interval = i] \in Natives
    BY DEF ShapeOK
  <2>2. native' \in Natives
    BY <1>8, <2>1, NativeType DEF SetSnapshotProfilingActive
  <2> QED
    BY <1>8, <2>2 DEF SetSnapshotProfilingActive, ShapeOK
<1>9. CASE StopSnapshotProfiling
  <2>1. native' \in Natives
    BY <1>9, NativeType DEF StopSnapshotProfiling, ShapeOK
  <2>2. strays' \in 0 .. MaxStrays
    <3>1. Cardinality(armed \ {stopTimeout}) \in Nat
      <4>1. IsFiniteSet(armed)
        BY TimerAssumption, FS_Subset DEF ShapeOK
      <4> QED
        BY <4>1, FS_RemoveElement, FS_CardinalityType
    <3> QED
      BY <1>9, <3>1, BoundAssumption DEF StopSnapshotProfiling, ShapeOK
  <2> QED
    BY <1>9, <2>1, <2>2 DEF StopSnapshotProfiling, ShapeOK
<1>10. ASSUME NEW rate \in Intervals, Collect(rate) PROVE ShapeOK'
  BY <1>10 DEF Collect, ShapeOK
<1>11. CASE UNCHANGED vars
  BY <1>11 DEF vars, ShapeOK
<1> QED
  BY <1>1, <1>2, <1>3, <1>4, <1>5, <1>6, <1>7, <1>8, <1>9, <1>10, <1>11 DEF Next

LEMMA DrainedFilters ==
  ASSUME ShapeOK, CountInv, NEW n, n \in [running : BOOLEAN, interval : Intervals,
                                rate : Intervals, filters : SUBSET Traces],
         n.filters = native.filters
  PROVE  Drained(n).filters = {}
BY DEF Drained, Stopped, CountInv, NoFilterLeaks

LEMMA CountKept == ShapeOK /\ CountInv /\ [Next]_vars => CountInv'
<1> SUFFICES ASSUME ShapeOK, CountInv, [Next]_vars PROVE CountInv'
  OBVIOUS
<1> USE DEF ApplyProfilingOptions, profilerVars, timerVars
<1>0. UNCHANGED <<registered, recorded, count>> /\ open' = open /\ native'.filters = native.filters
      => CountInv'
  BY DEF CountInv, CountBalanced, NoFilterLeaks
<1>1. ASSUME NEW s \in Spans, NEW highest \in BOOLEAN, SpanStarts(s, highest) PROVE CountInv'
  <2>1. CASE Begins(highest)
    <3>1. s \notin recorded
      BY <1>1 DEF SpanStarts, CountInv
    <3>2. Cardinality(recorded') = Cardinality(recorded) + 1 /\ count' = count + 1
      BY <1>1, <2>1, <3>1, RecordedIsFinite, FS_AddElement DEF SpanStarts
    <3>3. native'.filters = native.filters \cup {TraceOf[s]} /\ recorded' = recorded \cup {s}
      BY <1>1, <2>1 DEF SpanStarts, Begun, ShapeOK
    <3>4. registered' = registered /\ registered /\ open' = open \cup {s}
      BY <1>1, <2>1 DEF SpanStarts, Begins
    <3> QED
      BY <3>2, <3>3, <3>4 DEF CountInv, CountBalanced, NoFilterLeaks
  <2>2. CASE ~Begins(highest)
    BY <1>1, <2>2 DEF SpanStarts, CountInv, CountBalanced, NoFilterLeaks
  <2> QED
    BY <2>1, <2>2
<1>2. ASSUME NEW s \in Spans, SpanEnds(s) PROVE CountInv'
  <2>1. CASE s \in recorded
    <3>1. Cardinality(recorded \ {s}) = Cardinality(recorded) - 1 /\ Cardinality(recorded \ {s}) \in Nat
      BY <2>1, RecordedIsFinite, FS_RemoveElement, FS_CardinalityType
    <3>2. count' = count - 1
      BY <1>2, <2>1, <3>1, RecordedIsFinite DEF SpanEnds, CountInv, CountBalanced
    <3>3. native'.filters = native.filters \ {TraceOf[s]} /\ recorded' = recorded \ {s}
      BY <1>2, <2>1 DEF SpanEnds, ShapeOK
    <3>4. registered' = registered /\ open' = open \ {s}
      BY <1>2 DEF SpanEnds
    <3>5. CountBalanced'
      BY <3>1, <3>2, <3>3 DEF CountInv, CountBalanced
    <3> QED
      BY <3>3, <3>4, <3>5 DEF CountInv, NoFilterLeaks
  <2>2. CASE s \notin recorded
    BY <1>2, <2>2 DEF SpanEnds, CountInv, CountBalanced, NoFilterLeaks
  <2> QED
    BY <2>1, <2>2
<1>3. ASSUME NEW t \in Timers, NEW pending \in BOOLEAN, LingerFires(t, pending) PROVE CountInv'
  BY <1>0, <1>3 DEF LingerFires, Stopped, ShapeOK
<1>4. ASSUME NEW t \in Timers, ExportSettles(t) PROVE CountInv'
  BY <1>0, <1>4 DEF ExportSettles
<1>5. CASE StrayFires
  BY <1>0, <1>5 DEF StrayFires, Stopped, ShapeOK
<1>6. ASSUME NEW on \in BOOLEAN, StartSnapshotProfiling(on) PROVE CountInv'
  <2>1. native.filters = {}
    BY <1>6 DEF StartSnapshotProfiling, CountInv, NoFilterLeaks
  <2>2. native'.filters = {} /\ recorded' = {} /\ count' = 0
    BY <1>6, <2>1 DEF StartSnapshotProfiling, ShapeOK
  <2> QED
    BY <2>2, FS_EmptySet DEF CountInv, CountBalanced, NoFilterLeaks
<1>7. CASE RunImmediate
  BY <1>0, <1>7 DEF RunImmediate
<1>8. ASSUME NEW on \in BOOLEAN, NEW i \in Intervals, SetSnapshotProfilingActive(on, i)
      PROVE  CountInv'
  <2> DEFINE n == [native EXCEPT !.interval = i]
  <2>1. /\ n \in [running : BOOLEAN, interval : Intervals, rate : Intervals,
                  filters : SUBSET Traces]
        /\ n.filters = native.filters
    BY DEF ShapeOK
  <2>2. CASE active /\ ~on
    <3>1. native' = Drained(n) /\ recorded' = {} /\ count' = 0
      BY <1>8, <2>2 DEF SetSnapshotProfilingActive, CountAfterOff
    <3>2. native'.filters = {}
      BY <3>1, <2>1, DrainedFilters
    <3> QED
      BY <3>1, <3>2, FS_EmptySet DEF CountInv, CountBalanced, NoFilterLeaks
  <2>3. CASE ~(active /\ ~on)
    <3>1. native' = n
      BY <1>8, <2>3 DEF SetSnapshotProfilingActive
    <3> QED
      BY <1>0, <1>8, <2>1, <2>3, <3>1 DEF SetSnapshotProfilingActive
  <2> QED
    BY <2>2, <2>3
<1>9. CASE StopSnapshotProfiling
  <2>1. native'.filters = {} /\ recorded' = {} /\ count' = 0
    BY <1>9, DrainedFilters DEF StopSnapshotProfiling, ShapeOK
  <2> QED
    BY <2>1, FS_EmptySet DEF CountInv, CountBalanced, NoFilterLeaks
<1>10. ASSUME NEW rate \in Intervals, Collect(rate) PROVE CountInv'
  BY <1>0, <1>10 DEF Collect, ShapeOK
<1>11. CASE UNCHANGED vars
  BY <1>0, <1>11 DEF vars
<1> QED
  BY <1>1, <1>2, <1>3, <1>4, <1>5, <1>6, <1>7, <1>8, <1>9, <1>10, <1>11 DEF Next

LEMMA CountInvariant == Spec => [](ShapeOK /\ CountInv)
<1>1. Init => ShapeOK /\ CountInv
  <2>1. Init => ShapeOK
    <3>1. 0 \in 0 .. MaxStrays /\ FirstInterval \in Intervals
      BY IntervalAssumption, BoundAssumption
    <3>2. Init => native \in [running : BOOLEAN, interval : Intervals, rate : Intervals,
                              filters : SUBSET Traces]
      BY <3>1 DEF Init
    <3> QED
      BY <3>1, <3>2 DEF Init, ShapeOK
  <2>2. Init => CountInv
    BY FS_EmptySet DEF Init, CountInv, CountBalanced, NoFilterLeaks
  <2> QED
    BY <2>1, <2>2
<1> QED
  BY <1>1, ShapeKept, CountKept, PTL DEF Spec

\* TypeOK is an invariant.
THEOREM TypeCorrect == Spec => []TypeOK
<1>1. ShapeOK /\ CountInv => TypeOK
  <2> SUFFICES ASSUME ShapeOK, CountInv PROVE TypeOK
    OBVIOUS
  <2>1. count \in 0 .. Cardinality(Spans)
    BY RecordedIsFinite, SpanAssumption, FS_CardinalityType DEF CountInv, CountBalanced
  <2> QED
    BY <2>1 DEF ShapeOK, TypeOK
<1> QED
  BY <1>1, CountInvariant, PTL

\* activeSnapshots counts the snapshots in flight over every off/on cycle and restart
\* (traceSnapshotBegin, traceSnapshotEnd, setActive, stop).
THEOREM CountBalancedCorrect == Spec => []CountBalanced
<1>1. CountInv => CountBalanced
  BY DEF CountInv
<1> QED
  BY <1>1, CountInvariant, PTL

\* The filters of the native profiler, which nothing clears, are those of traces in flight.
THEOREM NoFilterLeaksCorrect == Spec => []NoFilterLeaks
<1>1. CountInv => NoFilterLeaks
  BY DEF CountInv
<1> QED
  BY <1>1, CountInvariant, PTL

(***************************************************************************)
(* Quiet when inactive, and honest about the period.  The native profiler  *)
(* has the interval of the profiler while that is registered, and v8 has   *)
(* no other in a steady session.  Until the exporter is made nothing can   *)
(* change the interval, so that a session begun by then samples with it.   *)
(***************************************************************************)

PeriodInv ==
  /\ InactiveIsQuiet
  /\ registered => native.interval = interval
  /\ immediate => registered
  /\ immediate /\ native.running => native.rate = interval
  /\ native.running /\ steady /\ exporter # NoExporter => exporter = interval /\ native.rate = interval

LEMMA PeriodKept == ShapeOK /\ PeriodInv /\ [Next]_vars => PeriodInv'
<1> SUFFICES ASSUME ShapeOK, PeriodInv, [Next]_vars PROVE PeriodInv'
  OBVIOUS
<1> USE DEF ApplyProfilingOptions, profilerVars, timerVars, PeriodInv, InactiveIsQuiet
<1>1. ASSUME NEW s \in Spans, NEW highest \in BOOLEAN, SpanStarts(s, highest) PROVE PeriodInv'
  <2>1. CASE Begins(highest)
    <3>1. /\ native'.running /\ native'.interval = native.interval
          /\ native'.rate = IF native.running THEN native.rate ELSE native.interval
      BY <1>1, <2>1 DEF SpanStarts, Begun, ShapeOK
    <3>2. /\ registered /\ active
          /\ UNCHANGED <<registered, active, interval, immediate>>
          /\ exporter' = IF TakenForNew /\ exporter # NoExporter THEN interval ELSE exporter
          /\ steady' = IF native.running THEN steady ELSE TakenForNew
      BY <1>1, <2>1 DEF SpanStarts, Begins, SyncedPeriod
    <3> QED
      BY <3>1, <3>2
  <2>2. CASE ~Begins(highest)
    BY <1>1, <2>2 DEF SpanStarts
  <2> QED
    BY <2>1, <2>2
<1>2. ASSUME NEW s \in Spans, SpanEnds(s) PROVE PeriodInv'
  BY <1>2 DEF SpanEnds, ShapeOK
<1>3. ASSUME NEW t \in Timers, NEW pending \in BOOLEAN, LingerFires(t, pending) PROVE PeriodInv'
  BY <1>3 DEF LingerFires, Stopped, ShapeOK
<1>4. ASSUME NEW t \in Timers, ExportSettles(t) PROVE PeriodInv'
  BY <1>4 DEF ExportSettles
<1>5. CASE StrayFires
  BY <1>5 DEF StrayFires, Stopped, ShapeOK
<1>6. ASSUME NEW on \in BOOLEAN, StartSnapshotProfiling(on) PROVE PeriodInv'
  BY <1>6 DEF StartSnapshotProfiling, ShapeOK
<1>7. CASE RunImmediate
  BY <1>7 DEF RunImmediate
<1>8. ASSUME NEW on \in BOOLEAN, NEW i \in Intervals, SetSnapshotProfilingActive(on, i)
      PROVE  PeriodInv'
  <2>1. CASE active /\ ~on
    <3>1. native'.running = FALSE /\ native'.interval = i
      BY <1>8, <2>1 DEF SetSnapshotProfilingActive, Drained, Stopped, ShapeOK
    <3> QED
      BY <1>8, <3>1 DEF SetSnapshotProfilingActive
  <2>2. CASE ~(active /\ ~on)
    <3>1. /\ native'.running = native.running /\ native'.interval = i
          /\ native'.rate = native.rate
      BY <1>8, <2>2 DEF SetSnapshotProfilingActive, ShapeOK
    <3> QED
      BY <1>8, <2>2, <3>1 DEF SetSnapshotProfilingActive
  <2> QED
    BY <2>1, <2>2
<1>9. CASE StopSnapshotProfiling
  <2>1. native'.running = FALSE
    BY <1>9 DEF StopSnapshotProfiling, Drained, Stopped, ShapeOK
  <2> QED
    BY <1>9, <2>1 DEF StopSnapshotProfiling
<1>10. ASSUME NEW rate \in Intervals, Collect(rate) PROVE PeriodInv'
  BY <1>10 DEF Collect, ShapeOK
<1>11. CASE UNCHANGED vars
  BY <1>11 DEF vars
<1> QED
  BY <1>1, <1>2, <1>3, <1>4, <1>5, <1>6, <1>7, <1>8, <1>9, <1>10, <1>11 DEF Next

LEMMA PeriodInvariant == Spec => []PeriodInv
<1>1. Init => PeriodInv
  BY DEF Init, PeriodInv, InactiveIsQuiet
<1> QED
  BY <1>1, PeriodKept, CountInvariant, PTL DEF Spec

\* A profiler that is off or was stopped does not sample, whatever timers and spans it left.
THEOREM InactiveIsQuietCorrect == Spec => []InactiveIsQuiet
<1>1. PeriodInv => InactiveIsQuiet
  BY DEF PeriodInv
<1> QED
  BY <1>1, PeriodInvariant, PTL

\* Samples are reported with the period they are kept at (ProfilingBuildStacktraces), until
\* the interval changes in mid-session and if traceSnapshotBegin knew the session for new.
THEOREM FreshPeriodHonestCorrect == Spec => []FreshPeriodHonest
<1>1. PeriodInv => FreshPeriodHonest
  BY DEF PeriodInv, InactiveIsQuiet, FreshPeriodHonest, PeriodHonest, SamplePeriod
<1> QED
  BY <1>1, PeriodInvariant, PTL
============================================================================
