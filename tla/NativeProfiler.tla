--------------------------- MODULE NativeProfiler ---------------------------
(***************************************************************************)
(* One native CPU profiler: src/native_ext/profiling.cpp, and the context  *)
(* manager that tells it which context runs                                *)
(* (src/profiling/ProfilingContextManager.ts).                             *)
(*                                                                         *)
(* Every context that is entered and exited while the profiler runs leaves *)
(* an activation of its span.  Activations are spread over bins, each a    *)
(* short piece of time since the profile began, so that a sample is looked *)
(* up in one bin.  A bin holds kActivationsPerBin activations and          *)
(* continues in a chain of further ones; bins are made a period at a time. *)
(* All of it, and the larger stacks of open activations, is in an arena    *)
(* that every profile resets.                                              *)
(*                                                                         *)
(* Simplifications: v8's profiles are the times it sampled at, which may   *)
(* be any; the sampling interval does not change; v8 always has the        *)
(* profile that is asked for, and memory is always to be had.              *)
(***************************************************************************)
EXTENDS ActivationStack, SequencesExt, FiniteSets

CONSTANTS
  Contexts,
  SpanOf,               \* the span of a context, or NoSpan
  TraceOf,              \* the trace of a span
  HashOf,               \* a context's identity hash; two contexts may share one
  NoSpan, NoMatch,
  kActivationBinWidth, kActivationsPerBin, kBinsPerActivationPeriod,
  SamplingInterval,     \* samplingIntervalNanos
  MaxCutoffDelay,       \* maxSampleCutoffDelayNanos
  MaxTime, MaxWait, MaxDepth, MaxPages, MaxPerBin
     \* bounds: the clock, how far it moves at once, nested contexts, pages,
     \* the activations in a bin

ASSUME ContextAssumption ==
  /\ DOMAIN SpanOf = Contexts /\ DOMAIN HashOf = Contexts
  /\ DOMAIN TraceOf = {SpanOf[c] : c \in Contexts} \ {NoSpan}
ASSUME BinAssumption ==
  /\ kActivationBinWidth \in Nat \ {0} /\ kActivationsPerBin \in Nat \ {0}
  /\ kBinsPerActivationPeriod \in Nat \ {0}
ASSUME SampleAssumption == SamplingInterval \in Nat \ {0} /\ MaxCutoffDelay \in Nat
ASSUME BoundAssumption == MaxTime \in Nat /\ MaxWait \in Nat /\ MaxDepth \in Nat /\ MaxPages \in Nat /\ MaxPerBin \in Nat

BinSize == kActivationsPerBin

PeriodSize == kBinsPerActivationPeriod * BinSize

\* An activation period fits a page.
ASSUME PeriodAssumption == Aligned(0) + PeriodSize <= PageSize

VARIABLES
  running,
  onlyFiltered,  \* onlyFilteredStacktraces
  filter,        \* traceIdFilter
  stacks,        \* spanActivations: the stacks of the hashes that have one
  table,         \* the arena; periods, the blocks of the list of periods; bins
  startTime,
  cutoff,        \* sampleCutoffPoint
  clock,         \* HrTime()
  contexts       \* the context manager's _stack, with the time each was entered (history)

vars == <<running, onlyFiltered, filter, stacks, table, startTime, cutoff, clock, contexts>>

Spans == DOMAIN TraceOf

Traces == {TraceOf[s] : s \in Spans}

Hashes == {HashOf[c] : c \in Contexts}

----------------------------------------------------------------------------
(* Periods and bins. *)

EmptyBin == [activations |-> <<>>, chunks |-> <<>>]

NewActivationPeriod(t) ==
  LET r == PagedArenaAlloc(t.arena, PeriodSize) IN
  [arena |-> r.arena, periods |-> Append(t.periods, r.block),
   bins |-> t.bins \o [i \in 1 .. kBinsPerActivationPeriod |-> EmptyBin]]

\* ProfilingReset, but for the stacks.
ResetTable(arena) ==
  NewActivationPeriod([arena |-> PagedArenaReset(arena), periods |-> <<>>, bins |-> <<>>])

ActivationBinIndex(ts) == (ts - startTime) \div kActivationBinWidth

\* The periods up to the one of this bin are made (ProfilingGetActivationBin).
Reaching(t, bin) ==
  LET missing == bin \div kBinsPerActivationPeriod + 1 - Len(t.periods)
  IN FoldLeft(LAMBDA u, i : NewActivationPeriod(u), t, [i \in 1 .. missing |-> i])

\* A bin is the activations of its chain in order, and the blocks of the
\* chained bins; the last bin of the chain is full.
ChainFull(bin) == Len(bin.activations) = kActivationsPerBin * (Len(bin.chunks) + 1)

\* Mutant: an activation that finds the bin full is dropped.
BinInsertNoChain(t, bin, activation) ==
  IF ChainFull(t.bins[bin + 1])
    THEN t
    ELSE [t EXCEPT !.bins[bin + 1].activations = Append(@, activation)]

BinInsertActivation(t, bin, activation) ==
  IF ChainFull(t.bins[bin + 1])
    THEN LET r == PagedArenaAlloc(t.arena, BinSize) IN
         [t EXCEPT !.arena = r.arena,
                   !.bins[bin + 1] = [activations |-> Append(@.activations, activation),
                                      chunks |-> Append(@.chunks, r.block)]]
    ELSE [t EXCEPT !.bins[bin + 1].activations = Append(@, activation)]

\* Mutant: the activation is not in the bin it ends in.
BinsBeforeEnd(activation) ==
  LET first == ActivationBinIndex(activation.start)
      last == ActivationBinIndex(activation.end)
  IN [i \in 1 .. IF last > first THEN last - first ELSE 1 |-> first + i - 1]

\* The bins an activation overlaps, in order.
BinsOf(activation) ==
  LET first == ActivationBinIndex(activation.start)
      last == ActivationBinIndex(activation.end)
  IN [i \in 1 .. last - first + 1 |-> first + i - 1]

InsertActivation(t, activation) ==
  FoldLeft(LAMBDA u, bin : BinInsertActivation(Reaching(u, bin), bin, activation),
           t, BinsOf(activation))

----------------------------------------------------------------------------
(* Samples. *)

BinAt(ts) ==
  IF ActivationBinIndex(ts) < Len(table.bins) THEN table.bins[ActivationBinIndex(ts) + 1]
                                              ELSE EmptyBin

\* The latest start wins, and of several the one inserted first.
FindClosestActivation(ts) ==
  LET found == BinAt(ts).activations
      active == {i \in DOMAIN found : found[i].start <= ts /\ ts <= found[i].end}
  IN IF active = {}
       THEN NoMatch
       ELSE found[CHOOSE i \in active : \A j \in active :
                    \/ found[j].start < found[i].start
                    \/ found[j].start = found[i].start /\ i <= j]

ShouldIncludeSample(ts) == ts >= startTime + MaxCutoffDelay \/ ts >= cutoff

\* Mutant: the samples left out for want of a match use up their turn.
StacktraceTurnAlways(ts, acc) ==
  IF ShouldIncludeSample(ts) /\ ts >= acc.next
    THEN [next |-> acc.next + SamplingInterval,
          kept |-> IF onlyFiltered /\ FindClosestActivation(ts) = NoMatch
                     THEN acc.kept ELSE acc.kept \cup {ts}]
    ELSE acc

\* One sample: it is kept if its turn has come.
Stacktrace(ts, acc) ==
  IF /\ ShouldIncludeSample(ts) /\ ts >= acc.next
     /\ onlyFiltered => FindClosestActivation(ts) # NoMatch
    THEN [next |-> acc.next + SamplingInterval, kept |-> acc.kept \cup {ts}]
    ELSE acc

\* ProfilingBuildStacktraces: the samples that are reported of a profile that v8
\* began at this time.  They are gone through in the order they were taken, the
\* latest after all others.
ProfilingBuildStacktraces(began, samples) ==
  MapThenFoldSet(Stacktrace, [next |-> began, kept |-> {}],
                 LAMBDA ts : ts, LAMBDA seen : Max(seen), samples).kept

----------------------------------------------------------------------------
(* Contexts. *)

Init ==
  /\ running = FALSE /\ onlyFiltered \in BOOLEAN /\ filter = {}
  /\ stacks = <<>> /\ table = ResetTable(NewArena)
  /\ startTime = 0 /\ cutoff = 0 /\ clock = 0
  /\ contexts = <<>>

Admits(trace) == onlyFiltered => trace \in filter

StackOf(h) == IF h \in DOMAIN stacks THEN stacks[h] ELSE EmptyStack

WithStack(h, stack) ==
  [g \in DOMAIN stacks \cup {h} |-> IF g = h THEN stack ELSE stacks[g]]

\* The time it may be a step later.
Later(time) == {later \in time .. time + MaxWait : later <= MaxTime}

\* The context manager, on its own stack (_enterContextOverride and
\* _exitContextOverride).  Only a context with a span is told to the profiler on
\* entry; the exit of every one is told.
Stacked(c) == Append(contexts, [context |-> c, start |-> clock'])

HasSpan(c) == SpanOf[c] # NoSpan

Unstacked == Front(contexts)

EnterContext(c) ==
  /\ Len(contexts) < MaxDepth
  /\ clock' \in Later(clock)
  /\ contexts' = Stacked(c)
  /\ IF HasSpan(c) /\ running /\ Admits(TraceOf[SpanOf[c]])
       THEN LET activation == [span |-> SpanOf[c], start |-> clock']
                r == Push(StackOf(HashOf[c]), activation, table.arena)
            IN /\ stacks' = WithStack(HashOf[c], r.stack)
               /\ table' = [table EXCEPT !.arena = r.arena]
       ELSE UNCHANGED <<stacks, table>>
  /\ UNCHANGED <<running, onlyFiltered, filter, startTime, cutoff>>

\* Mutant: a stack stays in the map when it becomes empty.
StacksKept(h) == WithStack(h, Popped(stacks[h]))

\* The stacks once the innermost activation of a hash is taken off.
StacksAfterExit(h) ==
  IF stacks[h].count = 1 THEN [g \in DOMAIN stacks \ {h} |-> stacks[g]]
                         ELSE WithStack(h, Popped(stacks[h]))

\* The innermost context, whether or not it has a span.  What is on the stack of
\* its hash ends, whatever entered it.
ExitContext ==
  /\ contexts # <<>>
  /\ clock' \in Later(clock)
  /\ LET c == Last(contexts).context
         h == HashOf[c]
     IN /\ contexts' = Unstacked
        /\ IF running /\ h \in DOMAIN stacks /\ stacks[h].count > 0
             THEN LET top == Top(stacks[h]) IN
                  /\ table' = InsertActivation(table, [span |-> top.span, start |-> top.start,
                                                       end |-> clock'])
                  /\ stacks' = StacksAfterExit(h)
             ELSE UNCHANGED <<stacks, table>>
  /\ UNCHANGED <<running, onlyFiltered, filter, startTime, cutoff>>

----------------------------------------------------------------------------
(* The calls of the profilers. *)

\* Mutant: open activations survive a profile.
StacksAfterReset == stacks

\* kh_clear of ProfilingReset.
NoStacks == <<>>

ProfilingReset(t) ==
  /\ stacks' = NoStacks
  /\ table' = ResetTable(t.arena)

\* The samples of the last profile are looked up first, which makes the periods
\* up to the one of the last sample.
LookedUp(last) == Reaching(table, ActivationBinIndex(last))

\* Sampling has begun by the cutoff point, some time after the start time.
ProfileBegins ==
  /\ clock < MaxTime
  /\ startTime' = clock /\ cutoff' = clock + 1 /\ clock' = cutoff'

\* StartProfiling of a known name, which resets, and StartCpuProfiler, which
\* does not.
Start(resets) ==
  /\ ~running
  /\ running' = TRUE
  /\ ProfileBegins
  /\ IF resets THEN ProfilingReset(table) ELSE UNCHANGED <<stacks, table>>
  /\ UNCHANGED <<onlyFiltered, filter, contexts>>

\* CollectProfilingData: the next profile begins before this one is built.
CollectProfilingData ==
  /\ running
  /\ \E last \in startTime .. clock : ProfilingReset(LookedUp(last))
  /\ ProfileBegins
  /\ UNCHANGED <<running, onlyFiltered, filter, contexts>>

StopProfiling ==
  /\ running
  /\ running' = FALSE
  /\ \E last \in startTime .. clock : ProfilingReset(LookedUp(last))
  /\ UNCHANGED <<onlyFiltered, filter, startTime, cutoff, clock, contexts>>

\* GetOrCreateCpuProfiler of a known name: a profiler that runs is not reset.
GetOrCreateCpuProfiler ==
  /\ ~running
  /\ ProfilingReset(table)
  /\ UNCHANGED <<running, onlyFiltered, filter, startTime, cutoff, clock, contexts>>

\* Only the profiler of the snapshots is given traces (Snapshots.ts).
AddTraceIdFilter(trace) ==
  /\ onlyFiltered
  /\ filter' = filter \cup {trace}
  /\ UNCHANGED <<running, onlyFiltered, stacks, table, startTime, cutoff, clock, contexts>>

RemoveTraceIdFilter(trace) ==
  /\ onlyFiltered
  /\ filter' = filter \ {trace}
  /\ UNCHANGED <<running, onlyFiltered, stacks, table, startTime, cutoff, clock, contexts>>

Next ==
  /\ \/ \E c \in Contexts : EnterContext(c)
     \/ ExitContext
     \/ \E resets \in BOOLEAN : Start(resets)
     \/ CollectProfilingData
     \/ StopProfiling
     \/ GetOrCreateCpuProfiler
     \/ \E trace \in Traces : AddTraceIdFilter(trace) \/ RemoveTraceIdFilter(trace)
  /\ Len(table'.arena.offset) <= MaxPages
  /\ \A i \in DOMAIN table'.bins : Len(table'.bins[i].activations) <= MaxPerBin

Spec == Init /\ [][Next]_vars

----------------------------------------------------------------------------
(* Properties. *)

RecordedOf(t) == UNION {Pages(t.bins[i].activations) : i \in DOMAIN t.bins}

OpenActivations ==
  [h \in Hashes |-> IF h \in DOMAIN stacks THEN Contents(stacks[h]) ELSE <<>>]

\* The stacks, bins, periods and pages implement plain stacks and a set of ended
\* activations.
Timeline == INSTANCE SpanTimeline WITH
  open <- OpenActivations, done <- RecordedOf(table), Times <- 0 .. MaxTime

ImplementsTimeline == Timeline!Spec

\* Whatever the bins, their chains and the periods hold, a sample is given one
\* of the latest activations that were active when it was taken.
SamplesFindLatest ==
  running => \A ts \in startTime .. clock : FindClosestActivation(ts) \in Timeline!Latest(ts)

\* No activation lies: when one is recorded, its span has been active all along, also when its
\* context was entered before the profiler ran or the trace was filtered, when
\* contexts share a hash and when filters change between enter and exit.
ActivationsAreTrue ==
  [][\A a \in RecordedOf(table') \ RecordedOf(table) :
       \E i \in DOMAIN contexts :
         SpanOf[contexts[i].context] = a.span /\ contexts[i].start <= a.start]_vars

\* What the stacks and bins point to is memory of this profile, and nobody else's.
Blocks ==
  Pages(table.periods) \cup (UNION {Pages(table.bins[i].chunks) : i \in DOMAIN table.bins})
    \cup {stacks[h].block : h \in {g \in DOMAIN stacks : stacks[g].block # NoBlock}}

MemoryIsOwn ==
  /\ Blocks \subseteq table.arena.live
  /\ LiveBlocksApart(table.arena)
  /\ PagesApart(table.arena)

\* Samples are reported at the sampling interval at most, in the long run, and a
\* sample that is left out does not delay the next, wherever in the start of
\* sampling v8 began its profile.
RateIsBounded ==
  running => \A began \in startTime .. cutoff, samples \in SUBSET (startTime .. clock) :
    LET kept == ProfilingBuildStacktraces(began, samples) IN
    /\ \A ts \in kept :
         (Cardinality({s \in kept : s <= ts}) - 1) * SamplingInterval <= ts - began
    /\ \A ts \in samples \ kept :
         \/ ~ShouldIncludeSample(ts)
         \/ onlyFiltered /\ FindClosestActivation(ts) = NoMatch
         \/ Cardinality({s \in kept : s < ts}) * SamplingInterval > ts - began

\* A page is lost only when it was free: a reset overwrites the list of the pages
\* that the resets before it had freed.
OnlyFreePagesAreLost ==
  [][\A p \in Pages(table.arena.nodes) : p \in Pages(table'.arena.nodes \o table'.arena.freeNodes)]_vars

TypeOK ==
  /\ running \in BOOLEAN /\ onlyFiltered \in BOOLEAN /\ filter \subseteq Traces
  /\ DOMAIN stacks \subseteq Hashes /\ \A h \in DOMAIN stacks : stacks[h].count > 0
  /\ IsArena(table.arena) /\ table.periods # <<>>
  /\ Len(table.bins) = kBinsPerActivationPeriod * Len(table.periods)
  /\ startTime \in 0 .. MaxTime /\ clock \in startTime .. MaxTime
  /\ running => cutoff \in startTime .. clock
  /\ contexts \in Seq([context : Contexts, start : 0 .. MaxTime])
============================================================================
