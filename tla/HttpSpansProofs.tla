-------------------------- MODULE HttpSpansProofs --------------------------
(* Theorems about HttpSpans, for every set of exchanges and traces. *)
EXTENDS HttpSpans, TLAPS

SpanRecords == [kind : {"none", "own", "remote", "noop"}, trace : Traces \cup {NoTrace},
                recorded : BOOLEAN]

(***************************************************************************)
(* Type correctness.                                                       *)
(***************************************************************************)

LEMMA StartedType ==
  ASSUME NEW x \in Exchanges, NEW required \in BOOLEAN, NEW parent \in SpanRecords,
         NEW sampled \in BOOLEAN
  PROVE  /\ StartHttpSpan(x, required, parent, sampled) \in SpanRecords
         /\ StartHttpSpan(x, required, parent, sampled).kind # "none"
<1>1. CASE required /\ parent.kind = "none"
  BY <1>1 DEF StartHttpSpan, SpanRecords
<1>2. CASE ~(required /\ parent.kind = "none") /\ required /\ parent.kind = "remote"
  BY <1>2 DEF StartHttpSpan, SpanRecords
<1>3. CASE ~(required /\ parent.kind = "none") /\ ~(required /\ parent.kind = "remote")
  <2>1. (IF parent.trace = NoTrace THEN x ELSE parent.trace) \in Traces \cup {NoTrace}
    BY DEF SpanRecords, Traces
  <2> QED
    BY <1>3, <2>1 DEF StartHttpSpan, SpanRecords
<1> QED
  BY <1>1, <1>2, <1>3

LEMMA ExtractedType ==
  ASSUME NEW trace \in Upstream \cup {NoTrace}, NEW volume \in Volumes, NEW selected \in BOOLEAN
  PROVE  Extracted(trace, volume, selected).span \in SpanRecords
BY DEF Extracted, SpanRecords, NoSpan, Traces

LEMMA HandlerType ==
  ASSUME TypeOK, NEW h \in Servers \cup {Background}
  PROVE  HandlerContext(h).span \in SpanRecords
BY ExchangeAssumption DEF HandlerContext, SpanRecords, NoSpan, TypeOK, Exchanges

LEMMA SpanStartsType ==
  ASSUME TypeOK, NEW x \in Exchanges, NEW required \in BOOLEAN, NEW context,
         context.span \in SpanRecords, NEW sampled \in BOOLEAN,
         SpanStarts(x, required, context, sampled)
  PROVE  /\ span' \in [Exchanges -> SpanRecords]
         /\ details' \subseteq Exchanges /\ snapshots' \subseteq Exchanges
<1>1. StartHttpSpan(x, required, context.span, sampled) \in SpanRecords
  BY StartedType
<1> QED
  BY <1>1 DEF SpanStarts, TypeOK, SpanRecords

LEMMA CloseType ==
  ASSUME TypeOK, NEW x \in Exchanges, CloseHttpSpan(x)
  PROVE  /\ ends' \in [Exchanges -> Nat] /\ durations' \in [Exchanges -> Nat]
         /\ details' \subseteq Exchanges /\ snapshots' \subseteq Exchanges
BY DEF CloseHttpSpan, TypeOK

LEMMA SettlesType ==
  ASSUME TypeOK, NEW x \in Exchanges, NEW heard \in BOOLEAN, Settles(x, heard)
  PROVE  /\ ends' \in [Exchanges -> Nat] /\ durations' \in [Exchanges -> Nat]
         /\ details' \subseteq Exchanges /\ snapshots' \subseteq Exchanges
         /\ rewritten' \subseteq Exchanges
BY CloseType DEF Settles, SpanWritten, TypeOK

\* TypeOK is an invariant.
THEOREM TypeCorrect == Spec => []TypeOK
<1> USE DEF Exchanges
<1>1. Init => TypeOK
  BY DEF Init, TypeOK, NoSpan
<1>2. TypeOK /\ [Next]_vars => TypeOK'
  <2> SUFFICES ASSUME TypeOK, [Next]_vars PROVE TypeOK'
    OBVIOUS
  <2>1. ASSUME NEW s \in Servers, NEW trace \in Upstream \cup {NoTrace}, NEW volume \in Volumes,
               NEW ignored \in BOOLEAN, NEW sampled \in BOOLEAN, NEW selected \in BOOLEAN,
               ServerRequestStart(s, trace, volume, ignored, sampled, selected)
        PROVE  TypeOK'
    <3>1. /\ span' \in [Exchanges -> SpanRecords]
          /\ details' \subseteq Exchanges /\ snapshots' \subseteq Exchanges
      <4>1. CASE enabled /\ ~ignored
        <5>1. config.incoming \in BOOLEAN
          BY DEF TypeOK
        <5> QED
          BY <2>1, <4>1, <5>1, SpanStartsType, ExtractedType DEF ServerRequestStart
      <4>2. CASE ~(enabled /\ ~ignored)
        BY <2>1, <4>2 DEF ServerRequestStart, TypeOK, SpanRecords
      <4> QED
        BY <4>1, <4>2
    <3> QED
      BY <2>1, <3>1 DEF ServerRequestStart, TypeOK, SpanRecords
  <2>2. ASSUME NEW s \in Servers, ServerResponseFinished(s) PROVE TypeOK'
    BY <2>2, SettlesType DEF ServerResponseFinished, TypeOK
  <2>3. ASSUME NEW s \in Servers, ServerResponseError(s) PROVE TypeOK'
    BY <2>3, SettlesType DEF ServerResponseError, TypeOK
  <2>4. ASSUME NEW s \in Servers, ServerAborted(s) PROVE TypeOK'
    BY <2>4 DEF ServerAborted, TypeOK
  <2>5. ASSUME NEW c \in Clients, NEW h \in Servers \cup {Background}, NEW ignored \in BOOLEAN,
               NEW sampled \in BOOLEAN, ClientRequestCreated(c, h, ignored, sampled)
        PROVE  TypeOK'
    <3>1. /\ span' \in [Exchanges -> SpanRecords]
          /\ details' \subseteq Exchanges /\ snapshots' \subseteq Exchanges
      <4>1. CASE enabled /\ ~ignored
        <5>1. config.outgoing \in BOOLEAN
          BY DEF TypeOK
        <5> QED
          BY <2>5, <4>1, <5>1, SpanStartsType, HandlerType DEF ClientRequestCreated
      <4>2. CASE ~(enabled /\ ~ignored)
        BY <2>5, <4>2 DEF ClientRequestCreated, TypeOK, SpanRecords
      <4> QED
        BY <4>1, <4>2
    <3> QED
      BY <2>5, <3>1 DEF ClientRequestCreated, TypeOK, SpanRecords
  <2>6. ASSUME NEW c \in Clients, ClientRequestThrows(c) PROVE TypeOK'
    BY <2>6 DEF ClientRequestThrows, TypeOK
  <2>7. ASSUME NEW c \in Clients, ClientRequestReported(c) PROVE TypeOK'
    BY <2>7, SettlesType DEF ClientRequestReported, TypeOK
  <2>8. ASSUME NEW c \in Clients, ClientRequestClosed(c) PROVE TypeOK'
    BY <2>8, CloseType DEF ClientRequestClosed, TypeOK
  <2>9. CASE Toggle
    BY <2>9 DEF Toggle, TypeOK
  <2>10. CASE ToggleSnapshots
    BY <2>10 DEF ToggleSnapshots, TypeOK
  <2>11. CASE UNCHANGED vars
    BY <2>11 DEF vars, TypeOK
  <2> QED
    BY <2>1, <2>2, <2>3, <2>4, <2>5, <2>6, <2>7, <2>8, <2>9, <2>10, <2>11
    DEF Next, ServerNext, ClientNext
<1> QED
  BY <1>1, <1>2, PTL DEF Spec

(***************************************************************************)
(* Settled once.  That a span which is open has neither been ended nor its *)
(* duration recorded must be known from the start of the exchange: an      *)
(* exchange without a span has not been ended, and one that is unused has  *)
(* no duration (http.request that throws records one without a span).      *)
(***************************************************************************)

SettledInv ==
  /\ rewritten = {}
  /\ \A x \in Exchanges :
       span[x].kind = "none" => x \notin details \cup snapshots /\ ends[x] = 0
  /\ \A x \in Exchanges : stage[x] = "unused" => span[x].kind = "none" /\ durations[x] = 0
  /\ SettledOnce

LEMMA SpanStartsSettled ==
  ASSUME TypeOK, SettledInv, NEW x \in Exchanges, NEW required \in BOOLEAN, NEW context,
         context.span \in SpanRecords, NEW sampled \in BOOLEAN,
         stage[x] = "unused", stage' = [stage EXCEPT ![x] = "open"],
         SpanStarts(x, required, context, sampled),
         UNCHANGED <<ends, durations, rewritten>>
  PROVE  SettledInv'
<1> DEFINE started == StartHttpSpan(x, required, context.span, sampled)
<1>1. started \in SpanRecords /\ started.kind # "none"
  BY StartedType
<1>2. /\ span' = [span EXCEPT ![x] = started] /\ details' = details \cup {x}
      /\ snapshots' = snapshots
         \/ (snapshots' = snapshots \cup {x} /\ started.kind = "own" /\ started.recorded)
  BY DEF SpanStarts, BeginsSnapshot
<1> HIDE DEF started
<1>3. \A y \in Exchanges : y # x => span'[y] = span[y] /\ stage'[y] = stage[y]
  BY <1>2 DEF TypeOK
<1>4. span'[x] = started /\ stage'[x] = "open"
  BY <1>2 DEF TypeOK
<1>5. x \notin details \cup snapshots /\ ends[x] = 0 /\ durations[x] = 0
  BY DEF SettledInv
<1>6. \A y \in Exchanges :
        span'[y].kind = "none" => y \notin details' \cup snapshots' /\ ends'[y] = 0
  BY <1>1, <1>2, <1>3, <1>4 DEF SettledInv
<1>7. \A y \in Exchanges : stage'[y] = "unused" => span'[y].kind = "none" /\ durations'[y] = 0
  BY <1>3, <1>4 DEF SettledInv
<1>8. SettledOnce'
  BY <1>1, <1>2, <1>3, <1>4, <1>5 DEF SettledInv, SettledOnce
<1> QED
  BY <1>6, <1>7, <1>8 DEF SettledInv

LEMMA CloseSettled ==
  ASSUME TypeOK, SettledInv, NEW x \in Exchanges, CloseHttpSpan(x),
         stage' \in [Exchanges -> {"unused", "open", "over"}],
         \A y \in Exchanges : stage'[y] = "unused" => stage[y] = "unused",
         stage[x] # "unused", UNCHANGED <<span, rewritten>>
  PROVE  SettledInv'
<1>1. CASE x \in details
  <2>1. span[x].kind # "none" /\ ends[x] = 0 /\ durations[x] = 0
    BY <1>1 DEF SettledInv, SettledOnce
  <2>2. /\ \A y \in Exchanges : y # x => ends'[y] = ends[y] /\ durations'[y] = durations[y]
        /\ ends'[x] = 1 /\ durations'[x] = 1
    BY <1>1, <2>1 DEF CloseHttpSpan, TypeOK
  <2>3. details' = details \ {x} /\ snapshots' = snapshots \ {x}
    BY <1>1 DEF CloseHttpSpan
  <2>4. SettledOnce'
    BY <2>1, <2>2, <2>3 DEF SettledInv, SettledOnce
  <2> QED
    BY <2>1, <2>2, <2>3, <2>4 DEF SettledInv
<1>2. CASE x \notin details
  BY <1>2 DEF CloseHttpSpan, SettledInv, SettledOnce
<1> QED
  BY <1>1, <1>2

LEMMA SettlesSettled ==
  ASSUME TypeOK, SettledInv, NEW x \in Exchanges, NEW heard \in BOOLEAN, Settles(x, heard),
         stage' \in [Exchanges -> {"unused", "open", "over"}],
         \A y \in Exchanges : stage'[y] = "unused" => stage[y] = "unused",
         stage[x] # "unused", UNCHANGED span
  PROVE  SettledInv'
<1>1. CASE heard /\ x \in details
  <2>1. ends[x] = 0
    BY <1>1 DEF SettledInv, SettledOnce
  <2>2. CloseHttpSpan(x) /\ rewritten' = rewritten
    BY <1>1, <2>1 DEF Settles, SpanWritten
  <2> QED
    BY <2>2, CloseSettled
<1>2. CASE ~(heard /\ x \in details)
  BY <1>2 DEF Settles, SettledInv, SettledOnce
<1> QED
  BY <1>1, <1>2

\* A span is ended and its duration recorded once and together, whatever node reports
\* and in what order (_closeHttpSpan and the listeners that call it).
THEOREM SettledOnceCorrect == Spec => []SettledOnce
<1> USE DEF Exchanges
<1>1. Init => SettledInv
  BY DEF Init, SettledInv, SettledOnce, NoSpan
<1>2. TypeOK /\ SettledInv /\ [Next]_vars => SettledInv'
  <2> SUFFICES ASSUME TypeOK, SettledInv, [Next]_vars PROVE SettledInv'
    OBVIOUS
  <2>0. ASSUME NEW x \in Exchanges, NEW to \in {"open", "over"}, stage' = [stage EXCEPT ![x] = to]
        PROVE  /\ stage' \in [Exchanges -> {"unused", "open", "over"}]
               /\ \A y \in Exchanges : stage'[y] = "unused" => stage[y] = "unused" /\ y # x
    BY <2>0 DEF TypeOK
  <2>1. ASSUME NEW s \in Servers, NEW trace \in Upstream \cup {NoTrace}, NEW volume \in Volumes,
               NEW ignored \in BOOLEAN, NEW sampled \in BOOLEAN, NEW selected \in BOOLEAN,
               ServerRequestStart(s, trace, volume, ignored, sampled, selected)
        PROVE  SettledInv'
    <3>1. CASE enabled /\ ~ignored
      <4>1. config.incoming \in BOOLEAN
        BY DEF TypeOK
      <4> QED
        BY <2>1, <3>1, <4>1, SpanStartsSettled, ExtractedType DEF ServerRequestStart
    <3>2. CASE ~(enabled /\ ~ignored)
      BY <2>1, <3>2, <2>0 DEF ServerRequestStart, SettledInv, SettledOnce
    <3> QED
      BY <3>1, <3>2
  <2>2. ASSUME NEW s \in Servers, ServerResponseFinished(s) PROVE SettledInv'
    BY <2>2, <2>0, SettlesSettled DEF ServerResponseFinished, TypeOK
  <2>3. ASSUME NEW s \in Servers, ServerResponseError(s) PROVE SettledInv'
    BY <2>3, SettlesSettled DEF ServerResponseError, TypeOK
  <2>4. ASSUME NEW s \in Servers, ServerAborted(s) PROVE SettledInv'
    BY <2>4, <2>0 DEF ServerAborted, SettledInv, SettledOnce
  <2>5. ASSUME NEW c \in Clients, NEW h \in Servers \cup {Background}, NEW ignored \in BOOLEAN,
               NEW sampled \in BOOLEAN, ClientRequestCreated(c, h, ignored, sampled)
        PROVE  SettledInv'
    <3>1. CASE enabled /\ ~ignored
      <4>1. config.outgoing \in BOOLEAN
        BY DEF TypeOK
      <4> QED
        BY <2>5, <3>1, <4>1, SpanStartsSettled, HandlerType DEF ClientRequestCreated
    <3>2. CASE ~(enabled /\ ~ignored)
      BY <2>5, <3>2, <2>0 DEF ClientRequestCreated, SettledInv, SettledOnce
    <3> QED
      BY <3>1, <3>2
  <2>6. ASSUME NEW c \in Clients, ClientRequestThrows(c) PROVE SettledInv'
    <3>1. span[c].kind = "none"
      BY <2>6 DEF ClientRequestThrows, SettledInv
    <3>2. \A y \in Exchanges : y # c => durations'[y] = durations[y]
      BY <2>6 DEF ClientRequestThrows, TypeOK
    <3> QED
      BY <2>6, <2>0, <3>1, <3>2 DEF ClientRequestThrows, SettledInv, SettledOnce
  <2>7. ASSUME NEW c \in Clients, ClientRequestReported(c) PROVE SettledInv'
    BY <2>7, SettlesSettled DEF ClientRequestReported, TypeOK
  <2>8. ASSUME NEW c \in Clients, ClientRequestClosed(c) PROVE SettledInv'
    BY <2>8, <2>0, CloseSettled DEF ClientRequestClosed, TypeOK
  <2>9. CASE Toggle
    BY <2>9 DEF Toggle, SettledInv, SettledOnce
  <2>10. CASE ToggleSnapshots
    BY <2>10 DEF ToggleSnapshots, SettledInv, SettledOnce
  <2>11. CASE UNCHANGED vars
    BY <2>11 DEF vars, SettledInv, SettledOnce
  <2> QED
    BY <2>1, <2>2, <2>3, <2>4, <2>5, <2>6, <2>7, <2>8, <2>9, <2>10, <2>11
    DEF Next, ServerNext, ClientNext
<1>3. SettledInv => SettledOnce
  BY DEF SettledInv
<1> QED
  BY <1>1, <1>2, <1>3, TypeCorrect, PTL DEF Spec

(***************************************************************************)
(* What is open is in flight.                                              *)
(***************************************************************************)

\* No span is left open but those of incoming exchanges whose end nobody heard of
\* (_httpServerResponseFinished and the listeners of close).
THEOREM OpenIsInFlightCorrect == Spec => []OpenIsInFlight
<1> USE DEF Exchanges
<1>1. Init => OpenIsInFlight
  BY DEF Init, OpenIsInFlight
<1>2. TypeOK /\ OpenIsInFlight /\ [Next]_vars => OpenIsInFlight'
  <2> SUFFICES ASSUME TypeOK, OpenIsInFlight, [Next]_vars PROVE OpenIsInFlight'
    OBVIOUS
  <2>1. ASSUME NEW s \in Servers, NEW trace \in Upstream \cup {NoTrace}, NEW volume \in Volumes,
               NEW ignored \in BOOLEAN, NEW sampled \in BOOLEAN, NEW selected \in BOOLEAN,
               ServerRequestStart(s, trace, volume, ignored, sampled, selected)
        PROVE  OpenIsInFlight'
    BY <2>1 DEF ServerRequestStart, SpanStarts, OpenIsInFlight, TypeOK
  <2>2. ASSUME NEW s \in Servers, ServerResponseFinished(s) PROVE OpenIsInFlight'
    BY <2>2 DEF ServerResponseFinished, Settles, CloseHttpSpan, OpenIsInFlight, TypeOK
  <2>3. ASSUME NEW s \in Servers, ServerResponseError(s) PROVE OpenIsInFlight'
    BY <2>3 DEF ServerResponseError, Settles, CloseHttpSpan, OpenIsInFlight, TypeOK
  <2>4. ASSUME NEW s \in Servers, ServerAborted(s) PROVE OpenIsInFlight'
    BY <2>4 DEF ServerAborted, OpenIsInFlight, TypeOK
  <2>5. ASSUME NEW c \in Clients, NEW h \in Servers \cup {Background}, NEW ignored \in BOOLEAN,
               NEW sampled \in BOOLEAN, ClientRequestCreated(c, h, ignored, sampled)
        PROVE  OpenIsInFlight'
    BY <2>5 DEF ClientRequestCreated, SpanStarts, OpenIsInFlight, TypeOK
  <2>6. ASSUME NEW c \in Clients, ClientRequestThrows(c) PROVE OpenIsInFlight'
    BY <2>6, ExchangeAssumption DEF ClientRequestThrows, OpenIsInFlight, TypeOK
  <2>7. ASSUME NEW c \in Clients, ClientRequestReported(c) PROVE OpenIsInFlight'
    BY <2>7 DEF ClientRequestReported, Settles, CloseHttpSpan, OpenIsInFlight, TypeOK
  <2>8. ASSUME NEW c \in Clients, ClientRequestClosed(c) PROVE OpenIsInFlight'
    BY <2>8 DEF ClientRequestClosed, CloseHttpSpan, OpenIsInFlight, TypeOK
  <2>9. CASE Toggle
    BY <2>9 DEF Toggle, OpenIsInFlight
  <2>10. CASE ToggleSnapshots
    BY <2>10 DEF ToggleSnapshots, OpenIsInFlight
  <2>11. CASE UNCHANGED vars
    BY <2>11 DEF vars, OpenIsInFlight
  <2> QED
    BY <2>1, <2>2, <2>3, <2>4, <2>5, <2>6, <2>7, <2>8, <2>9, <2>10, <2>11
    DEF Next, ServerNext, ClientNext
<1> QED
  BY <1>1, <1>2, TypeCorrect, PTL DEF Spec

(***************************************************************************)
(* Traces.  A request made by a handler finds the span of the incoming     *)
(* exchange, which does not change any more.  The span of an incoming      *)
(* exchange is in a trace of the peer or in its own; it is the noop span   *)
(* only where a parent is required.                                        *)
(***************************************************************************)

InTrace(record) == record.kind \in {"own", "remote"} <=> record.trace # NoTrace

ParentOf(spans, h) == IF h = Background THEN NoSpan ELSE spans[h]

\* TracesContinue of the request c, whose span is the record and made under parent.
Continued(c, record, parent) ==
  /\ record.trace # NoTrace /\ parent.trace # NoTrace => record.trace = parent.trace
  /\ record.trace = c /\ config.outgoing => config.incoming /\ parent.kind = "noop"

SpansInTrace == \A x \in Exchanges : InTrace(span[x])

UnusedHasNoSpan == \A x \in Exchanges : stage[x] = "unused" => span[x] = NoSpan

ServersTraced ==
  \A s \in Servers :
    /\ span[s].trace \in Upstream \cup {s, NoTrace}
    /\ span[s].kind = "noop" => config.incoming

MakersStarted == \A c \in Clients : maker[c] # Background => stage[maker[c]] # "unused"

TraceInv ==
  SpansInTrace /\ UnusedHasNoSpan /\ ServersTraced /\ MakersStarted /\ TracesContinue

LEMMA StartedTrace ==
  ASSUME NEW x \in Exchanges, NEW required \in BOOLEAN, NEW parent \in SpanRecords, InTrace(parent),
         NEW sampled \in BOOLEAN
  PROVE  LET started == StartHttpSpan(x, required, parent, sampled) IN
         /\ InTrace(started)
         /\ started.trace \in {parent.trace, x, NoTrace}
         /\ parent.trace # NoTrace => started.trace = parent.trace
         /\ started.kind = "noop" => required
         /\ started.trace = x /\ required => parent.trace = x \/ parent.kind = "noop"
<1>0. x # NoTrace
  BY ExchangeAssumption
<1>1. CASE required /\ parent.kind = "none"
  BY <1>1, <1>0 DEF StartHttpSpan, SpanRecords, InTrace
<1>2. CASE ~(required /\ parent.kind = "none") /\ required /\ parent.kind = "remote"
  BY <1>2, <1>0 DEF StartHttpSpan, SpanRecords, InTrace
<1>3. CASE ~(required /\ parent.kind = "none") /\ ~(required /\ parent.kind = "remote")
  BY <1>3, <1>0 DEF StartHttpSpan, SpanRecords, InTrace
<1> QED
  BY <1>1, <1>2, <1>3

\* TraceInv depends on stage, span, maker and config, and on stage only in what is unused.
LEMMA TraceKept ==
  ASSUME TypeOK, TraceInv, UNCHANGED <<span, maker, config>>,
         \A x \in Exchanges : stage'[x] = "unused" => stage[x] = "unused"
  PROVE  TraceInv'
<1>1. \A h : HandlerContext(h)' = HandlerContext(h)
  BY DEF HandlerContext, NoSpan
<1>2. TracesContinue'
  BY <1>1 DEF TraceInv, TracesContinue
<1>3. MakersStarted'
  BY DEF TraceInv, MakersStarted, TypeOK, Exchanges
<1>4. SpansInTrace' /\ UnusedHasNoSpan' /\ ServersTraced'
  BY DEF TraceInv, SpansInTrace, UnusedHasNoSpan, ServersTraced, InTrace, NoSpan
<1> QED
  BY <1>2, <1>3, <1>4 DEF TraceInv

\* An incoming exchange gets its span.
LEMMA ServerTraced ==
  ASSUME TypeOK, TraceInv, NEW s \in Servers, stage[s] = "unused",
         stage' = [stage EXCEPT ![s] = "open"], UNCHANGED <<maker, config>>,
         NEW trace \in Upstream \cup {NoTrace}, NEW volume \in Volumes, NEW selected \in BOOLEAN,
         NEW sampled \in BOOLEAN,
         SpanStarts(s, config.incoming, Extracted(trace, volume, selected), sampled)
  PROVE  TraceInv'
<1> USE DEF Exchanges
<1> DEFINE parent == Extracted(trace, volume, selected).span
           started == StartHttpSpan(s, config.incoming, parent, sampled)
<1>1. parent \in SpanRecords /\ InTrace(parent) /\ parent.trace \in Upstream \cup {NoTrace}
  BY ExtractedType, ExchangeAssumption DEF Extracted, InTrace, NoSpan
<1>2. config.incoming \in BOOLEAN
  BY DEF TypeOK
<1>3. /\ InTrace(started) /\ started.trace \in Upstream \cup {s, NoTrace}
      /\ started.kind = "noop" => config.incoming
  <2> HIDE DEF parent
  <2> QED
    BY <1>1, <1>2, StartedTrace
<1>4. span' = [span EXCEPT ![s] = started]
  BY DEF SpanStarts
<1> HIDE DEF started, parent
<1>5. /\ span'[s] = started /\ stage'[s] = "open"
      /\ \A x \in Exchanges : x # s => span'[x] = span[x] /\ stage'[x] = stage[x]
  BY <1>4 DEF TypeOK
<1>6. \A c \in Clients : c # s /\ maker[c] # s
  BY ExchangeAssumption DEF TraceInv, MakersStarted
<1>7. \A c \in Clients : HandlerContext(maker[c])' = HandlerContext(maker[c])
  BY <1>5, <1>6 DEF HandlerContext, TypeOK, NoSpan
<1>8. TracesContinue'
  BY <1>5, <1>6, <1>7 DEF TraceInv, TracesContinue
<1>9. MakersStarted'
  BY <1>5, <1>6 DEF TraceInv, MakersStarted, TypeOK
<1>10. ServersTraced'
  BY <1>3, <1>5 DEF TraceInv, ServersTraced
<1>11. SpansInTrace'
  BY <1>3, <1>5 DEF TraceInv, SpansInTrace, InTrace
<1>12. UnusedHasNoSpan'
  BY <1>5 DEF TraceInv, UnusedHasNoSpan, NoSpan
<1> QED
  BY <1>8, <1>9, <1>10, <1>11, <1>12 DEF TraceInv

\* A request is made by h, with a span or without.
LEMMA ClientTraced ==
  ASSUME TypeOK, TraceInv, NEW c \in Clients, NEW h \in Servers \cup {Background},
         stage[c] = "unused", h # Background => stage[h] # "unused",
         stage' = [stage EXCEPT ![c] = "open"], maker' = [maker EXCEPT ![c] = h], UNCHANGED config,
         NEW sampled \in BOOLEAN,
         \/ SpanStarts(c, config.outgoing, HandlerContext(h), sampled)
         \/ UNCHANGED span
  PROVE  TraceInv'
<1> USE DEF Exchanges
<1> DEFINE parent == HandlerContext(h).span
           started == StartHttpSpan(c, config.outgoing, parent, sampled)
<1>1. /\ parent \in SpanRecords /\ InTrace(parent)
      /\ parent.trace # c
      /\ parent.kind = "noop" => config.incoming
  BY HandlerType, ExchangeAssumption
  DEF TraceInv, SpansInTrace, ServersTraced, HandlerContext, InTrace, NoSpan
<1>2. config.outgoing \in BOOLEAN
  BY DEF TypeOK
<1>3. c # h /\ c \notin Servers /\ c # NoTrace
  BY ExchangeAssumption
<1>4. span[c] = NoSpan
  BY DEF TraceInv, UnusedHasNoSpan
<1>5. \/ span' = [span EXCEPT ![c] = started]
      \/ span' = span
  BY DEF SpanStarts
<1>6. /\ InTrace(started)
      /\ parent.trace # NoTrace => started.trace = parent.trace
      /\ started.trace = c /\ config.outgoing => parent.trace = c \/ parent.kind = "noop"
  <2> HIDE DEF parent
  <2> QED
    BY <1>1, <1>2, StartedTrace
<1> HIDE DEF started
<1>7. /\ span'[c] \in {started, NoSpan} /\ stage'[c] = "open" /\ maker'[c] = h
      /\ \A x \in Exchanges : x # c => span'[x] = span[x] /\ stage'[x] = stage[x]
      /\ \A d \in Clients : d # c => maker'[d] = maker[d]
  BY <1>4, <1>5 DEF TypeOK
<1>8. \A g \in Servers \cup {Background} : ParentOf(span', g) = ParentOf(span, g)
  BY <1>3, <1>7 DEF ParentOf
<1>9. TracesContinue'
  <2> SUFFICES ASSUME NEW d \in Clients PROVE Continued(d, span'[d], ParentOf(span', maker'[d]))
    BY DEF TracesContinue, HandlerContext, Continued, ParentOf
  <2>1. CASE d # c
    <3>1. ParentOf(span', maker'[d]) = ParentOf(span, maker[d])
      BY <2>1, <1>7, <1>8 DEF TypeOK
    <3>2. Continued(d, span[d], ParentOf(span, maker[d]))
      BY DEF TraceInv, TracesContinue, HandlerContext, Continued, ParentOf
    <3> QED
      BY <2>1, <3>1, <3>2, <1>7
  <2>2. CASE d = c
    <3>1. ParentOf(span', maker'[c]) = parent
      BY <1>7, <1>8 DEF ParentOf, HandlerContext
    <3> HIDE DEF parent
    <3>2. Continued(c, span'[c], parent)
      BY <1>1, <1>3, <1>6, <1>7 DEF NoSpan, Continued
    <3> QED
      BY <2>2, <3>1, <3>2
  <2> QED
    BY <2>1, <2>2
<1>10. MakersStarted'
  BY <1>7 DEF TraceInv, MakersStarted, TypeOK
<1>11. ServersTraced'
  BY <1>3, <1>7 DEF TraceInv, ServersTraced
<1>12. SpansInTrace'
  BY <1>6, <1>7 DEF TraceInv, SpansInTrace, InTrace, NoSpan
<1>13. UnusedHasNoSpan'
  BY <1>7 DEF TraceInv, UnusedHasNoSpan, NoSpan
<1> QED
  BY <1>9, <1>10, <1>11, <1>12, <1>13 DEF TraceInv

\* Requests made on behalf of an incoming one stay in its trace (_getPatchServerEmit and
\* _startHttpSpan).
THEOREM TracesContinueCorrect == Spec => []TracesContinue
<1> USE DEF Exchanges
<1>1. Init => TraceInv
  BY ExchangeAssumption DEF Init, TraceInv, SpansInTrace, UnusedHasNoSpan, ServersTraced, MakersStarted,
      TracesContinue, InTrace, NoSpan, HandlerContext
<1>2. TypeOK /\ TraceInv /\ [Next]_vars => TraceInv'
  <2> SUFFICES ASSUME TypeOK, TraceInv, [Next]_vars PROVE TraceInv'
    OBVIOUS
  <2>0. ASSUME NEW x \in Exchanges, NEW to \in {"open", "over"}, stage' = [stage EXCEPT ![x] = to]
        PROVE  \A y \in Exchanges : stage'[y] = "unused" => stage[y] = "unused"
    BY <2>0 DEF TypeOK
  <2>1. ASSUME NEW s \in Servers, NEW trace \in Upstream \cup {NoTrace}, NEW volume \in Volumes,
               NEW ignored \in BOOLEAN, NEW sampled \in BOOLEAN, NEW selected \in BOOLEAN,
               ServerRequestStart(s, trace, volume, ignored, sampled, selected)
        PROVE  TraceInv'
    <3>1. CASE enabled /\ ~ignored
      BY <2>1, <3>1, ServerTraced DEF ServerRequestStart
    <3>2. CASE ~(enabled /\ ~ignored)
      BY <2>1, <3>2, <2>0, TraceKept DEF ServerRequestStart
    <3> QED
      BY <3>1, <3>2
  <2>2. ASSUME NEW s \in Servers, ServerResponseFinished(s) PROVE TraceInv'
    BY <2>2, <2>0, TraceKept DEF ServerResponseFinished
  <2>3. ASSUME NEW s \in Servers, ServerResponseError(s) PROVE TraceInv'
    BY <2>3, TraceKept DEF ServerResponseError
  <2>4. ASSUME NEW s \in Servers, ServerAborted(s) PROVE TraceInv'
    BY <2>4, <2>0, TraceKept DEF ServerAborted
  <2>5. ASSUME NEW c \in Clients, NEW h \in Servers \cup {Background}, NEW ignored \in BOOLEAN,
               NEW sampled \in BOOLEAN, ClientRequestCreated(c, h, ignored, sampled)
        PROVE  TraceInv'
    <3>1. \/ SpanStarts(c, config.outgoing, HandlerContext(h), sampled)
          \/ UNCHANGED span
      BY <2>5 DEF ClientRequestCreated
    <3>2. h # Background => stage[h] # "unused"
      BY <2>5 DEF ClientRequestCreated
    <3> QED
      BY <2>5, <3>1, <3>2, ClientTraced DEF ClientRequestCreated
  <2>6. ASSUME NEW c \in Clients, ClientRequestThrows(c) PROVE TraceInv'
    BY <2>6, <2>0, TraceKept DEF ClientRequestThrows
  <2>7. ASSUME NEW c \in Clients, ClientRequestReported(c) PROVE TraceInv'
    BY <2>7, TraceKept DEF ClientRequestReported
  <2>8. ASSUME NEW c \in Clients, ClientRequestClosed(c) PROVE TraceInv'
    BY <2>8, <2>0, TraceKept DEF ClientRequestClosed
  <2>9. CASE Toggle
    BY <2>9, TraceKept DEF Toggle
  <2>10. CASE ToggleSnapshots
    BY <2>10, TraceKept DEF ToggleSnapshots
  <2>11. CASE UNCHANGED vars
    BY <2>11, TraceKept DEF vars
  <2> QED
    BY <2>1, <2>2, <2>3, <2>4, <2>5, <2>6, <2>7, <2>8, <2>9, <2>10, <2>11
    DEF Next, ServerNext, ClientNext
<1>3. TraceInv => TracesContinue
  BY DEF TraceInv
<1> QED
  BY <1>1, <1>2, <1>3, TypeCorrect, PTL DEF Spec
============================================================================
