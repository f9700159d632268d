------------------------------ MODULE HttpSpans ------------------------------
(***************************************************************************)
(* The spans of HTTP exchanges: the instrumentation that listens to the    *)
(* diagnostics channels of node's http module                              *)
(* (src/instrumentations/httpdc/httpdc.ts), with the propagator that       *)
(* decides which traces are snapshotted (SnapshotPropagator.ts) and the    *)
(* span processor that begins and ends their snapshots                     *)
(* (SnapshotSpanProcessor.ts).                                             *)
(*                                                                         *)
(* What node reports of an exchange comes in any order and in part: an     *)
(* answer, an error and the close of a client request, the end or an error *)
(* of a server response, or nothing when the peer goes away; and the       *)
(* instrumentation may be turned off and on between them.                  *)
(*                                                                         *)
(* Simplifications: attributes, hooks and histograms are left out, what    *)
(* matters is when a span is written, ended and its duration recorded; the *)
(* semantic conventions in use do not change; the sampler's decisions are  *)
(* arbitrary; a trace without a parent is named after the exchange that    *)
(* began it; user code does not set baggage, nor start spans of its own.   *)
(***************************************************************************)
EXTENDS Naturals, FiniteSets

CONSTANTS
  Servers,     \* incoming exchanges
  Clients,     \* outgoing exchanges
  Upstream,    \* the traces that incoming requests may be part of
  NoTrace,
  Background   \* the context of code that no request called

Exchanges == Servers \cup Clients

ASSUME ExchangeAssumption ==
  /\ Servers \cap Clients = {}
  /\ Upstream \cap Exchanges = {}
  /\ NoTrace \notin Upstream \cup Exchanges
  /\ Background \notin Exchanges

VARIABLES
  config,       \* requireParentforIncomingSpans, requireParentforOutgoingSpans
  enabled,      \* isEnabled()
  active,       \* isSnapshotProfilingActive()
  stage,        \* of an exchange: unused, open, over
  details,      \* the exchanges whose [INSTRUMENTATION_SYMBOL] is set
  span,         \* of an exchange: its kind (own, remote: that of the peer, noop, or
                \* none), its trace, and whether it is recorded
  maker,        \* of a client request: the server exchange that made it, or Background
  ends,         \* how often its span was ended
  durations,    \* how often its duration was recorded
  snapshots,    \* the exchanges whose span is in the processor's snapshotSpans
  rewritten,    \* history: the exchanges whose span was written after its end
  unheard       \* history: the exchanges that ended when nobody heard of it

vars == <<config, enabled, active, stage, details, span, maker, ends, durations, snapshots,
          rewritten, unheard>>

Traces == Upstream \cup Exchanges

NoSpan == [kind |-> "none", trace |-> NoTrace, recorded |-> FALSE]

Init ==
  /\ config \in [incoming : BOOLEAN, outgoing : BOOLEAN]
  /\ enabled = TRUE /\ active \in BOOLEAN
  /\ stage = [x \in Exchanges |-> "unused"]
  /\ details = {} /\ snapshots = {} /\ rewritten = {} /\ unheard = {}
  /\ span = [x \in Exchanges |-> NoSpan]
  /\ maker = [c \in Clients |-> Background]
  /\ ends = [x \in Exchanges |-> 0] /\ durations = [x \in Exchanges |-> 0]

----------------------------------------------------------------------------
(* Contexts: the span in them and the volume in their baggage. *)

Volumes == {"highest", "off", "none"}

\* extract(ROOT_CONTEXT, headers).  A decision made upstream stands; one made here
\* (selected) is by the ratio sampler, or by chance when there is no trace yet.
Extracted(trace, volume, selected) ==
  [span |-> IF trace = NoTrace THEN NoSpan ELSE [kind |-> "remote", trace |-> trace, recorded |-> FALSE],
   volume |-> IF active /\ volume = "none" THEN IF selected THEN "highest" ELSE "off"
                                           ELSE volume]

\* The context the listeners of a request run in, and all they call: the span is added
\* to the active context, not to the one that was extracted.
HandlerContext(h) ==
  [span |-> IF h = Background THEN NoSpan ELSE span[h], volume |-> "none"]

----------------------------------------------------------------------------
(* Spans. *)

\* Mutant: without the parent that is required there is no span.
StartsNothing(x, required, parent, sampled) ==
  CASE required /\ parent.kind = "none" -> [kind |-> "undefined", trace |-> NoTrace, recorded |-> FALSE]
    [] required /\ parent.kind = "remote" -> parent
    [] OTHER -> [kind |-> "own", recorded |-> sampled,
                 trace |-> IF parent.trace = NoTrace THEN x ELSE parent.trace]

\* _startHttpSpan.  The noop span is a span: with it for a parent a new trace begins.
StartHttpSpan(x, required, parent, sampled) ==
  CASE required /\ parent.kind = "none" -> [kind |-> "noop", trace |-> NoTrace, recorded |-> FALSE]
    [] required /\ parent.kind = "remote" -> parent
    [] OTHER -> [kind |-> "own", recorded |-> sampled,
                 trace |-> IF parent.trace = NoTrace THEN x ELSE parent.trace]

\* onStart of the span processor: local roots of volume `highest' begin a snapshot.
BeginsSnapshot(started, context) ==
  /\ started.kind = "own" /\ started.recorded
  /\ context.span.kind \in {"none", "remote"}
  /\ context.volume = "highest" /\ active

\* What _httpServerRequestStart and _httpClientRequestCreated have in common.
SpanStarts(x, required, context, sampled) ==
  LET started == StartHttpSpan(x, required, context.span, sampled) IN
  /\ span' = [span EXCEPT ![x] = started]
  /\ details' = details \cup {x}
  /\ snapshots' = IF BeginsSnapshot(started, context) THEN snapshots \cup {x} ELSE snapshots

\* Attributes and a status are set on the span of x.
SpanWritten(x) ==
  rewritten' = IF ends[x] > 0 THEN rewritten \cup {x} ELSE rewritten

\* Mutant: the details stay.
ClosedKeepingDetails(x) ==
  /\ IF x \in details
       THEN /\ ends' = [ends EXCEPT ![x] = @ + 1]
            /\ durations' = [durations EXCEPT ![x] = @ + 1]
            /\ snapshots' = snapshots \ {x}
       ELSE UNCHANGED <<ends, durations, snapshots>>
  /\ UNCHANGED details

\* _closeHttpSpan, and onEnd of the span processor.
CloseHttpSpan(x) ==
  IF x \in details
    THEN /\ ends' = [ends EXCEPT ![x] = @ + 1]
         /\ durations' = [durations EXCEPT ![x] = @ + 1]
         /\ snapshots' = snapshots \ {x}
         /\ details' = details \ {x}
    ELSE UNCHANGED <<ends, durations, snapshots, details>>

\* A listener that writes the span of x and closes it, if there still is one.
Settles(x, heard) ==
  IF heard /\ x \in details
    THEN SpanWritten(x) /\ CloseHttpSpan(x)
    ELSE UNCHANGED <<rewritten, ends, durations, snapshots, details>>

----------------------------------------------------------------------------
(* Incoming requests. *)

\* http.server.request.start, then the event `request' in the same tick.  Requests the
\* hook of the user ignores have no span.
ServerRequestStart(s, trace, volume, ignored, sampled, selected) ==
  /\ stage[s] = "unused"
  /\ stage' = [stage EXCEPT ![s] = "open"]
  /\ IF enabled /\ ~ignored
       THEN SpanStarts(s, config.incoming, Extracted(trace, volume, selected), sampled)
       ELSE UNCHANGED <<span, details, snapshots>>
  /\ UNCHANGED <<config, enabled, active, maker, ends, durations, rewritten, unheard>>

\* http.server.response.finish.
ServerResponseFinished(s) ==
  /\ stage[s] = "open"
  /\ stage' = [stage EXCEPT ![s] = "over"]
  /\ Settles(s, enabled)
  /\ unheard' = IF enabled THEN unheard ELSE unheard \cup {s}
  /\ UNCHANGED <<config, enabled, active, span, maker>>

\* The response emits an error, as it does when it is written after its end.
ServerResponseError(s) ==
  /\ stage[s] # "unused"
  /\ Settles(s, TRUE)
  /\ UNCHANGED <<config, enabled, active, stage, span, maker, unheard>>

\* The connection is gone before the response has finished: neither channel reports it.
ServerAborted(s) ==
  /\ stage[s] = "open"
  /\ stage' = [stage EXCEPT ![s] = "over"]
  /\ unheard' = unheard \cup {s}
  /\ UNCHANGED <<config, enabled, active, details, span, maker, ends, durations, snapshots,
                 rewritten>>

----------------------------------------------------------------------------
(* Outgoing requests. *)

\* Mutant: a request is taken for one of the background.
CreatedInBackground(c, h, ignored, sampled) ==
  /\ stage[c] = "unused"
  /\ h \in {Background} \cup {s \in Servers : stage[s] # "unused"}
  /\ stage' = [stage EXCEPT ![c] = "open"]
  /\ maker' = [maker EXCEPT ![c] = h]
  /\ IF enabled /\ ~ignored
       THEN SpanStarts(c, config.outgoing, HandlerContext(Background), sampled)
       ELSE UNCHANGED <<span, details, snapshots>>
  /\ UNCHANGED <<config, enabled, active, ends, durations, rewritten, unheard>>

\* http.client.request.created, in the context of h, which may outlive the exchange.
\* Requests that are ignored by the user's hook, or made where tracing is suppressed,
\* have no span.
ClientRequestCreated(c, h, ignored, sampled) ==
  /\ stage[c] = "unused"
  /\ h \in {Background} \cup {s \in Servers : stage[s] # "unused"}
  /\ stage' = [stage EXCEPT ![c] = "open"]
  /\ maker' = [maker EXCEPT ![c] = h]
  /\ IF enabled /\ ~ignored
       THEN SpanStarts(c, config.outgoing, HandlerContext(h), sampled)
       ELSE UNCHANGED <<span, details, snapshots>>
  /\ UNCHANGED <<config, enabled, active, ends, durations, rewritten, unheard>>

\* http.request or http.get throws: there is no request, and only a duration to record
\* (the patch is taken off with the instrumentation).
ClientRequestThrows(c) ==
  /\ stage[c] = "unused"
  /\ stage' = [stage EXCEPT ![c] = "over"]
  /\ durations' = IF enabled THEN [durations EXCEPT ![c] = @ + 1] ELSE durations
  /\ UNCHANGED <<config, enabled, active, details, span, maker, ends, snapshots, rewritten, unheard>>

\* http.client.response.finish (the head of the response is there) or
\* http.client.request.error.
ClientRequestReported(c) ==
  /\ stage[c] = "open"
  /\ Settles(c, enabled)
  /\ UNCHANGED <<config, enabled, active, stage, span, maker, unheard>>

\* Mutant: the listener does nothing when the instrumentation is disabled.
ClosedIfEnabled(c) ==
  /\ stage[c] = "open"
  /\ stage' = [stage EXCEPT ![c] = "over"]
  /\ IF enabled THEN CloseHttpSpan(c) ELSE UNCHANGED <<ends, durations, snapshots, details>>
  /\ UNCHANGED <<config, enabled, active, span, maker, rewritten, unheard>>

\* The request is closed, the last of its events.
ClientRequestClosed(c) ==
  /\ stage[c] = "open"
  /\ stage' = [stage EXCEPT ![c] = "over"]
  /\ CloseHttpSpan(c)
  /\ UNCHANGED <<config, enabled, active, span, maker, rewritten, unheard>>

----------------------------------------------------------------------------
(* enable(), disable(); the snapshot profiler is turned on and off. *)

Toggle ==
  /\ enabled' = ~enabled
  /\ UNCHANGED <<config, active, stage, details, span, maker, ends, durations, snapshots,
                 rewritten, unheard>>

\* Turned off, the profiler clears what is in flight (clearActiveSnapshots).
ToggleSnapshots ==
  /\ active' = ~active
  /\ snapshots' = IF active THEN {} ELSE snapshots
  /\ UNCHANGED <<config, enabled, stage, details, span, maker, ends, durations, rewritten, unheard>>

ServerNext(s) ==
  \/ \E trace \in Upstream \cup {NoTrace}, volume \in Volumes, ignored, sampled, selected \in BOOLEAN :
       ServerRequestStart(s, trace, volume, ignored, sampled, selected)
  \/ ServerResponseFinished(s)
  \/ ServerResponseError(s)
  \/ ServerAborted(s)

ClientNext(c) ==
  \/ \E h \in Servers \cup {Background}, ignored, sampled \in BOOLEAN :
       ClientRequestCreated(c, h, ignored, sampled)
  \/ ClientRequestThrows(c)
  \/ ClientRequestReported(c)
  \/ ClientRequestClosed(c)

Next ==
  \/ \E s \in Servers : ServerNext(s)
  \/ \E c \in Clients : ClientNext(c)
  \/ Toggle
  \/ ToggleSnapshots

Spec == Init /\ [][Next]_vars

----------------------------------------------------------------------------
(* Properties. *)

\* The variables have their types.
TypeOK ==
  /\ config \in [incoming : BOOLEAN, outgoing : BOOLEAN]
  /\ enabled \in BOOLEAN /\ active \in BOOLEAN
  /\ stage \in [Exchanges -> {"unused", "open", "over"}]
  /\ span \in [Exchanges -> [kind : {"none", "own", "remote", "noop"},
                             trace : Traces \cup {NoTrace}, recorded : BOOLEAN]]
  /\ maker \in [Clients -> Servers \cup {Background}]
  /\ ends \in [Exchanges -> Nat] /\ durations \in [Exchanges -> Nat]
  /\ details \subseteq Exchanges /\ snapshots \subseteq Exchanges
  /\ rewritten \subseteq Exchanges /\ unheard \subseteq Exchanges

\* Whatever comes of an exchange and in what order, its span is ended and its duration
\* recorded once and together, nothing is written to it afterwards, and with it ends the
\* snapshot it began, if it was a span that could begin one.
SettledOnce ==
  /\ rewritten = {}
  /\ \A x \in Exchanges :
       span[x].kind # "none" =>
         /\ ends[x] = durations[x] /\ ends[x] = (IF x \in details THEN 0 ELSE 1)
         /\ x \in snapshots => x \in details /\ span[x].kind = "own" /\ span[x].recorded

\* No span stays open when its exchange is over, also when the instrumentation was
\* disabled in between, but that of an incoming request whose connection was lost or
\* that finished while disabled: for those neither the span nor its snapshot ends.
OpenIsInFlight ==
  \A x \in details : stage[x] = "open" \/ x \in Servers \cap unheard

\* Requests made on behalf of an incoming one are part of its trace.  When outgoing
\* spans need a parent they begin no trace, unless incoming ones need one too: the noop
\* span of an incoming request then passes for the parent.
TracesContinue ==
  \A c \in Clients :
    LET parent == HandlerContext(maker[c]).span IN
    /\ span[c].trace # NoTrace /\ parent.trace # NoTrace => span[c].trace = parent.trace
    /\ span[c].trace = c /\ config.outgoing => config.incoming /\ parent.kind = "noop"
============================================================================
