-------------------------- MODULE MCNativeProfiler --------------------------
(* Small instances of NativeProfiler for TLC. *)
EXTENDS NativeProfiler

CONSTANTS a, b, plain, s, t, x

\* Two spans of a trace, and a context without a span whose hash is that of
\* the first.
MCSpanOf == a :> s @@ b :> t @@ plain :> NoSpan

MCTraceOf == s :> x @@ t :> x

MCHashOf == a :> 1 @@ b :> 2 @@ plain :> 1
============================================================================
