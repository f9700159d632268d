--------------------------- MODULE MCSdkLifecycle ---------------------------
(* Small instances of SdkLifecycle for TLC. *)
EXTENDS SdkLifecycle

CONSTANTS k1, k2, k3

Cfg(cpu, interval, calls) ==
  [cpu |-> cpu, interval |-> interval, memory |-> FALSE, calls |-> calls, callsInterval |-> 0]

OnOrOff == {Cfg(TRUE, 2, FALSE), Cfg(FALSE, 0, TRUE)}

\* All of it; without tracing, so that it can start again; tracing alone; tracing
\* that profiling joins by remote configuration; callgraphs and the agent.
MCStartOptions ==
  {{"profiling", "tracing", "metrics", "opamp"}, {"profiling", "snapshots"}, {"tracing"},
   {"tracing", "opamp"}, {"snapshots", "tracing", "logging", "secureapp"}}
============================================================================
