----------------------- MODULE MCProfilingController -----------------------
(* Small instances of ProfilingController for TLC. *)
EXTENDS ProfilingController

CONSTANT k1

Cfg(cpu, interval, memory, calls, callsInterval) ==
  [cpu |-> cpu, interval |-> interval, memory |-> memory,
   calls |-> calls, callsInterval |-> callsInterval]

\* Off, on at two intervals, with memory, memory without cpu, callgraphs.
MixedConfigs ==
  {Cfg(FALSE, 0, FALSE, FALSE, 0), Cfg(TRUE, 0, FALSE, TRUE, 2), Cfg(TRUE, 2, FALSE, FALSE, 0),
   Cfg(TRUE, 1, TRUE, FALSE, 1), Cfg(FALSE, 0, TRUE, TRUE, 0)}
============================================================================
