---------------------------- MODULE MCCPUMonitor ----------------------------
(***************************************************************************)
(* Instances of CPUMonitor. The counters are kept modulo W, so the runs    *)
(* are complete for their W: they start at every uptime and never stop     *)
(* counting.                                                               *)
(***************************************************************************)
EXTENDS CPUMonitor
=============================================================================
