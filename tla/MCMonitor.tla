------------------------------ MODULE MCMonitor ------------------------------
(***************************************************************************)
(* All tables of up to two rows made of two disks, a disk whose mount      *)
(* point has a space, a file system that is no device, and a row with a    *)
(* dash; memory that is in use, and overdrawn; processors at two clocks,   *)
(* without a clock, and an empty /proc/cpuinfo.                            *)
(***************************************************************************)
EXTENDS Monitor

Rows ==
  {[dev |-> TRUE,  blocks |-> 4, used |-> 3, available |-> 1, shape |-> "plain"],
   [dev |-> TRUE,  blocks |-> 2, used |-> 0, available |-> 2, shape |-> "plain"],
   [dev |-> TRUE,  blocks |-> 8, used |-> 5, available |-> 3, shape |-> "space"],
   [dev |-> FALSE, blocks |-> 1, used |-> 1, available |-> 0, shape |-> "plain"],
   [dev |-> FALSE, blocks |-> 0, used |-> 0, available |-> 0, shape |-> "dash"]}

MCTables == {<<>>} \cup {<<r>> : r \in Rows} \cup (Rows \X Rows)

MCMeminfos == {[l \in Lines |-> IF l = "MemTotal" THEN 4 ELSE n] : n \in {1, 2}}

\* Two processors, whose block has a name and, if there is one, a clock.
Processors(clock) ==
  LET block == <<Line("model name", <<32, 65, 10>>)>> \o
                 (IF clock = 0 THEN <<>> ELSE <<Line("cpu MHz", <<32, clock, 10>>)>>)
  IN  block \o block

MCCpuinfos == {<<>>, Processors(0), Processors(49), Processors(50)}
=============================================================================
