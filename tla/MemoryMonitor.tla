--------------------------- MODULE MemoryMonitor ---------------------------
(***************************************************************************)
(* CM::MemoryMonitor (MemoryMonitor.cpp): what its three getters make of   *)
(* one reading of /proc/meminfo. Amounts are unsigned long, in kB.         *)
(***************************************************************************)
EXTENDS TwoDecimals

CONSTANTS
  W,   \* 2^64, the number of values of an unsigned long
  GB   \* kB in the unit of total and unused

ASSUME MemoryAssumption == W \in Nat \ {0} /\ GB \in Nat \ {0}

Amounts == {"MemFree", "MemAvailable", "Buffers", "Cached", "Shmem", "SReclaimable"}
Lines   == Amounts \cup {"MemTotal"}

\* What /proc/meminfo may show on a machine with this memory: the kernel reads
\* its counters one by one, so the amounts need not add up.
Meminfo(total, max) == {[l \in Lines |-> IF l = "MemTotal" THEN total ELSE a[l]] :
                          a \in [Amounts -> 0..max]}

-----------------------------------------------------------------------------
(* The lines the loop looks for are copied; MemoryPacket is zeroed before, *)
(* and no branch looks for MemAvailable.                                   *)
GetMemoryInfo(file) ==
  [l \in Lines |->
     IF l \in {"MemTotal", "MemFree", "Buffers", "Cached", "Shmem", "SReclaimable"}
       THEN file[l] ELSE 0]

\* The kB that can be had without swapping.
Reclaimable(m) == m["MemFree"] + m["Buffers"] + m["Cached"] + m["SReclaimable"] - m["Shmem"]

\* A plausible bug: that shared memory is part of Cached is forgotten.
UsedWithoutShared(m) == (m["MemTotal"] - ((Reclaimable(m) + m["Shmem"]) % W)) % W

\* Both differences are unsigned.
Used(m) == (m["MemTotal"] - (Reclaimable(m) % W)) % W

GetMemoryTotal(file)  == GetMemoryInfo(file)["MemTotal"] \div GB
GetMemoryUnused(file) == GetMemoryInfo(file)["MemAvailable"] \div GB

\* The share of the memory in use, as any text format may print for it.
GetMemoryUsage(file) ==
  LET m == GetMemoryInfo(file) IN Hundredths(Used(m), m["MemTotal"])
=============================================================================
