----------------------------- MODULE CPUMonitor -----------------------------
(***************************************************************************)
(* The usage sampler of CM::CPUMonitor (CPUMonitor.cpp).                   *)
(*   - A detached thread (RunCPUThread) reads /proc/stat twice, half a     *)
(*     second apart, and stores the share of busy time in cpuUsage.        *)
(*   - The owner of the object calls GetCPUUSage, which loads cpuUsage     *)
(*     twice: once to compare it with 0, once to return it.                *)
(*   - The owner destroys the object: the destructor clears the flag and   *)
(*     does not wait for the thread.                                       *)
(*   - The kernel advances the counters of /proc/stat at any time.         *)
(*                                                                         *)
(* The seven counters of CPUInfo are unsigned int: sscanf keeps the value  *)
(* of the 64-bit counter of the kernel modulo W = 2^32. CalcCPUUsage only  *)
(* looks at idle and at the sum of all seven, so the six others are one    *)
(* counter here, `other`. A double that results from a division is the     *)
(* fraction num/den.                                                       *)
(***************************************************************************)
EXTENDS TwoDecimals

CONSTANTS
  W,            \* 2^32, the number of values of an unsigned int
  Window,       \* bound: ticks the kernel counts between the two readings
  MaxDrop,      \* bound: ticks iowait may lose between the two readings
  NoInfo,       \* a CPUInfo that is not in scope
  FopenMayFail  \* whether fopen("/proc/stat") may return NULL

ASSUME CPUAssumption ==
  /\ W \in Nat /\ Window \in Nat \ {0} /\ MaxDrop \in Nat
  /\ Window + MaxDrop < W
  /\ FopenMayFail \in BOOLEAN

VARIABLES
  kernel,    \* the counters of /proc/stat, modulo W
  cpuUsage,  \* the atomic of CPUPrivate
  running,   \* the flag the destructor clears
  thread,    \* where the detached thread is
  oldCPU,    \* the thread's local variables
  newCPU,
  owner,     \* where the owner of the object is
  reply,     \* what the last call of GetCpuUsage returned, in hundredths
  span,      \* history: what was really counted since oldCPU was read
  measured   \* history: the span behind cpuUsage

vars == <<kernel, cpuUsage, running, thread, oldCPU, newCPU, owner, reply,
          span, measured>>

Counters == {"idle", "other"}
CPUInfo  == [Counters -> 0..(W - 1)]
NoSpan   == [c \in Counters |-> 0]

NotSampled == [num |-> -1, den |-> 1]
Zero       == [num |-> 0, den |-> 1]

-----------------------------------------------------------------------------
(* CalcCPUUsage.                                                           *)

\* The sum of the unsigned counters wraps before it becomes a double.
Total(info) == (info["idle"] + info["other"]) % W

\* A plausible bug: the idle counters become doubles before the subtraction.
CalcCPUUsageSignedIdle(old, new) ==
  LET sumTime  == Total(new) - Total(old)
      freeTime == new["idle"] - old["idle"]
  IN  IF (sumTime - freeTime) * sumTime > 0
        THEN [num |-> Abs(sumTime - freeTime), den |-> Abs(sumTime)]
        ELSE Zero

(* sumTime is a difference of doubles and may be negative; freeTime is an  *)
(* unsigned difference. 1 - freeTime / sumTime is positive when            *)
(* sumTime - freeTime and sumTime have the same sign; NaN and -infinity    *)
(* (sumTime = 0) are not greater than 0 either.                            *)
CalcCPUUsage(old, new) ==
  LET sumTime  == Total(new) - Total(old)
      freeTime == (new["idle"] - old["idle"]) % W
  IN  IF (sumTime - freeTime) * sumTime > 0
        THEN [num |-> Abs(sumTime - freeTime), den |-> Abs(sumTime)]
        ELSE Zero

-----------------------------------------------------------------------------
(* The state after the constructor, at any uptime of the machine.          *)
Init ==
  /\ kernel \in CPUInfo
  /\ cpuUsage = NotSampled /\ running = TRUE
  /\ thread = "check" /\ oldCPU = NoInfo /\ newCPU = NoInfo
  /\ owner = "idle" /\ reply = 0
  /\ span = NoSpan /\ measured = [span |-> NoSpan, wraps |-> FALSE]

-----------------------------------------------------------------------------
(* The kernel.                                                             *)

Count(c, n) ==
  /\ kernel' = [kernel EXCEPT ![c] = (@ + n) % W]
  /\ span' = IF thread = "readNew" THEN [span EXCEPT ![c] = @ + n] ELSE span
  /\ UNCHANGED <<cpuUsage, running, thread, oldCPU, newCPU, owner, reply,
                 measured>>

\* A tick is accounted to idle or to one of the other counters.
KernelTick ==
  /\ thread = "readNew" => span["idle"] + span["other"] < Window
  /\ \E c \in Counters : Count(c, 1)

\* The counter iowait, alone, may also go backwards.
KernelIowaitDrop ==
  /\ thread = "readNew" => span["other"] > -MaxDrop
  /\ Count("other", -1)

-----------------------------------------------------------------------------
(* The detached thread.                                                    *)

\* while (running). Once the object is destroyed the flag is read from freed
\* memory, which may hold anything.
ThreadCheck ==
  /\ thread = "check"
  /\ \E flag \in IF owner = "destroyed" THEN BOOLEAN ELSE {running} :
       thread' = IF flag THEN "readOld" ELSE "exited"
  /\ UNCHANGED <<kernel, cpuUsage, running, oldCPU, newCPU, owner, reply,
                 span, measured>>

ThreadReadOld ==
  /\ thread = "readOld"
  /\ oldCPU' = kernel
  /\ span' = NoSpan
  /\ thread' = "readNew"
  /\ UNCHANGED <<kernel, cpuUsage, running, newCPU, owner, reply, measured>>

\* After the sleep of half a second.
ThreadReadNew ==
  /\ thread = "readNew"
  /\ newCPU' = kernel
  /\ thread' = "store"
  /\ UNCHANGED <<kernel, cpuUsage, running, oldCPU, owner, reply, span,
                 measured>>

\* GetCPUInfo logs that fopen failed and calls fgets on NULL, which ends the
\* process.
ThreadFopenFails ==
  /\ FopenMayFail
  /\ thread \in {"readOld", "readNew"}
  /\ thread' = "crashed"
  /\ UNCHANGED <<kernel, cpuUsage, running, oldCPU, newCPU, owner, reply,
                 span, measured>>

\* Whether the sum of the counters passed a multiple of W during the span.
SpanWraps == Total(oldCPU) + span["idle"] + span["other"] \notin 0..(W - 1)

\* A plausible bug: a usage of 0 is not worth a store.
ThreadStoreNonZero ==
  /\ thread = "store"
  /\ LET u == CalcCPUUsage(oldCPU, newCPU)
     IN  cpuUsage' = IF u = Zero THEN cpuUsage ELSE u
  /\ measured' = [span |-> span, wraps |-> SpanWraps]
  /\ oldCPU' = NoInfo /\ newCPU' = NoInfo /\ span' = NoSpan
  /\ thread' = "check"
  /\ UNCHANGED <<kernel, running, owner, reply>>

ThreadStore ==
  /\ thread = "store"
  /\ cpuUsage' = CalcCPUUsage(oldCPU, newCPU)
  /\ measured' = [span |-> span, wraps |-> SpanWraps]
  /\ oldCPU' = NoInfo /\ newCPU' = NoInfo /\ span' = NoSpan
  /\ thread' = "check"
  /\ UNCHANGED <<kernel, running, owner, reply>>

-----------------------------------------------------------------------------
(* The owner of the object.                                                *)

\* A plausible bug: the comparison is turned round.
GetCpuUsageCompareWrong ==
  /\ thread # "crashed"
  /\ owner = "idle"
  /\ \/ cpuUsage.num > 0 /\ reply' = 0 /\ owner' = "idle"
     \/ cpuUsage.num <= 0 /\ owner' = "loading" /\ UNCHANGED reply
  /\ UNCHANGED <<kernel, cpuUsage, running, thread, oldCPU, newCPU, span,
                 measured>>

\* if (cpuUsage < 0) return 0.0
GetCpuUsageCompare ==
  /\ thread # "crashed"
  /\ owner = "idle"
  /\ \/ cpuUsage.num < 0 /\ reply' = 0 /\ owner' = "idle"
     \/ cpuUsage.num >= 0 /\ owner' = "loading" /\ UNCHANGED reply
  /\ UNCHANGED <<kernel, cpuUsage, running, thread, oldCPU, newCPU, span,
                 measured>>

\* return cpuUsage, a second load; then the value is formatted.
GetCpuUsageReturn ==
  /\ thread # "crashed"
  /\ owner = "loading"
  /\ reply' \in Hundredths(cpuUsage.num, cpuUsage.den)
  /\ owner' = "idle"
  /\ UNCHANGED <<kernel, cpuUsage, running, thread, oldCPU, newCPU, span,
                 measured>>

\* ~CPUPrivate clears the flag ...
DestroyStop ==
  /\ thread # "crashed"
  /\ owner = "idle"
  /\ running' = FALSE
  /\ owner' = "destroying"
  /\ UNCHANGED <<kernel, cpuUsage, thread, oldCPU, newCPU, reply, span,
                 measured>>

\* ... and the object is gone.
DestroyFree ==
  /\ thread # "crashed"
  /\ owner = "destroying"
  /\ owner' = "destroyed"
  /\ UNCHANGED <<kernel, cpuUsage, running, thread, oldCPU, newCPU, reply,
                 span, measured>>

-----------------------------------------------------------------------------
Kernel == KernelTick \/ KernelIowaitDrop

RunCPUThread == ThreadCheck \/ ThreadReadOld \/ ThreadReadNew \/ ThreadStore

GetCpuUsage == GetCpuUsageCompare \/ GetCpuUsageReturn

Destroy == DestroyStop \/ DestroyFree

Next == (thread # "crashed" /\ Kernel) \/ RunCPUThread \/ ThreadFopenFails
          \/ GetCpuUsage \/ Destroy

Spec == Init /\ [][Next]_vars

\* The operating system keeps scheduling the thread.
FairSpec == Spec /\ WF_vars(RunCPUThread)
-----------------------------------------------------------------------------
(* Properties.                                                             *)

\* The fraction cpuUsage is n/d.
UsageIs(n, d) == cpuUsage.num * d = n * cpuUsage.den

Sampled == cpuUsage # NotSampled

\* At every uptime, also when the idle counter itself passes 2^32, a sample
\* whose sum of counters neither wrapped nor went backwards is exactly the share
\* of time that was not idle, and 0 when iowait lost as much as the others
\* gained.
UsageExactWithoutWrap ==
  LET idle  == measured.span["idle"]
      other == measured.span["other"]
  IN  Sampled /\ ~measured.wraps /\ idle + other >= 0 =>
        IF other > 0 THEN UsageIs(other, idle + other) ELSE cpuUsage = Zero

\* What a wrap of the sum does: the sample is at least 100 percent, however idle
\* the machine was (sumTime is negative, freeTime is not).
WrapReportsFullLoad ==
  Sampled /\ measured.wraps /\ measured.span["idle"] + measured.span["other"] > 0
    => cpuUsage.num >= cpuUsage.den

\* The sentinel -1 of the constructor is never formatted: a call that has passed
\* the comparison finds a sample at its second load too.
SentinelNeverReturned == owner = "loading" => cpuUsage.num >= 0

\* Unless the object is destroyed or the process crashes first, a sample is
\* eventually published, also on a machine where nothing is counted (0/0).
FirstUsageArrives == <>(Sampled \/ ~running \/ thread = "crashed")

\* CPUMonitor.h:23 says that GetCpuUsage gets the CPU usage; so a sample is the
\* share of the counted ticks that were not idle.
UsageIsBusyShare ==
  LET idle  == measured.span["idle"]
      other == measured.span["other"]
  IN  Sampled /\ idle + other > 0 => UsageIs(other, idle + other)

\* CPUMonitor.cpp:56 says of the destructor that the detached thread stops; so
\* it has stopped when the object is gone.
ThreadStoppedByDestructor == owner = "destroyed" => thread = "exited"
-----------------------------------------------------------------------------
(* The inductive invariant of the proofs (CPUMonitorProofs).               *)

\* Whenever there is a sample it is a fraction that is not negative.
UsageTyped == Sampled => cpuUsage \in [num : Nat, den : Nat \ {0}]

\* Two readings `span` apart, which is less than one turn of a counter.
Apart(old, new) ==
  /\ old \in CPUInfo /\ new \in CPUInfo
  /\ span["idle"] \in Nat /\ span["other"] \in Int /\ span["other"] >= -MaxDrop
  /\ span["idle"] + span["other"] <= Window
  /\ \A c \in Counters : new[c] = (old[c] + span[c]) % W

\* What the thread holds is that far behind the kernel while it sleeps, and what
\* it has read that far apart afterwards.
SpanAccounts ==
  /\ kernel \in CPUInfo /\ span \in [Counters -> Int]
  /\ thread = "readNew" => Apart(oldCPU, kernel)
  /\ thread = "store" => Apart(oldCPU, newCPU)

IInv ==
  /\ SpanAccounts /\ UsageTyped /\ SentinelNeverReturned
  /\ UsageExactWithoutWrap /\ WrapReportsFullLoad
=============================================================================
