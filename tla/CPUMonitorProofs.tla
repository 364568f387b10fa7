-------------------------- MODULE CPUMonitorProofs --------------------------
(***************************************************************************)
(* Proofs about the CPU sampler, for every width of the counters and every *)
(* number of ticks between two readings that is less than one turn of a    *)
(* counter.                                                                *)
(*                                                                         *)
(* UsageExactWithoutWrap and WrapReportsFullLoad compare a sample with     *)
(* what was really counted, but the thread knows only two readings modulo  *)
(* W. SpanAccounts, the strengthening, relates the readings to the span    *)
(* while the sample is being made; the arithmetic of CalcCPUUsage is the   *)
(* lemma SampleOfSpan.                                                     *)
(***************************************************************************)
EXTENDS CPUMonitor, TLAPS

-----------------------------------------------------------------------------
(* Counters that are kept modulo W.                                        *)

\* A word of 2^32 values: within one turn in either direction, the remainder
\* is reached by one subtraction or addition.
LEMMA Remainder ==
  ASSUME NEW x \in Int, -W <= x, x < 2 * W
  PROVE  /\ x % W \in 0..(W - 1)
         /\ x < 0 => x % W = x + W
         /\ 0 <= x /\ x < W => x % W = x
         /\ W <= x => x % W = x - W
  <1>1. W \in Nat /\ W > 0
    BY CPUAssumption
  <1>2. x % W \in 0..(W - 1)
    BY <1>1
  <1>3. x < 0 => x % W = x + W
    BY <1>1
  <1>4. 0 <= x /\ x < W => x % W = x
    BY <1>1
  <1>5. W <= x => x % W = x - W
    BY <1>1
  <1> QED BY <1>2, <1>3, <1>4, <1>5

\* The kernel's counter moves on by n after it has moved by m: the two steps
\* add up, modulo W.
LEMMA Advance ==
  ASSUME NEW x \in 0..(W - 1), NEW m \in Int, NEW n \in {-1, 1},
         -W < m, m < W, -W < m + n, m + n < W
  PROVE  (((x + m) % W) + n) % W = (x + (m + n)) % W
  <1>1. W \in Nat /\ W > 0
    BY CPUAssumption
  <1> DEFINE y == (x + m) % W
  <1>2. /\ y \in 0..(W - 1)
        /\ x + m < 0 => y = x + m + W
        /\ 0 <= x + m /\ x + m < W => y = x + m
        /\ W <= x + m => y = x + m - W
    BY <1>1, Remainder
  <1> DEFINE z == (y + n) % W
  <1>3. /\ z \in 0..(W - 1)
        /\ y + n < 0 => z = y + n + W
        /\ 0 <= y + n /\ y + n < W => z = y + n
        /\ W <= y + n => z = y + n - W
    <2> HIDE DEF y
    <2> QED BY <1>1, <1>2, Remainder
  <1> DEFINE t == (x + (m + n)) % W
  <1>4. /\ t \in 0..(W - 1)
        /\ x + (m + n) < 0 => t = x + (m + n) + W
        /\ 0 <= x + (m + n) /\ x + (m + n) < W => t = x + (m + n)
        /\ W <= x + (m + n) => t = x + (m + n) - W
    BY <1>1, Remainder
  <1>5. z = t
    <2> HIDE DEF y, z, t
    <2> QED BY <1>1, <1>2, <1>3, <1>4
  <1> QED BY <1>5

-----------------------------------------------------------------------------
(* One sample.                                                             *)

\* CalcCPUUsage returns a fraction that is not negative, and never divides by 0.
LEMMA CalcType ==
  ASSUME NEW old \in CPUInfo, NEW new \in CPUInfo
  PROVE  /\ CalcCPUUsage(old, new) \in [num : Nat, den : Nat \ {0}]
         /\ CalcCPUUsage(old, new) # NotSampled
  <1>1. W \in Nat /\ W > 0
    BY CPUAssumption
  <1>2. /\ old["idle"] \in Int /\ old["other"] \in Int
        /\ new["idle"] \in Int /\ new["other"] \in Int
    BY <1>1 DEF CPUInfo, Counters
  <1> DEFINE sumTime == Total(new) - Total(old)
             freeTime == (new["idle"] - old["idle"]) % W
  <1>3. sumTime \in Int /\ freeTime \in Int
    BY <1>1, <1>2 DEF Total
  <1>4. CalcCPUUsage(old, new) = IF (sumTime - freeTime) * sumTime > 0
          THEN [num |-> Abs(sumTime - freeTime), den |-> Abs(sumTime)] ELSE Zero
    BY DEF CalcCPUUsage
  <1> HIDE DEF sumTime, freeTime
  <1>5. CASE (sumTime - freeTime) * sumTime > 0
    <2>1. sumTime # 0
      BY <1>3, <1>5
    <2> QED BY <1>3, <1>4, <1>5, <2>1 DEF Abs, NotSampled
  <1>6. CASE ~((sumTime - freeTime) * sumTime > 0)
    BY <1>4, <1>6 DEF Zero, NotSampled
  <1> QED BY <1>5, <1>6

\* CalcCPUUsage sees two readings; idle and other are what was counted between
\* them. As long as the sum of the counters stays in its word the sample is the
\* exact share, else it is at least 1.
LEMMA SampleOfSpan ==
  ASSUME NEW old \in CPUInfo, NEW new \in CPUInfo,
         NEW idle \in Nat, NEW other \in Int,
         other >= -MaxDrop, idle + other <= Window,
         new["idle"] = (old["idle"] + idle) % W,
         new["other"] = (old["other"] + other) % W
  PROVE  LET u     == CalcCPUUsage(old, new)
             wraps == Total(old) + idle + other \notin 0..(W - 1)
         IN  /\ ~wraps /\ idle + other >= 0 =>
                  IF other > 0 THEN u.num * (idle + other) = other * u.den ELSE u = Zero
             /\ wraps /\ idle + other > 0 => u.num >= u.den
  <1>1. /\ W \in Nat /\ W > 0 /\ Window \in Nat /\ MaxDrop \in Nat
        /\ Window + MaxDrop < W
    BY CPUAssumption
  <1> DEFINE a == old["idle"]
             b == old["other"]
             c == new["idle"]
             d == new["other"]
             s == Total(old)
             t == Total(new)
             free == (c - a) % W
  <1>2. a \in 0..(W - 1) /\ b \in 0..(W - 1)
    BY <1>1 DEF CPUInfo, Counters
  <1>3. /\ c \in 0..(W - 1)
        /\ a + idle < W => c = a + idle
        /\ W <= a + idle => c = a + idle - W
    BY <1>1, <1>2, Remainder
  <1>4. /\ d \in 0..(W - 1)
        /\ b + other < 0 => d = b + other + W
        /\ 0 <= b + other /\ b + other < W => d = b + other
        /\ W <= b + other => d = b + other - W
    BY <1>1, <1>2, Remainder
  <1>5. s \in 0..(W - 1) /\ (s = a + b \/ s = a + b - W)
    BY <1>1, <1>2, Remainder DEF Total
  <1>6. t \in 0..(W - 1) /\ (t = c + d \/ t = c + d - W)
    <2> HIDE DEF a, b
    <2> QED BY <1>1, <1>3, <1>4, Remainder DEF Total
  <1>7. free = idle
    <2>1. /\ c - a < 0 => free = c - a + W
          /\ 0 <= c - a => free = c - a
      <3> HIDE DEF a, c
      <3>1. c - a \in Int /\ -W <= c - a /\ c - a < W
        BY <1>1, <1>2, <1>3
      <3> QED BY <1>1, <3>1, Remainder
    <2> HIDE DEF a, c, free
    <2> QED BY <1>1, <1>2, <1>3, <2>1
  <1>8. CalcCPUUsage(old, new) = IF ((t - s) - free) * (t - s) > 0
          THEN [num |-> Abs((t - s) - free), den |-> Abs(t - s)] ELSE Zero
    BY DEF CalcCPUUsage
  <1> HIDE DEF a, b, c, d, s, t, free
  <1>9. ASSUME s + idle + other \in 0..(W - 1), idle + other >= 0
        PROVE  IF other > 0 THEN CalcCPUUsage(old, new).num * (idle + other) = other * CalcCPUUsage(old, new).den
                            ELSE CalcCPUUsage(old, new) = Zero
    <2>1. t - s = idle + other
      BY <1>1, <1>2, <1>3, <1>4, <1>5, <1>6, <1>9
    <2>2. (t - s) - free = other
      BY <2>1, <1>7
    <2>3. CASE other > 0
      <3>1. other * (idle + other) > 0
        BY <2>3
      <3>2. Abs(other) = other /\ Abs(idle + other) = idle + other
        BY <2>3 DEF Abs
      <3>3. CalcCPUUsage(old, new) = [num |-> other, den |-> idle + other]
        BY <1>8, <2>1, <2>2, <3>1, <3>2
      <3> QED BY <3>3, <2>3
    <2>4. CASE ~(other > 0)
      <3>1. ~(other * (idle + other) > 0)
        BY <2>4, <1>9
      <3> QED BY <1>8, <2>1, <2>2, <2>4, <3>1
    <2> QED BY <2>3, <2>4
  <1>10. ASSUME s + idle + other \notin 0..(W - 1), idle + other > 0
         PROVE  CalcCPUUsage(old, new).num >= CalcCPUUsage(old, new).den
    <2>1. t - s = idle + other - W
      BY <1>1, <1>2, <1>3, <1>4, <1>5, <1>6, <1>10
    <2>2. (t - s) - free = other - W
      BY <2>1, <1>7, <1>1
    <2>3. other - W < 0 /\ idle + other - W < 0
      BY <1>1
    <2>4. (other - W) * (idle + other - W) > 0
      BY <1>1, <2>3
    <2>5. Abs(other - W) = W - other /\ Abs(idle + other - W) = W - (idle + other)
      BY <1>1, <2>3 DEF Abs
    <2>6. CalcCPUUsage(old, new) = [num |-> W - other, den |-> W - (idle + other)]
      BY <1>8, <2>1, <2>2, <2>4, <2>5
    <2> QED BY <2>6, <1>1
  <1> QED BY <1>9, <1>10 DEF s

-----------------------------------------------------------------------------
(* The invariant.                                                          *)

\* The constructor: no sample yet, and no reading is held.
LEMMA InitIInv == Init => IInv
  BY CPUAssumption DEF Init, IInv, SpanAccounts, UsageTyped, SentinelNeverReturned,
     UsageExactWithoutWrap, WrapReportsFullLoad, Sampled, NotSampled, NoSpan,
     Counters, CPUInfo

\* A step that leaves the published sample alone keeps what is said about it.
LEMMA SampleFrame ==
  ASSUME IInv, UNCHANGED <<cpuUsage, measured>>,
         owner' = "loading" => owner = "loading" \/ cpuUsage.num >= 0
  PROVE  /\ UsageTyped' /\ SentinelNeverReturned'
         /\ UsageExactWithoutWrap' /\ WrapReportsFullLoad'
  BY DEF IInv, UsageTyped, SentinelNeverReturned, UsageExactWithoutWrap,
     WrapReportsFullLoad, Sampled, UsageIs

\* The kernel counts n ticks of c, while the thread sleeps or not.
LEMMA CountStep ==
  ASSUME IInv, NEW c \in Counters, NEW n \in {-1, 1}, Count(c, n),
         n = 1 => (thread = "readNew" => span["idle"] + span["other"] < Window),
         n = -1 => c = "other" /\ (thread = "readNew" => span["other"] > -MaxDrop)
  PROVE  IInv'
  <1>1. /\ W \in Nat /\ W > 0 /\ Window \in Nat /\ MaxDrop \in Nat
        /\ Window + MaxDrop < W
    BY CPUAssumption
  <1>2. /\ kernel \in CPUInfo /\ span \in [Counters -> Int]
        /\ kernel[c] \in 0..(W - 1)
    BY DEF IInv, SpanAccounts, CPUInfo
  <1>3. (kernel[c] + n) % W \in 0..(W - 1)
    BY <1>1, <1>2
  <1>4. kernel' \in CPUInfo /\ span' \in [Counters -> Int]
    BY <1>2, <1>3 DEF Count, CPUInfo
  <1>5. ASSUME thread = "readNew" PROVE Apart(oldCPU, kernel)'
    <2>1. Apart(oldCPU, kernel)
      BY <1>5 DEF IInv, SpanAccounts
    <2>2. span' = [span EXCEPT ![c] = @ + n] /\ kernel' = [kernel EXCEPT ![c] = (@ + n) % W]
      BY <1>5 DEF Count
    <2>3. span[c] \in Int /\ -W < span[c] /\ span[c] < W
      BY <1>1, <2>1 DEF Apart, Counters
    <2>4. /\ span'["idle"] \in Nat /\ span'["other"] \in Int /\ span'["other"] >= -MaxDrop
          /\ span'["idle"] + span'["other"] <= Window
      BY <1>1, <1>2, <1>5, <2>1, <2>2 DEF Apart, Counters
    <2>5. span'[c] = span[c] + n /\ -W < span[c] + n /\ span[c] + n < W
      BY <1>1, <1>2, <2>2, <2>4 DEF Counters
    <2>6. kernel'[c] = (oldCPU[c] + span'[c]) % W
      <3>1. oldCPU[c] \in 0..(W - 1) /\ kernel[c] = (oldCPU[c] + span[c]) % W
        BY <2>1 DEF Apart, CPUInfo
      <3>2. kernel'[c] = (kernel[c] + n) % W
        BY <2>2, <1>2 DEF CPUInfo
      <3> QED BY <3>1, <3>2, <2>3, <2>5, Advance
    <2>7. \A e \in Counters \ {c} : kernel'[e] = (oldCPU[e] + span'[e]) % W
      BY <2>1, <2>2, <1>2 DEF Apart, CPUInfo
    <2> QED BY <1>4, <2>1, <2>4, <2>6, <2>7 DEF Apart, Count
  <1>6. ASSUME thread = "store" PROVE Apart(oldCPU, newCPU)'
    BY <1>6 DEF IInv, SpanAccounts, Apart, Count
  <1>7. SpanAccounts'
    BY <1>4, <1>5, <1>6 DEF SpanAccounts, Count
  <1> QED BY <1>7, SampleFrame DEF IInv, Count

\* The thread publishes a sample: the arithmetic is that of SampleOfSpan.
LEMMA StoreStep ==
  ASSUME IInv, ThreadStore
  PROVE  IInv'
  <1>1. Apart(oldCPU, newCPU) /\ SpanAccounts
    BY DEF IInv, SpanAccounts, ThreadStore
  <1> DEFINE u == CalcCPUUsage(oldCPU, newCPU)
  <1>2. u \in [num : Nat, den : Nat \ {0}] /\ u # NotSampled
    BY <1>1, CalcType DEF Apart
  <1>3. /\ ~SpanWraps /\ span["idle"] + span["other"] >= 0 =>
             IF span["other"] > 0
               THEN u.num * (span["idle"] + span["other"]) = span["other"] * u.den
               ELSE u = Zero
        /\ SpanWraps /\ span["idle"] + span["other"] > 0 => u.num >= u.den
    BY <1>1, SampleOfSpan DEF Apart, SpanWraps, Counters
  <1> HIDE DEF u
  <1>4. cpuUsage' = u /\ measured' = [span |-> span, wraps |-> SpanWraps]
    BY DEF ThreadStore, u
  <1>5. UsageExactWithoutWrap'
    BY <1>3, <1>4 DEF UsageExactWithoutWrap, UsageIs
  <1>6. WrapReportsFullLoad'
    BY <1>3, <1>4 DEF WrapReportsFullLoad
  <1>7. UsageTyped' /\ SentinelNeverReturned'
    BY <1>2, <1>4 DEF UsageTyped, SentinelNeverReturned
  <1>8. SpanAccounts'
    BY <1>1 DEF SpanAccounts, ThreadStore, NoSpan
  <1> QED BY <1>5, <1>6, <1>7, <1>8 DEF IInv

\* Every step of the kernel, the thread and the owner keeps the invariant.
LEMMA NextIInv == IInv /\ [Next]_vars => IInv'
  <1> SUFFICES ASSUME IInv, [Next]_vars PROVE IInv'
    OBVIOUS
  <1>1. CASE KernelTick
    <2>1. PICK c \in Counters : Count(c, 1)
      BY <1>1 DEF KernelTick
    <2> QED BY <1>1, <2>1, CountStep DEF KernelTick
  <1>2. CASE KernelIowaitDrop
    BY <1>2, CountStep DEF KernelIowaitDrop, Counters
  <1>3. CASE ThreadCheck
    <2>1. SpanAccounts'
      BY <1>3 DEF IInv, SpanAccounts, ThreadCheck
    <2> QED BY <1>3, <2>1, SampleFrame DEF IInv, ThreadCheck
  <1>4. CASE ThreadReadOld
    <2>1. SpanAccounts'
      <3>1. kernel \in CPUInfo
        BY DEF IInv, SpanAccounts
      <3>2. \A c \in Counters : kernel[c] = (kernel[c] + 0) % W
        <4> SUFFICES ASSUME NEW c \in Counters PROVE kernel[c] = (kernel[c] + 0) % W
          OBVIOUS
        <4>1. kernel[c] \in 0..(W - 1) /\ W \in Nat
          BY <3>1, CPUAssumption DEF CPUInfo
        <4> QED BY <4>1, Remainder
      <3> QED BY <1>4, <3>1, <3>2, CPUAssumption
              DEF SpanAccounts, Apart, ThreadReadOld, NoSpan, Counters
    <2> QED BY <1>4, <2>1, SampleFrame DEF IInv, ThreadReadOld
  <1>5. CASE ThreadReadNew
    <2>1. SpanAccounts'
      BY <1>5 DEF IInv, SpanAccounts, Apart, ThreadReadNew
    <2> QED BY <1>5, <2>1, SampleFrame DEF IInv, ThreadReadNew
  <1>6. CASE ThreadStore
    BY <1>6, StoreStep
  <1>7. CASE ThreadFopenFails
    <2>1. SpanAccounts'
      BY <1>7 DEF IInv, SpanAccounts, ThreadFopenFails
    <2> QED BY <1>7, <2>1, SampleFrame DEF IInv, ThreadFopenFails
  <1>8. CASE GetCpuUsage \/ Destroy
    <2>1. UNCHANGED <<kernel, cpuUsage, thread, oldCPU, newCPU, span, measured>>
      BY <1>8 DEF GetCpuUsage, GetCpuUsageCompare, GetCpuUsageReturn, Destroy,
           DestroyStop, DestroyFree
    <2>2. owner' = "loading" => owner = "loading" \/ cpuUsage.num >= 0
      BY <1>8 DEF GetCpuUsage, GetCpuUsageCompare, GetCpuUsageReturn, Destroy,
           DestroyStop, DestroyFree
    <2>3. SpanAccounts'
      BY <2>1 DEF IInv, SpanAccounts, Apart
    <2> QED BY <2>1, <2>2, <2>3, SampleFrame DEF IInv
  <1>9. CASE UNCHANGED vars
    <2>1. SpanAccounts'
      BY <1>9 DEF IInv, SpanAccounts, Apart, vars
    <2> QED BY <1>9, <2>1, SampleFrame DEF IInv, vars
  <1> QED BY <1>1, <1>2, <1>3, <1>4, <1>5, <1>6, <1>7, <1>8, <1>9
          DEF Next, Kernel, RunCPUThread

-----------------------------------------------------------------------------
\* The inductive invariant holds at every uptime, whatever the kernel counts.
THEOREM Invariance == Spec => []IInv
  BY InitIInv, NextIInv, PTL DEF Spec

\* For counters of every width: a sample of CalcCPUUsage during which the sum of
\* the counters did not wrap is exactly the share of time that was not idle, also
\* when the idle counter itself wrapped.
THEOREM UsageExact == Spec => []UsageExactWithoutWrap
  <1>1. IInv => UsageExactWithoutWrap
    BY DEF IInv
  <1> QED BY <1>1, Invariance, PTL

\* For counters of every width: when the sum wraps, CalcCPUUsage reports at least
\* full load.
THEOREM WrapIsFullLoad == Spec => []WrapReportsFullLoad
  <1>1. IInv => WrapReportsFullLoad
    BY DEF IInv
  <1> QED BY <1>1, Invariance, PTL

\* The second load of GetCPUUSage never finds the sentinel the first one has not
\* seen, in any interleaving with the thread.
THEOREM SentinelHidden == Spec => []SentinelNeverReturned
  <1>1. IInv => SentinelNeverReturned
    BY DEF IInv
  <1> QED BY <1>1, Invariance, PTL
=============================================================================
