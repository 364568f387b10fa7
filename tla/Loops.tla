------------------------------- MODULE Loops -------------------------------
(***************************************************************************)
(* Loops over a sequence: what FoldLeft computes is what is left after the *)
(* last of as many steps as the sequence is long.                          *)
(***************************************************************************)
EXTENDS Integers, Sequences, SequencesExt, WellFoundedInduction, TLAPS

-----------------------------------------------------------------------------
(* Induction over the natural numbers.                                     *)

\* A set of natural numbers has a least one.
LEMMA LeastNumber ==
  ASSUME NEW T \in SUBSET Nat, T # {}
  PROVE  \E m \in T : \A k \in T : m <= k
  <1>1. \E m \in T : \A k \in T : ~ (<<k, m>> \in OpToRel(<, Nat))
    BY WFMin, NatLessThanWellFounded, Zenon
  <1>2. OpToRel(<, Nat) = {p \in Nat \X Nat : p[1] < p[2]}
    BY Zenon DEF OpToRel
  <1>3. \A k \in Nat, m \in Nat : k < m => <<k, m>> \in OpToRel(<, Nat)
    <2> SUFFICES ASSUME NEW k \in Nat, NEW m \in Nat, k < m
                 PROVE  <<k, m>> \in {p \in Nat \X Nat : p[1] < p[2]}
      BY <1>2
    <2> QED OBVIOUS
  <1>4. PICK R : R = OpToRel(<, Nat)
    OBVIOUS
  <1>5. \E m \in T : \A k \in T : ~ (<<k, m>> \in R)
    BY <1>1, <1>4
  <1>6. \A k \in Nat, m \in Nat : k < m => <<k, m>> \in R
    BY <1>3, <1>4
  <1>7. PICK m \in T : \A k \in T : ~ (<<k, m>> \in R)
    BY <1>5
  <1>8. \A k \in T : k \in Nat /\ m \in Nat /\ ~(k < m)
    BY <1>6, <1>7
  <1>9. \A k \in T : m <= k
    BY <1>8
  <1> QED BY <1>7, <1>9

\* A set of natural numbers that has 0, and the next of each, has all.
LEMMA Induction ==
  ASSUME NEW T \in SUBSET Nat, 0 \in T, \A n \in T : n + 1 \in T
  PROVE  \A n \in Nat : n \in T
  <1> SUFFICES ASSUME Nat \ T # {} PROVE FALSE
    OBVIOUS
  <1>1. PICK m \in Nat \ T : \A k \in Nat \ T : m <= k
    BY LeastNumber
  <1>2. m # 0 /\ m - 1 \in Nat /\ ~(m <= m - 1)
    BY <1>1
  <1>3. m - 1 \in T
    BY <1>1, <1>2
  <1> QED BY <1>1, <1>3

\* What holds before the first of n steps, and after each step if before it,
\* holds after the last.
LEMMA LoopInduction ==
  ASSUME NEW n \in Nat, NEW T, 0 \in T, \A k \in 0..(n - 1) : k \in T => k + 1 \in T
  PROVE  \A k \in 0..n : k \in T
  <1>1. PICK U : U = {k \in Nat : k <= n => k \in T}
    OBVIOUS
  <1>2. U \in SUBSET Nat /\ 0 \in U
    BY <1>1
  <1>3. ASSUME NEW k \in U PROVE k + 1 \in U
    <2>1. k \in Nat /\ (k + 1 <= n => k \in 0..(n - 1))
      BY <1>1
    <2> QED BY <1>1, <2>1
  <1>4. \A k \in Nat : k \in U
    BY <1>2, <1>3, Induction
  <1> QED BY <1>1, <1>4

\* A function on 1..n with values in S is a sequence.
LEMMA AsSequence ==
  ASSUME NEW S, NEW n \in Nat, NEW f, f = [i \in 1..n |-> f[i]], \A i \in 1..n : f[i] \in S
  PROVE  f \in Seq(S) /\ Len(f) = n
  OBVIOUS

\* A sequence of members of R is one of members of a larger set.
LEMMA LargerSet ==
  ASSUME NEW R, NEW S, R \subseteq S, NEW f \in Seq(R)
  PROVE  f \in Seq(S)
  <1>1. Len(f) \in Nat /\ f = [i \in 1..Len(f) |-> f[i]] /\ \A i \in 1..Len(f) : f[i] \in S
    OBVIOUS
  <1> QED BY <1>1, AsSequence

-----------------------------------------------------------------------------
(* FoldLeft goes through the indices from the largest of the rest on.      *)

\* The largest of some of the numbers up to n.
LEMMA LargestOf ==
  ASSUME NEW n \in Nat, NEW s \in SUBSET (0..n), s # {}
  PROVE  Max(s) \in s /\ \A y \in s : y <= Max(s)
  <1>1. PICK m \in {k \in Nat : n - k \in s} : \A k \in {k \in Nat : n - k \in s} : m <= k
    <2>1. PICK y : y \in s
      OBVIOUS
    <2>2. n - y \in Nat /\ n - (n - y) = y
      BY <2>1
    <2>3. {k \in Nat : n - k \in s} # {}
      BY <2>1, <2>2
    <2> QED BY <2>3, LeastNumber
  <1>2. PICK x \in s : x = n - m
    BY <1>1
  <1>3. ASSUME NEW y \in s PROVE x >= y
    <2>1. n - y \in Nat /\ n - (n - y) = y
      OBVIOUS
    <2>2. m <= n - y
      BY <1>1, <2>1
    <2> QED BY <1>1, <1>2, <2>2
  <1>4. \E z \in s : \A y \in s : z >= y
    BY <1>3
  <1>5. Max(s) \in s /\ \A y \in s : Max(s) >= y
    BY <1>4, Zenon DEF Max
  <1> QED BY <1>5

\* The same without 0.
LEMMA LargestFacts ==
  ASSUME NEW n \in Nat, NEW s \in SUBSET (1..n), s # {}
  PROVE  Max(s) \in s /\ \A y \in s : y <= Max(s)
  <1>1. s \in SUBSET (0..n)
    OBVIOUS
  <1> QED BY <1>1, LargestOf

\* The largest of the first k numbers.
LEMMA LargestOfPrefix ==
  ASSUME NEW k \in Nat \ {0}
  PROVE  Max(1..k) = k /\ (1..k) \ {k} = 1..(k - 1)
  <1>1. 1..k \in SUBSET (1..k) /\ 1..k # {} /\ k \in 1..k
    OBVIOUS
  <1>2. Max(1..k) \in 1..k /\ k <= Max(1..k)
    BY <1>1, LargestFacts
  <1> QED BY <1>2

\* What a fold over the first n numbers is defined by.
FoldsBy(it, n, S, base, step) ==
  /\ it \in [SUBSET (1..n) -> S]
  /\ it[{}] = base
  /\ \A s \in SUBSET (1..n) : s # {} => it[s] = step[<<it[s \ {Max(s)}], Max(s)>>]

\* A fold exists.
LEMMA FoldExists ==
  ASSUME NEW S, NEW base \in S, NEW N \in Nat, NEW step \in [S \X (1..N) -> S]
  PROVE  \E it : FoldsBy(it, N, S, base, step)
  <1> DEFINE T == {n \in Nat : n <= N => \E it : FoldsBy(it, n, S, base, step)}
  <1>1. 0 \in T
    <2>1. PICK it : it = [s \in SUBSET (1..0) |-> base]
      OBVIOUS
    <2>2. it \in [SUBSET (1..0) -> S] /\ it[{}] = base
      BY <2>1
    <2>3. \A s \in SUBSET (1..0) : s = {}
      OBVIOUS
    <2> QED BY <2>2, <2>3 DEF FoldsBy
  <1>2. ASSUME NEW n \in T PROVE n + 1 \in T
    <2> SUFFICES ASSUME n + 1 <= N PROVE \E it : FoldsBy(it, n + 1, S, base, step)
      BY <1>2
    <2>1. n \in Nat /\ n <= N
      BY <1>2
    <2>2. PICK it : FoldsBy(it, n, S, base, step)
      BY <1>2, <2>1
    <2>3. PICK more : more = [s \in SUBSET (1..(n + 1)) |->
                                IF n + 1 \in s THEN step[<<it[s \ {n + 1}], n + 1>>] ELSE it[s]]
      OBVIOUS
    <2>4. ASSUME NEW s \in SUBSET (1..(n + 1))
          PROVE  s \ {n + 1} \in SUBSET (1..n) /\ (n + 1 \notin s => s \in SUBSET (1..n))
      BY <2>1
    <2>5. n + 1 \in 1..N /\ n + 1 \in Nat
      BY <2>1
    <2>6. \A s \in SUBSET (1..(n + 1)) : more[s] \in S
      <3> SUFFICES ASSUME NEW s \in SUBSET (1..(n + 1)) PROVE more[s] \in S
        OBVIOUS
      <3>1. CASE n + 1 \in s
        <4>1. it[s \ {n + 1}] \in S
          BY <2>2, <2>4 DEF FoldsBy
        <4>2. more[s] = step[<<it[s \ {n + 1}], n + 1>>]
          BY <2>3, <3>1
        <4> QED BY <2>5, <4>1, <4>2
      <3>2. CASE n + 1 \notin s
        BY <2>2, <2>3, <2>4, <3>2 DEF FoldsBy
      <3> QED BY <3>1, <3>2
    <2>7. more[{}] = base
      BY <2>2, <2>3 DEF FoldsBy
    <2>8. ASSUME NEW s \in SUBSET (1..(n + 1)), s # {}
          PROVE  more[s] = step[<<more[s \ {Max(s)}], Max(s)>>]
      <3>1. PICK x : x = Max(s)
        OBVIOUS
      <3>2. x \in s /\ \A y \in s : y <= x
        BY <2>5, <2>8, <3>1, LargestFacts
      <3>3. CASE n + 1 \in s
        <4>1. x = n + 1
          BY <2>1, <2>8, <3>2, <3>3
        <4>2. more[s \ {x}] = it[s \ {x}]
          BY <2>3, <2>4, <4>1
        <4> QED BY <2>3, <3>1, <3>3, <4>1, <4>2
      <3>4. CASE n + 1 \notin s
        <4>1. s \in SUBSET (1..n) /\ s \ {x} \in SUBSET (1..n)
          BY <2>4, <3>4
        <4>2. more[s] = it[s] /\ more[s \ {x}] = it[s \ {x}]
          BY <2>3, <3>4, <4>1
        <4>3. it[s] = step[<<it[s \ {x}], x>>]
          BY <2>2, <2>8, <3>1, <4>1 DEF FoldsBy
        <4> QED BY <3>1, <4>2, <4>3
      <3> QED BY <3>3, <3>4
    <2>9. more \in [SUBSET (1..(n + 1)) -> S]
      BY <2>3, <2>6
    <2>10. FoldsBy(more, n + 1, S, base, step)
      BY <2>7, <2>8, <2>9 DEF FoldsBy
    <2> QED BY <2>10
  <1>3. T \in SUBSET Nat
    OBVIOUS
  <1>4. N \in T
    <2> HIDE DEF T
    <2> QED BY <1>1, <1>2, <1>3, Induction
  <1> QED BY <1>4

\* The values a loop of n steps goes through, the last of which is x.
LoopEnds(x, n, S, base, step) ==
  \E v \in [0..n -> S] :
    /\ v[0] = base /\ v[n] = x
    /\ \A k \in 1..n : v[k] = step[<<v[k - 1], k>>]

\* They are what the fold gives for the prefixes.
LEMMA FoldIsLoop ==
  ASSUME NEW S, NEW base \in S, NEW n \in Nat, NEW step \in [S \X (1..n) -> S],
         NEW g, g[{}] = base,
         \A s \in SUBSET (1..n) : s # {} /\ g[s \ {Max(s)}] \in S
                                   => g[s] = step[<<g[s \ {Max(s)}], Max(s)>>]
  PROVE  LoopEnds(g[1..n], n, S, base, step)
  <1> DEFINE T == {k \in Nat : k <= n => g[1..k] \in S}
  <1>1. 0 \in T
    <2>1. 1..0 = {}
      OBVIOUS
    <2> QED BY <2>1
  <1>2. ASSUME NEW k \in 1..n, g[1..(k - 1)] \in S
        PROVE  g[1..k] = step[<<g[1..(k - 1)], k>>] /\ g[1..k] \in S
    <2>1. k \in Nat \ {0} /\ 1..k \in SUBSET (1..n) /\ 1..k # {}
      OBVIOUS
    <2>2. Max(1..k) = k /\ (1..k) \ {Max(1..k)} = 1..(k - 1)
      BY <2>1, LargestOfPrefix
    <2>3. g[1..k] = step[<<g[1..(k - 1)], k>>]
      BY <1>2, <2>1, <2>2
    <2> QED BY <1>2, <2>3
  <1>3. ASSUME NEW k \in T PROVE k + 1 \in T
    <2> SUFFICES ASSUME k + 1 <= n PROVE g[1..(k + 1)] \in S
      OBVIOUS
    <2>1. k + 1 \in 1..n /\ (k + 1) - 1 = k /\ g[1..k] \in S
      OBVIOUS
    <2> QED BY <1>2, <2>1
  <1>4. \A k \in 0..n : g[1..k] \in S
    <2>1. T \in SUBSET Nat
      OBVIOUS
    <2>2. \A k \in Nat : k \in T
      <3> HIDE DEF T
      <3> QED BY <1>1, <1>3, <2>1, Induction
    <2> QED BY <2>2
  <1>5. PICK v : v = [k \in 0..n |-> g[1..k]]
    OBVIOUS
  <1>6. v \in [0..n -> S] /\ v[n] = g[1..n] /\ v[0] = base
    <2>1. 1..0 = {} /\ 0 \in 0..n /\ n \in 0..n
      OBVIOUS
    <2> QED BY <1>4, <1>5, <2>1
  <1>7. ASSUME NEW k \in 1..n PROVE v[k] = step[<<v[k - 1], k>>]
    <2>1. k \in 0..n /\ k - 1 \in 0..n
      OBVIOUS
    <2> QED BY <1>2, <1>4, <1>5, <2>1
  <1> QED BY <1>6, <1>7 DEF LoopEnds
=============================================================================
