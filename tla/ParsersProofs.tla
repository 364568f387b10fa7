---------------------------- MODULE ParsersProofs ----------------------------
(***************************************************************************)
(* Proofs about the conversions of MCParsers, for inputs of any size: the  *)
(* memory usage for any word width, buffers and array options, strings cut *)
(* at both ends, the scan of /proc/cpuinfo and of iostat's output, and     *)
(* encode and decode for any byte and any length of a size.                *)
(***************************************************************************)
EXTENDS MCParsers, Loops, SequenceTheorems, TLAPS

-----------------------------------------------------------------------------
(* Buffers.                                                                *)

\* What BufferStaysInside says of one use of a buffer.
Inside(buf, total, nBytes, m, n) ==
  LET rest == Advance(Advance(buf, m), n)
  IN  /\ buf.size <= total /\ buf.size <= nBytes
      /\ rest = Advance(buf, m + n)
      /\ rest.size >= 0 /\ rest.data + rest.size = buf.data + buf.size
      /\ AtMost(rest, n).size <= rest.size
      /\ RecvInto(rest, n).size <= rest.size
      /\ Truncated(RecvInto(rest, n)) <=> n > rest.size

\* It holds for any use.
LEMMA BufferFacts ==
  ASSUME NEW total \in Nat, NEW nBytes \in Nat, NEW m \in Nat, NEW n \in Nat, NEW start \in Nat
  PROVE  Inside(Buffer(start, Least(total, nBytes)), total, nBytes, m, n)
  <1>0. PICK buf, rest : /\ buf = Buffer(start, Least(total, nBytes))
                         /\ rest = Advance(Advance(buf, m), n)
    OBVIOUS
  <1>1. /\ buf.data = start /\ buf.size = Least(total, nBytes)
        /\ buf.size \in Nat /\ buf.size <= total /\ buf.size <= nBytes
    BY <1>0 DEF Buffer, Least
  <1>2. PICK d, z : d = buf.data /\ z = buf.size
    OBVIOUS
  <1>3. d \in Nat /\ z \in Nat /\ z <= total /\ z <= nBytes
    BY <1>1, <1>2
  <1>4. PICK a, b, c : a = Least(m, z) /\ b = Least(n, z - a) /\ c = Least(m + n, z)
    OBVIOUS
  <1>5. a \in Nat /\ b \in Nat /\ c \in Nat /\ c = a + b /\ a <= z /\ b <= z - a
    BY <1>3, <1>4 DEF Least
  <1>6. Advance(buf, m) = Buffer(d + a, z - a) /\ Advance(buf, m + n) = Buffer(d + c, z - c)
    BY <1>2, <1>4 DEF Advance
  <1>7. rest = Buffer(d + a + b, z - a - b)
    BY <1>0, <1>4, <1>6 DEF Advance, Buffer
  <1>8. d + a + b = d + c /\ z - a - b = z - c
    BY <1>3, <1>5
  <1>9. rest = Advance(buf, m + n)
    BY <1>6, <1>7, <1>8
  <1>10. rest.data = d + c /\ rest.size = z - c
    BY <1>7, <1>8 DEF Buffer
  <1>11. z - c \in Nat /\ d + c + (z - c) = d + z
    BY <1>3, <1>5
  <1>12. AtMost(rest, n).size <= rest.size /\ RecvInto(rest, n).size <= rest.size
    BY <1>10, <1>11 DEF AtMost, RecvInto, Least, Buffer
  <1>13. Truncated(RecvInto(rest, n)) <=> n > rest.size
    BY <1>10, <1>11 DEF Truncated, RecvInto, Least
  <1> QED BY <1>0, <1>2, <1>3, <1>9, <1>10, <1>11, <1>12, <1>13 DEF Inside

-----------------------------------------------------------------------------
(* Array options.                                                          *)

\* A string loses the null it was given.
LEMMA NullRemoved ==
  ASSUME NEW S, NEW t \in Seq(S), NEW x \in S
  PROVE  Len(Append(t, x)) = Len(t) + 1 /\ Front(Append(t, x)) = t
  <1>1. /\ Append(t, x) \in Seq(S) /\ Len(Append(t, x)) = Len(t) + 1
    BY AppendProperties
  <1> QED BY <1>1 DEF Front

\* The option comes back as it was set, in binary, or not at all.
LEMMA OptionFacts ==
  ASSUME NEW text \in Seq(Nat), NEW key \in Seq(Nat), NEW value, value.text = text, value.key = key,
         NEW init \in 1..DefaultSize, NEW nullTerm \in {0, 1, 2},
         nullTerm = 2 => Len(text) = Z85Size - 1 /\ Len(key) = KeySize,
         nullTerm # 2 => Len(text) < DefaultSize
  PROVE  /\ init = DefaultSize => GetOption(nullTerm, value, init) = text
         /\ GetOption(nullTerm, value, init) \in {text, key, Throw}
  <1>1. PICK size, sent : /\ size = IF nullTerm = 2 /\ init = DefaultSize THEN Z85Size ELSE init
                          /\ sent = Append(text, 0)
    OBVIOUS
  <1>2. Len(text) \in Nat /\ Len(sent) = Len(text) + 1 /\ Front(sent) = text
    BY <1>1, NullRemoved
  <1>3. sent # Throw /\ key # Throw
    <2>1. sent \in Seq(Nat) /\ Len(Throw) = 1 /\ Throw[1] = -1
      BY <1>1, AppendProperties DEF Throw
    <2>2. ASSUME NEW s \in Seq(Nat) PROVE s # Throw
      <3>1. SUFFICES ASSUME s = Throw PROVE FALSE
        OBVIOUS
      <3>2. Len(s) = 1 /\ s[1] = -1
        BY <2>1, <3>1
      <3>3. s[1] \in Nat
        <4>1. 1 \in 1..Len(s)
          BY <3>2
        <4> QED BY <4>1, ElementOfSeq
      <3> QED BY <3>2, <3>3
    <2> QED BY <2>1, <2>2
  <1>4. PICK got : got = GetSockOpt(nullTerm, value, size)
    OBVIOUS
  <1>5. GetOption(nullTerm, value, init) =
          IF got # Throw /\ ((nullTerm = 1 /\ Len(got) > 0) \/ (nullTerm = 2 /\ Len(got) = Z85Size))
            THEN Front(got) ELSE got
    BY <1>1, <1>4 DEF GetOption
  <1>6. init \in Nat /\ DefaultSize \in Nat /\ Z85Size \in Nat /\ KeySize \in Nat /\ KeySize < Z85Size
    BY BufferAssumption
  <1>7. CASE nullTerm = 0
    <2>1. got = IF Len(text) <= size THEN text ELSE Throw
      BY <1>4, <1>7 DEF GetSockOpt
    <2>2. GetOption(nullTerm, value, init) = got /\ size = init
      BY <1>1, <1>5, <1>7
    <2> QED BY <1>2, <1>6, <1>7, <2>1, <2>2
  <1>8. CASE nullTerm = 1
    <2>1. got = IF Len(text) < size THEN sent ELSE Throw
      BY <1>1, <1>4, <1>8 DEF GetSockOpt
    <2>2. size = init /\ Len(sent) > 0
      BY <1>1, <1>2, <1>8
    <2>3. CASE Len(text) < size
      <3>1. got = sent /\ got # Throw /\ Len(got) > 0
        BY <1>3, <2>1, <2>2, <2>3
      <3>2. GetOption(nullTerm, value, init) = Front(got)
        BY <1>5, <1>8, <3>1
      <3> QED BY <1>2, <3>1, <3>2
    <2>4. CASE ~(Len(text) < size)
      BY <1>2, <1>5, <1>6, <1>8, <2>1, <2>2, <2>4
    <2> QED BY <2>3, <2>4
  <1>9. CASE nullTerm = 2
    <2>1. got = IF size = Z85Size THEN sent ELSE IF size = KeySize THEN key ELSE Throw
      BY <1>1, <1>4, <1>9 DEF GetSockOpt
    <2>2. Len(sent) = Z85Size /\ Len(key) = KeySize /\ KeySize # Z85Size
      BY <1>2, <1>6, <1>9
    <2>3. init = DefaultSize => size = Z85Size
      BY <1>1, <1>9
    <2>4. CASE size = Z85Size
      BY <1>2, <1>3, <1>5, <1>9, <2>1, <2>2, <2>4
    <2>5. CASE size # Z85Size
      <3>1. got \in {key, Throw}
        BY <2>1, <2>5
      <3>2. got # Throw => Len(got) # Z85Size
        BY <2>2, <3>1
      <3> QED BY <1>5, <1>9, <2>3, <2>5, <3>1, <3>2
    <2> QED BY <2>4, <2>5
  <1> QED BY <1>7, <1>8, <1>9

-----------------------------------------------------------------------------
(* The memory usage.                                                       *)

\* Both unsigned differences, where what can be reclaimed may be below 0, but is no
\* more than the total.
LEMMA UsedFacts ==
  ASSUME NEW total \in Nat \ {0}, NEW r \in Int, NEW bound \in Nat,
         -bound <= r, r <= total, total + 4 * bound < W,
         NEW used, used = (total - (r % W)) % W
  PROVE  used = total - r
  <1>1. W \in Nat \ {0}
    BY MemoryAssumption
  <1>2. CASE r < 0
    <2>1. r % W = r + W
      BY <1>1, <1>2
    <2>2. (total - (r + W)) % W = total - r
      BY <1>1, <1>2
    <2> QED BY <1>2, <2>1, <2>2
  <1>3. CASE r >= 0
    <2>1. r % W = r
      BY <1>1, <1>3
    <2>2. (total - r) % W = total - r
      BY <1>1, <1>3
    <2> QED BY <1>3, <2>1, <2>2
  <1> QED BY <1>2, <1>3

-----------------------------------------------------------------------------
(* string_trimmed.                                                         *)

\* The values of the loop over the spaces at the end, and of the one over those at
\* the beginning, which stops at j.
EndIs(e, str, n) == e = [k \in 0..n |-> IF k > 0 /\ IsSpace(str[k]) THEN e[k - 1] ELSE k]
BeginIs(b, str, n, j) ==
  b = [k \in 0..n |-> IF k < j /\ IsSpace(str[k + 1]) THEN b[k + 1] ELSE k]

\* The first one ends.
LEMMA EndLoop ==
  ASSUME NEW str, NEW n \in Nat
  PROVE  \E e : EndIs(e, str, n)
  <1> DEFINE Stops(k) == {m \in 0..k : m = 0 \/ ~IsSpace(str[m])}
  <1>1. PICK e : e = [k \in 0..n |-> Max(Stops(k))]
    OBVIOUS
  <1>2. ASSUME NEW k \in 0..n, k > 0, IsSpace(str[k]) PROVE Max(Stops(k)) = e[k - 1]
    <2>1. k - 1 \in 0..n /\ \A m \in Int : m \in 0..k <=> m = k \/ m \in 0..(k - 1)
      BY <1>2
    <2>2. Stops(k) = Stops(k - 1)
      BY <1>2, <2>1
    <2> HIDE DEF Stops
    <2> QED BY <1>1, <2>1, <2>2
  <1>3. ASSUME NEW k \in 0..n, ~(k > 0 /\ IsSpace(str[k])) PROVE Max(Stops(k)) = k
    <2>1. k \in Nat /\ k \in Stops(k) /\ Stops(k) \in SUBSET (0..k)
      BY <1>3
    <2> HIDE DEF Stops
    <2>2. Max(Stops(k)) \in 0..k /\ k <= Max(Stops(k))
      BY <2>1, LargestOf
    <2> QED BY <2>2
  <1> HIDE DEF Stops
  <1>4. EndIs(e, str, n)
    BY <1>1, <1>2, <1>3 DEF EndIs
  <1> QED BY <1>4

\* It stops behind the last character that is no space.
LEMMA EndFacts ==
  ASSUME NEW str, NEW n \in Nat, NEW e, EndIs(e, str, n)
  PROVE  /\ e[n] \in 0..n /\ (e[n] > 0 => ~IsSpace(str[e[n]]))
         /\ \A k \in 1..n : k > e[n] => IsSpace(str[k])
  <1> DEFINE Stopped(k) == /\ e[k] \in 0..k /\ (e[k] > 0 => ~IsSpace(str[e[k]]))
                           /\ \A m \in 1..k : m > e[k] => IsSpace(str[m])
  <1>0. \A k \in 0..n : e[k] = IF k > 0 /\ IsSpace(str[k]) THEN e[k - 1] ELSE k
    BY DEF EndIs
  <1>1. Stopped(0)
    BY <1>0
  <1>2. ASSUME NEW k \in 0..(n - 1), Stopped(k) PROVE Stopped(k + 1)
    <2>1. PICK i : i = k + 1
      OBVIOUS
    <2>2. i \in 0..n /\ i > 0 /\ i - 1 = k /\ \A m \in 1..i : m = i \/ m \in 1..k
      BY <2>1
    <2>3. e[i] = IF IsSpace(str[i]) THEN e[k] ELSE i
      BY <1>0, <2>2
    <2>4. CASE IsSpace(str[i])
      BY <1>2, <2>1, <2>2, <2>3, <2>4
    <2>5. CASE ~IsSpace(str[i])
      BY <2>1, <2>2, <2>3, <2>5
    <2> QED BY <2>4, <2>5
  <1> HIDE DEF Stopped
  <1>3. PICK T : T = {k \in 0..n : Stopped(k)}
    OBVIOUS
  <1>4. 0 \in T /\ \A k \in 0..(n - 1) : k \in T => k + 1 \in T
    BY <1>1, <1>2, <1>3
  <1>5. n \in 0..n /\ n \in T
    BY <1>4, LoopInduction
  <1> QED BY <1>3, <1>5 DEF Stopped

\* The loop over the spaces at the beginning ends.
LEMMA BeginLoop ==
  ASSUME NEW str, NEW n \in Nat, NEW e \in 0..n
  PROVE  \E b : BeginIs(b, str, n, e)
  <1> DEFINE Stops(k) == {m \in k..n : ~(m < e /\ IsSpace(str[m + 1]))}
             First(k) == CHOOSE m \in Stops(k) : \A l \in Stops(k) : m <= l
  <1>1. ASSUME NEW k \in 0..n
        PROVE  First(k) \in Stops(k) /\ \A l \in Stops(k) : First(k) <= l
    <2>1. n \in Stops(k) /\ Stops(k) \in SUBSET Nat
      OBVIOUS
    <2> HIDE DEF Stops
    <2>2. \E m \in Stops(k) : \A l \in Stops(k) : m <= l
      BY <2>1, LeastNumber
    <2> QED BY <2>2
  <1>2. PICK b : b = [k \in 0..n |-> First(k)]
    OBVIOUS
  <1>3. ASSUME NEW k \in 0..n, k < e, IsSpace(str[k + 1]) PROVE First(k) = b[k + 1]
    <2>1. k + 1 \in 0..n /\ \A m \in Int : m \in k..n <=> m = k \/ m \in (k + 1)..n
      BY <1>3
    <2>2. Stops(k) = Stops(k + 1)
      BY <1>3, <2>1
    <2> HIDE DEF Stops
    <2> QED BY <1>2, <2>1, <2>2
  <1>4. ASSUME NEW k \in 0..n, ~(k < e /\ IsSpace(str[k + 1])) PROVE First(k) = k
    <2>1. k \in Stops(k) /\ \A l \in Stops(k) : k <= l /\ l \in Nat
      BY <1>4
    <2> HIDE DEF Stops, First
    <2>2. First(k) \in Nat /\ k <= First(k) /\ First(k) <= k
      BY <1>1, <2>1
    <2> QED BY <2>2
  <1> HIDE DEF Stops, First
  <1>5. BeginIs(b, str, n, e)
    BY <1>2, <1>3, <1>4 DEF BeginIs
  <1> QED BY <1>5

\* It stops before the first character that is no space, or at e.
LEMMA BeginFacts ==
  ASSUME NEW str, NEW n \in Nat, NEW e \in 0..n, NEW b,
         BeginIs(b, str, n, e)
  PROVE  /\ b[0] \in 0..e /\ (b[0] < e => ~IsSpace(str[b[0] + 1]))
         /\ \A k \in 1..b[0] : IsSpace(str[k])
  <1> DEFINE Stopped(k) == /\ b[k] \in k..e /\ (b[k] < e => ~IsSpace(str[b[k] + 1]))
                           /\ \A m \in (k + 1)..b[k] : IsSpace(str[m])
  <1>0. \A k \in 0..n : b[k] = IF k < e /\ IsSpace(str[k + 1]) THEN b[k + 1] ELSE k
    BY DEF BeginIs
  <1>1. Stopped(e)
    <2>1. b[e] = e /\ e \in Nat
      BY <1>0
    <2> QED BY <2>1
  <1>2. ASSUME NEW k \in 1..e, Stopped(k) PROVE Stopped(k - 1)
    <2>1. PICK i : i = k - 1
      OBVIOUS
    <2>2. i \in 0..n /\ i < e /\ k = i + 1 /\ i \in Nat
      BY <2>1
    <2>3. b[i] = IF IsSpace(str[k]) THEN b[k] ELSE i
      BY <1>0, <2>2
    <2>4. /\ b[k] \in k..e /\ (b[k] < e => ~IsSpace(str[b[k] + 1]))
          /\ \A m \in (k + 1)..b[k] : IsSpace(str[m])
      BY <1>2
    <2>5. CASE IsSpace(str[k])
      <3>1. \A m \in (i + 1)..b[k] : m = k \/ m \in (k + 1)..b[k]
        BY <2>2, <2>4
      <3>2. b[k] \in i..e
        BY <2>2, <2>4
      <3> QED BY <2>1, <2>3, <2>4, <2>5, <3>1, <3>2
    <2>6. CASE ~IsSpace(str[k])
      <3>1. i \in i..e /\ (i + 1)..i = {}
        BY <2>2
      <3> QED BY <2>1, <2>2, <2>3, <2>6, <3>1
    <2> QED BY <2>5, <2>6
  <1> HIDE DEF Stopped
  <1>3. PICK T : T = {j \in 0..e : Stopped(e - j)}
    OBVIOUS
  <1>4. e \in Nat /\ 0 \in T
    BY <1>1, <1>3
  <1>5. ASSUME NEW j \in 0..(e - 1), j \in T PROVE j + 1 \in T
    <2>1. e - j \in 1..e /\ (e - j) - 1 = e - (j + 1) /\ j + 1 \in 0..e /\ Stopped(e - j)
      BY <1>3, <1>4, <1>5
    <2> QED BY <1>2, <1>3, <2>1
  <1>6. e \in 0..e /\ e \in T
    <2>1. \A j \in 0..(e - 1) : j \in T => j + 1 \in T
      BY <1>5
    <2> QED BY <1>4, <2>1, LoopInduction
  <1>7. e - e = 0
    BY <1>4
  <1> QED BY <1>3, <1>6, <1>7 DEF Stopped

\* What string_trimmed leaves is what is between the spaces at both ends.
LEMMA TrimFacts ==
  ASSUME NEW S, NEW str \in Seq(S)
  PROVE  \E i \in 0..Len(str) : \E j \in i..Len(str) :
           /\ StringTrimmed(str) = SubSeq(str, i + 1, j)
           /\ \A k \in 1..Len(str) : k <= i \/ k > j => IsSpace(str[k])
           /\ i < j => ~IsSpace(str[i + 1]) /\ ~IsSpace(str[j])
  <1>0. PICK n : n = Len(str) /\ n \in Nat
    OBVIOUS
  <1>1. PICK end : end = CHOOSE e : EndIs(e, str, Len(str))
    OBVIOUS
  <1>2. EndIs(end, str, n)
    <2>1. \E e : EndIs(e, str, Len(str))
      BY <1>0, EndLoop
    <2> QED BY <1>0, <1>1, <2>1, Zenon
  <1>3. /\ end[n] \in 0..n /\ (end[n] > 0 => ~IsSpace(str[end[n]]))
        /\ \A k \in 1..n : k > end[n] => IsSpace(str[k])
    BY <1>0, <1>2, EndFacts
  <1>4. PICK begin : begin = CHOOSE b : BeginIs(b, str, Len(str), end[Len(str)])
    OBVIOUS
  <1>5. BeginIs(begin, str, n, end[n]) /\ StringTrimmed(str) = SubSeq(str, begin[0] + 1, end[n])
    <2>1. \E b : BeginIs(b, str, n, end[n])
      <3>1. PICK j : j = end[n] /\ j \in 0..n
        BY <1>3
      <3>2. \E b : BeginIs(b, str, n, j)
        BY <1>0, <3>1, BeginLoop
      <3> QED BY <3>1, <3>2
    <2>2. BeginIs(begin, str, n, end[n])
      BY <1>0, <1>4, <2>1, Zenon
    <2>3. StringTrimmed(str) = SubSeq(str, begin[0] + 1, end[Len(str)])
      BY <1>1, <1>4, Zenon DEF StringTrimmed, EndIs, BeginIs
    <2> QED BY <1>0, <2>2, <2>3
  <1>6. /\ begin[0] \in 0..end[n] /\ (begin[0] < end[n] => ~IsSpace(str[begin[0] + 1]))
        /\ \A k \in 1..begin[0] : IsSpace(str[k])
    <2>1. PICK j : j = end[n] /\ j \in 0..n /\ BeginIs(begin, str, n, j)
      BY <1>3, <1>5
    <2>2. /\ begin[0] \in 0..j /\ (begin[0] < j => ~IsSpace(str[begin[0] + 1]))
          /\ \A k \in 1..begin[0] : IsSpace(str[k])
      BY <1>0, <2>1, BeginFacts
    <2> QED BY <2>1, <2>2
  <1>7. PICK i, j : i = begin[0] /\ j = end[n]
    OBVIOUS
  <1>8. /\ i \in 0..n /\ j \in i..n
        /\ \A k \in 1..n : k <= i \/ k > j => IsSpace(str[k])
        /\ i < j => ~IsSpace(str[i + 1]) /\ ~IsSpace(str[j])
    BY <1>0, <1>3, <1>6, <1>7
  <1> QED BY <1>0, <1>5, <1>7, <1>8

-----------------------------------------------------------------------------
(* The scan of /proc/cpuinfo.                                              *)

Keys == {"model name", "cpu MHz"}

\* The state of the scan when the lines are in R.
ScanValues(R) == {<<>>} \cup {StringTrimmed(line.value) : line \in R}
ScanState(R) == [modelName : ScanValues(R), cpuMhz : ScanValues(R), findNum : 0..2]
ScanStart == [modelName |-> <<>>, cpuMhz |-> <<>>, findNum |-> 0]

\* One line, with or without a key, before and after two keys have been met.
LEMMA ScanLineFacts ==
  ASSUME NEW R, NEW s \in ScanState(R), NEW line \in R
  PROVE  /\ ScanLine(s, line) \in ScanState(R)
         /\ s.findNum = 2 \/ line.key \notin Keys => ScanLine(s, line) = s
         /\ s.findNum # 2 /\ line.key = "model name" =>
              /\ ScanLine(s, line).modelName = StringTrimmed(line.value)
              /\ ScanLine(s, line).cpuMhz = s.cpuMhz /\ ScanLine(s, line).findNum = s.findNum + 1
         /\ s.findNum # 2 /\ line.key = "cpu MHz" =>
              /\ ScanLine(s, line).cpuMhz = StringTrimmed(line.value)
              /\ ScanLine(s, line).modelName = s.modelName /\ ScanLine(s, line).findNum = s.findNum + 1
  <1>1. PICK V, text : V = ScanValues(R) /\ text = StringTrimmed(line.value)
    OBVIOUS
  <1>2. text \in V /\ s \in [modelName : V, cpuMhz : V, findNum : 0..2]
    BY <1>1 DEF ScanValues, ScanState
  <1>3. CASE s.findNum = 2 \/ line.key \notin Keys
    <2>1. ScanLine(s, line) = s
      BY <1>3 DEF ScanLine, Keys
    <2> QED BY <1>3, <2>1 DEF Keys
  <1>4. CASE s.findNum # 2 /\ line.key = "model name"
    <2>1. ScanLine(s, line) = [s EXCEPT !.modelName = text, !.findNum = @ + 1]
      BY <1>1, <1>4 DEF ScanLine
    <2>2. /\ ScanLine(s, line) \in [modelName : V, cpuMhz : V, findNum : 0..2]
          /\ ScanLine(s, line).modelName = text /\ ScanLine(s, line).cpuMhz = s.cpuMhz
          /\ ScanLine(s, line).findNum = s.findNum + 1
      <3>0. PICK num : num = s.findNum /\ num \in 0..2
        BY <1>2
      <3>1. s.findNum + 1 \in 0..2
        <4>1. num # 2
          BY <1>4, <3>0
        <4>2. num + 1 \in 0..2
          BY <3>0, <4>1
        <4> QED BY <3>0, <4>2
      <3>2. DOMAIN s = {"modelName", "cpuMhz", "findNum"} /\ s.cpuMhz \in V
        BY <1>2
      <3>3. ScanLine(s, line) = [modelName |-> text, cpuMhz |-> s.cpuMhz,
                                 findNum |-> s.findNum + 1]
        BY <1>2, <2>1
      <3> QED BY <1>2, <3>1, <3>2, <3>3
    <2> QED BY <1>1, <1>4, <2>2 DEF ScanState, Keys
  <1>5. CASE s.findNum # 2 /\ line.key = "cpu MHz"
    <2>1. ScanLine(s, line) = [s EXCEPT !.cpuMhz = text, !.findNum = @ + 1]
      BY <1>1, <1>5 DEF ScanLine
    <2>2. /\ ScanLine(s, line) \in [modelName : V, cpuMhz : V, findNum : 0..2]
          /\ ScanLine(s, line).cpuMhz = text /\ ScanLine(s, line).modelName = s.modelName
          /\ ScanLine(s, line).findNum = s.findNum + 1
      <3>0. PICK num : num = s.findNum /\ num \in 0..2
        BY <1>2
      <3>1. s.findNum + 1 \in 0..2
        <4>1. num # 2
          BY <1>5, <3>0
        <4>2. num + 1 \in 0..2
          BY <3>0, <4>1
        <4> QED BY <3>0, <4>2
      <3>2. DOMAIN s = {"modelName", "cpuMhz", "findNum"} /\ s.modelName \in V
        BY <1>2
      <3>3. ScanLine(s, line) = [modelName |-> s.modelName, cpuMhz |-> text,
                                 findNum |-> s.findNum + 1]
        BY <1>2, <2>1
      <3> QED BY <1>2, <3>1, <3>2, <3>3
    <2> QED BY <1>1, <1>5, <2>2 DEF ScanState, Keys
  <1> QED BY <1>3, <1>4, <1>5 DEF Keys

\* The fold over the lines is a loop of ScanLine.
LEMMA ScanLoop ==
  ASSUME NEW R, NEW f \in Seq(R)
  PROVE  \E v \in [0..Len(f) -> ScanState(R)] :
           /\ v[0] = ScanStart /\ v[Len(f)] = FoldLeft(ScanLine, ScanStart, f)
           /\ \A k \in 1..Len(f) : v[k] = ScanLine(v[k - 1], f[k])
  <1>1. PICK n, S, base, step : /\ n = Len(f) /\ S = ScanState(R) /\ base = ScanStart
                                /\ step = [p \in S \X (1..n) |-> ScanLine(p[1], f[p[2]])]
    OBVIOUS
  <1>2. n \in Nat /\ DOMAIN f = 1..n /\ base \in S
    BY <1>1 DEF ScanState, ScanStart, ScanValues
  <1>3. step \in [S \X (1..n) -> S]
    <2>1. \A k \in 1..n : f[k] \in R
      BY <1>1
    <2>2. \A s \in S, line \in R : ScanLine(s, line) \in S
      BY <1>1, ScanLineFacts
    <2> QED BY <1>1, <2>1, <2>2
  <1>4. PICK it : FoldsBy(it, n, S, base, step)
    BY <1>2, <1>3, FoldExists
  <1>5. it = [s \in SUBSET (DOMAIN f) |->
                IF s = {} THEN base ELSE ScanLine(it[s \ {Max(s)}], f[Max(s)])]
    <2>1. ASSUME NEW s \in SUBSET (1..n), s # {}
          PROVE  it[s] = ScanLine(it[s \ {Max(s)}], f[Max(s)])
      <3>1. Max(s) \in 1..n /\ s \ {Max(s)} \in SUBSET (1..n)
        BY <1>2, <2>1, LargestFacts
      <3> QED BY <1>1, <1>4, <2>1, <3>1 DEF FoldsBy
    <2> QED BY <1>2, <1>4, <2>1 DEF FoldsBy
  <1>6. PICK g : /\ g = [s \in SUBSET (DOMAIN f) |->
                           IF s = {} THEN base ELSE ScanLine(g[s \ {Max(s)}], f[Max(s)])]
                 /\ FoldLeft(ScanLine, base, f) = g[DOMAIN f]
    BY <1>5, Zenon DEF FoldLeft, MapThenFoldSet
  <1>7. g[{}] = base
    BY <1>6
  <1>8. ASSUME NEW s \in SUBSET (1..n), s # {}, g[s \ {Max(s)}] \in S
        PROVE  g[s] = step[<<g[s \ {Max(s)}], Max(s)>>]
    <2>1. Max(s) \in 1..n
      BY <1>2, <1>8, LargestFacts
    <2> QED BY <1>1, <1>2, <1>6, <1>8, <2>1
  <1>9. LoopEnds(g[1..n], n, S, base, step)
    BY <1>2, <1>3, <1>7, <1>8, FoldIsLoop
  <1>10. PICK v \in [0..n -> S] : /\ v[0] = base /\ v[n] = g[1..n]
                                  /\ \A k \in 1..n : v[k] = step[<<v[k - 1], k>>]
    BY <1>9 DEF LoopEnds
  <1>11. ASSUME NEW k \in 1..n PROVE v[k] = ScanLine(v[k - 1], f[k])
    <2>1. v[k - 1] \in S
      BY <1>2, <1>10
    <2> QED BY <1>1, <1>10, <2>1
  <1>12. v[n] = FoldLeft(ScanLine, ScanStart, f)
    BY <1>1, <1>2, <1>6, <1>10
  <1> QED BY <1>1, <1>10, <1>11, <1>12

\* The lines with a key among the first k, and those of them that are read: with
\* no two keys before.
Keyed(f, k) == {i \in 1..k : f[i].key \in Keys}
Scanned(f, k) == {i \in Keyed(f, k) : \A a, b \in Keyed(f, i - 1) : a = b}

\* A value is that of the last of these lines that has the key.
LastWith(value, f, rows, key) ==
  LET hits == {i \in rows : f[i].key = key}
  IN  \/ hits = {} /\ value = <<>>
      \/ \E i \in hits : (\A j \in hits : j <= i) /\ value = StringTrimmed(f[i].value)

\* The scan after k lines.
ScannedTo(s, f, k) ==
  /\ s.findNum = 0 <=> Keyed(f, k) = {}
  /\ s.findNum = 2 <=> \E a, b \in Keyed(f, k) : a # b
  /\ LastWith(s.modelName, f, Scanned(f, k), "model name")
  /\ LastWith(s.cpuMhz, f, Scanned(f, k), "cpu MHz")

\* A line that has the key is the last one with it, and not one with another key.
LEMMA LastWithMore ==
  ASSUME NEW f, NEW value, NEW rows \in SUBSET Nat, NEW key, NEW i \in Nat, \A j \in rows : j < i
  PROVE  /\ f[i].key = key => LastWith(StringTrimmed(f[i].value), f, rows \cup {i}, key)
         /\ f[i].key # key /\ LastWith(value, f, rows, key) => LastWith(value, f, rows \cup {i}, key)
  <1>1. CASE f[i].key = key
    <2>1. PICK hits : hits = {j \in rows \cup {i} : f[j].key = key}
      OBVIOUS
    <2>2. i \in hits /\ \A j \in hits : j <= i
      BY <1>1, <2>1
    <2> QED BY <1>1, <2>1, <2>2 DEF LastWith
  <1>2. CASE f[i].key # key
    <2>1. {j \in rows \cup {i} : f[j].key = key} = {j \in rows : f[j].key = key}
      BY <1>2
    <2> QED BY <1>2, <2>1 DEF LastWith
  <1> QED BY <1>1, <1>2

\* One more line.
LEMMA ScanStep ==
  ASSUME NEW R, NEW f \in Seq(R), NEW k \in Nat, k + 1 \in 1..Len(f),
         NEW s \in ScanState(R), ScannedTo(s, f, k)
  PROVE  ScannedTo(ScanLine(s, f[k + 1]), f, k + 1)
  <1>1. PICK i, line, w, rows : /\ i = k + 1 /\ line = f[i] /\ w = ScanLine(s, line)
                                /\ rows = Scanned(f, k)
    OBVIOUS
  <1>2. i \in Nat /\ i - 1 = k /\ line \in R /\ s.findNum \in 0..2
    BY <1>1 DEF ScanState
  <1>3. \A j \in 1..i : j = i \/ j \in 1..k
    BY <1>1, <1>2
  <1>4. \A j \in 1..k : j \in 1..i /\ j # i /\ j < i /\ j \in Nat
    BY <1>1, <1>2
  <1>5. Keyed(f, i) = IF line.key \in Keys THEN Keyed(f, k) \cup {i} ELSE Keyed(f, k)
    BY <1>1, <1>2, <1>3, <1>4 DEF Keyed
  <1>6. Scanned(f, i) = IF line.key \in Keys /\ s.findNum # 2 THEN rows \cup {i} ELSE rows
    <2>1. s.findNum # 2 <=> \A a, b \in Keyed(f, k) : a = b
      BY DEF ScannedTo
    <2>2. i \in Keyed(f, i) <=> line.key \in Keys
      BY <1>1, <1>2 DEF Keyed
    <2>3. \A j \in Nat : j \in Scanned(f, i) <=> (j \in rows \/ (j = i /\ line.key \in Keys /\ s.findNum # 2))
      BY <1>1, <1>2, <1>4, <1>5, <2>1, <2>2 DEF Scanned, Keyed
    <2>4. Scanned(f, i) \in SUBSET Nat /\ rows \in SUBSET Nat
      BY <1>1, <1>2 DEF Scanned, Keyed
    <2> QED BY <1>2, <2>3, <2>4
  <1>7. rows \in SUBSET Nat /\ \A j \in rows : j < i
    BY <1>1, <1>4 DEF Scanned, Keyed
  <1>8. CASE s.findNum = 2 \/ line.key \notin Keys
    <2>1. w = s
      <3>1. ScanLine(s, line) = s
        BY <1>2, <1>8, ScanLineFacts
      <3> QED BY <1>1, <3>1
    <2>2. Scanned(f, i) = rows
      BY <1>6, <1>8
    <2>3. w.findNum = 0 <=> Keyed(f, i) = {}
      BY <1>5, <1>8, <2>1 DEF ScannedTo
    <2>4. w.findNum = 2 <=> \E a, b \in Keyed(f, i) : a # b
      BY <1>5, <1>8, <2>1 DEF ScannedTo
    <2>5. ScannedTo(w, f, i)
      BY <1>1, <2>1, <2>2, <2>3, <2>4 DEF ScannedTo
    <2> QED BY <1>1, <2>5
  <1>9. CASE s.findNum # 2 /\ line.key \in Keys
    <2>1. w.findNum = s.findNum + 1
      <3>1. line.key = "model name" \/ line.key = "cpu MHz"
        BY <1>9 DEF Keys
      <3>2. ScanLine(s, line).findNum = s.findNum + 1
        BY <1>2, <1>9, <3>1, ScanLineFacts
      <3> QED BY <1>1, <3>2
    <2>2. Scanned(f, i) = rows \cup {i} /\ Keyed(f, i) = Keyed(f, k) \cup {i}
      BY <1>5, <1>6, <1>9
    <2>3. i \notin Keyed(f, k)
      BY <1>4 DEF Keyed
    <2>4. w.findNum # 0 /\ Keyed(f, i) # {}
      BY <1>2, <2>1, <2>2
    <2>5. w.findNum = 2 <=> \E a, b \in Keyed(f, i) : a # b
      <3>1. w.findNum = 2 <=> s.findNum # 0
        BY <1>2, <1>9, <2>1
      <3>2. s.findNum # 0 <=> Keyed(f, k) # {}
        BY DEF ScannedTo
      <3>3. \A a, b \in Keyed(f, k) : a = b
        BY <1>9 DEF ScannedTo
      <3> QED BY <2>2, <2>3, <3>1, <3>2, <3>3
    <2>6. LastWith(s.modelName, f, rows, "model name") /\ LastWith(s.cpuMhz, f, rows, "cpu MHz")
      BY <1>1 DEF ScannedTo
    <2>7. CASE line.key = "model name"
      <3>1. w.modelName = StringTrimmed(line.value) /\ w.cpuMhz = s.cpuMhz
        <4>1. ScanLine(s, line).modelName = StringTrimmed(line.value) /\ ScanLine(s, line).cpuMhz = s.cpuMhz
          BY <1>2, <1>9, <2>7, ScanLineFacts
        <4> QED BY <1>1, <4>1
      <3>2. LastWith(w.modelName, f, rows \cup {i}, "model name")
        <4>1. f[i].key = "model name" /\ w.modelName = StringTrimmed(f[i].value)
          BY <1>1, <2>7, <3>1
        <4>2. LastWith(StringTrimmed(f[i].value), f, rows \cup {i}, "model name")
          BY <1>2, <1>7, <4>1, LastWithMore
        <4> QED BY <4>1, <4>2
      <3>3. LastWith(w.cpuMhz, f, rows \cup {i}, "cpu MHz")
        BY <1>1, <1>2, <1>7, <2>6, <2>7, <3>1, LastWithMore
      <3> QED BY <1>1, <2>2, <2>4, <2>5, <3>2, <3>3 DEF ScannedTo
    <2>8. CASE line.key = "cpu MHz"
      <3>1. w.cpuMhz = StringTrimmed(line.value) /\ w.modelName = s.modelName
        <4>1. ScanLine(s, line).cpuMhz = StringTrimmed(line.value) /\ ScanLine(s, line).modelName = s.modelName
          BY <1>2, <1>9, <2>8, ScanLineFacts
        <4> QED BY <1>1, <4>1
      <3>2. LastWith(w.cpuMhz, f, rows \cup {i}, "cpu MHz")
        <4>1. f[i].key = "cpu MHz" /\ w.cpuMhz = StringTrimmed(f[i].value)
          BY <1>1, <2>8, <3>1
        <4>2. LastWith(StringTrimmed(f[i].value), f, rows \cup {i}, "cpu MHz")
          BY <1>2, <1>7, <4>1, LastWithMore
        <4> QED BY <4>1, <4>2
      <3>3. LastWith(w.modelName, f, rows \cup {i}, "model name")
        BY <1>1, <1>2, <1>7, <2>6, <2>8, <3>1, LastWithMore
      <3> QED BY <1>1, <2>2, <2>4, <2>5, <3>2, <3>3 DEF ScannedTo
    <2> QED BY <1>9, <2>7, <2>8 DEF Keys
  <1> QED BY <1>8, <1>9

\* What GetCPUModelNameAndBaseClock finds in a file: the last line that is read with
\* either key, and whether there are two with a key.
LEMMA ScanFacts ==
  ASSUME NEW R, NEW f \in Seq(R)
  PROVE  LET found == GetCPUModelNameAndBaseClock(f)
         IN  /\ found = [modelName |-> found.modelName, cpuMhz |-> found.cpuMhz, findNum |-> found.findNum]
             /\ found.findNum = 2 <=> \E i, j \in Keyed(f, Len(f)) : i # j
             /\ LastWith(found.modelName, f, Scanned(f, Len(f)), "model name")
             /\ LastWith(found.cpuMhz, f, Scanned(f, Len(f)), "cpu MHz")
  <1>1. PICK n, last, Q, g : /\ n = Len(f) /\ last = Line("", <<>>) /\ Q = R \cup {last}
                             /\ g = Append(f, last)
    OBVIOUS
  <1>2. /\ n \in Nat /\ f \in Seq(Q) /\ g \in Seq(Q) /\ Len(g) = n + 1
        /\ g[n + 1] = last /\ \A i \in 1..n : g[i] = f[i]
    <2>1. R \subseteq Q /\ last \in Q
      BY <1>1
    <2>2. f \in Seq(Q)
      BY <2>1, LargerSet
    <2>3. /\ Append(f, last) \in Seq(Q) /\ Len(Append(f, last)) = Len(f) + 1
          /\ Append(f, last)[Len(f) + 1] = last /\ \A i \in 1..Len(f) : Append(f, last)[i] = f[i]
      BY <2>1, <2>2, AppendProperties
    <2>4. Len(f) \in Nat
      BY <2>2
    <2> QED BY <1>1, <2>2, <2>3, <2>4
  <1>3. PICK v \in [0..(n + 1) -> ScanState(Q)] :
          /\ v[0] = ScanStart /\ v[n + 1] = FoldLeft(ScanLine, ScanStart, g)
          /\ \A k \in 1..(n + 1) : v[k] = ScanLine(v[k - 1], g[k])
    <2>1. g \in Seq(Q) /\ Len(g) = n + 1
      BY <1>2
    <2>2. \E v \in [0..Len(g) -> ScanState(Q)] :
            /\ v[0] = ScanStart /\ v[Len(g)] = FoldLeft(ScanLine, ScanStart, g)
            /\ \A k \in 1..Len(g) : v[k] = ScanLine(v[k - 1], g[k])
      BY <2>1, ScanLoop
    <2> QED BY <2>1, <2>2, Zenon
  <1>4. GetCPUModelNameAndBaseClock(f) = v[n + 1]
    BY <1>1, <1>3, Zenon DEF GetCPUModelNameAndBaseClock, ScanStart
  <1>5. PICK T : T = {k \in 0..n : ScannedTo(v[k], f, k)}
    OBVIOUS
  <1>6. 0 \in T
    <2>1. Keyed(f, 0) = {} /\ Scanned(f, 0) = {}
      BY DEF Keyed, Scanned
    <2>2. ScannedTo(ScanStart, f, 0)
      <3>1. LastWith(<<>>, f, {}, "model name") /\ LastWith(<<>>, f, {}, "cpu MHz")
        BY DEF LastWith
      <3>2. ScanStart.findNum = 0 /\ ScanStart.modelName = <<>> /\ ScanStart.cpuMhz = <<>>
        BY DEF ScanStart
      <3>3. /\ LastWith(ScanStart.modelName, f, Scanned(f, 0), "model name")
            /\ LastWith(ScanStart.cpuMhz, f, Scanned(f, 0), "cpu MHz")
        BY <2>1, <3>1, <3>2
      <3>4. ScanStart.findNum = 0 <=> Keyed(f, 0) = {}
        BY <2>1, <3>2
      <3>5. ScanStart.findNum = 2 <=> \E a, b \in Keyed(f, 0) : a # b
        BY <2>1, <3>2
      <3> QED BY <3>3, <3>4, <3>5 DEF ScannedTo
    <2> QED BY <1>2, <1>3, <1>5, <2>2
  <1>7. ASSUME NEW k \in 0..(n - 1), k \in T PROVE k + 1 \in T
    <2>1. k \in Nat /\ k + 1 \in 1..n /\ k + 1 \in 1..(n + 1) /\ (k + 1) - 1 = k /\ k \in 0..(n + 1)
      BY <1>2
    <2>2. v[k + 1] = ScanLine(v[k], f[k + 1])
      BY <1>2, <1>3, <2>1
    <2>3. ScannedTo(v[k], f, k) /\ v[k] \in ScanState(Q)
      BY <1>3, <1>5, <1>7, <2>1
    <2>4. k + 1 \in 1..Len(f)
      BY <1>1, <2>1
    <2>5. ScannedTo(ScanLine(v[k], f[k + 1]), f, k + 1)
      BY <1>2, <2>1, <2>3, <2>4, ScanStep
    <2> QED BY <1>2, <1>5, <2>1, <2>2, <2>5
  <1>8. ScannedTo(v[n], f, n)
    <2>1. \A k \in 0..(n - 1) : k \in T => k + 1 \in T
      BY <1>7
    <2>2. n \in Nat /\ n \in 0..n
      BY <1>2
    <2>3. n \in T
      BY <1>6, <2>1, <2>2, LoopInduction
    <2> QED BY <1>5, <2>3
  <1>9. v[n + 1] = v[n]
    <2>1. n + 1 \in 1..(n + 1) /\ (n + 1) - 1 = n /\ n \in 0..(n + 1)
      BY <1>2
    <2>2. v[n + 1] = ScanLine(v[n], last) /\ v[n] \in ScanState(Q)
      BY <1>2, <1>3, <2>1
    <2>3. last \in Q /\ last.key \notin Keys
      BY <1>1 DEF Line, Keys
    <2>4. PICK s : s = v[n] /\ s \in ScanState(Q)
      BY <2>2
    <2>5. ScanLine(s, last) = s
      BY <2>3 DEF ScanLine, Keys
    <2> QED BY <2>2, <2>4, <2>5
  <1>10. v[n] = [modelName |-> v[n].modelName, cpuMhz |-> v[n].cpuMhz, findNum |-> v[n].findNum]
    <2>1. PICK V, w : V = ScanValues(Q) /\ w = v[n]
      OBVIOUS
    <2>2. n \in 0..(n + 1)
      BY <1>2
    <2>3. w \in [modelName : V, cpuMhz : V, findNum : 0..2]
      BY <1>3, <2>1, <2>2 DEF ScanState
    <2>4. w = [modelName |-> w.modelName, cpuMhz |-> w.cpuMhz, findNum |-> w.findNum]
      BY <2>3
    <2> QED BY <2>1, <2>4
  <1> QED BY <1>1, <1>4, <1>8, <1>9, <1>10, Zenon DEF ScannedTo

\* The value of a line, without the spaces around its one character.
LEMMA ValueFacts ==
  ASSUME NEW i \in Nat
  PROVE  StringTrimmed(<<32, 64 + i, 10>>) = <<64 + i>>
  <1>1. PICK t, c : t = <<32, c, 10>> /\ c = 64 + i
    OBVIOUS
  <1>2. /\ t \in Seq(Nat) /\ Len(t) = 3 /\ t[1] = 32 /\ t[2] = c /\ t[3] = 10
        /\ IsSpace(32) /\ ~IsSpace(c) /\ IsSpace(10)
    BY <1>1 DEF IsSpace
  <1>3. \E a \in 0..3 : \E b \in a..3 :
          /\ StringTrimmed(t) = SubSeq(t, a + 1, b)
          /\ \A k \in 1..3 : k <= a \/ k > b => IsSpace(t[k])
          /\ a < b => ~IsSpace(t[a + 1]) /\ ~IsSpace(t[b])
    <2>1. \E a \in 0..Len(t) : \E b \in a..Len(t) :
            /\ StringTrimmed(t) = SubSeq(t, a + 1, b)
            /\ \A k \in 1..Len(t) : k <= a \/ k > b => IsSpace(t[k])
            /\ a < b => ~IsSpace(t[a + 1]) /\ ~IsSpace(t[b])
      BY <1>2, TrimFacts, Zenon
    <2> QED BY <1>2, <2>1
  <1>4. PICK a \in 0..3 : \E b \in a..3 :
          /\ StringTrimmed(t) = SubSeq(t, a + 1, b)
          /\ \A k \in 1..3 : k <= a \/ k > b => IsSpace(t[k])
          /\ a < b => ~IsSpace(t[a + 1]) /\ ~IsSpace(t[b])
    BY <1>3
  <1>5. PICK b \in a..3 :
          /\ StringTrimmed(t) = SubSeq(t, a + 1, b)
          /\ \A k \in 1..3 : k <= a \/ k > b => IsSpace(t[k])
          /\ a < b => ~IsSpace(t[a + 1]) /\ ~IsSpace(t[b])
    BY <1>4
  <1>6. a = 1 /\ b = 2
    <2>1. ~(2 <= a) /\ ~(2 > b)
      BY <1>2, <1>5
    <2>2. a < b /\ a \in {0, 1} /\ b \in {2, 3}
      BY <2>1
    <2> QED BY <1>2, <1>5, <2>2
  <1>7. SubSeq(t, 2, 2) = <<c>>
    <2>1. c \in Nat /\ SubSeq(t, 2, 2) = [k \in 1..(2 - 2 + 1) |-> t[2 + k - 1]]
      BY <1>1, <1>2
    <2>2. [k \in 1..(2 - 2 + 1) |-> t[2 + k - 1]] = <<c>>
      BY <1>2
    <2> QED BY <2>1, <2>2
  <1> QED BY <1>1, <1>5, <1>6, <1>7

-----------------------------------------------------------------------------
(* The scan of iostat's output.                                           *)

\* The lines of a report, and what DiskIO keeps while it reads them.
IoLines == {Blank, Title} \cup {Row(d, r, w) : d \in Devices, r \in Rates, w \in Rates}
IoState == [devName : Leftovers, data : Nat \X Nat, secondTime : BOOLEAN, readIO : Nat, writeIO : Nat]

\* What a line leaves when sscanf has put name and data: it is added from the second
\* title on.
Added(t, s, name, data) ==
  /\ t.devName = name /\ t.data = data
  /\ t.secondTime = TRUE <=> s.secondTime = TRUE \/ name = "Device"
  /\ s.secondTime = TRUE /\ name # "Device" =>
       t.readIO = s.readIO + data[1] /\ t.writeIO = s.writeIO + data[2]
  /\ ~(s.secondTime = TRUE /\ name # "Device") =>
       t.readIO = s.readIO /\ t.writeIO = s.writeIO

\* The sum of two natural numbers.
LEMMA SumFacts == \A x, y \in Nat : x + y \in Nat
  OBVIOUS

\* What ReadLine makes of a line in which sscanf finds name and data, or leaves them.
LEMMA AddedFacts ==
  ASSUME NEW s \in IoState, NEW line, NEW name \in Leftovers, NEW data \in Nat \X Nat,
         name = IF line.dev = "" THEN s.devName ELSE line.dev,
         data = IF line.rates = <<>> THEN s.data ELSE line.rates
  PROVE  ReadLine(s, line) \in IoState /\ Added(ReadLine(s, line), s, name, data)
  <1>1. PICK second, read, write, D : /\ second = s.secondTime /\ read = s.readIO /\ write = s.writeIO
                                      /\ D = Nat \X Nat
    OBVIOUS
  <1>2. /\ second \in BOOLEAN /\ read \in Nat /\ write \in Nat /\ data \in D
        /\ data[1] \in Nat /\ data[2] \in Nat
    BY <1>1 DEF IoState
  <1>3. PICK t : t = Sscanf(s, line)
    OBVIOUS
  <1>4. t = [devName |-> name, data |-> data, secondTime |-> second, readIO |-> read, writeIO |-> write]
    BY <1>1, <1>3 DEF Sscanf, IoState
  <1>5. t.devName = name /\ t.data = data /\ t.secondTime = second /\ t.readIO = read /\ t.writeIO = write
    BY <1>4
  <1>6. PICK u : u = ReadLine(s, line)
    OBVIOUS
  <1>7. u = IF ~t.secondTime /\ t.devName = "Device" THEN [t EXCEPT !.secondTime = TRUE]
            ELSE IF t.secondTime /\ t.devName # "Device"
              THEN [t EXCEPT !.readIO = @ + t.data[1], !.writeIO = @ + t.data[2]]
            ELSE t
    BY <1>3, <1>6, Zenon DEF ReadLine
  <1>8. ASSUME NEW last \in BOOLEAN, NEW a \in Nat, NEW b \in Nat,
               u = [devName |-> name, data |-> data, secondTime |-> last, readIO |-> a, writeIO |-> b]
        PROVE  /\ u \in IoState /\ u.devName = name /\ u.data = data
               /\ u.secondTime = last /\ u.readIO = a /\ u.writeIO = b
    BY <1>8 DEF IoState
  <1>9. CASE second = FALSE /\ name = "Device"
    <2>1. u = [t EXCEPT !.secondTime = TRUE]
      BY <1>5, <1>7, <1>9, Zenon
    <2>2. u = [devName |-> name, data |-> data, secondTime |-> TRUE, readIO |-> read, writeIO |-> write]
      BY <1>4, <2>1
    <2>3. /\ u \in IoState /\ u.devName = name /\ u.data = data
          /\ u.secondTime = TRUE /\ u.readIO = read /\ u.writeIO = write
      <3>1. TRUE \in BOOLEAN /\ read \in Nat /\ write \in Nat
        BY <1>2
      <3> QED BY <1>8, <2>2, <3>1
    <2>4. Added(u, s, name, data)
      BY <1>1, <1>9, <2>3, Zenon DEF Added
    <2> QED BY <1>6, <2>3, <2>4
  <1>10. CASE second = TRUE /\ name # "Device"
    <2>1. PICK c, d : c = data[1] /\ d = data[2] /\ c \in Nat /\ d \in Nat
      BY <1>2
    <2>2. PICK a, b : a = read + c /\ b = write + d /\ a \in Nat /\ b \in Nat
      <3>1. read \in Nat /\ write \in Nat /\ c \in Nat /\ d \in Nat
        BY <1>2, <2>1
      <3>2. read + c \in Nat /\ write + d \in Nat
        BY <3>1, SumFacts
      <3> QED BY <3>2
    <2>3. u = [t EXCEPT !.readIO = @ + t.data[1], !.writeIO = @ + t.data[2]]
      BY <1>5, <1>7, <1>10, Zenon
    <2>4. u = [devName |-> name, data |-> data, secondTime |-> second, readIO |-> a, writeIO |-> b]
      BY <1>4, <1>5, <2>1, <2>2, <2>3
    <2>5. /\ u \in IoState /\ u.devName = name /\ u.data = data
          /\ u.secondTime = second /\ u.readIO = a /\ u.writeIO = b
      BY <1>2, <1>8, <2>2, <2>4
    <2>6. a = s.readIO + data[1] /\ b = s.writeIO + data[2]
      BY <1>1, <2>1, <2>2
    <2>7. Added(u, s, name, data)
      BY <1>1, <1>10, <2>5, <2>6, Zenon DEF Added
    <2> QED BY <1>6, <2>5, <2>7
  <1>11. CASE (second = TRUE) <=> (name = "Device")
    <2>1. u = t
      BY <1>5, <1>7, <1>11, Zenon
    <2>2. /\ u \in IoState /\ u.devName = name /\ u.data = data
          /\ u.secondTime = second /\ u.readIO = read /\ u.writeIO = write
      BY <1>2, <1>4, <1>8, <2>1
    <2>3. Added(u, s, name, data)
      BY <1>1, <1>11, <2>2, Zenon DEF Added
    <2> QED BY <1>6, <2>2, <2>3
  <1>12. \/ second = FALSE /\ name = "Device"
         \/ second = TRUE /\ name # "Device"
         \/ (second = TRUE) <=> (name = "Device")
    <2>1. second = TRUE \/ second = FALSE
      BY <1>2
    <2> QED BY <2>1
  <1>13. u \in IoState /\ Added(u, s, name, data)
    BY <1>6, <1>9, <1>10, <1>11, <1>12
  <1> QED BY <1>6, <1>13

\* A blank line.
LEMMA BlankFacts ==
  ASSUME NEW s \in IoState
  PROVE  ReadLine(s, Blank) \in IoState /\ Added(ReadLine(s, Blank), s, s.devName, s.data)
  <1>1. PICK line, name, data : line = Blank /\ name = s.devName /\ data = s.data
    OBVIOUS
  <1>2. line.dev = "" /\ line.rates = <<>> /\ name \in Leftovers /\ data \in Nat \X Nat
    BY <1>1 DEF Blank, IoState
  <1>3. ReadLine(s, line) \in IoState /\ Added(ReadLine(s, line), s, name, data)
    BY <1>1, <1>2, AddedFacts
  <1> QED BY <1>1, <1>3

\* A title.
LEMMA TitleFacts ==
  ASSUME NEW s \in IoState
  PROVE  ReadLine(s, Title) \in IoState /\ Added(ReadLine(s, Title), s, "Device", s.data)
  <1>1. PICK line, name, data : line = Title /\ name = "Device" /\ data = s.data
    OBVIOUS
  <1>2. line.dev = name /\ name # "" /\ line.rates = <<>> /\ name \in Leftovers /\ data \in Nat \X Nat
    BY <1>1 DEF Title, IoState, Leftovers
  <1>3. ReadLine(s, line) \in IoState /\ Added(ReadLine(s, line), s, name, data)
    BY <1>1, <1>2, AddedFacts
  <1> QED BY <1>1, <1>3

\* A row, of which no name is that of the title.
LEMMA RowFacts ==
  ASSUME NEW s \in IoState, NEW d \in Devices, NEW r \in Rates, NEW w \in Rates
  PROVE  /\ ReadLine(s, Row(d, r, w)) \in IoState
         /\ Added(ReadLine(s, Row(d, r, w)), s, d, <<r, w>>)
         /\ d # "Device"
  <1>1. PICK line, data : line = Row(d, r, w) /\ data = <<r, w>>
    OBVIOUS
  <1>2. r \in Nat /\ w \in Nat /\ d # "" /\ d # "Device"
    BY ParserBounds
  <1>3. line.dev = d /\ line.rates = data /\ data # <<>> /\ d \in Leftovers /\ data \in Nat \X Nat
    BY <1>1, <1>2 DEF Row, Leftovers
  <1>4. ReadLine(s, line) \in IoState /\ Added(ReadLine(s, line), s, d, data)
    BY <1>2, <1>3, AddedFacts
  <1> QED BY <1>1, <1>2, <1>4

\* The fold over the lines is a loop of ReadLine.
LEMMA ReadLoop ==
  ASSUME NEW f \in Seq(IoLines), NEW base \in IoState
  PROVE  \E v \in [0..Len(f) -> IoState] :
           /\ v[0] = base /\ v[Len(f)] = FoldLeft(ReadLine, base, f)
           /\ \A k \in 1..Len(f) : v[k] = ReadLine(v[k - 1], f[k])
  <1>1. PICK n, S, step : /\ n = Len(f) /\ S = IoState
                          /\ step = [p \in S \X (1..n) |-> ReadLine(p[1], f[p[2]])]
    OBVIOUS
  <1>2. n \in Nat /\ DOMAIN f = 1..n /\ base \in S
    BY <1>1
  <1>3. step \in [S \X (1..n) -> S]
    <2>1. \A k \in 1..n : f[k] \in IoLines
      BY <1>1
    <2>2. ASSUME NEW s \in S, NEW line \in IoLines PROVE ReadLine(s, line) \in S
      <3>1. \/ line = Blank \/ line = Title
            \/ \E d \in Devices, r \in Rates, w \in Rates : line = Row(d, r, w)
        BY DEF IoLines
      <3> QED BY <1>1, <3>1, BlankFacts, TitleFacts, RowFacts
    <2> QED BY <1>1, <2>1, <2>2
  <1>4. PICK it : FoldsBy(it, n, S, base, step)
    BY <1>2, <1>3, FoldExists
  <1>5. it = [s \in SUBSET (DOMAIN f) |->
                IF s = {} THEN base ELSE ReadLine(it[s \ {Max(s)}], f[Max(s)])]
    <2>1. ASSUME NEW s \in SUBSET (1..n), s # {}
          PROVE  it[s] = ReadLine(it[s \ {Max(s)}], f[Max(s)])
      <3>1. Max(s) \in 1..n /\ s \ {Max(s)} \in SUBSET (1..n)
        BY <1>2, <2>1, LargestFacts
      <3> QED BY <1>1, <1>4, <2>1, <3>1 DEF FoldsBy
    <2> QED BY <1>2, <1>4, <2>1 DEF FoldsBy
  <1>6. PICK g : /\ g = [s \in SUBSET (DOMAIN f) |->
                           IF s = {} THEN base ELSE ReadLine(g[s \ {Max(s)}], f[Max(s)])]
                 /\ FoldLeft(ReadLine, base, f) = g[DOMAIN f]
    BY <1>5, Zenon DEF FoldLeft, MapThenFoldSet
  <1>7. g[{}] = base
    BY <1>6
  <1>8. ASSUME NEW s \in SUBSET (1..n), s # {}, g[s \ {Max(s)}] \in S
        PROVE  g[s] = step[<<g[s \ {Max(s)}], Max(s)>>]
    <2>1. Max(s) \in 1..n
      BY <1>2, <1>8, LargestFacts
    <2> QED BY <1>1, <1>2, <1>6, <1>8, <2>1
  <1>9. LoopEnds(g[1..n], n, S, base, step)
    BY <1>2, <1>3, <1>7, <1>8, FoldIsLoop
  <1>10. PICK v \in [0..n -> S] : /\ v[0] = base /\ v[n] = g[1..n]
                                  /\ \A k \in 1..n : v[k] = step[<<v[k - 1], k>>]
    BY <1>9 DEF LoopEnds
  <1>11. ASSUME NEW k \in 1..n PROVE v[k] = ReadLine(v[k - 1], f[k])
    <2>1. v[k - 1] \in S
      BY <1>2, <1>10
    <2> QED BY <1>1, <1>10, <2>1
  <1>12. v[n] = FoldLeft(ReadLine, base, f)
    BY <1>2, <1>6, <1>10
  <1> QED BY <1>1, <1>10, <1>11, <1>12

\* The rows of a report.
IoRows == {Row(d, r, w) : d \in Devices, r \in Rates, w \in Rates}

\* What a row is made of.
LEMMA RowIs ==
  ASSUME NEW row \in IoRows
  PROVE  /\ row.dev \in Devices /\ Len(row.rates) = 2 /\ row.rates[1] \in Rates /\ row.rates[2] \in Rates
         /\ row = Row(row.dev, row.rates[1], row.rates[2])
         /\ row.rates = <<row.rates[1], row.rates[2]>>
  BY DEF IoRows, Row

\* The sum of a column is what a loop over the rows adds up.
LEMMA ColumnLoop ==
  ASSUME NEW rows \in Seq(IoRows), NEW c \in {1, 2}
  PROVE  \E v \in [0..Len(rows) -> Nat] :
           /\ v[0] = 0 /\ v[Len(rows)] = SumColumn(rows, c)
           /\ \A k \in 1..Len(rows) : v[k] = v[k - 1] + rows[k].rates[c]
  <1>1. PICK n, step : /\ n = Len(rows)
                       /\ step = [p \in Nat \X (1..n) |-> p[1] + rows[p[2]].rates[c]]
    OBVIOUS
  <1>2. n \in Nat /\ DOMAIN rows = 1..n
    BY <1>1
  <1>3. \A k \in 1..n : rows[k].rates[c] \in Nat
    <2>1. \A k \in 1..n : rows[k] \in IoRows
      BY <1>1
    <2>2. \A row \in IoRows : row.rates[1] \in Nat /\ row.rates[2] \in Nat
      BY RowIs, ParserBounds
    <2> QED BY <2>1, <2>2
  <1>4. step \in [Nat \X (1..n) -> Nat]
    BY <1>1, <1>3
  <1>5. PICK it : FoldsBy(it, n, Nat, 0, step)
    BY <1>2, <1>4, FoldExists
  <1>6. it = [s \in SUBSET (DOMAIN rows) |->
                IF s = {} THEN 0 ELSE it[s \ {Max(s)}] + rows[Max(s)].rates[c]]
    <2>1. ASSUME NEW s \in SUBSET (1..n), s # {}
          PROVE  it[s] = it[s \ {Max(s)}] + rows[Max(s)].rates[c]
      <3>1. Max(s) \in 1..n /\ s \ {Max(s)} \in SUBSET (1..n)
        BY <1>2, <2>1, LargestFacts
      <3> QED BY <1>1, <1>5, <2>1, <3>1 DEF FoldsBy
    <2> QED BY <1>2, <1>5, <2>1 DEF FoldsBy
  <1>7. PICK g : /\ g = [s \in SUBSET (DOMAIN rows) |->
                           IF s = {} THEN 0 ELSE g[s \ {Max(s)}] + rows[Max(s)].rates[c]]
                 /\ SumColumn(rows, c) = g[DOMAIN rows]
    BY <1>6, Zenon DEF SumColumn, FoldLeft, MapThenFoldSet
  <1>8. g[{}] = 0
    BY <1>7
  <1>9. ASSUME NEW s \in SUBSET (1..n), s # {}, g[s \ {Max(s)}] \in Nat
        PROVE  g[s] = step[<<g[s \ {Max(s)}], Max(s)>>]
    <2>1. Max(s) \in 1..n
      BY <1>2, <1>9, LargestFacts
    <2> QED BY <1>1, <1>2, <1>7, <1>9, <2>1
  <1>10. LoopEnds(g[1..n], n, Nat, 0, step)
    <2>1. PICK S, base : S = Nat /\ base = 0
      OBVIOUS
    <2>2. base \in S /\ n \in Nat /\ step \in [S \X (1..n) -> S] /\ g[{}] = base
      BY <1>2, <1>4, <1>8, <2>1
    <2>3. \A s \in SUBSET (1..n) : s # {} /\ g[s \ {Max(s)}] \in S
                                     => g[s] = step[<<g[s \ {Max(s)}], Max(s)>>]
      BY <1>9, <2>1
    <2>4. LoopEnds(g[1..n], n, S, base, step)
      BY <2>2, <2>3, FoldIsLoop
    <2> QED BY <2>1, <2>4
  <1>11. PICK v \in [0..n -> Nat] : /\ v[0] = 0 /\ v[n] = g[1..n]
                                    /\ \A k \in 1..n : v[k] = step[<<v[k - 1], k>>]
    BY <1>10 DEF LoopEnds
  <1>12. \A k \in 1..n : v[k] = v[k - 1] + rows[k].rates[c]
    <2> SUFFICES ASSUME NEW k \in 1..n PROVE v[k] = v[k - 1] + rows[k].rates[c]
      OBVIOUS
    <2>1. v[k - 1] \in Nat
      BY <1>2, <1>11
    <2> QED BY <1>1, <1>11, <2>1
  <1>13. v[n] = SumColumn(rows, c)
    BY <1>2, <1>7, <1>11
  <1> QED BY <1>1, <1>11, <1>12, <1>13

\* The lines of one report.
LEMMA ReportFacts ==
  ASSUME NEW rows \in Seq(IoRows), NEW tail \in Nat
  PROVE  LET report == Report(rows, tail)
             n == Len(rows)
         IN  /\ report \in Seq(IoLines) /\ Len(report) = 1 + n + tail
             /\ report[1] = Title
             /\ \A i \in 1..n : report[1 + i] = rows[i]
             /\ \A i \in 1..tail : report[1 + n + i] = Blank
  <1>1. PICK n, head, blanks : /\ n = Len(rows) /\ head = <<Title>> /\ blanks = [i \in 1..tail |-> Blank]
    OBVIOUS
  <1>2. n \in Nat /\ rows \in Seq(IoLines) /\ head \in Seq(IoLines) /\ Len(head) = 1 /\ head[1] = Title
    <2>1. IoRows \subseteq IoLines
      BY DEF IoRows, IoLines
    <2>2. rows \in Seq(IoLines)
      BY <2>1, LargerSet
    <2>3. Title \in IoLines
      BY DEF IoLines
    <2> QED BY <1>1, <2>2, <2>3
  <1>3. blanks \in Seq(IoLines) /\ Len(blanks) = tail /\ \A i \in 1..tail : blanks[i] = Blank
    <2>1. blanks = [i \in 1..tail |-> blanks[i]] /\ \A i \in 1..tail : blanks[i] = Blank
      BY <1>1
    <2>2. \A i \in 1..tail : blanks[i] \in IoLines
      BY <2>1 DEF IoLines
    <2>3. blanks \in Seq(IoLines) /\ Len(blanks) = tail
      BY <2>1, <2>2, AsSequence, Zenon
    <2> QED BY <2>1, <2>3
  <1>4. PICK top : top = head \o rows
    OBVIOUS
  <1>5. /\ top \in Seq(IoLines) /\ Len(top) = 1 + n /\ top[1] = Title
        /\ \A i \in 1..n : top[1 + i] = rows[i]
    <2>1. /\ head \o rows \in Seq(IoLines) /\ Len(head \o rows) = Len(head) + Len(rows)
          /\ \A i \in 1..(Len(head) + Len(rows)) :
               (head \o rows)[i] = IF i <= Len(head) THEN head[i] ELSE rows[i - Len(head)]
      BY <1>2, ConcatProperties
    <2>2. /\ top \in Seq(IoLines) /\ Len(top) = 1 + n
          /\ \A i \in 1..(1 + n) : top[i] = IF i <= 1 THEN head[i] ELSE rows[i - 1]
      BY <1>1, <1>2, <1>4, <2>1
    <2>3. 1 \in 1..(1 + n) /\ 1 <= 1 /\ \A i \in 1..n : 1 + i \in 1..(1 + n) /\ ~(1 + i <= 1) /\ 1 + i - 1 = i
      BY <1>2
    <2> QED BY <1>2, <2>2, <2>3
  <1>6. PICK report : report = top \o blanks
    OBVIOUS
  <1>7. /\ report \in Seq(IoLines) /\ Len(report) = 1 + n + tail /\ report[1] = Title
        /\ \A i \in 1..n : report[1 + i] = rows[i]
        /\ \A i \in 1..tail : report[1 + n + i] = Blank
    <2>1. /\ top \o blanks \in Seq(IoLines) /\ Len(top \o blanks) = Len(top) + Len(blanks)
          /\ \A i \in 1..(Len(top) + Len(blanks)) :
               (top \o blanks)[i] = IF i <= Len(top) THEN top[i] ELSE blanks[i - Len(top)]
      BY <1>3, <1>5, ConcatProperties
    <2>2. PICK m : m = 1 + n /\ m \in Nat /\ m >= 1
      BY <1>2
    <2>3. /\ report \in Seq(IoLines) /\ Len(report) = m + tail
          /\ \A i \in 1..(m + tail) : report[i] = IF i <= m THEN top[i] ELSE blanks[i - m]
      BY <1>3, <1>5, <1>6, <2>1, <2>2
    <2>4. 1 \in 1..(m + tail) /\ 1 <= m
      BY <2>2
    <2>5. \A i \in 1..n : 1 + i \in 1..(m + tail) /\ 1 + i <= m
      BY <1>2, <2>2
    <2>6. \A i \in 1..tail : m + i \in 1..(m + tail) /\ ~(m + i <= m) /\ (m + i) - m = i
      BY <2>2
    <2>7. report[1] = Title /\ \A i \in 1..n : report[1 + i] = rows[i]
      BY <1>5, <2>3, <2>4, <2>5
    <2>8. \A i \in 1..tail : report[m + i] = Blank
      <3> SUFFICES ASSUME NEW i \in 1..tail PROVE report[m + i] = Blank
        OBVIOUS
      <3>1. m + i \in 1..(m + tail) /\ ~(m + i <= m) /\ (m + i) - m = i
        BY <2>6
      <3>2. report[m + i] = blanks[(m + i) - m]
        BY <2>3, <3>1, Zenon
      <3> QED BY <1>3, <3>1, <3>2
    <2> QED BY <2>2, <2>3, <2>7, <2>8
  <1>8. report = Report(rows, tail)
    BY <1>1, <1>4, <1>6 DEF Report
  <1> QED BY <1>1, <1>7, <1>8

\* What DiskIO reads of the output: the rows and blank lines of the first report,
\* and the second one.
Reports(f, first, second, tail) ==
  LET n == Len(first)
      m == Len(second)
  IN  /\ f \in Seq(IoLines) /\ Len(f) = n + tail + 1 + m + tail
      /\ \A i \in 1..n : f[i] = first[i]
      /\ \A i \in 1..tail : f[n + i] = Blank
      /\ f[n + tail + 1] = Title
      /\ \A i \in 1..m : f[n + tail + 1 + i] = second[i]
      /\ \A i \in 1..tail : f[n + tail + 1 + m + i] = Blank

\* The three fgets before the loop drop the banner, the blank line and the title.
LEMMA OutputFacts ==
  ASSUME NEW first \in Seq(IoRows), NEW second \in Seq(IoRows), NEW tail \in Nat
  PROVE  Reports(SubSeq(IostatOutput(first, second, tail), 4, Len(IostatOutput(first, second, tail))),
                 first, second, tail)
  <1>1. PICK n, m, one, two, top : /\ n = Len(first) /\ m = Len(second)
                                   /\ one = Report(first, tail) /\ two = Report(second, tail)
                                   /\ top = <<Banner, Blank>>
    OBVIOUS
  <1>2. n \in Nat /\ m \in Nat
    BY <1>1
  <1>3. /\ one \in Seq(IoLines) /\ Len(one) = 1 + n + tail
        /\ \A i \in 1..n : one[1 + i] = first[i]
        /\ \A i \in 1..tail : one[1 + n + i] = Blank
    BY <1>1, ReportFacts
  <1>4. /\ two \in Seq(IoLines) /\ Len(two) = 1 + m + tail /\ two[1] = Title
        /\ \A i \in 1..m : two[1 + i] = second[i]
        /\ \A i \in 1..tail : two[1 + m + i] = Blank
    BY <1>1, ReportFacts
  <1>5. PICK S : S = IoLines \cup {Banner}
    OBVIOUS
  <1>6. one \in Seq(S) /\ two \in Seq(S) /\ top \in Seq(S) /\ Len(top) = 2
    <2>1. IoLines \subseteq S /\ Blank \in S /\ Banner \in S
      BY <1>5 DEF IoLines
    <2>2. one \in Seq(S) /\ two \in Seq(S)
      BY <1>3, <1>4, <2>1, LargerSet
    <2> QED BY <1>1, <2>1, <2>2
  <1>7. PICK a, b : a = 1 + n + tail /\ b = 1 + m + tail /\ a \in Nat /\ b \in Nat /\ a >= 1 /\ b >= 1
    <2>1. 1 + n + tail \in Nat /\ 1 + m + tail \in Nat /\ 1 + n + tail >= 1 /\ 1 + m + tail >= 1
      BY <1>2
    <2> QED BY <2>1
  <1>8. PICK g : g = (top \o one) \o two
    OBVIOUS
  <1>9. /\ g \in Seq(S) /\ Len(g) = 2 + a + b
        /\ \A i \in 1..a : g[2 + i] = one[i]
        /\ \A i \in 1..b : g[2 + a + i] = two[i]
    <2>1. PICK h : h = top \o one
      OBVIOUS
    <2>2. /\ top \o one \in Seq(S) /\ Len(top \o one) = Len(top) + Len(one)
          /\ \A i \in 1..(Len(top) + Len(one)) :
               (top \o one)[i] = IF i <= Len(top) THEN top[i] ELSE one[i - Len(top)]
      BY <1>6, ConcatProperties
    <2>3. /\ h \in Seq(S) /\ Len(h) = 2 + a
          /\ \A i \in 1..(2 + a) : h[i] = IF i <= 2 THEN top[i] ELSE one[i - 2]
      BY <1>3, <1>6, <1>7, <2>1, <2>2
    <2>4. /\ h \o two \in Seq(S) /\ Len(h \o two) = Len(h) + Len(two)
          /\ \A i \in 1..(Len(h) + Len(two)) :
               (h \o two)[i] = IF i <= Len(h) THEN h[i] ELSE two[i - Len(h)]
      BY <1>6, <2>3, ConcatProperties
    <2>5. /\ g \in Seq(S) /\ Len(g) = 2 + a + b
          /\ \A i \in 1..(2 + a + b) : g[i] = IF i <= 2 + a THEN h[i] ELSE two[i - (2 + a)]
      BY <1>4, <1>7, <1>8, <2>1, <2>3, <2>4
    <2>6. \A i \in 1..a : /\ 2 + i \in 1..(2 + a) /\ 2 + i \in 1..(2 + a + b)
                          /\ 2 + i <= 2 + a /\ ~(2 + i <= 2) /\ 2 + i - 2 = i
      BY <1>7
    <2>7. \A i \in 1..b : /\ 2 + a + i \in 1..(2 + a + b) /\ ~(2 + a + i <= 2 + a)
                          /\ 2 + a + i - (2 + a) = i
      BY <1>7
    <2> QED BY <2>3, <2>5, <2>6, <2>7
  <1>10. PICK l : /\ l = (a - 1) + b /\ l \in Nat /\ 2 + a + b = 3 + l /\ 2 + a + b - 4 + 1 = l
                  /\ \A k \in 1..l : k \in 1..(a - 1) \/ (k - (a - 1) \in 1..b /\ (a - 1) + (k - (a - 1)) = k)
                  /\ \A k \in 1..(a - 1) : k \in 1..l
                  /\ \A k \in 1..b : (a - 1) + k \in 1..l
    <2>1. PICK l : l = (a - 1) + b
      OBVIOUS
    <2>2. a \in Nat /\ b \in Nat /\ a >= 1 /\ b >= 1
      BY <1>7
    <2>3. l \in Nat /\ 2 + a + b = 3 + l /\ 2 + a + b - 4 + 1 = l
      BY <2>1, <2>2
    <2>4. \A k \in 1..l : k \in 1..(a - 1) \/ (k - (a - 1) \in 1..b /\ (a - 1) + (k - (a - 1)) = k)
      BY <2>1, <2>2
    <2>5. /\ \A k \in 1..(a - 1) : k \in 1..l
          /\ \A k \in 1..b : (a - 1) + k \in 1..l
      BY <2>1, <2>2
    <2> QED BY <2>1, <2>3, <2>4, <2>5
  <1>11. PICK f : f = SubSeq(g, 4, Len(g))
    OBVIOUS
  <1>12. f \in Seq(S) /\ Len(f) = l /\ \A k \in 1..l : f[k] = g[3 + k]
    <2>1. PICK z : z = 2 + a + b /\ z \in Int /\ 4 <= z + 1 /\ z - 4 + 1 = l
      <3>1. 2 + a + b \in Int /\ 4 <= 2 + a + b + 1
        BY <1>7
      <3> QED BY <1>10, <3>1
    <2>2. 4 \in Int /\ \A i \in 4..z : g[i] \in S
      <3>1. \A i \in 4..z : i \in 1..z
        BY <2>1
      <3> QED BY <1>9, <2>1, <3>1
    <2>3. /\ SubSeq(g, 4, z) \in Seq(S)
          /\ Len(SubSeq(g, 4, z)) = IF 4 <= z THEN z - 4 + 1 ELSE 0
          /\ \A i \in 1..(z - 4 + 1) : SubSeq(g, 4, z)[i] = g[4 + i - 1]
      <3>1. PICK i, j : i = 4 /\ j = z /\ i \in Int /\ j \in Int /\ \A k \in i..j : g[k] \in S
        BY <2>1, <2>2
      <3>2. /\ SubSeq(g, i, j) \in Seq(S)
            /\ Len(SubSeq(g, i, j)) = IF i <= j THEN j - i + 1 ELSE 0
            /\ \A k \in 1..(j - i + 1) : SubSeq(g, i, j)[k] = g[i + k - 1]
        BY <3>1, SubSeqProperties
      <3> QED BY <3>1, <3>2
    <2>4. (IF 4 <= z THEN z - 4 + 1 ELSE 0) = l
      BY <2>1
    <2>5. \A k \in 1..l : 4 + k - 1 = 3 + k
      BY <1>10
    <2>6. f = SubSeq(g, 4, z)
      BY <1>9, <1>11, <2>1
    <2> QED BY <2>1, <2>3, <2>4, <2>5, <2>6
  <1>13. \A k \in 1..(a - 1) : f[k] = one[1 + k]
    <2> SUFFICES ASSUME NEW k \in 1..(a - 1) PROVE f[k] = one[1 + k]
      OBVIOUS
    <2>1. 1 + k \in 1..a /\ 2 + (1 + k) = 3 + k
      BY <1>7
    <2>2. k \in 1..l
      BY <1>10
    <2> QED BY <1>9, <1>12, <2>1, <2>2
  <1>14. \A k \in 1..b : f[(a - 1) + k] = two[k]
    <2> SUFFICES ASSUME NEW k \in 1..b PROVE f[(a - 1) + k] = two[k]
      OBVIOUS
    <2>1. 2 + a + k = 3 + ((a - 1) + k)
      BY <1>7
    <2>2. (a - 1) + k \in 1..l
      BY <1>10
    <2> QED BY <1>9, <1>12, <2>1, <2>2
  <1>15. f \in Seq(IoLines) /\ Len(f) = l
    <2>1. \A k \in 1..l : f[k] \in IoLines
      <3> SUFFICES ASSUME NEW k \in 1..l PROVE f[k] \in IoLines
        OBVIOUS
      <3>1. k \in 1..(a - 1) \/ (k - (a - 1) \in 1..b /\ (a - 1) + (k - (a - 1)) = k)
        BY <1>10
      <3>2. CASE k \in 1..(a - 1)
        <4>1. 1 + k \in 1..a /\ f[k] = one[1 + k]
          BY <1>7, <1>13, <3>2
        <4> QED BY <1>3, <1>7, <4>1
      <3>3. CASE k - (a - 1) \in 1..b /\ (a - 1) + (k - (a - 1)) = k
        <4>1. PICK j : j = k - (a - 1)
          OBVIOUS
        <4>2. j \in 1..b /\ f[k] = two[j]
          BY <1>14, <3>3, <4>1
        <4> QED BY <1>4, <1>7, <4>2
      <3> QED BY <3>1, <3>2, <3>3
    <2>2. Len(f) = l /\ f = [k \in 1..Len(f) |-> f[k]]
      BY <1>12
    <2>3. f = [k \in 1..l |-> f[k]]
      BY <2>2
    <2>4. l \in Nat
      BY <1>10
    <2> QED BY <2>1, <2>3, <2>4, AsSequence, Zenon
  <1>16. a - 1 = n + tail /\ l = n + tail + 1 + m + tail
    BY <1>2, <1>7, <1>10
  <1>17. \A i \in 1..n : f[i] = first[i]
    <2>1. \A i \in 1..n : i \in 1..(a - 1)
      BY <1>2, <1>16
    <2> QED BY <1>3, <1>13, <2>1
  <1>18. \A i \in 1..tail : f[n + i] = Blank
    <2>1. \A i \in 1..tail : n + i \in 1..(a - 1) /\ 1 + (n + i) = 1 + n + i
      BY <1>2, <1>16
    <2> QED BY <1>3, <1>13, <2>1
  <1>19. f[n + tail + 1] = Title
    <2>1. 1 \in 1..b
      BY <1>7
    <2> QED BY <1>4, <1>14, <1>16, <2>1
  <1>20. \A i \in 1..m : f[n + tail + 1 + i] = second[i]
    <2>1. \A i \in 1..m : 1 + i \in 1..b /\ (n + tail) + (1 + i) = n + tail + 1 + i
      BY <1>2, <1>7
    <2> QED BY <1>4, <1>14, <1>16, <2>1
  <1>21. \A i \in 1..tail : f[n + tail + 1 + m + i] = Blank
    <2>1. \A i \in 1..tail : 1 + m + i \in 1..b /\ (n + tail) + (1 + m + i) = n + tail + 1 + m + i
      BY <1>2, <1>7
    <2> QED BY <1>4, <1>14, <1>16, <2>1
  <1>22. g = IostatOutput(first, second, tail)
    BY <1>1, <1>8 DEF IostatOutput
  <1>23. Reports(f, first, second, tail)
    BY <1>1, <1>15, <1>16, <1>17, <1>18, <1>19, <1>20, <1>21 DEF Reports
  <1> QED BY <1>11, <1>22, <1>23

\* A run over the lines f, and one step of it.
Runs(v, f) ==
  /\ v \in [0..Len(f) -> IoState]
  /\ \A k \in 1..Len(f) : v[k] = ReadLine(v[k - 1], f[k])

\* One step of a run.
LEMMA RunStep ==
  ASSUME NEW f \in Seq(IoLines), NEW v, Runs(v, f), NEW k \in Nat, k + 1 <= Len(f)
  PROVE  v[k] \in IoState /\ v[k + 1] = ReadLine(v[k], f[k + 1])
  <1>1. PICK n : n = Len(f) /\ n \in Nat
    OBVIOUS
  <1>2. k \in 0..n /\ k + 1 \in 1..n /\ (k + 1) - 1 = k
    BY <1>1
  <1>3. v[k] \in IoState /\ v[k + 1] = ReadLine(v[(k + 1) - 1], f[k + 1])
    BY <1>1, <1>2, Zenon DEF Runs
  <1> QED BY <1>2, <1>3

\* After k lines, of which the first n are rows: nothing has been added. The second
\* report is taken to have begun only if devName holds the title: because it was
\* read, or because the first report has no rows and devName happened to hold it.
Before(s, k, n) ==
  /\ s.readIO = 0 /\ s.writeIO = 0
  /\ s.secondTime = TRUE => s.devName = "Device"
  /\ k <= n => ~(s.secondTime = TRUE)

\* A row of the first report.
LEMMA BeforeRow ==
  ASSUME NEW s \in IoState, NEW row \in IoRows, NEW k \in Nat, NEW n \in Nat, k + 1 <= n, Before(s, k, n)
  PROVE  Before(ReadLine(s, row), k + 1, n)
  <1>1. PICK d, r, w : d = row.dev /\ r = row.rates[1] /\ w = row.rates[2]
    OBVIOUS
  <1>2. row = Row(d, r, w) /\ d \in Devices /\ r \in Rates /\ w \in Rates
    BY <1>1, RowIs
  <1>3. PICK u : u = ReadLine(s, row)
    OBVIOUS
  <1>4. Added(u, s, d, <<r, w>>) /\ d # "Device"
    BY <1>2, <1>3, RowFacts
  <1>5. k <= n
    OBVIOUS
  <1>6. ~(s.secondTime = TRUE) /\ s.readIO = 0 /\ s.writeIO = 0
    BY <1>5 DEF Before
  <1> QED BY <1>3, <1>4, <1>6, Zenon DEF Before, Added

\* A blank line after the first report.
LEMMA BeforeBlank ==
  ASSUME NEW s \in IoState, NEW k \in Nat, NEW n \in Nat, n <= k, Before(s, k, n)
  PROVE  Before(ReadLine(s, Blank), k + 1, n)
  <1>1. PICK u : u = ReadLine(s, Blank)
    OBVIOUS
  <1>2. Added(u, s, s.devName, s.data)
    BY <1>1, BlankFacts
  <1>3. ~(k + 1 <= n)
    OBVIOUS
  <1> QED BY <1>1, <1>2, <1>3, Zenon DEF Before, Added

\* The first report adds nothing.
LEMMA FirstReport ==
  ASSUME NEW f \in Seq(IoLines), NEW v, Runs(v, f), Before(v[0], 0, 0),  ~(v[0].secondTime = TRUE),
         NEW n \in Nat, NEW tail \in Nat, n + tail <= Len(f),
         \A i \in 1..n : f[i] \in IoRows, \A i \in 1..tail : f[n + i] = Blank
  PROVE  Before(v[n + tail], n + tail, n)
  <1>1. PICK l : l = n + tail /\ l \in Nat
    BY SumFacts
  <1>2. PICK T : T = {k \in 0..l : Before(v[k], k, n)}
    OBVIOUS
  <1>3. 0 \in T
    <2>1. Before(v[0], 0, n)
      BY DEF Before
    <2>2. 0 \in 0..l
      BY <1>1
    <2> QED BY <1>2, <2>1, <2>2
  <1>4. ASSUME NEW k \in 0..(l - 1), k \in T PROVE k + 1 \in T
    <2>1. k \in Nat /\ k + 1 \in 0..l /\ k + 1 <= l
      BY <1>1
    <2>2. Before(v[k], k, n)
      BY <1>2, <1>4
    <2>3. k + 1 <= Len(f)
      BY <1>1, <2>1
    <2>4. v[k] \in IoState /\ v[k + 1] = ReadLine(v[k], f[k + 1])
      BY <2>1, <2>3, RunStep
    <2>5. CASE k + 1 <= n
      <3>1. k + 1 \in 1..n
        BY <2>1, <2>5
      <3>2. f[k + 1] \in IoRows
        BY <3>1
      <3>3. Before(v[k + 1], k + 1, n)
        BY <2>1, <2>2, <2>4, <2>5, <3>2, BeforeRow
      <3> QED BY <1>2, <2>1, <3>3
    <2>6. CASE ~(k + 1 <= n)
      <3>1. n <= k /\ (k + 1) - n \in 1..tail /\ n + ((k + 1) - n) = k + 1
        BY <1>1, <2>1, <2>6
      <3>2. f[n + ((k + 1) - n)] = Blank
        BY <3>1
      <3>3. f[k + 1] = Blank
        BY <3>1, <3>2
      <3>4. Before(v[k + 1], k + 1, n)
        BY <2>1, <2>2, <2>4, <3>1, <3>3, BeforeBlank
      <3> QED BY <1>2, <2>1, <3>4
    <2> QED BY <2>5, <2>6
  <1>5. l \in T
    <2>1. \A k \in 0..(l - 1) : k \in T => k + 1 \in T
      BY <1>4
    <2>2. l \in 0..l
      BY <1>1
    <2> QED BY <1>1, <1>3, <2>1, <2>2, LoopInduction
  <1> QED BY <1>1, <1>2, <1>5

\* From the second title on rows are added.
InRows(s, j, rows, read, write) ==
  /\ s.secondTime = TRUE /\ s.readIO = read /\ s.writeIO = write
  /\ j = 0 => s.devName = "Device"
  /\ j # 0 => /\ s.devName # "Device"
              /\ s.data[1] = rows[j].rates[1] /\ s.data[2] = rows[j].rates[2]

\* The second title: no row has been added.
LEMMA TitleRead ==
  ASSUME NEW s \in IoState, NEW k, NEW n, Before(s, k, n), NEW rows
  PROVE  InRows(ReadLine(s, Title), 0, rows, 0, 0)
  <1>1. PICK u : u = ReadLine(s, Title)
    OBVIOUS
  <1>2. Added(u, s, "Device", s.data)
    BY <1>1, TitleFacts
  <1> QED BY <1>1, <1>2, Zenon DEF Before, InRows, Added

\* A row of the second report is added.
LEMMA RowRead ==
  ASSUME NEW s \in IoState, NEW rows \in Seq(IoRows), NEW j \in Nat, j + 1 \in 1..Len(rows),
         NEW read, NEW write, InRows(s, j, rows, read, write)
  PROVE  InRows(ReadLine(s, rows[j + 1]), j + 1, rows,
                read + rows[j + 1].rates[1], write + rows[j + 1].rates[2])
  <1>1. PICK i, row, d, r, w : /\ i = j + 1 /\ row = rows[i] /\ d = row.dev
                               /\ r = row.rates[1] /\ w = row.rates[2]
    OBVIOUS
  <1>2. row \in IoRows /\ i # 0
    BY <1>1
  <1>3. row = Row(d, r, w) /\ d \in Devices /\ r \in Rates /\ w \in Rates
    BY <1>1, <1>2, RowIs
  <1>4. PICK u, data : u = ReadLine(s, row) /\ data = <<r, w>> /\ data[1] = r /\ data[2] = w
    <2>1. PICK u, data : u = ReadLine(s, row) /\ data = <<r, w>>
      OBVIOUS
    <2>2. data[1] = r /\ data[2] = w
      BY <2>1
    <2> QED BY <2>1, <2>2
  <1>5. Added(u, s, d, data) /\ d # "Device"
    BY <1>3, <1>4, RowFacts
  <1>6. s.secondTime = TRUE /\ s.readIO = read /\ s.writeIO = write
    BY DEF InRows
  <1>7. InRows(u, i, rows, read + r, write + w)
    BY <1>1, <1>2, <1>4, <1>5, <1>6, Zenon DEF InRows, Added
  <1> QED BY <1>1, <1>4, <1>7

\* The rows of the second report add up to the sums of its columns.
LEMMA SecondReport ==
  ASSUME NEW f \in Seq(IoLines), NEW v, Runs(v, f), NEW rows \in Seq(IoRows), NEW p \in Nat,
         InRows(v[p], 0, rows, 0, 0), p + Len(rows) <= Len(f),
         \A i \in 1..Len(rows) : f[p + i] = rows[i]
  PROVE  InRows(v[p + Len(rows)], Len(rows), rows, SumColumn(rows, 1), SumColumn(rows, 2))
  <1>1. PICK m : m = Len(rows) /\ m \in Nat
    OBVIOUS
  <1>2. PICK a \in [0..m -> Nat] : /\ a[0] = 0 /\ a[m] = SumColumn(rows, 1)
                                   /\ \A k \in 1..m : a[k] = a[k - 1] + rows[k].rates[1]
    BY <1>1, ColumnLoop
  <1>3. PICK b \in [0..m -> Nat] : /\ b[0] = 0 /\ b[m] = SumColumn(rows, 2)
                                   /\ \A k \in 1..m : b[k] = b[k - 1] + rows[k].rates[2]
    BY <1>1, ColumnLoop
  <1>4. PICK T : T = {j \in 0..m : InRows(v[p + j], j, rows, a[j], b[j])}
    OBVIOUS
  <1>5. 0 \in T
    <2>1. p + 0 = p /\ 0 \in 0..m
      BY <1>1
    <2> QED BY <1>2, <1>3, <1>4, <2>1
  <1>6. ASSUME NEW j \in 0..(m - 1), j \in T PROVE j + 1 \in T
    <2>1. j \in Nat /\ j + 1 \in 0..m /\ j + 1 \in 1..m /\ (j + 1) - 1 = j
      BY <1>1
    <2>2. p + j \in Nat /\ (p + j) + 1 = p + (j + 1) /\ (p + j) + 1 <= Len(f)
      <3>1. p + m <= Len(f) /\ Len(f) \in Nat
        BY <1>1
      <3> QED BY <1>1, <2>1, <3>1
    <2>3. InRows(v[p + j], j, rows, a[j], b[j])
      BY <1>4, <1>6
    <2>4. v[p + j] \in IoState /\ v[(p + j) + 1] = ReadLine(v[p + j], f[(p + j) + 1])
      BY <2>2, RunStep
    <2>5. f[(p + j) + 1] = rows[j + 1]
      <3>1. f[p + (j + 1)] = rows[j + 1]
        BY <1>1, <2>1
      <3> QED BY <2>2, <3>1
    <2>6. a[j + 1] = a[j] + rows[j + 1].rates[1] /\ b[j + 1] = b[j] + rows[j + 1].rates[2]
      <3>1. /\ a[j + 1] = a[(j + 1) - 1] + rows[j + 1].rates[1]
            /\ b[j + 1] = b[(j + 1) - 1] + rows[j + 1].rates[2]
        BY <1>2, <1>3, <2>1, Zenon
      <3> QED BY <2>1, <3>1
    <2>7. j + 1 \in 1..Len(rows)
      BY <1>1, <2>1
    <2>8. InRows(ReadLine(v[p + j], rows[j + 1]), j + 1, rows,
                 a[j] + rows[j + 1].rates[1], b[j] + rows[j + 1].rates[2])
      BY <2>1, <2>3, <2>4, <2>7, RowRead, Zenon
    <2>9. InRows(v[p + (j + 1)], j + 1, rows, a[j + 1], b[j + 1])
      BY <2>2, <2>4, <2>5, <2>6, <2>8
    <2> QED BY <1>4, <2>1, <2>9
  <1>7. m \in T
    <2>1. \A j \in 0..(m - 1) : j \in T => j + 1 \in T
      BY <1>6
    <2>2. m \in 0..m
      BY <1>1
    <2> QED BY <1>1, <1>5, <2>1, <2>2, LoopInduction
  <1> QED BY <1>1, <1>2, <1>3, <1>4, <1>7

\* One blank line more adds the data once more.
LEMMA OneMore == \A a, i, x \in Nat : (a + i * x) + x = a + (i + 1) * x
  OBVIOUS

\* What has been added when a blank line will add x and y, after n of them, and
\* where the blank lines are.
Adding(s, read, write, x, y) ==
  /\ s.secondTime = TRUE /\ s.readIO = read /\ s.writeIO = write
  /\ s.devName = "Device" => x = 0 /\ y = 0
  /\ s.devName # "Device" => s.data[1] = x /\ s.data[2] = y

AddedTimes(s, n, read, write, x, y) ==
  s.readIO = read + n * x /\ s.writeIO = write + n * y

BlanksFrom(f, q, tail) ==
  f \in Seq(IoLines) /\ q + tail <= Len(f) /\ \A i \in 1..tail : f[q + i] = Blank

\* The blank lines that close the second report.
LEMMA LastBlanks ==
  ASSUME NEW f, NEW v, NEW q \in Nat, NEW tail \in Nat, Runs(v, f), BlanksFrom(f, q, tail),
         NEW read \in Nat, NEW write \in Nat, NEW x \in Nat, NEW y \in Nat,
         Adding(v[q], read, write, x, y)
  PROVE  AddedTimes(v[q + tail], tail, read, write, x, y)
  <1>0. f \in Seq(IoLines) /\ q + tail <= Len(f) /\ \A i \in 1..tail : f[q + i] = Blank
    BY DEF BlanksFrom
  <1>1. PICK Same, T : /\ Same = {s \in IoState : /\ s.secondTime = TRUE /\ s.devName = v[q].devName
                                                  /\ s.data = v[q].data}
                       /\ T = {i \in 0..tail : /\ v[q + i] \in Same
                                               /\ v[q + i].readIO = read + i * x
                                               /\ v[q + i].writeIO = write + i * y}
    OBVIOUS
  <1>2. 0 \in T
    <2>1. q + 0 = q /\ 0 \in 0..tail /\ read + 0 * x = read /\ write + 0 * y = write
      OBVIOUS
    <2>2. v[q] \in IoState
      <3>1. PICK l : l = Len(f) /\ l \in Nat /\ q + tail <= l
        BY <1>0
      <3>2. q \in 0..l
        BY <3>1
      <3> QED BY <3>1, <3>2, Zenon DEF Runs
    <2> QED BY <1>1, <2>1, <2>2 DEF Adding
  <1>3. ASSUME NEW i \in 0..(tail - 1), i \in T PROVE i + 1 \in T
    <2>1. i \in Nat /\ i + 1 \in 0..tail /\ i + 1 \in 1..tail
      OBVIOUS
    <2>2. q + i \in Nat /\ (q + i) + 1 = q + (i + 1) /\ (q + i) + 1 <= Len(f)
      <3>1. PICK l : l = Len(f) /\ l \in Nat /\ q + tail <= l
        BY <1>0
      <3> QED BY <2>1, <3>1
    <2>3. PICK s, u : s = v[q + i] /\ u = v[q + (i + 1)]
      OBVIOUS
    <2>4. /\ s \in IoState /\ s.secondTime = TRUE /\ s.devName = v[q].devName /\ s.data = v[q].data
          /\ s.readIO = read + i * x /\ s.writeIO = write + i * y
      BY <1>1, <1>3, <2>3
    <2>5. u = ReadLine(s, Blank)
      <3>1. v[(q + i) + 1] = ReadLine(v[q + i], f[(q + i) + 1])
        BY <1>0, <2>2, RunStep
      <3>2. f[q + (i + 1)] = Blank
        BY <1>0, <2>1
      <3> QED BY <2>2, <2>3, <3>1, <3>2
    <2>6. u \in IoState /\ Added(u, s, s.devName, s.data)
      BY <2>4, <2>5, BlankFacts
    <2>7. /\ u.secondTime = TRUE /\ u.devName = v[q].devName /\ u.data = v[q].data
      BY <2>4, <2>6, Zenon DEF Added
    <2>8. u.readIO = s.readIO + x /\ u.writeIO = s.writeIO + y
      <3>1. CASE s.devName = "Device"
        <4>1. u.readIO = s.readIO /\ u.writeIO = s.writeIO /\ x = 0 /\ y = 0
          BY <2>4, <2>6, <3>1, Zenon DEF Added, Adding
        <4>2. PICK g, h : g = s.readIO /\ h = s.writeIO /\ g \in Nat /\ h \in Nat
          BY <2>4 DEF IoState
        <4> QED BY <4>1, <4>2
      <3>2. CASE s.devName # "Device"
        <4>1. u.readIO = s.readIO + s.data[1] /\ u.writeIO = s.writeIO + s.data[2]
          BY <2>4, <2>6, <3>2, Zenon DEF Added
        <4>2. s.data[1] = x /\ s.data[2] = y
          BY <2>4, <3>2 DEF Adding
        <4> QED BY <4>1, <4>2
      <3> QED BY <3>1, <3>2
    <2>9. u.readIO = read + (i + 1) * x /\ u.writeIO = write + (i + 1) * y
      <3>1. (read + i * x) + x = read + (i + 1) * x /\ (write + i * y) + y = write + (i + 1) * y
        BY <2>1, OneMore
      <3> QED BY <2>4, <2>8, <3>1, Zenon
    <2> QED BY <1>1, <2>1, <2>3, <2>6, <2>7, <2>9
  <1>4. tail \in T
    <2>1. \A i \in 0..(tail - 1) : i \in T => i + 1 \in T
      BY <1>3
    <2>2. tail \in 0..tail
      OBVIOUS
    <2> QED BY <1>2, <2>1, <2>2, LoopInduction
  <1> QED BY <1>1, <1>4 DEF AddedTimes

\* The rates of one run of iostat, whatever it printed and devName held.
LEMMA RecountFacts ==
  ASSUME NEW first \in Seq(IoRows), NEW second \in Seq(IoRows), NEW tail \in Nat, NEW dev0 \in Leftovers
  PROVE  LET rates == ParseIostat(IostatOutput(first, second, tail), dev0)
         IN  /\ rates.read = SumColumn(second, 1) + tail * LastColumn(second, 1)
             /\ rates.write = SumColumn(second, 2) + tail * LastColumn(second, 2)
  <1>0. Len(first) \in Nat /\ Len(second) \in Nat
    OBVIOUS
  <1>1. PICK f, n, m : /\ f = SubSeq(IostatOutput(first, second, tail), 4,
                                     Len(IostatOutput(first, second, tail)))
                       /\ n = Len(first) /\ m = Len(second) /\ n \in Nat /\ m \in Nat
    BY <1>0
  <1>2. /\ f \in Seq(IoLines) /\ Len(f) = n + tail + 1 + m + tail
        /\ \A i \in 1..n : f[i] = first[i]
        /\ \A i \in 1..tail : f[n + i] = Blank
        /\ f[n + tail + 1] = Title
        /\ \A i \in 1..m : f[n + tail + 1 + i] = second[i]
        /\ \A i \in 1..tail : f[n + tail + 1 + m + i] = Blank
    <2>1. Reports(f, first, second, tail)
      BY <1>1, OutputFacts
    <2> QED BY <1>1, <2>1 DEF Reports
  <1>3. PICK base : base = StartParse(dev0)
    OBVIOUS
  <1>4. base \in IoState /\ Before(base, 0, 0) /\ ~(base.secondTime = TRUE)
    <2>1. PICK zeros : zeros = <<0, 0>> /\ zeros \in Nat \X Nat
      <3>1. <<0, 0>> \in Nat \X Nat
        OBVIOUS
      <3> QED BY <3>1
    <2>2. base = [devName |-> dev0, data |-> zeros, secondTime |-> FALSE, readIO |-> 0, writeIO |-> 0]
      BY <1>3, <2>1 DEF StartParse
    <2>3. base.secondTime = FALSE /\ base.readIO = 0 /\ base.writeIO = 0
      BY <2>2
    <2> QED BY <2>1, <2>2, <2>3 DEF IoState, Before
  <1>5. PICK v : Runs(v, f) /\ v[0] = base /\ v[Len(f)] = FoldLeft(ReadLine, base, f)
    <2>1. PICK v \in [0..Len(f) -> IoState] :
            /\ v[0] = base /\ v[Len(f)] = FoldLeft(ReadLine, base, f)
            /\ \A k \in 1..Len(f) : v[k] = ReadLine(v[k - 1], f[k])
      BY <1>2, <1>4, ReadLoop
    <2> QED BY <2>1 DEF Runs
  <1>6. PICK o, p, q : /\ o = n + tail /\ p = o + 1 /\ q = p + m
                       /\ o \in Nat /\ p \in Nat /\ q \in Nat
                       /\ Len(f) = q + tail /\ o <= Len(f) /\ p <= Len(f) /\ q <= Len(f)
    <2>1. PICK l : l = Len(f) /\ l = n + tail + 1 + m + tail
      BY <1>2
    <2>2. PICK o, p, q : o = n + tail /\ p = o + 1 /\ q = p + m
      OBVIOUS
    <2>3. n \in Nat /\ m \in Nat
      BY <1>1
    <2>4. o \in Nat /\ p \in Nat /\ q \in Nat /\ l = q + tail /\ o <= l /\ p <= l /\ q <= l
      BY <2>1, <2>2, <2>3
    <2> QED BY <2>1, <2>2, <2>4
  <1>7. Before(v[o], o, n)
    <2>1. \A i \in 1..n : f[i] \in IoRows
      BY <1>1, <1>2
    <2>2. Before(v[0], 0, 0) /\ ~(v[0].secondTime = TRUE)
      BY <1>4, <1>5
    <2>3. n \in Nat /\ n + tail <= Len(f) /\ f \in Seq(IoLines) /\ \A i \in 1..tail : f[n + i] = Blank
      BY <1>1, <1>2, <1>6
    <2>4. Before(v[n + tail], n + tail, n)
      BY <1>5, <2>1, <2>2, <2>3, FirstReport
    <2> QED BY <1>6, <2>4
  <1>8. InRows(v[p], 0, second, 0, 0)
    <2>1. v[o] \in IoState /\ v[o + 1] = ReadLine(v[o], f[o + 1])
      BY <1>2, <1>5, <1>6, RunStep
    <2>2. f[o + 1] = Title
      BY <1>2, <1>6
    <2> QED BY <1>6, <1>7, <2>1, <2>2, TitleRead
  <1>9. InRows(v[q], m, second, SumColumn(second, 1), SumColumn(second, 2))
    <2>1. \A i \in 1..m : f[p + i] = second[i]
      BY <1>2, <1>6
    <2>2. p + Len(second) = q /\ q <= Len(f) /\ Len(second) = m
      BY <1>1, <1>6
    <2>3. InRows(v[p + Len(second)], Len(second), second, SumColumn(second, 1), SumColumn(second, 2))
      BY <1>2, <1>5, <1>6, <1>8, <2>1, <2>2, SecondReport
    <2> QED BY <2>2, <2>3
  <1>10. PICK read, write, x, y : /\ read = SumColumn(second, 1) /\ write = SumColumn(second, 2)
                                  /\ x = LastColumn(second, 1) /\ y = LastColumn(second, 2)
    OBVIOUS
  <1>11. read \in Nat /\ write \in Nat /\ v[q] \in IoState
    <2>1. v[q] \in IoState
      <3>1. PICK l : l = Len(f) /\ l \in Nat
        BY <1>2
      <3>2. q \in 0..l
        BY <1>6, <3>1
      <3> QED BY <1>5, <3>1, <3>2, Zenon DEF Runs
    <2>2. v[q].readIO \in Nat /\ v[q].writeIO \in Nat
      BY <2>1 DEF IoState
    <2> QED BY <1>9, <1>10, <2>1, <2>2 DEF InRows
  <1>12. /\ x \in Nat /\ y \in Nat
         /\ v[q].devName = "Device" => x = 0 /\ y = 0
         /\ v[q].devName # "Device" => v[q].data[1] = x /\ v[q].data[2] = y
    <2>1. CASE m = 0
      <3>1. second = <<>>
        <4>1. Len(second) = 0
          BY <1>1, <2>1
        <4> QED BY <4>1, EmptySeq
      <3>2. x = 0 /\ y = 0
        BY <1>10, <3>1 DEF LastColumn
      <3>3. v[q].devName = "Device"
        BY <1>9, <2>1 DEF InRows
      <3> QED BY <3>2, <3>3
    <2>2. CASE m # 0
      <3>1. second # <<>> /\ m \in 1..Len(second)
        BY <1>1, <2>2
      <3>2. second[m] \in IoRows
        BY <3>1
      <3>3. x = second[m].rates[1] /\ y = second[m].rates[2]
        BY <1>1, <1>10, <3>1 DEF LastColumn, Last
      <3>4. second[m].rates[1] \in Nat /\ second[m].rates[2] \in Nat
        BY <3>2, RowIs, ParserBounds
      <3>5. v[q].devName # "Device" /\ v[q].data[1] = x /\ v[q].data[2] = y
        BY <1>9, <2>2, <3>3 DEF InRows
      <3> QED BY <3>3, <3>4, <3>5
    <2> QED BY <2>1, <2>2
  <1>13. v[q + tail].readIO = read + tail * x /\ v[q + tail].writeIO = write + tail * y
    <2>1. \A i \in 1..tail : f[q + i] = Blank
      BY <1>2, <1>6
    <2>2. Adding(v[q], read, write, x, y)
      BY <1>9, <1>10, <1>12 DEF InRows, Adding
    <2>3. q + tail <= Len(f)
      <3>1. q + tail \in Nat
        BY <1>6
      <3> QED BY <1>6, <3>1
    <2>4. Runs(v, f) /\ BlanksFrom(f, q, tail) /\ q \in Nat
      BY <1>2, <1>5, <1>6, <2>1, <2>3 DEF BlanksFrom
    <2>5. read \in Nat /\ write \in Nat /\ x \in Nat /\ y \in Nat
      BY <1>11, <1>12
    <2>6. AddedTimes(v[q + tail], tail, read, write, x, y)
      BY <2>2, <2>4, <2>5, LastBlanks
    <2> QED BY <2>6 DEF AddedTimes
  <1>14. PICK end : end = FoldLeft(ReadLine, base, f) /\ end = v[q + tail]
    BY <1>5, <1>6
  <1>15. ParseIostat(IostatOutput(first, second, tail), dev0) = [read |-> end.readIO, write |-> end.writeIO]
    BY <1>1, <1>3, <1>14, Zenon DEF ParseIostat
  <1> QED BY <1>10, <1>13, <1>14, <1>15

-----------------------------------------------------------------------------
(* Products and quotients.                                                 *)

\* Products of natural numbers.
LEMMA ProductFacts ==
  ASSUME NEW a \in Nat, NEW b \in Nat, NEW c \in Nat
  PROVE  /\ a * b \in Nat /\ a * b = b * a /\ a * (b + c) = a * b + a * c
         /\ b <= c => a * b <= a * c
  <1>1. a * b \in Nat /\ a * b = b * a /\ a * (b + c) = a * b + a * c
    OBVIOUS
  <1>2. ASSUME b <= c PROVE a * b <= a * c
    <2>1. PICK d \in Nat : c = b + d
      <3>1. c - b \in Nat /\ c = b + (c - b)
        BY <1>2
      <3> QED BY <3>1
    <2>2. a * (b + d) = a * b + a * d /\ a * d \in Nat /\ a * b \in Nat
      OBVIOUS
    <2> QED BY <2>1, <2>2
  <1> QED BY <1>1, <1>2

\* The product of positive numbers.
LEMMA Positive ==
  ASSUME NEW a \in Nat \ {0}, NEW b \in Nat \ {0}
  PROVE  a * b \in Nat \ {0} /\ a <= a * b
  <1>1. PICK c \in Nat : b = c + 1
    <2>1. b - 1 \in Nat /\ b = (b - 1) + 1
      OBVIOUS
    <2> QED BY <2>1
  <1>2. a * c \in Nat /\ a * (c + 1) = a * c + a
    OBVIOUS
  <1> QED BY <1>1, <1>2

\* What division gives.
LEMMA DivisionFacts ==
  ASSUME NEW v \in Nat, NEW d \in Nat \ {0}
  PROVE  /\ v \div d \in Nat /\ v % d \in 0..(d - 1)
         /\ v = d * (v \div d) + (v % d)
  OBVIOUS

\* Only one quotient and remainder make up a number.
LEMMA OneQuotient ==
  ASSUME NEW v \in Nat, NEW d \in Nat \ {0}, NEW q \in Nat, NEW r \in 0..(d - 1), v = d * q + r
  PROVE  v \div d = q /\ v % d = r
  <1>1. PICK p, s : p = v \div d /\ s = v % d
    OBVIOUS
  <1>2. p \in Nat /\ s \in 0..(d - 1) /\ v = d * p + s
    BY <1>1, DivisionFacts
  <1>3. ~(p + 1 <= q)
    <2> SUFFICES ASSUME p + 1 <= q PROVE FALSE
      OBVIOUS
    <2>1. d * (p + 1) <= d * q /\ d * (p + 1) = d * p + d * 1
      BY <1>2, ProductFacts
    <2>2. PICK x, y : x = d * p /\ y = d * q
      OBVIOUS
    <2>3. x \in Nat /\ y \in Nat /\ x + d <= y /\ v = x + s /\ v = y + r
      BY <1>2, <2>1, <2>2
    <2> QED BY <1>2, <2>3
  <1>4. ~(q + 1 <= p)
    <2> SUFFICES ASSUME q + 1 <= p PROVE FALSE
      OBVIOUS
    <2>1. d * (q + 1) <= d * p /\ d * (q + 1) = d * q + d * 1
      BY <1>2, ProductFacts
    <2>2. PICK x, y : x = d * p /\ y = d * q
      OBVIOUS
    <2>3. x \in Nat /\ y \in Nat /\ y + d <= x /\ v = x + s /\ v = y + r
      BY <1>2, <2>1, <2>2
    <2> QED BY <1>2, <2>3
  <1>5. p = q
    BY <1>2, <1>3, <1>4
  <1>6. s = r
    <2>1. PICK x : x = d * q /\ x \in Nat
      BY ProductFacts
    <2>2. v = x + s /\ v = x + r
      BY <1>2, <1>5, <2>1
    <2> QED BY <1>2, <2>1, <2>2
  <1> QED BY <1>1, <1>5, <1>6

\* Division by a product is division by one factor and then by the other.
LEMMA DivisionTwice ==
  ASSUME NEW v \in Nat, NEW p \in Nat \ {0}, NEW b \in Nat \ {0}
  PROVE  v \div (b * p) = (v \div p) \div b
  <1>1. PICK q, r, t, u : q = v \div p /\ r = v % p /\ t = q \div b /\ u = q % b
    OBVIOUS
  <1>2. q \in Nat /\ r \in 0..(p - 1) /\ v = p * q + r
    BY <1>1, DivisionFacts
  <1>3. t \in Nat /\ u \in 0..(b - 1) /\ q = b * t + u
    BY <1>1, <1>2, DivisionFacts
  <1>4. b * p \in Nat \ {0}
    BY Positive
  <1>5. p * u + r \in 0..(b * p - 1)
    <2>1. u \in Nat /\ u + 1 <= b
      BY <1>3
    <2>2. p * (u + 1) <= p * b /\ p * (u + 1) = p * u + p * 1 /\ p * b = b * p /\ p * u \in Nat
      BY <2>1, ProductFacts
    <2>3. PICK x, y : x = p * u /\ y = b * p
      OBVIOUS
    <2>4. x \in Nat /\ y \in Nat /\ x + p <= y
      BY <1>4, <2>2, <2>3
    <2>5. x + r \in 0..(y - 1)
      BY <1>2, <2>4
    <2> QED BY <2>3, <2>5
  <1>6. v = (b * p) * t + (p * u + r)
    <2>1. PICK w : w = b * t /\ w \in Nat
      BY <1>3, ProductFacts
    <2>2. p * (w + u) = p * w + p * u
      BY <1>3, <2>1
    <2>3. p * (b * t) = (b * p) * t
      BY <1>3
    <2>4. PICK x, y, z : x = p * q /\ y = p * w /\ z = p * u
      OBVIOUS
    <2>5. x \in Nat /\ y \in Nat /\ z \in Nat /\ x = y + z
      <3>1. y \in Nat /\ z \in Nat
        BY <1>3, <2>1, <2>4
      <3>2. x = p * (w + u)
        BY <1>3, <2>1, <2>4
      <3> QED BY <2>2, <2>4, <3>1, <3>2
    <2>6. v = y + (z + r)
      <3>1. v = x + r /\ r \in Nat
        BY <1>2, <2>4
      <3> QED BY <2>5, <3>1
    <2> QED BY <2>1, <2>3, <2>4, <2>6
  <1>7. v \div (b * p) = t
    <2>1. PICK d, s : d = b * p /\ s = p * u + r
      OBVIOUS
    <2> QED BY <1>3, <1>4, <1>5, <1>6, <2>1, OneQuotient
  <1> QED BY <1>1, <1>7

-----------------------------------------------------------------------------
\* The powers of the number of values of a byte.
PowerIs(g, n) == g = [i \in 0..n |-> IF i = 0 THEN 1 ELSE Base * g[i - 1]]

\* There are such powers.
LEMMA PowerExists ==
  ASSUME NEW n \in Nat
  PROVE  \E g : PowerIs(g, n)
  <1>1. PICK T : T = {k \in 0..n : \E g : PowerIs(g, k)}
    OBVIOUS
  <1>2. 0 \in T
    <2>1. PICK g : g = [i \in 0..0 |-> 1]
      OBVIOUS
    <2>2. PowerIs(g, 0)
      BY <2>1 DEF PowerIs
    <2>3. 0 \in 0..n
      OBVIOUS
    <2> QED BY <1>1, <2>2, <2>3
  <1>3. ASSUME NEW k \in 0..(n - 1), k \in T PROVE k + 1 \in T
    <2>1. PICK g : PowerIs(g, k)
      BY <1>1, <1>3
    <2>2. PICK m : m = k + 1 /\ m \in 0..n /\ m # 0 /\ m - 1 = k /\ k \in 0..k
                   /\ \A i \in 0..k : i \in 0..m /\ i # m /\ (i # 0 => (i - 1 \in 0..k /\ i - 1 # m))
      OBVIOUS
    <2>3. PICK h : h = [i \in 0..m |-> IF i = m THEN Base * g[k] ELSE g[i]]
      OBVIOUS
    <2>4. ASSUME NEW i \in 0..m PROVE h[i] = IF i = 0 THEN 1 ELSE Base * h[i - 1]
      <3>1. CASE i = m
        <4>1. h[i] = Base * g[k] /\ h[k] = g[k]
          BY <2>2, <2>3, <3>1
        <4> QED BY <2>2, <3>1, <4>1
      <3>2. CASE i # m
        <4>1. i \in 0..k
          BY <2>2, <3>2
        <4>2. h[i] = g[i] /\ g[i] = IF i = 0 THEN 1 ELSE Base * g[i - 1]
          BY <2>1, <2>2, <2>3, <4>1 DEF PowerIs
        <4>3. i # 0 => h[i - 1] = g[i - 1]
          BY <2>2, <2>3, <4>1
        <4> QED BY <4>2, <4>3
      <3> QED BY <3>1, <3>2
    <2>5. PowerIs(h, m)
      BY <2>3, <2>4 DEF PowerIs
    <2> QED BY <1>1, <2>2, <2>5
  <1>4. n \in T
    <2>1. n \in 0..n /\ \A k \in 0..(n - 1) : k \in T => k + 1 \in T
      BY <1>3
    <2> QED BY <1>2, <2>1, LoopInduction
  <1> QED BY <1>1, <1>4

\* Each power is Base times the one before.
LEMMA PowerFacts ==
  /\ Power[0] = 1
  /\ \A i \in 0..(SizeBytes - 1) : Power[i + 1] = Base * Power[i]
  /\ \A i \in 0..SizeBytes : Power[i] \in Nat \ {0}
  <1>0. PICK n, b : n = SizeBytes /\ b = Base /\ n \in Nat /\ b \in Nat \ {0}
    BY CodecAssumption
  <1>1. PICK g : g = Power /\ g = CHOOSE h : PowerIs(h, SizeBytes)
    BY Zenon DEF Power, PowerIs
  <1>2. PowerIs(g, n)
    <2>1. \E h : PowerIs(h, SizeBytes)
      BY <1>0, PowerExists
    <2> QED BY <1>0, <1>1, <2>1, Zenon
  <1>3. \A i \in 0..n : g[i] = IF i = 0 THEN 1 ELSE b * g[i - 1]
    BY <1>0, <1>2 DEF PowerIs
  <1>4. g[0] = 1
    BY <1>0, <1>3
  <1>5. \A i \in 0..(n - 1) : g[i + 1] = b * g[i]
    <2> SUFFICES ASSUME NEW i \in 0..(n - 1) PROVE g[i + 1] = b * g[i]
      OBVIOUS
    <2>1. i + 1 \in 0..n /\ i + 1 # 0 /\ (i + 1) - 1 = i
      BY <1>0
    <2>2. g[i + 1] = b * g[(i + 1) - 1]
      BY <1>3, <2>1
    <2> QED BY <2>1, <2>2
  <1>6. PICK T : T = {i \in 0..n : g[i] \in Nat \ {0}}
    OBVIOUS
  <1>7. 0 \in T
    BY <1>0, <1>4, <1>6
  <1>8. ASSUME NEW i \in 0..(n - 1), i \in T PROVE i + 1 \in T
    <2>1. i + 1 \in 0..n
      BY <1>0
    <2>2. PICK x : x = g[i] /\ x \in Nat \ {0}
      BY <1>6, <1>8
    <2>3. b * x \in Nat \ {0}
      BY <1>0, <2>2, Positive
    <2> QED BY <1>5, <1>6, <2>1, <2>2, <2>3
  <1>9. \A i \in 0..n : i \in T
    <2>1. \A i \in 0..(n - 1) : i \in T => i + 1 \in T
      BY <1>8
    <2> QED BY <1>0, <1>7, <2>1, LoopInduction
  <1> QED BY <1>0, <1>1, <1>4, <1>5, <1>6, <1>9

\* Reading bytes in network order is a loop over them.
LEMMA ReadBytesLoop ==
  ASSUME NEW buf \in Seq(Byte)
  PROVE  \E v \in [0..Len(buf) -> Nat] :
           /\ v[0] = 0 /\ v[Len(buf)] = ReadNetworkOrder(buf)
           /\ \A k \in 1..Len(buf) : v[k] = Base * v[k - 1] + buf[k]
  <1>1. PICK n, b : n = Len(buf) /\ b = Base /\ n \in Nat /\ b \in Nat
    <2>1. Len(buf) \in Nat /\ Base \in Nat
      BY CodecAssumption
    <2> QED BY <2>1
  <1>2. DOMAIN buf = 1..n /\ \A k \in 1..n : buf[k] \in Nat
    <2>1. \A c \in Byte : c \in Nat
      BY CodecAssumption DEF Byte
    <2> QED BY <1>1, <2>1
  <1>3. PICK step : step = [p \in Nat \X (1..n) |-> b * p[1] + buf[p[2]]]
    OBVIOUS
  <1>4. step \in [Nat \X (1..n) -> Nat]
    <2>1. \A x, y \in Nat : b * x + y \in Nat
      BY <1>1
    <2> QED BY <1>2, <1>3, <2>1
  <1>5. PICK it : FoldsBy(it, n, Nat, 0, step)
    BY <1>1, <1>4, FoldExists
  <1>6. it = [s \in SUBSET (DOMAIN buf) |->
                IF s = {} THEN 0 ELSE Base * it[s \ {Max(s)}] + buf[Max(s)]]
    <2>1. ASSUME NEW s \in SUBSET (1..n), s # {}
          PROVE  it[s] = Base * it[s \ {Max(s)}] + buf[Max(s)]
      <3>1. Max(s) \in 1..n /\ s \ {Max(s)} \in SUBSET (1..n)
        BY <1>1, <2>1, LargestFacts
      <3> QED BY <1>1, <1>3, <1>5, <2>1, <3>1 DEF FoldsBy
    <2> QED BY <1>2, <1>5, <2>1 DEF FoldsBy
  <1>7. PICK g : /\ g = [s \in SUBSET (DOMAIN buf) |->
                           IF s = {} THEN 0 ELSE Base * g[s \ {Max(s)}] + buf[Max(s)]]
                 /\ ReadNetworkOrder(buf) = g[DOMAIN buf]
    BY <1>6, Zenon DEF ReadNetworkOrder, FoldLeft, MapThenFoldSet
  <1>8. g[{}] = 0
    BY <1>7
  <1>9. ASSUME NEW s \in SUBSET (1..n), s # {}, g[s \ {Max(s)}] \in Nat
        PROVE  g[s] = step[<<g[s \ {Max(s)}], Max(s)>>]
    <2>1. Max(s) \in 1..n
      BY <1>1, <1>9, LargestFacts
    <2> QED BY <1>1, <1>2, <1>3, <1>7, <1>9, <2>1
  <1>10. LoopEnds(g[1..n], n, Nat, 0, step)
    <2>1. PICK S, base : S = Nat /\ base = 0
      OBVIOUS
    <2>2. base \in S /\ n \in Nat /\ step \in [S \X (1..n) -> S] /\ g[{}] = base
      BY <1>1, <1>4, <1>8, <2>1
    <2>3. \A s \in SUBSET (1..n) : s # {} /\ g[s \ {Max(s)}] \in S
                                     => g[s] = step[<<g[s \ {Max(s)}], Max(s)>>]
      BY <1>9, <2>1
    <2>4. LoopEnds(g[1..n], n, S, base, step)
      BY <2>2, <2>3, FoldIsLoop
    <2> QED BY <2>1, <2>4
  <1>11. PICK v \in [0..n -> Nat] : /\ v[0] = 0 /\ v[n] = g[1..n]
                                    /\ \A k \in 1..n : v[k] = step[<<v[k - 1], k>>]
    BY <1>10 DEF LoopEnds
  <1>12. \A k \in 1..n : v[k] = Base * v[k - 1] + buf[k]
    <2> SUFFICES ASSUME NEW k \in 1..n PROVE v[k] = Base * v[k - 1] + buf[k]
      OBVIOUS
    <2>1. v[k - 1] \in Nat
      BY <1>1, <1>11
    <2> QED BY <1>1, <1>3, <1>11, <2>1
  <1>13. v[n] = ReadNetworkOrder(buf)
    BY <1>2, <1>7, <1>11
  <1> QED BY <1>1, <1>11, <1>12, <1>13

\* What is read from as many bytes as a long size has fits a size.
LEMMA ReadFits ==
  ASSUME NEW buf \in Seq(Byte), Len(buf) = SizeBytes
  PROVE  ReadNetworkOrder(buf) \in Nat /\ ReadNetworkOrder(buf) <= MaxSize
  <1>1. PICK n, b, w : n = SizeBytes /\ b = Base /\ w = Power /\ n \in Nat /\ b \in Nat /\ b > 1
    BY CodecAssumption
  <1>2. PICK v \in [0..n -> Nat] : /\ v[0] = 0 /\ v[n] = ReadNetworkOrder(buf)
                                   /\ \A k \in 1..n : v[k] = b * v[k - 1] + buf[k]
    BY <1>1, ReadBytesLoop
  <1>3. /\ w[0] = 1 /\ \A i \in 0..(n - 1) : w[i + 1] = b * w[i]
        /\ \A i \in 0..n : w[i] \in Nat \ {0}
    BY <1>1, PowerFacts
  <1>4. PICK T : T = {k \in 0..n : v[k] + 1 <= w[k]}
    OBVIOUS
  <1>5. 0 \in T
    <2>1. 0 \in 0..n /\ v[0] + 1 <= w[0]
      BY <1>1, <1>2, <1>3
    <2> QED BY <1>4, <2>1
  <1>6. ASSUME NEW k \in 0..(n - 1), k \in T PROVE k + 1 \in T
    <2>1. k + 1 \in 1..n /\ k + 1 \in 0..n /\ (k + 1) - 1 = k /\ k \in 0..n
      BY <1>1
    <2>2. PICK x, y, c : x = v[k] /\ y = w[k] /\ c = buf[k + 1]
      OBVIOUS
    <2>3. x \in Nat /\ y \in Nat /\ x + 1 <= y
      BY <1>2, <1>3, <1>4, <1>6, <2>1, <2>2
    <2>4. c \in Nat /\ c + 1 <= b
      <3>1. c \in Byte
        BY <1>1, <2>1, <2>2
      <3> QED BY <1>1, <3>1 DEF Byte
    <2>5. v[k + 1] = b * x + c
      <3>1. v[k + 1] = b * v[(k + 1) - 1] + buf[k + 1]
        BY <1>2, <2>1, Zenon
      <3> QED BY <2>1, <2>2, <3>1
    <2>6. w[k + 1] = b * y
      BY <1>3, <2>2
    <2>7. b * (x + 1) <= b * y /\ b * (x + 1) = b * x + b * 1 /\ b * x \in Nat /\ b * y \in Nat
      BY <1>1, <2>3, ProductFacts
    <2>8. (b * x + c) + 1 <= b * y
      <3>1. PICK s, t : s = b * x /\ t = b * y
        OBVIOUS
      <3>2. s \in Nat /\ t \in Nat /\ s + b <= t
        BY <1>1, <2>7, <3>1
      <3>3. (s + c) + 1 <= t
        BY <1>1, <2>4, <3>2
      <3> QED BY <3>1, <3>3
    <2> QED BY <1>4, <2>1, <2>5, <2>6, <2>8
  <1>7. n \in T
    <2>1. n \in 0..n /\ \A k \in 0..(n - 1) : k \in T => k + 1 \in T
      BY <1>1, <1>6
    <2> QED BY <1>1, <1>5, <2>1, LoopInduction
  <1>8. v[n] + 1 <= w[n] /\ v[n] \in Nat /\ w[n] \in Nat
    BY <1>1, <1>2, <1>3, <1>4, <1>7
  <1>9. v[n] <= w[n] - 1
    BY <1>8
  <1> QED BY <1>1, <1>2, <1>8, <1>9 DEF MaxSize

\* A size that fits is read as it was written.
LEMMA ReadWritten ==
  ASSUME NEW size \in Nat, size <= MaxSize
  PROVE  LET buf == WriteNetworkOrder(size)
         IN  /\ buf \in Seq(Byte) /\ Len(buf) = SizeBytes
             /\ ReadNetworkOrder(buf) = size
  <1>1. PICK n, b, w : n = SizeBytes /\ b = Base /\ w = Power /\ n \in Nat /\ b \in Nat \ {0}
    BY CodecAssumption
  <1>2. /\ w[0] = 1 /\ \A i \in 0..(n - 1) : w[i + 1] = b * w[i]
        /\ \A i \in 0..n : w[i] \in Nat \ {0}
    BY <1>1, PowerFacts
  <1>3. PICK buf : /\ buf = WriteNetworkOrder(size)
                   /\ buf = [i \in 1..n |-> (size \div w[n - i]) % b]
    BY <1>1 DEF WriteNetworkOrder
  <1>4. ASSUME NEW i \in 1..n
        PROVE  /\ size \div w[n - i] \in Nat /\ buf[i] \in 0..(b - 1)
               /\ size \div w[n - i] = b * (size \div w[n - (i - 1)]) + buf[i]
    <2>1. n - i \in 0..n /\ n - i \in 0..(n - 1) /\ (n - i) + 1 = n - (i - 1)
      BY <1>1
    <2>2. PICK p, q : p = w[n - i] /\ q = size \div p /\ p \in Nat \ {0}
      BY <1>2, <2>1
    <2>3. q \in Nat /\ buf[i] = q % b
      BY <1>3, <2>2, DivisionFacts
    <2>4. q % b \in 0..(b - 1) /\ q = b * (q \div b) + (q % b)
      BY <1>1, <2>3, DivisionFacts
    <2>5. w[n - (i - 1)] = b * p
      <3>1. w[(n - i) + 1] = b * w[n - i]
        BY <1>2, <2>1
      <3> QED BY <2>1, <2>2, <3>1
    <2>6. size \div (b * p) = q \div b
      BY <1>1, <2>2, DivisionTwice
    <2> QED BY <2>2, <2>3, <2>4, <2>5, <2>6
  <1>5. buf \in Seq(Byte) /\ Len(buf) = n
    <2>1. \A i \in 1..n : buf[i] \in Byte
      BY <1>1, <1>4 DEF Byte
    <2>2. buf = [i \in 1..n |-> buf[i]]
      BY <1>3
    <2> QED BY <1>1, <2>1, <2>2, AsSequence, Zenon
  <1>6. PICK v \in [0..n -> Nat] : /\ v[0] = 0 /\ v[n] = ReadNetworkOrder(buf)
                                   /\ \A k \in 1..n : v[k] = b * v[k - 1] + buf[k]
    BY <1>1, <1>5, ReadBytesLoop
  <1>7. PICK T : T = {k \in 0..n : v[k] = size \div w[n - k]}
    OBVIOUS
  <1>8. 0 \in T
    <2>1. n \in 0..n /\ 0 \in 0..n /\ n - 0 = n
      BY <1>1
    <2>2. PICK d : d = w[n] /\ d \in Nat \ {0}
      BY <1>2, <2>1
    <2>3. size <= d - 1
      BY <1>1, <2>2 DEF MaxSize
    <2>4. size \in 0..(d - 1) /\ size = d * 0 + size
      BY <2>2, <2>3
    <2>5. size \div d = 0
      BY <2>2, <2>4, OneQuotient
    <2> QED BY <1>6, <1>7, <2>1, <2>2, <2>5
  <1>9. ASSUME NEW k \in 0..(n - 1), k \in T PROVE k + 1 \in T
    <2>1. k + 1 \in 1..n /\ k + 1 \in 0..n /\ (k + 1) - 1 = k
      BY <1>1
    <2>2. size \div w[n - (k + 1)] = b * (size \div w[n - ((k + 1) - 1)]) + buf[k + 1]
      BY <1>4, <2>1
    <2>3. v[k + 1] = b * v[(k + 1) - 1] + buf[k + 1]
      BY <1>6, <2>1, Zenon
    <2>4. v[k] = size \div w[n - k]
      BY <1>7, <1>9
    <2>5. v[k + 1] = size \div w[n - (k + 1)]
      BY <2>1, <2>2, <2>3, <2>4
    <2> QED BY <1>7, <2>1, <2>5
  <1>10. n \in T
    <2>1. n \in 0..n /\ \A k \in 0..(n - 1) : k \in T => k + 1 \in T
      BY <1>1, <1>9
    <2> QED BY <1>1, <1>8, <2>1, LoopInduction
  <1>11. v[n] = size
    <2>1. n - n = 0
      BY <1>1
    <2>2. v[n] = size \div w[0]
      BY <1>7, <1>10, <2>1
    <2>3. size \div 1 = size
      BY DivisionFacts
    <2> QED BY <1>2, <2>2, <2>3
  <1> QED BY <1>1, <1>3, <1>5, <1>6, <1>11

-----------------------------------------------------------------------------
(* encode: where the bytes of each part are.                               *)

\* The bytes of one part: its size in one byte, or the largest byte and its size in
\* network order, and what is in it.
LEMMA EncodePartFacts ==
  ASSUME NEW part \in Seq(Byte)
  PROVE  LET e == EncodePart(part)
             c == CountSize(part)
         IN  /\ e \in Seq(Byte) /\ c \in Nat \ {0} /\ Len(e) = c + Len(part)
             /\ Len(part) < MaxByte => c = 1 /\ e[1] = Len(part)
             /\ ~(Len(part) < MaxByte) =>
                  /\ c = 1 + SizeBytes /\ e[1] = MaxByte
                  /\ \A i \in 1..SizeBytes : e[1 + i] = WriteNetworkOrder(Len(part))[i]
             /\ \A i \in 1..Len(part) : e[c + i] = part[i]
  <1>1. PICK l, n, b, c, e : /\ l = Len(part) /\ n = SizeBytes /\ b = Base
                             /\ c = CountSize(part) /\ e = EncodePart(part)
                             /\ l \in Nat /\ n \in Nat \ {0} /\ b \in Nat /\ b > 1
    <2>1. Len(part) \in Nat /\ SizeBytes \in Nat \ {0} /\ Base \in Nat /\ Base > 1
      BY CodecAssumption
    <2> QED BY <2>1
  <1>2. PICK h : h = IF l < MaxByte THEN <<l>> ELSE <<MaxByte>> \o WriteNetworkOrder(l)
    OBVIOUS
  <1>3. /\ h \in Seq(Byte) /\ Len(h) = c /\ c \in Nat \ {0}
        /\ l < MaxByte => c = 1 /\ h[1] = l
        /\ ~(l < MaxByte) => /\ c = 1 + n /\ h[1] = MaxByte
                             /\ \A i \in 1..n : h[1 + i] = WriteNetworkOrder(l)[i]
    <2>1. CASE l < MaxByte
      <3>1. l \in Byte
        BY <1>1, <2>1 DEF MaxByte, Byte
      <3>2. h = <<l>> /\ c = 1
        BY <1>1, <1>2, <2>1 DEF CountSize
      <3> QED BY <2>1, <3>1, <3>2
    <2>2. CASE ~(l < MaxByte)
      <3>1. PICK top, size : top = <<MaxByte>> /\ size = WriteNetworkOrder(l)
        OBVIOUS
      <3>2. MaxByte \in Byte
        BY <1>1 DEF MaxByte, Byte
      <3>3. top \in Seq(Byte) /\ Len(top) = 1 /\ top[1] = MaxByte
        BY <3>1, <3>2
      <3>4. size \in Seq(Byte) /\ Len(size) = n
        <4>1. size = [i \in 1..n |-> (l \div Power[n - i]) % b]
          BY <1>1, <3>1 DEF WriteNetworkOrder
        <4>2. ASSUME NEW i \in 1..n PROVE size[i] \in Byte
          <5>1. n - i \in 0..n
            BY <1>1
          <5>2. PICK p : p = Power[n - i] /\ p \in Nat \ {0}
            BY <1>1, <5>1, PowerFacts
          <5>3. PICK q : q = l \div p /\ q \in Nat
            BY <1>1, <5>2, DivisionFacts
          <5>4. b \in Nat \ {0}
            BY <1>1
          <5>5. q % b \in 0..(b - 1)
            BY <5>3, <5>4, DivisionFacts
          <5> QED BY <1>1, <4>1, <5>2, <5>3, <5>5 DEF Byte
        <4>3. size = [i \in 1..n |-> size[i]] /\ n \in Nat
          BY <1>1, <4>1
        <4> QED BY <4>2, <4>3, AsSequence, Zenon
      <3>5. /\ top \o size \in Seq(Byte) /\ Len(top \o size) = Len(top) + Len(size)
            /\ \A i \in 1..(Len(top) + Len(size)) :
                 (top \o size)[i] = IF i <= Len(top) THEN top[i] ELSE size[i - Len(top)]
        BY <3>3, <3>4, ConcatProperties
      <3>6. h = top \o size /\ c = 1 + n
        BY <1>1, <1>2, <2>2, <3>1 DEF CountSize
      <3>7. /\ h \in Seq(Byte) /\ Len(h) = 1 + n
            /\ \A i \in 1..(1 + n) : h[i] = IF i <= 1 THEN top[i] ELSE size[i - 1]
        BY <3>3, <3>4, <3>5, <3>6
      <3>8. /\ 1 \in 1..(1 + n) /\ c \in Nat \ {0}
            /\ \A i \in 1..n : 1 + i \in 1..(1 + n) /\ ~(1 + i <= 1) /\ (1 + i) - 1 = i
        BY <1>1, <3>6
      <3> QED BY <2>2, <3>1, <3>3, <3>6, <3>7, <3>8
    <2> QED BY <2>1, <2>2
  <1>4. e = h \o part
    BY <1>1, <1>2 DEF EncodePart
  <1>5. /\ h \o part \in Seq(Byte) /\ Len(h \o part) = Len(h) + Len(part)
        /\ \A i \in 1..(Len(h) + Len(part)) :
             (h \o part)[i] = IF i <= Len(h) THEN h[i] ELSE part[i - Len(h)]
    BY <1>3, ConcatProperties
  <1>6. /\ e \in Seq(Byte) /\ Len(e) = c + l
        /\ \A i \in 1..(c + l) : e[i] = IF i <= c THEN h[i] ELSE part[i - c]
    BY <1>1, <1>3, <1>4, <1>5
  <1>7. /\ \A i \in 1..c : e[i] = h[i]
        /\ \A i \in 1..l : e[c + i] = part[i]
    <2>1. \A i \in 1..c : i \in 1..(c + l) /\ i <= c
      BY <1>1, <1>3
    <2>2. \A i \in 1..l : c + i \in 1..(c + l) /\ ~(c + i <= c) /\ (c + i) - c = i
      BY <1>1, <1>3
    <2> QED BY <1>6, <2>1, <2>2
  <1>8. 1 \in 1..c /\ (c = 1 + n => \A i \in 1..n : 1 + i \in 1..c)
    BY <1>1, <1>3
  <1>9. e[1] = h[1] /\ (c = 1 + n => \A i \in 1..n : e[1 + i] = h[1 + i])
    BY <1>7, <1>8
  <1>10. /\ l < MaxByte => c = 1 /\ e[1] = l
         /\ ~(l < MaxByte) => /\ c = 1 + n /\ e[1] = MaxByte
                              /\ \A i \in 1..n : e[1 + i] = WriteNetworkOrder(l)[i]
    BY <1>3, <1>9
  <1> QED BY <1>1, <1>3, <1>6, <1>7, <1>10

-----------------------------------------------------------------------------
\* The sums of the sizes of the first parts.
SizesAre(v, parts) ==
  /\ v \in [0..Len(parts) -> Nat] /\ v[0] = 0
  /\ \A k \in 1..Len(parts) : v[k] = v[k - 1] + (Len(parts[k]) + CountSize(parts[k]))

\* encode's first pass computes them.
LEMMA SizeLoop ==
  ASSUME NEW parts \in Seq(Seq(Byte))
  PROVE  \E v : SizesAre(v, parts) /\ v[Len(parts)] = EncodedSize(parts)
  <1>1. PICK n : n = Len(parts) /\ n \in Nat /\ DOMAIN parts = 1..n
    OBVIOUS
  <1>2. \A k \in 1..n : Len(parts[k]) \in Nat /\ CountSize(parts[k]) \in Nat
    <2> SUFFICES ASSUME NEW k \in 1..n PROVE Len(parts[k]) \in Nat /\ CountSize(parts[k]) \in Nat
      OBVIOUS
    <2>1. PICK p \in Seq(Byte) : p = parts[k]
      BY <1>1
    <2>2. Len(p) \in Nat /\ CountSize(p) \in Nat
      BY EncodePartFacts
    <2> QED BY <2>1, <2>2
  <1>3. PICK step : step = [p \in Nat \X (1..n) |-> p[1] + Len(parts[p[2]]) + CountSize(parts[p[2]])]
    OBVIOUS
  <1>4. step \in [Nat \X (1..n) -> Nat]
    <2>1. \A x, y, z \in Nat : x + y + z \in Nat
      OBVIOUS
    <2> QED BY <1>2, <1>3, <2>1
  <1>5. PICK it : FoldsBy(it, n, Nat, 0, step)
    BY <1>1, <1>4, FoldExists
  <1>6. it = [s \in SUBSET (DOMAIN parts) |->
                IF s = {} THEN 0
                ELSE it[s \ {Max(s)}] + Len(parts[Max(s)]) + CountSize(parts[Max(s)])]
    <2>1. ASSUME NEW s \in SUBSET (1..n), s # {}
          PROVE  it[s] = it[s \ {Max(s)}] + Len(parts[Max(s)]) + CountSize(parts[Max(s)])
      <3>1. Max(s) \in 1..n /\ s \ {Max(s)} \in SUBSET (1..n)
        BY <1>1, <2>1, LargestFacts
      <3> QED BY <1>1, <1>3, <1>5, <2>1, <3>1 DEF FoldsBy
    <2> QED BY <1>1, <1>5, <2>1 DEF FoldsBy
  <1>7. PICK g : /\ g = [s \in SUBSET (DOMAIN parts) |->
                           IF s = {} THEN 0
                           ELSE g[s \ {Max(s)}] + Len(parts[Max(s)]) + CountSize(parts[Max(s)])]
                 /\ EncodedSize(parts) = g[DOMAIN parts]
    BY <1>6, Zenon DEF EncodedSize, FoldLeft, MapThenFoldSet
  <1>8. g[{}] = 0
    BY <1>7
  <1>9. ASSUME NEW s \in SUBSET (1..n), s # {}, g[s \ {Max(s)}] \in Nat
        PROVE  g[s] = step[<<g[s \ {Max(s)}], Max(s)>>]
    <2>1. Max(s) \in 1..n
      BY <1>1, <1>9, LargestFacts
    <2> QED BY <1>1, <1>3, <1>7, <1>9, <2>1
  <1>10. LoopEnds(g[1..n], n, Nat, 0, step)
    <2>1. PICK S, base : S = Nat /\ base = 0
      OBVIOUS
    <2>2. base \in S /\ n \in Nat /\ step \in [S \X (1..n) -> S] /\ g[{}] = base
      BY <1>1, <1>4, <1>8, <2>1
    <2>3. \A s \in SUBSET (1..n) : s # {} /\ g[s \ {Max(s)}] \in S
                                     => g[s] = step[<<g[s \ {Max(s)}], Max(s)>>]
      BY <1>9, <2>1
    <2>4. LoopEnds(g[1..n], n, S, base, step)
      BY <2>2, <2>3, FoldIsLoop
    <2> QED BY <2>1, <2>4
  <1>11. PICK v \in [0..n -> Nat] : /\ v[0] = 0 /\ v[n] = g[1..n]
                                    /\ \A k \in 1..n : v[k] = step[<<v[k - 1], k>>]
    BY <1>10 DEF LoopEnds
  <1>12. \A k \in 1..n : v[k] = v[k - 1] + (Len(parts[k]) + CountSize(parts[k]))
    <2> SUFFICES ASSUME NEW k \in 1..n PROVE v[k] = v[k - 1] + (Len(parts[k]) + CountSize(parts[k]))
      OBVIOUS
    <2>0. n \in Nat
      BY <1>1
    <2>a. k - 1 \in 0..n
      BY <2>0
    <2>1. v[k - 1] \in Nat
      BY <1>11, <2>a
    <2>2. v[k] = v[k - 1] + Len(parts[k]) + CountSize(parts[k])
      BY <1>3, <1>11, <2>1
    <2>3. \A x, y, z \in Nat : x + y + z = x + (y + z)
      OBVIOUS
    <2> QED BY <1>2, <2>1, <2>2, <2>3
  <1>13. v[n] = EncodedSize(parts)
    BY <1>1, <1>7, <1>11
  <1> QED BY <1>1, <1>11, <1>12, <1>13 DEF SizesAre

\* The size of the first k parts is that sum.
LEMMA SizeOfFirst ==
  ASSUME NEW parts \in Seq(Seq(Byte)), NEW v, SizesAre(v, parts), NEW k \in 0..Len(parts)
  PROVE  EncodedSize(SubSeq(parts, 1, k)) = v[k]
  <1>0. Len(parts) \in Nat
    OBVIOUS
  <1>1. PICK n, f : n = Len(parts) /\ n \in Nat /\ f = SubSeq(parts, 1, k)
    BY <1>0
  <1>2. /\ f \in Seq(Seq(Byte)) /\ Len(f) = k /\ k \in Nat /\ k <= n
        /\ \A i \in 1..k : f[i] = parts[i] /\ i \in 1..n
    <2>1. k \in Nat /\ k <= n /\ \A i \in 1..k : i \in 1..n
      BY <1>1
    <2>2. \A i \in 1..k : parts[i] \in Seq(Byte)
      BY <1>1, <2>1
    <2>3. 1 \in Int /\ k \in Int /\ k - 1 + 1 = k /\ (IF 1 <= k THEN k - 1 + 1 ELSE 0) = k
          /\ \A i \in 1..k : 1 + i - 1 = i
      BY <2>1
    <2>4. PICK a, S : a = 1 /\ S = Seq(Byte)
      OBVIOUS
    <2>5. \A i \in a..k : parts[i] \in S
      BY <2>2, <2>4
    <2>6. a \in Int /\ k \in Int
      BY <2>3, <2>4
    <2>7. /\ SubSeq(parts, a, k) \in Seq(S)
          /\ Len(SubSeq(parts, a, k)) = IF a <= k THEN k - a + 1 ELSE 0
          /\ \A i \in 1..(k - a + 1) : SubSeq(parts, a, k)[i] = parts[a + i - 1]
      BY <2>5, <2>6, SubSeqProperties
    <2> QED BY <1>1, <2>1, <2>3, <2>4, <2>7
  <1>3. PICK u : SizesAre(u, f) /\ u[k] = EncodedSize(f)
    BY <1>2, SizeLoop
  <1>4. PICK T : T = {j \in 0..k : u[j] = v[j]}
    OBVIOUS
  <1>5. 0 \in T
    BY <1>2, <1>3, <1>4 DEF SizesAre
  <1>6. ASSUME NEW j \in 0..(k - 1), j \in T PROVE j + 1 \in T
    <2>1. j + 1 \in 1..k /\ j + 1 \in 0..k /\ (j + 1) - 1 = j
      BY <1>2
    <2>2. j + 1 \in 1..n /\ f[j + 1] = parts[j + 1]
      BY <1>2, <2>1
    <2>3. u[j + 1] = u[(j + 1) - 1] + (Len(f[j + 1]) + CountSize(f[j + 1]))
      BY <1>2, <1>3, <2>1 DEF SizesAre
    <2>4. v[j + 1] = v[(j + 1) - 1] + (Len(parts[j + 1]) + CountSize(parts[j + 1]))
      BY <1>1, <2>2 DEF SizesAre
    <2> QED BY <1>4, <1>6, <2>1, <2>2, <2>3, <2>4
  <1>7. k \in T
    <2>1. k \in 0..k /\ \A j \in 0..(k - 1) : j \in T => j + 1 \in T
      BY <1>2, <1>6
    <2> QED BY <1>2, <1>5, <2>1, LoopInduction
  <1> QED BY <1>1, <1>3, <1>4, <1>7

\* These sums grow.
LEMMA SizesGrow ==
  ASSUME NEW parts \in Seq(Seq(Byte)), NEW v, SizesAre(v, parts),
         NEW k \in 0..Len(parts), NEW j \in 0..k
  PROVE  /\ v[j] \in Nat /\ v[k] \in Nat /\ v[j] <= v[k]
         /\ j # k => v[j] < v[k]
  <1>1. PICK n : n = Len(parts) /\ n \in Nat /\ j \in Nat /\ k \in Nat /\ j <= k /\ k <= n
    <2>1. PICK n : n = Len(parts) /\ n \in Nat
      OBVIOUS
    <2> QED BY <2>1
  <1>2. v \in [0..n -> Nat] /\ \A i \in 1..n : v[i] = v[i - 1] + (Len(parts[i]) + CountSize(parts[i]))
    BY <1>1 DEF SizesAre
  <1>3. ASSUME NEW i \in 1..n PROVE v[i - 1] < v[i]
    <2>1. PICK p \in Seq(Byte) : p = parts[i]
      BY <1>1
    <2>2. Len(p) \in Nat /\ CountSize(p) \in Nat \ {0}
      BY EncodePartFacts
    <2>0. n \in Nat
      BY <1>1
    <2>a. i - 1 \in 0..n
      BY <2>0
    <2>3. v[i - 1] \in Nat
      BY <1>2, <2>a
    <2>4. PICK x, l, c : x = v[i - 1] /\ l = Len(p) /\ c = CountSize(p) /\ v[i] = x + (l + c)
      BY <1>2, <2>1
    <2>5. x < x + (l + c)
      BY <2>2, <2>3, <2>4
    <2> QED BY <2>4, <2>5
  <1>4. PICK T, m : m = k - j /\ T = {i \in 0..m : v[j] <= v[j + i] /\ (i # 0 => v[j] < v[j + i])}
    OBVIOUS
  <1>5. m \in Nat /\ j + m = k /\ v[j] \in Nat /\ v[k] \in Nat
    <2>1. m \in Nat /\ j + m = k
      BY <1>1, <1>4
    <2>2. j \in 0..n /\ k \in 0..n
      BY <1>1
    <2> QED BY <1>2, <2>1, <2>2
  <1>6. 0 \in T
    <2>1. j + 0 = j /\ 0 \in 0..m /\ v[j] <= v[j]
      BY <1>1, <1>5
    <2> QED BY <1>4, <2>1
  <1>7. ASSUME NEW i \in 0..(m - 1), i \in T PROVE i + 1 \in T
    <2>1. i + 1 \in 0..m /\ j + (i + 1) \in 1..n /\ (j + (i + 1)) - 1 = j + i /\ j + i \in 0..n
          /\ j + (i + 1) \in 0..n
      BY <1>1, <1>5
    <2>2. v[j + i] < v[j + (i + 1)] /\ v[j + i] \in Nat /\ v[j + (i + 1)] \in Nat
      BY <1>2, <1>3, <2>1
    <2>3. v[j] <= v[j + i]
      BY <1>4, <1>7
    <2>4. v[j] < v[j + (i + 1)]
      BY <1>5, <2>2, <2>3
    <2>5. v[j] <= v[j + (i + 1)]
      BY <1>5, <2>2, <2>4
    <2> QED BY <1>4, <2>1, <2>4, <2>5
  <1>8. m \in T
    <2>1. m \in 0..m /\ \A i \in 0..(m - 1) : i \in T => i + 1 \in T
      BY <1>5, <1>7
    <2> QED BY <1>5, <1>6, <2>1, LoopInduction
  <1>9. j # k => m # 0
    BY <1>1, <1>4
  <1> QED BY <1>4, <1>5, <1>8, <1>9

\* No part is too long for a size.
Fitting(parts) == parts \in Seq(Seq(Byte)) /\ \A k \in 1..Len(parts) : Len(parts[k]) <= MaxSize

\* encode's second pass appends one part after the other.
LEMMA BytesLoop ==
  ASSUME NEW parts, Fitting(parts)
  PROVE  /\ ~Encode(parts).error
         /\ \E w \in [0..Len(parts) -> Seq(Byte)] :
              /\ w[0] = <<>> /\ w[Len(parts)] = Encode(parts).bytes
              /\ \A k \in 1..Len(parts) : w[k] = w[k - 1] \o EncodePart(parts[k])
  <1>1. PICK n : n = Len(parts) /\ n \in Nat /\ DOMAIN parts = 1..n
    <2>1. parts \in Seq(Seq(Byte))
      BY DEF Fitting
    <2> QED BY <2>1
  <1>2. PICK S, E : S = Seq(Byte) /\ E = [k \in 1..n |-> EncodePart(parts[k])] /\ <<>> \in S
    <2>1. <<>> \in Seq(Byte)
      OBVIOUS
    <2> QED BY <2>1
  <1>3. \A k \in 1..n : E[k] \in S /\ EncodePart(parts[k]) = E[k]
    <2> SUFFICES ASSUME NEW k \in 1..n PROVE E[k] \in S /\ EncodePart(parts[k]) = E[k]
      OBVIOUS
    <2>1. PICK p \in Seq(Byte) : p = parts[k]
      BY <1>1 DEF Fitting
    <2>2. EncodePart(p) \in Seq(Byte)
      BY EncodePartFacts
    <2> QED BY <1>2, <2>1, <2>2
  <1>4. PICK step : step = [p \in S \X (1..n) |-> p[1] \o E[p[2]]]
    OBVIOUS
  <1>5. step \in [S \X (1..n) -> S]
    <2>1. \A x, y \in S : x \o y \in S
      BY <1>2
    <2> QED BY <1>3, <1>4, <2>1
  <1>6. PICK it : FoldsBy(it, n, S, <<>>, step)
    BY <1>1, <1>2, <1>5, FoldExists
  <1>7. it = [s \in SUBSET (DOMAIN parts) |->
                IF s = {} THEN <<>> ELSE it[s \ {Max(s)}] \o EncodePart(parts[Max(s)])]
    <2>1. ASSUME NEW s \in SUBSET (1..n), s # {}
          PROVE  it[s] = it[s \ {Max(s)}] \o EncodePart(parts[Max(s)])
      <3>1. Max(s) \in 1..n /\ s \ {Max(s)} \in SUBSET (1..n)
        BY <1>1, <2>1, LargestFacts
      <3>2. it[s] = step[<<it[s \ {Max(s)}], Max(s)>>] /\ it[s \ {Max(s)}] \in S
        BY <1>6, <2>1, <3>1 DEF FoldsBy
      <3> QED BY <1>3, <1>4, <3>1, <3>2
    <2> QED BY <1>1, <1>6, <2>1 DEF FoldsBy
  <1>8. Encode(parts) = [error |-> FALSE,
           bytes |-> FoldLeft(LAMBDA bytes, p : bytes \o EncodePart(p), <<>>, parts)]
    <2>1. ~ \E i \in DOMAIN parts : Len(parts[i]) > MaxSize
      <3> SUFFICES ASSUME NEW i \in DOMAIN parts PROVE ~(Len(parts[i]) > MaxSize)
        OBVIOUS
      <3>1. PICK p \in Seq(Byte) : p = parts[i]
        BY <1>1 DEF Fitting
      <3>2. MaxSize \in Int
        <4>1. SizeBytes \in 0..SizeBytes
          BY CodecAssumption
        <4> QED BY <4>1, PowerFacts DEF MaxSize
      <3>3. Len(p) <= MaxSize /\ Len(p) \in Nat
        BY <1>1, <3>1 DEF Fitting
      <3> QED BY <3>1, <3>2, <3>3
    <2> QED BY <2>1 DEF Encode
  <1>9. PICK g : /\ g = [s \in SUBSET (DOMAIN parts) |->
                           IF s = {} THEN <<>> ELSE g[s \ {Max(s)}] \o EncodePart(parts[Max(s)])]
                 /\ FoldLeft(LAMBDA bytes, p : bytes \o EncodePart(p), <<>>, parts) = g[DOMAIN parts]
    BY <1>7, Zenon DEF FoldLeft, MapThenFoldSet
  <1>10. g[{}] = <<>>
    BY <1>9
  <1>11. ASSUME NEW s \in SUBSET (1..n), s # {}, g[s \ {Max(s)}] \in S
        PROVE  g[s] = step[<<g[s \ {Max(s)}], Max(s)>>]
    <2>1. Max(s) \in 1..n
      BY <1>1, <1>11, LargestFacts
    <2>2. g[s] = g[s \ {Max(s)}] \o EncodePart(parts[Max(s)])
      BY <1>1, <1>9, <1>11
    <2> QED BY <1>3, <1>4, <1>11, <2>1, <2>2
  <1>12. LoopEnds(g[1..n], n, S, <<>>, step)
    <2>1. PICK base : base = <<>>
      OBVIOUS
    <2>2. base \in S /\ n \in Nat /\ step \in [S \X (1..n) -> S] /\ g[{}] = base
      BY <1>1, <1>2, <1>5, <1>10, <2>1
    <2>3. \A s \in SUBSET (1..n) : s # {} /\ g[s \ {Max(s)}] \in S
                                     => g[s] = step[<<g[s \ {Max(s)}], Max(s)>>]
      BY <1>11, <2>1
    <2>4. LoopEnds(g[1..n], n, S, base, step)
      BY <2>2, <2>3, FoldIsLoop
    <2> QED BY <2>1, <2>4
  <1>13. PICK w \in [0..n -> S] : /\ w[0] = <<>> /\ w[n] = g[1..n]
                                    /\ \A k \in 1..n : w[k] = step[<<w[k - 1], k>>]
    BY <1>12 DEF LoopEnds
  <1>14. \A k \in 1..n : w[k] = w[k - 1] \o EncodePart(parts[k])
    <2> SUFFICES ASSUME NEW k \in 1..n PROVE w[k] = w[k - 1] \o EncodePart(parts[k])
      OBVIOUS
    <2>0. n \in Nat
      BY <1>1
    <2>a. k - 1 \in 0..n
      BY <2>0
    <2>1. w[k - 1] \in S
      BY <1>13, <2>a
    <2>2. w[k] = w[k - 1] \o E[k]
      BY <1>4, <1>13, <2>1
    <2> QED BY <1>3, <2>2
  <1>15. w[n] = Encode(parts).bytes /\ ~Encode(parts).error
    <2>1. PICK all : all = FoldLeft(LAMBDA bytes, p : bytes \o EncodePart(p), <<>>, parts)
      OBVIOUS
    <2>2. w[n] = all
      BY <1>1, <1>9, <1>13, <2>1, Zenon
    <2>3. Encode(parts) = [error |-> FALSE, bytes |-> all]
      BY <1>8, <2>1, Zenon
    <2> QED BY <2>2, <2>3
  <1> QED BY <1>1, <1>2, <1>13, <1>14, <1>15

\* Where the bytes of a part are.
Placed(b, v, parts, n) ==
  \A k \in 1..n : \A i \in 1..Len(EncodePart(parts[k])) : b[v[k - 1] + i] = EncodePart(parts[k])[i]

\* Each part's bytes begin where the sum of the sizes before it ends.
LEMMA Layout ==
  ASSUME NEW parts, Fitting(parts), NEW v, SizesAre(v, parts)
  PROVE  LET bytes == Encode(parts).bytes
         IN  /\ bytes \in Seq(Byte) /\ Len(bytes) = v[Len(parts)]
             /\ Placed(bytes, v, parts, Len(parts))
  <1>0. parts \in Seq(Seq(Byte))
    BY DEF Fitting
  <1>1. PICK n : n = Len(parts) /\ n \in Nat
    BY <1>0
  <1>2. PICK w \in [0..n -> Seq(Byte)] : /\ w[0] = <<>> /\ w[n] = Encode(parts).bytes
                                         /\ \A k \in 1..n : w[k] = w[k - 1] \o EncodePart(parts[k])
    BY <1>1, BytesLoop
  <1>3. PICK E, z : E = [k \in 1..n |-> EncodePart(parts[k])] /\ z = [k \in 1..n |-> Len(parts[k]) + CountSize(parts[k])]
    OBVIOUS
  <1>4. ASSUME NEW k \in 1..n
        PROVE  /\ E[k] \in Seq(Byte) /\ Len(E[k]) = z[k] /\ z[k] \in Nat /\ EncodePart(parts[k]) = E[k]
               /\ v[k] = v[k - 1] + z[k] /\ w[k] = w[k - 1] \o E[k]
    <2>1. PICK p \in Seq(Byte) : p = parts[k]
      BY <1>0, <1>1
    <2>2. EncodePart(p) \in Seq(Byte) /\ CountSize(p) \in Nat /\ Len(p) \in Nat /\ Len(EncodePart(p)) = CountSize(p) + Len(p)
      BY EncodePartFacts
    <2>3. E[k] = EncodePart(p) /\ z[k] = Len(p) + CountSize(p)
      BY <1>3, <2>1
    <2>4. v[k] = v[k - 1] + (Len(parts[k]) + CountSize(parts[k]))
      BY <1>1 DEF SizesAre
    <2>5. Len(p) + CountSize(p) = CountSize(p) + Len(p) /\ Len(p) + CountSize(p) \in Nat
      BY <2>2
    <2>6. E[k] \in Seq(Byte) /\ Len(E[k]) = z[k] /\ z[k] \in Nat /\ EncodePart(parts[k]) = E[k]
      BY <2>1, <2>2, <2>3, <2>5
    <2>7. v[k] = v[k - 1] + z[k]
      BY <2>1, <2>3, <2>4
    <2>8. w[k] = w[k - 1] \o E[k]
      BY <1>2, <2>6
    <2> QED BY <2>6, <2>7, <2>8
  <1>5. ASSUME NEW j \in 0..n, NEW k \in 0..n, j <= k PROVE v[j] \in Nat /\ v[k] \in Nat /\ v[j] <= v[k]
    <2>1. j \in 0..k /\ k \in 0..Len(parts)
      BY <1>1, <1>5
    <2> QED BY <1>0, <2>1, SizesGrow
  <1>6. PICK T : T = {k \in 0..n : Len(w[k]) = v[k]
                        /\ \A j \in 1..k : \A i \in 1..z[j] : w[k][v[j - 1] + i] = E[j][i]}
    OBVIOUS
  <1>7. 0 \in T
    <2>1. w[0] = <<>> /\ v[0] = 0 /\ 0 \in 0..n /\ ~ \E j \in 1..0 : TRUE
      BY <1>1, <1>2 DEF SizesAre
    <2> QED BY <1>6, <2>1
  <1>8. ASSUME NEW k \in 0..(n - 1), k \in T PROVE k + 1 \in T
    <2>0. n \in Nat
      BY <1>1
    <2>1. k \in Nat /\ k + 1 \in 1..n /\ k + 1 \in 0..n /\ (k + 1) - 1 = k /\ k \in 0..n
      BY <2>0
    <2>2. PICK e, a, y, m : e = E[k + 1] /\ a = w[k] /\ y = w[k + 1] /\ m = v[k]
      OBVIOUS
    <2>3. a \in Seq(Byte) /\ e \in Seq(Byte) /\ y = a \o e /\ Len(a) = m /\ m \in Nat /\ Len(e) = z[k + 1]
          /\ v[k + 1] = m + z[k + 1] /\ z[k + 1] \in Nat
      <3>1. E[k + 1] \in Seq(Byte) /\ Len(E[k + 1]) = z[k + 1] /\ z[k + 1] \in Nat
            /\ v[k + 1] = v[(k + 1) - 1] + z[k + 1] /\ w[k + 1] = w[(k + 1) - 1] \o E[k + 1]
        BY <1>4, <2>1
      <3>2. w[k] \in Seq(Byte)
        BY <1>2, <2>1
      <3>3. Len(w[k]) = v[k]
        BY <1>6, <1>8
      <3>4. v[k] \in Nat
        <4>1. k <= k
          BY <2>1
        <4> QED BY <1>5, <2>1, <4>1
      <3> QED BY <2>1, <2>2, <3>1, <3>2, <3>3, <3>4
    <2>4. /\ Len(y) = m + z[k + 1]
          /\ \A i \in 1..m : y[i] = a[i]
          /\ \A i \in 1..z[k + 1] : y[m + i] = e[i]
      <3>1. /\ Len(a \o e) = Len(a) + Len(e)
            /\ \A i \in 1..(Len(a) + Len(e)) : (a \o e)[i] = IF i <= Len(a) THEN a[i] ELSE e[i - Len(a)]
        BY <2>3, ConcatProperties
      <3>2. PICK q : q = z[k + 1] /\ q \in Nat
        BY <2>3
      <3>3. Len(y) = m + q /\ \A i \in 1..(m + q) : y[i] = IF i <= m THEN a[i] ELSE e[i - m]
        BY <2>3, <3>1, <3>2
      <3>4. m \in Nat /\ q \in Nat
        BY <2>3, <3>2
      <3>5. /\ \A i \in 1..m : i \in 1..(m + q) /\ i <= m
            /\ \A i \in 1..q : m + i \in 1..(m + q) /\ ~(m + i <= m) /\ (m + i) - m = i
        BY <3>4
      <3> QED BY <3>2, <3>3, <3>5
    <2>5. ASSUME NEW j \in 1..(k + 1), NEW i \in 1..z[j] PROVE y[v[j - 1] + i] = E[j][i]
      <3>1. CASE j = k + 1
        BY <2>1, <2>2, <2>4, <3>1
      <3>2. CASE j # k + 1
        <4>1. j \in 1..k /\ j \in 1..n /\ j \in 0..n /\ j - 1 \in 0..n /\ j <= k /\ j - 1 <= k
          BY <2>0, <2>1, <3>2
        <4>2. v[j] <= m /\ v[j] = v[j - 1] + z[j] /\ v[j - 1] \in Nat /\ v[j] \in Nat /\ z[j] \in Nat
          BY <1>4, <1>5, <2>1, <2>2, <4>1
        <4>3. PICK x, q : x = v[j - 1] /\ q = z[j] /\ x \in Nat /\ q \in Nat /\ x + q <= m /\ i \in 1..q
          BY <4>2
        <4>4. x + i \in 1..m
          <5>1. m \in Nat
            BY <2>3
          <5>2. x \in Nat /\ q \in Nat /\ x + q <= m /\ i \in 1..q
            BY <4>3
          <5> QED BY <5>1, <5>2
        <4>5. a[x + i] = E[j][i]
          <5>1. w[k][v[j - 1] + i] = E[j][i]
            BY <1>6, <1>8, <4>1
          <5> QED BY <2>2, <4>3, <5>1
        <4> QED BY <2>4, <4>3, <4>4, <4>5
      <3> QED BY <3>1, <3>2
    <2>6. Len(w[k + 1]) = v[k + 1] /\ \A j \in 1..(k + 1) : \A i \in 1..z[j] : w[k + 1][v[j - 1] + i] = E[j][i]
      BY <2>2, <2>3, <2>4, <2>5
    <2> QED BY <1>6, <2>1, <2>6
  <1>9. n \in T
    <2>0. n \in Nat
      BY <1>1
    <2>1. n \in 0..n /\ \A k \in 0..(n - 1) : k \in T => k + 1 \in T
      BY <1>8, <2>0
    <2> QED BY <1>7, <2>0, <2>1, LoopInduction
  <1>10. n \in 0..n
    BY <1>1
  <1>11. w[n] \in Seq(Byte) /\ Len(w[n]) = v[n]
    BY <1>2, <1>6, <1>9, <1>10
  <1>12. Placed(w[n], v, parts, n)
    <2>1. ASSUME NEW k \in 1..n, NEW i \in 1..Len(EncodePart(parts[k]))
          PROVE  w[n][v[k - 1] + i] = EncodePart(parts[k])[i]
      <3>1. EncodePart(parts[k]) = E[k] /\ Len(E[k]) = z[k]
        BY <1>4
      <3>2. i \in 1..z[k]
        BY <3>1
      <3> QED BY <1>6, <1>9, <3>1, <3>2
    <2> QED BY <2>1 DEF Placed
  <1> QED BY <1>1, <1>2, <1>11, <1>12

-----------------------------------------------------------------------------
(* decode: what it finds, of bytes encode made and of any others.          *)

\* A part of a sequence that lies inside it.
LEMMA MiddleOf ==
  ASSUME NEW S, NEW s \in Seq(S), NEW m \in Nat \ {0}, NEW l \in Nat, m + l <= Len(s) + 1
  PROVE  /\ SubSeq(s, m, m + l - 1) \in Seq(S) /\ Len(SubSeq(s, m, m + l - 1)) = l
         /\ \A i \in 1..l : SubSeq(s, m, m + l - 1)[i] = s[(m - 1) + i]
  <1>1. PICK n : n = m + l - 1
    OBVIOUS
  <1>2. n \in Int /\ m \in Int /\ n - m + 1 = l /\ (IF m <= n THEN n - m + 1 ELSE 0) = l
    BY <1>1
  <1>3. \A i \in m..n : s[i] \in S
    <2>1. Len(s) \in Nat
      OBVIOUS
    <2>2. \A i \in m..n : i \in 1..Len(s)
      BY <1>1, <2>1
    <2> QED BY <2>2
  <1>4. /\ SubSeq(s, m, n) \in Seq(S)
        /\ Len(SubSeq(s, m, n)) = IF m <= n THEN n - m + 1 ELSE 0
        /\ \A i \in 1..(n - m + 1) : SubSeq(s, m, n)[i] = s[m + i - 1]
    BY <1>2, <1>3, SubSeqProperties
  <1>5. \A i \in 1..l : m + i - 1 = (m - 1) + i
    OBVIOUS
  <1> QED BY <1>1, <1>2, <1>4, <1>5

\* Two sequences with the same members are one.
LEMMA SameMembers ==
  ASSUME NEW S, NEW s \in Seq(S), NEW t \in Seq(S), Len(s) = Len(t),
         \A i \in 1..Len(t) : s[i] = t[i]
  PROVE  s = t
  OBVIOUS

\* A size that is short fits.
LEMMA ShortFits ==
  /\ MaxSize \in Nat /\ MaxByte \in Nat \ {0} /\ MaxByte <= MaxSize /\ SizeBytes \in Nat \ {0}
  /\ MaxByte \in Byte /\ \A c \in Byte : c \in Nat /\ c <= MaxByte
  <1>1. PICK n, b : n = SizeBytes /\ b = Base /\ n \in Nat \ {0} /\ b \in Nat /\ b > 1
    BY CodecAssumption
  <1>2. n - 1 \in 0..(n - 1) /\ (n - 1) + 1 = n /\ n - 1 \in 0..n
    BY <1>1
  <1>3. PICK p, q : p = Power[n] /\ q = Power[n - 1] /\ p = b * q /\ q \in Nat \ {0}
    <2>1. Power[(n - 1) + 1] = b * Power[n - 1] /\ Power[n - 1] \in Nat \ {0}
      BY <1>1, <1>2, PowerFacts
    <2> QED BY <1>2, <2>1
  <1>4. p \in Nat /\ b <= p
    <2>1. b \in Nat \ {0}
      BY <1>1
    <2> QED BY <1>3, <2>1, Positive
  <1>5. MaxSize = p - 1 /\ MaxByte = b - 1
    BY <1>1, <1>3 DEF MaxSize, MaxByte
  <1>6. p - 1 \in Nat /\ b - 1 \in Nat \ {0} /\ b - 1 <= p - 1
    BY <1>1, <1>4
  <1>7. b - 1 \in 0..(b - 1) /\ \A c \in 0..(b - 1) : c \in Nat /\ c <= b - 1
    BY <1>1
  <1> QED BY <1>1, <1>5, <1>6, <1>7 DEF Byte

-----------------------------------------------------------------------------
\* What decode finds where the bytes of a part begin.
Begins(b, s, e) == \A i \in 1..Len(e) : s + i <= Len(b) => b[s + i] = e[i]

Found(part, next) == [error |-> FALSE, part |-> part, next |-> next]

\* decode finds the part there, or that its bytes are cut off.
LEMMA DecodeAt ==
  ASSUME NEW part \in Seq(Byte), Len(part) <= MaxSize, NEW b \in Seq(Byte), NEW s \in Nat,
         s < Len(b), Begins(b, s, EncodePart(part))
  PROVE  LET z == Len(part) + CountSize(part)
         IN  DecodePart(b, s + 1) = IF s + z <= Len(b) THEN Found(part, s + z + 1) ELSE Overflow
  <1>1. PICK l, c, e, L, n : /\ l = Len(part) /\ c = CountSize(part) /\ e = EncodePart(part)
                             /\ L = Len(b) /\ n = SizeBytes
    OBVIOUS
  <1>2. l \in Nat /\ L \in Nat /\ n \in Nat \ {0} /\ s \in Nat /\ s < L /\ l <= MaxSize
    <2>1. Len(part) \in Nat /\ Len(b) \in Nat
      OBVIOUS
    <2> QED BY <1>1, <2>1, ShortFits
  <1>3. /\ e \in Seq(Byte) /\ c \in Nat \ {0} /\ Len(e) = c + l
        /\ l < MaxByte => c = 1 /\ e[1] = l
        /\ ~(l < MaxByte) => /\ c = 1 + n /\ e[1] = MaxByte
                             /\ \A i \in 1..n : e[1 + i] = WriteNetworkOrder(l)[i]
        /\ \A i \in 1..l : e[c + i] = part[i]
    BY <1>1, EncodePartFacts
  <1>4. \A i \in 1..(c + l) : s + i <= L => b[s + i] = e[i]
    BY <1>1, <1>3 DEF Begins
  <1>5. b[s + 1] = e[1]
    <2>1. c \in Nat \ {0}
      BY <1>3
    <2>2. 1 \in 1..(c + l) /\ s + 1 <= L
      BY <1>2, <2>1
    <2> QED BY <1>4, <2>2
  <1>6. s + 1 + 1 = s + 2 /\ s + 1 + 0 = s + 1 /\ s + 1 + 1 + 0 = s + 2
    BY <1>2
  <1>7. CASE l < MaxByte
    <2>1. c = 1 /\ b[s + 1] = l /\ ~(b[s + 1] = MaxByte)
      <3>1. MaxByte \in Nat
        BY ShortFits
      <3> QED BY <1>2, <1>3, <1>5, <1>7, <3>1
    <2>2. DecodePart(b, s + 1) =
            IF L + 1 - (s + 2) < l THEN Overflow
            ELSE Found(SubSeq(b, s + 2, s + 2 + l - 1), s + 2 + l)
      BY <1>1, <1>6, <2>1 DEF DecodePart, Found
    <2>3. CASE s + (l + c) <= L
      <3>1. ~(L + 1 - (s + 2) < l) /\ s + 2 + l = s + (l + c) + 1 /\ (s + 2) + l <= L + 1
            /\ s + 2 \in Nat \ {0} /\ (s + 2) - 1 = s + 1
            /\ \A i \in 1..l : 1 + i \in 1..(c + l) /\ s + (1 + i) <= L /\ (s + 1) + i = s + (1 + i)
        BY <1>2, <2>1, <2>3
      <3>2. PICK p : p = SubSeq(b, s + 2, s + 2 + l - 1)
        OBVIOUS
      <3>3. PICK m : m = s + 2
        OBVIOUS
      <3>4. m \in Nat \ {0} /\ m + l <= Len(b) + 1 /\ p = SubSeq(b, m, m + l - 1) /\ m - 1 = s + 1
        BY <1>1, <3>1, <3>2, <3>3
      <3>5. p \in Seq(Byte) /\ Len(p) = l /\ \A i \in 1..l : p[i] = b[(m - 1) + i]
        BY <1>2, <3>4, MiddleOf
      <3>6. \A i \in 1..l : p[i] = part[i]
        <4> SUFFICES ASSUME NEW i \in 1..l PROVE p[i] = part[i]
          OBVIOUS
        <4>1. p[i] = b[s + (1 + i)]
          BY <3>1, <3>4, <3>5
        <4>2. b[s + (1 + i)] = e[1 + i]
          BY <1>4, <3>1
        <4>3. e[1 + i] = part[i]
          BY <1>3, <2>1
        <4> QED BY <4>1, <4>2, <4>3
      <3>7. p = part
        BY <1>1, <3>5, <3>6, SameMembers
      <3> QED BY <1>1, <2>2, <2>3, <3>1, <3>2, <3>7
    <2>4. CASE ~(s + (l + c) <= L)
      <3>1. L + 1 - (s + 2) < l
        BY <1>2, <2>1, <2>4
      <3> QED BY <1>1, <2>2, <2>4, <3>1
    <2> QED BY <2>3, <2>4
  <1>8. CASE ~(l < MaxByte)
    <2>1. c = 1 + n /\ b[s + 1] = MaxByte
      BY <1>3, <1>5, <1>8
    <2>2. PICK size, m : size = SubSeq(b, s + 1 + 1, s + 1 + n) /\ m = s + 1 + (1 + n)
      OBVIOUS
    <2>3. DecodePart(b, s + 1) =
            IF L - (s + 1) < n THEN Overflow
            ELSE IF L + 1 - (s + 1 + 1 + n) < ReadNetworkOrder(size) THEN Overflow
            ELSE Found(SubSeq(b, s + 1 + 1 + n, s + 1 + 1 + n + ReadNetworkOrder(size) - 1),
                       s + 1 + 1 + n + ReadNetworkOrder(size))
      BY <1>1, <2>1, <2>2, Zenon DEF DecodePart, Found
    <2>4. m \in Nat \ {0} /\ s + 1 + 1 + n = m
      BY <1>2, <2>2
    <2>5. CASE L - (s + 1) < n
      <3>1. ~(s + (l + c) <= L)
        BY <1>2, <2>1, <2>5
      <3> QED BY <1>1, <2>3, <2>5, <3>1
    <2>6. CASE ~(L - (s + 1) < n)
      <3>1. /\ (s + 2) + n <= L + 1 /\ s + 2 \in Nat \ {0} /\ s + 1 + 1 = s + 2
            /\ s + 1 + n = s + 2 + n - 1 /\ (s + 2) - 1 = s + 1 /\ n \in Nat
            /\ \A i \in 1..n : 1 + i \in 1..(c + l) /\ s + (1 + i) <= L /\ (s + 1) + i = s + (1 + i)
        BY <1>2, <2>1, <2>6
      <3>2. PICK h : h = s + 2
        OBVIOUS
      <3>3. h \in Nat \ {0} /\ n \in Nat /\ h + n <= Len(b) + 1 /\ size = SubSeq(b, h, h + n - 1) /\ h - 1 = s + 1
        BY <1>1, <2>2, <3>1, <3>2
      <3>4. size \in Seq(Byte) /\ Len(size) = n /\ \A i \in 1..n : size[i] = b[(h - 1) + i]
        BY <3>3, MiddleOf
      <3>5. PICK wr : wr = WriteNetworkOrder(l)
        OBVIOUS
      <3>6. wr \in Seq(Byte) /\ Len(wr) = n /\ ReadNetworkOrder(wr) = l
        BY <1>1, <1>2, <3>5, ReadWritten
      <3>7. \A i \in 1..n : size[i] = wr[i]
        <4> SUFFICES ASSUME NEW i \in 1..n PROVE size[i] = wr[i]
          OBVIOUS
        <4>1. size[i] = b[s + (1 + i)]
          BY <3>1, <3>3, <3>4
        <4>2. b[s + (1 + i)] = e[1 + i]
          BY <1>4, <3>1
        <4>3. e[1 + i] = wr[i]
          BY <1>3, <1>8, <3>5
        <4> QED BY <4>1, <4>2, <4>3
      <3>8. size = wr
        BY <3>4, <3>6, <3>7, SameMembers
      <3>9. ReadNetworkOrder(size) = l
        BY <3>6, <3>8
      <3>10. DecodePart(b, s + 1) = IF L + 1 - m < l THEN Overflow
                                    ELSE Found(SubSeq(b, m, m + l - 1), m + l)
        BY <2>3, <2>4, <2>6, <3>9
      <3>11. CASE s + (l + c) <= L
        <4>1. ~(L + 1 - m < l) /\ m + l = s + (l + c) + 1 /\ m + l <= L + 1 /\ m - 1 = s + c
              /\ \A i \in 1..l : c + i \in 1..(c + l) /\ s + (c + i) <= L /\ (s + c) + i = s + (c + i)
          BY <1>2, <2>1, <2>2, <3>11
        <4>2. PICK p : p = SubSeq(b, m, m + l - 1)
          OBVIOUS
        <4>3. p \in Seq(Byte) /\ Len(p) = l /\ \A i \in 1..l : p[i] = b[(m - 1) + i]
          BY <1>1, <1>2, <2>4, <4>1, <4>2, MiddleOf
        <4>4. \A i \in 1..l : p[i] = part[i]
          <5> SUFFICES ASSUME NEW i \in 1..l PROVE p[i] = part[i]
            OBVIOUS
          <5>1. p[i] = b[s + (c + i)]
            BY <4>1, <4>3
          <5>2. b[s + (c + i)] = e[c + i]
            BY <1>4, <4>1
          <5>3. e[c + i] = part[i]
            BY <1>3
          <5> QED BY <5>1, <5>2, <5>3
        <4>5. p = part
          BY <1>1, <4>3, <4>4, SameMembers
        <4> QED BY <1>1, <3>10, <3>11, <4>1, <4>2, <4>5
      <3>12. CASE ~(s + (l + c) <= L)
        <4>1. L + 1 - m < l
          BY <1>2, <2>1, <2>2, <3>12
        <4> QED BY <1>1, <3>10, <3>12, <4>1
      <3> QED BY <3>11, <3>12
    <2> QED BY <2>5, <2>6
  <1> QED BY <1>7, <1>8

\* A part decode accepts: bytes that fit a size, behind no fewer bytes than encode
\* puts before them.
Accepted(d, s, b) ==
  /\ d = Found(d.part, d.next)
  /\ d.part \in Seq(Byte) /\ Len(d.part) <= MaxSize
  /\ d.next \in Nat /\ s < d.next /\ d.next <= Len(b) + 1
  /\ s + (Len(d.part) + CountSize(d.part)) <= d.next

\* decode overflows, or accepts a part and goes on behind it.
LEMMA DecodeAccepts ==
  ASSUME NEW b \in Seq(Byte), NEW s \in 1..Len(b)
  PROVE  DecodePart(b, s) = Overflow \/ Accepted(DecodePart(b, s), s, b)
  <1>1. PICK L, n, c : L = Len(b) /\ n = SizeBytes /\ c = b[s]
    OBVIOUS
  <1>2. L \in Nat /\ n \in Nat \ {0} /\ s \in Nat /\ s >= 1 /\ s <= L /\ c \in Nat /\ c <= MaxByte /\ MaxByte \in Nat
    <2>1. Len(b) \in Nat
      OBVIOUS
    <2>2. c \in Byte
      BY <1>1
    <2> QED BY <1>1, <2>1, <2>2, ShortFits
  <1>3. PICK d : d = DecodePart(b, s)
    OBVIOUS
  <1>4. ASSUME d # Overflow
        PROVE  \E l \in Nat : \E m \in Nat \ {0} :
                 /\ d = Found(SubSeq(b, m, m + l - 1), m + l) /\ m + l <= L + 1 /\ s < m
                 /\ l <= MaxSize
                 /\ (m = s + 1 /\ l < MaxByte) \/ m = s + 1 + n
    <2>1. CASE c = MaxByte
      <3>1. PICK size, r : size = SubSeq(b, s + 1, s + n) /\ r = ReadNetworkOrder(size)
        OBVIOUS
      <3>2. d = IF L - s < n THEN Overflow
                ELSE IF L + 1 - (s + 1 + n) < r THEN Overflow
                ELSE Found(SubSeq(b, s + 1 + n, s + 1 + n + r - 1), s + 1 + n + r)
        BY <1>1, <1>3, <2>1, <3>1, Zenon DEF DecodePart, Found
      <3>3. ~(L - s < n) /\ ~(L + 1 - (s + 1 + n) < r)
            /\ d = Found(SubSeq(b, s + 1 + n, s + 1 + n + r - 1), s + 1 + n + r)
        BY <1>4, <3>2
      <3>4. PICK h : h = s + 1
        OBVIOUS
      <3>5. h \in Nat \ {0} /\ n \in Nat /\ h + n <= Len(b) + 1 /\ h + n - 1 = s + n
        BY <1>1, <1>2, <3>3, <3>4
      <3>6. size \in Seq(Byte) /\ Len(size) = n
        <4>1. size = SubSeq(b, h, h + n - 1)
          BY <3>1, <3>4, <3>5, Zenon
        <4> QED BY <3>5, <4>1, MiddleOf
      <3>7. r \in Nat /\ r <= MaxSize
        BY <1>1, <3>1, <3>6, ReadFits
      <3>8. PICK m : m = s + 1 + n
        OBVIOUS
      <3>9. m \in Nat \ {0} /\ m + r <= L + 1 /\ s < m
        BY <1>2, <3>3, <3>7, <3>8
      <3> QED BY <3>3, <3>7, <3>8, <3>9
    <2>2. CASE c # MaxByte
      <3>1. PICK m : m = s + 1
        OBVIOUS
      <3>2. s + 1 + 0 = m
        BY <1>2, <3>1
      <3>3. d = IF L + 1 - m < c THEN Overflow ELSE Found(SubSeq(b, m, m + c - 1), m + c)
        BY <1>1, <1>3, <2>2, <3>2 DEF DecodePart, Found
      <3>4. ~(L + 1 - m < c) /\ d = Found(SubSeq(b, m, m + c - 1), m + c)
        BY <1>4, <3>3
      <3>5. c < MaxByte
        BY <1>2, <2>2
      <3>6. m \in Nat \ {0} /\ m + c <= L + 1 /\ s < m
        BY <1>2, <3>1, <3>4
      <3>7. c <= MaxSize
        BY <1>2, ShortFits
      <3> QED BY <1>2, <3>1, <3>4, <3>5, <3>6, <3>7
    <2> QED BY <2>1, <2>2
  <1>5. ASSUME d # Overflow PROVE Accepted(d, s, b)
    <2>1. PICK l \in Nat, m \in Nat \ {0} :
                 /\ d = Found(SubSeq(b, m, m + l - 1), m + l) /\ m + l <= L + 1 /\ s < m
                 /\ l <= MaxSize
                 /\ (m = s + 1 /\ l < MaxByte) \/ m = s + 1 + n
      BY <1>4, <1>5
    <2>2. PICK p : p = SubSeq(b, m, m + l - 1)
      OBVIOUS
    <2>3. p \in Seq(Byte) /\ Len(p) = l
      BY <1>1, <2>1, <2>2, MiddleOf
    <2>4. d.part = p /\ d.next = m + l /\ d = Found(d.part, d.next)
      BY <2>1, <2>2 DEF Found
    <2>5. CountSize(p) = IF l < MaxByte THEN 1 ELSE 1 + n
      BY <1>1, <2>3 DEF CountSize
    <2>6. s + (l + CountSize(p)) <= m + l
      <3>1. CASE l < MaxByte
        <4>1. CountSize(p) = 1
          BY <2>5, <3>1
        <4>2. s + (l + 1) <= m + l
          <5>1. s \in Nat /\ l \in Nat /\ m \in Nat /\ s < m
            BY <1>2, <2>1
          <5> QED BY <5>1
        <4> QED BY <4>1, <4>2
      <3>2. CASE ~(l < MaxByte)
        <4>1. CountSize(p) = 1 + n /\ m = s + 1 + n
          BY <2>1, <2>5, <3>2
        <4>2. s + (l + (1 + n)) <= s + 1 + n + l
          BY <1>2, <2>1
        <4> QED BY <4>1, <4>2
      <3> QED BY <3>1, <3>2
    <2>7. m + l \in Nat /\ s < m + l
      BY <1>2, <2>1
    <2> QED BY <1>1, <2>1, <2>3, <2>4, <2>6, <2>7 DEF Accepted
  <1> QED BY <1>3, <1>5

-----------------------------------------------------------------------------
\* What the loop of decode gives from each source on, from m on.
DecodesFrom(f, b, D) ==
  f = [source \in D |->
        IF source > Len(b) THEN [error |-> FALSE, parts |-> <<>>]
        ELSE LET d == DecodePart(b, source)
             IN  IF d.error THEN [error |-> TRUE, parts |-> <<>>]
                 ELSE [error |-> f[d.next].error, parts |-> <<d.part>> \o f[d.next].parts]]

\* One value of it.
Decoded(f, b, s) ==
  IF s > Len(b) THEN [error |-> FALSE, parts |-> <<>>]
  ELSE LET d == DecodePart(b, s)
       IN  IF d.error THEN [error |-> TRUE, parts |-> <<>>]
           ELSE [error |-> f[d.next].error, parts |-> <<d.part>> \o f[d.next].parts]

\* The loop of decode, value by value.
LEMMA DecodesFromIs ==
  ASSUME NEW f, NEW b, NEW D
  PROVE  DecodesFrom(f, b, D) <=> f = [s \in D |-> Decoded(f, b, s)]
  BY Zenon DEF DecodesFrom, Decoded

\* The loop of decode ends, whatever the bytes: each part takes at least one.
LEMMA DecodeExists ==
  ASSUME NEW b \in Seq(Byte)
  PROVE  \E f : DecodesFrom(f, b, Nat \ {0})
  <1>1. PICK L : L = Len(b) /\ L \in Nat
    <2>1. Len(b) \in Nat
      OBVIOUS
    <2> QED BY <2>1
  <1>2. PICK T : T = {k \in 0..L : \E f : f = [s \in {x \in Nat : x >= L + 1 - k} |-> Decoded(f, b, s)]}
    OBVIOUS
  <1>3. 0 \in T
    <2>1. PICK f : f = [s \in {x \in Nat : x >= L + 1 - 0} |-> [error |-> FALSE, parts |-> <<>>]]
      OBVIOUS
    <2>2. \A s \in {x \in Nat : x >= L + 1 - 0} : Decoded(f, b, s) = [error |-> FALSE, parts |-> <<>>]
      <3>1. \A s \in {x \in Nat : x >= L + 1 - 0} : s > L
        BY <1>1
      <3> QED BY <1>1, <3>1 DEF Decoded
    <2>3. f = [s \in {x \in Nat : x >= L + 1 - 0} |-> Decoded(f, b, s)]
      BY <2>1, <2>2
    <2>4. 0 \in 0..L
      BY <1>1
    <2> QED BY <1>2, <2>3, <2>4
  <1>4. ASSUME NEW k \in 0..(L - 1), k \in T PROVE k + 1 \in T
    <2>1. PICK m, D : m = L + 1 - (k + 1) /\ D = {x \in Nat : x >= L + 1 - k}
      OBVIOUS
    <2>2. m \in 1..L /\ m \in Nat /\ m <= L /\ k + 1 \in 0..L /\ L + 1 - k = m + 1
      BY <1>1, <2>1
    <2>3. PICK f : f = [s \in D |-> Decoded(f, b, s)]
      BY <1>2, <1>4, <2>1
    <2>4. PICK h : h = [s \in {x \in Nat : x >= m} |-> IF s = m THEN Decoded(f, b, m) ELSE f[s]]
      OBVIOUS
    <2>5. ASSUME NEW s \in Nat, s >= m
          PROVE  Decoded(f, b, s) = Decoded(h, b, s)
      <3>1. CASE s > L
        BY <1>1, <3>1 DEF Decoded
      <3>2. CASE ~(s > L)
        <4>1. s \in 1..Len(b) /\ ~(s > Len(b))
          BY <1>1, <2>2, <2>5, <3>2
        <4>2. PICK d : d = DecodePart(b, s)
          OBVIOUS
        <4>3. d = Overflow \/ Accepted(d, s, b)
          BY <4>1, <4>2, DecodeAccepts
        <4>4. CASE d = Overflow
          <5>1. d.error
            BY <4>4 DEF Overflow
          <5> QED BY <4>1, <4>2, <5>1 DEF Decoded
        <4>5. CASE Accepted(d, s, b)
          <5>1. d.next \in Nat /\ s < d.next
            BY <4>5 DEF Accepted
          <5>2. d.next >= m /\ d.next # m
            BY <2>2, <2>5, <5>1
          <5>3. h[d.next] = f[d.next]
            BY <2>4, <5>1, <5>2
          <5> QED BY <4>1, <4>2, <5>3, Zenon DEF Decoded
        <4> QED BY <4>3, <4>4, <4>5
      <3> QED BY <3>1, <3>2
    <2>6. ASSUME NEW s \in {x \in Nat : x >= m} PROVE h[s] = Decoded(h, b, s)
      <3>1. s \in Nat /\ s >= m
        OBVIOUS
      <3>2. Decoded(f, b, s) = Decoded(h, b, s)
        BY <2>5, <3>1
      <3>3. CASE s = m
        BY <2>4, <3>2, <3>3
      <3>4. CASE s # m
        <4>1. s \in D
          BY <2>1, <2>2, <3>1, <3>4
        <4> QED BY <2>3, <2>4, <3>2, <3>4, <4>1
      <3> QED BY <3>3, <3>4
    <2>7. h = [s \in {x \in Nat : x >= m} |-> Decoded(h, b, s)]
      BY <2>4, <2>6
    <2> QED BY <1>2, <2>1, <2>2, <2>7
  <1>5. L \in T
    <2>1. L \in 0..L /\ \A k \in 0..(L - 1) : k \in T => k + 1 \in T
      BY <1>1, <1>4
    <2> QED BY <1>1, <1>3, <2>1, LoopInduction
  <1>6. {x \in Nat : x >= L + 1 - L} = Nat \ {0}
    BY <1>1
  <1>7. PICK f : f = [s \in Nat \ {0} |-> Decoded(f, b, s)]
    <2>1. PICK f : f = [s \in {x \in Nat : x >= L + 1 - L} |-> Decoded(f, b, s)]
      BY <1>2, <1>5
    <2>2. f = [s \in Nat \ {0} |-> Decoded(f, b, s)]
      BY <1>6, <2>1
    <2> QED BY <2>2
  <1> QED BY <1>7, DecodesFromIs

\* What decode gives.
LEMMA DecodeIs ==
  ASSUME NEW b \in Seq(Byte)
  PROVE  \E f : Decode(b) = f[1] /\ \A s \in Nat \ {0} : f[s] = Decoded(f, b, s)
  <1>1. PICK f : f = (CHOOSE g : DecodesFrom(g, b, Nat \ {0})) /\ Decode(b) = f[1]
    BY Zenon DEF Decode, DecodesFrom
  <1>2. DecodesFrom(f, b, Nat \ {0})
    BY <1>1, DecodeExists, Zenon
  <1>3. f = [s \in Nat \ {0} |-> Decoded(f, b, s)]
    BY <1>2, DecodesFromIs
  <1>4. \A s \in Nat \ {0} : f[s] = Decoded(f, b, s)
    BY <1>3
  <1> QED BY <1>1, <1>4

\* Nothing is between a member and the next.
LEMMA NoRest ==
  ASSUME NEW S, NEW parts \in Seq(S), NEW K \in 0..Len(parts)
  PROVE  SubSeq(parts, K + 1, K) = <<>>
  <1>1. PICK L, m : L = Len(parts) /\ m = K + 1
    OBVIOUS
  <1>2. L \in Nat
    BY <1>1
  <1>3. m \in Nat \ {0} /\ 0 \in Nat /\ m + 0 <= L + 1 /\ m + 0 - 1 = K
    BY <1>1, <1>2
  <1>4. SubSeq(parts, m, m + 0 - 1) \in Seq(S) /\ Len(SubSeq(parts, m, m + 0 - 1)) = 0
    BY <1>1, <1>3, MiddleOf
  <1>5. PICK p : p = SubSeq(parts, K + 1, K) /\ p \in Seq(S) /\ Len(p) = 0
    BY <1>1, <1>3, <1>4
  <1> QED BY <1>5

\* The rest of a sequence behind its first k members.
LEMMA RestOf ==
  ASSUME NEW S, NEW parts \in Seq(S), NEW K \in 0..Len(parts), NEW k \in 0..(K - 1)
  PROVE  <<parts[k + 1]>> \o SubSeq(parts, (k + 1) + 1, K) = SubSeq(parts, k + 1, K)
  <1>1. PICK L : L = Len(parts) /\ L \in Nat
    <2>1. Len(parts) \in Nat
      OBVIOUS
    <2> QED BY <2>1
  <1>2. K \in Nat /\ K <= L /\ k \in Nat /\ k < K
    BY <1>1
  <1>4. PICK a, r, p : /\ a = <<parts[k + 1]>> /\ r = SubSeq(parts, (k + 1) + 1, K)
                       /\ p = SubSeq(parts, k + 1, K)
    OBVIOUS
  <1>5. p \in Seq(S) /\ Len(p) = K - k /\ \A i \in 1..(K - k) : p[i] = parts[k + i]
    <2>1. PICK m, l : m = k + 1 /\ l = K - k
      OBVIOUS
    <2>2. m \in Nat \ {0} /\ l \in Nat /\ m + l <= Len(parts) + 1 /\ m + l - 1 = K /\ m - 1 = k
      BY <1>1, <1>2, <2>1
    <2>3. /\ SubSeq(parts, m, m + l - 1) \in Seq(S) /\ Len(SubSeq(parts, m, m + l - 1)) = l
          /\ \A i \in 1..l : SubSeq(parts, m, m + l - 1)[i] = parts[(m - 1) + i]
      BY <2>2, MiddleOf
    <2> QED BY <1>4, <2>1, <2>2, <2>3
  <1>6. r \in Seq(S) /\ Len(r) = (K - k) - 1 /\ \A i \in 1..((K - k) - 1) : r[i] = parts[(k + 1) + i]
    <2>1. PICK m, l : m = (k + 1) + 1 /\ l = (K - k) - 1
      OBVIOUS
    <2>2. m \in Nat \ {0} /\ l \in Nat /\ m + l <= Len(parts) + 1 /\ m + l - 1 = K /\ m - 1 = k + 1
      BY <1>1, <1>2, <2>1
    <2>3. /\ SubSeq(parts, m, m + l - 1) \in Seq(S) /\ Len(SubSeq(parts, m, m + l - 1)) = l
          /\ \A i \in 1..l : SubSeq(parts, m, m + l - 1)[i] = parts[(m - 1) + i]
      BY <2>2, MiddleOf
    <2> QED BY <1>4, <2>1, <2>2, <2>3
  <1>7. parts[k + 1] \in S
    <2>1. k + 1 \in 1..Len(parts)
      BY <1>1, <1>2
    <2> QED BY <2>1
  <1>8. a \in Seq(S) /\ Len(a) = 1 /\ a[1] = parts[k + 1]
    BY <1>4, <1>7
  <1>9. /\ a \o r \in Seq(S) /\ Len(a \o r) = Len(a) + Len(r)
        /\ \A i \in 1..(Len(a) + Len(r)) : (a \o r)[i] = IF i <= Len(a) THEN a[i] ELSE r[i - Len(a)]
    <2>1. a \in Seq(S) /\ r \in Seq(S)
      BY <1>6, <1>8
    <2> QED BY <2>1, ConcatProperties
  <1>10. PICK q : q = K - k /\ q \in Nat /\ 1 + (q - 1) = q
    BY <1>2
  <1>11. a \o r \in Seq(S) /\ Len(a \o r) = q /\ \A i \in 1..q : (a \o r)[i] = IF i <= 1 THEN a[i] ELSE r[i - 1]
    BY <1>6, <1>8, <1>9, <1>10
  <1>12. ASSUME NEW i \in 1..q PROVE (a \o r)[i] = p[i]
    <2>0. q \in Nat /\ k \in Nat
      BY <1>2, <1>10
    <2>1. p[i] = parts[k + i]
      BY <1>5, <1>10
    <2>2. CASE i <= 1
      <3>1. i = 1
        BY <2>0, <2>2
      <3> QED BY <1>8, <1>11, <2>1, <2>2, <3>1
    <2>3. CASE ~(i <= 1)
      <3>1. i - 1 \in 1..(q - 1) /\ (k + 1) + (i - 1) = k + i
        BY <2>0, <2>3
      <3>2. r[i - 1] = parts[(k + 1) + (i - 1)]
        BY <1>6, <1>10, <3>1
      <3> QED BY <1>11, <2>1, <2>3, <3>1, <3>2
    <2> QED BY <2>2, <2>3
  <1>13. a \o r = p
    BY <1>5, <1>10, <1>11, <1>12, SameMembers
  <1> QED BY <1>4, <1>13

\* What decode makes of the first n bytes of what encode gives: the first K parts,
\* which end within them, and no error if they end with them.
LEMMA DecodeEncoded ==
  ASSUME NEW parts, Fitting(parts), NEW v, SizesAre(v, parts),
         NEW K \in 0..Len(parts), NEW n \in Nat, v[K] <= n, n <= v[Len(parts)],
         K < Len(parts) => n < v[K + 1]
  PROVE  Decode(SubSeq(Encode(parts).bytes, 1, n)) =
           [error |-> ~(v[K] = n), parts |-> SubSeq(parts, 1, K)]
  <1>0. parts \in Seq(Seq(Byte))
    BY DEF Fitting
  <1>1. PICK L, bytes, b : /\ L = Len(parts) /\ L \in Nat /\ bytes = Encode(parts).bytes
                           /\ b = SubSeq(bytes, 1, n)
    <2>1. Len(parts) \in Nat
      BY <1>0
    <2> QED BY <2>1
  <1>2. bytes \in Seq(Byte) /\ Len(bytes) = v[L] /\ Placed(bytes, v, parts, L)
    BY <1>1, Layout
  <1>3. b \in Seq(Byte) /\ Len(b) = n /\ \A i \in 1..n : b[i] = bytes[i]
    <2>1. PICK m : m = 1
      OBVIOUS
    <2>2. Len(bytes) \in Nat
      BY <1>2
    <2>3. m \in Nat \ {0} /\ m + n <= Len(bytes) + 1 /\ m + n - 1 = n /\ \A i \in 1..n : (m - 1) + i = i
      BY <1>1, <1>2, <2>1, <2>2
    <2>4. /\ SubSeq(bytes, m, m + n - 1) \in Seq(Byte) /\ Len(SubSeq(bytes, m, m + n - 1)) = n
          /\ \A i \in 1..n : SubSeq(bytes, m, m + n - 1)[i] = bytes[(m - 1) + i]
      BY <1>2, <2>3, MiddleOf
    <2>5. b = SubSeq(bytes, m, m + n - 1)
      BY <1>1, <2>1, <2>3
    <2> QED BY <2>3, <2>4, <2>5
  <1>4. PICK f : Decode(b) = f[1] /\ \A s \in Nat \ {0} : f[s] = Decoded(f, b, s)
    BY <1>3, DecodeIs
  <1>5. K \in Nat /\ K <= L
    BY <1>1
  <1>6. ASSUME NEW k \in 0..L PROVE v[k] \in Nat /\ (k <= K => v[k] <= v[K])
    <2>1. v[k] \in Nat
      <3>1. k \in 0..Len(parts) /\ k \in 0..k
        BY <1>1
      <3> QED BY <1>0, <3>1, SizesGrow
    <2>2. ASSUME k <= K PROVE v[k] <= v[K]
      <3>1. k \in 0..K
        BY <1>5, <2>2
      <3> QED BY <1>0, <3>1, SizesGrow
    <2> QED BY <2>1, <2>2
  \* One part.
  <1>7. ASSUME NEW k \in 0..(L - 1), v[k] < n
        PROVE  /\ parts[k + 1] \in Seq(Byte) /\ v[k + 1] \in Nat /\ v[k] + 1 \in Nat \ {0}
               /\ DecodePart(b, v[k] + 1) = IF v[k + 1] <= n THEN Found(parts[k + 1], v[k + 1] + 1) ELSE Overflow
    <2>0. L \in Nat
      BY <1>1
    <2>1. k \in 0..L /\ k + 1 \in 1..L /\ k + 1 \in 0..L /\ (k + 1) - 1 = k
      BY <2>0
    <2>2. PICK p, s, e : p = parts[k + 1] /\ s = v[k] /\ e = EncodePart(p)
      OBVIOUS
    <2>3. p \in Seq(Byte) /\ Len(p) <= MaxSize
      BY <1>1, <2>1, <2>2 DEF Fitting
    <2>4. s \in Nat /\ s < Len(b) /\ v[k + 1] \in Nat
      BY <1>3, <1>6, <1>7, <2>1, <2>2
    <2>5. Begins(b, s, e)
      <3> SUFFICES ASSUME NEW i \in 1..Len(e), s + i <= Len(b) PROVE b[s + i] = e[i]
        BY DEF Begins
      <3>1. e \in Seq(Byte)
        BY <2>2, <2>3, EncodePartFacts
      <3>2. Len(e) \in Nat
        BY <3>1
      <3>3. s + i \in 1..n
        BY <1>3, <2>4, <3>2
      <3>4. bytes[s + i] = e[i]
        <4>1. \A j \in 1..Len(EncodePart(parts[k + 1])) : bytes[v[(k + 1) - 1] + j] = EncodePart(parts[k + 1])[j]
          BY <1>2, <2>1 DEF Placed
        <4> QED BY <2>1, <2>2, <4>1
      <3> QED BY <1>3, <3>3, <3>4
    <2>6. PICK z : z = Len(p) + CountSize(p) /\ v[k + 1] = s + z
      <3>1. v[k + 1] = v[(k + 1) - 1] + (Len(parts[k + 1]) + CountSize(parts[k + 1]))
        BY <1>1, <2>1 DEF SizesAre
      <3> QED BY <2>1, <2>2, <3>1
    <2>7. DecodePart(b, s + 1) = IF s + z <= Len(b) THEN Found(p, s + z + 1) ELSE Overflow
      BY <2>2, <2>3, <1>3, <2>4, <2>5, <2>6, DecodeAt
    <2>8. s + 1 \in Nat \ {0}
      BY <2>4
    <2> QED BY <1>3, <2>2, <2>3, <2>4, <2>6, <2>7, <2>8
  <1>8. PICK E : E = ~(v[K] = n)
    OBVIOUS
  <1>9. PICK T : T = {j \in 0..K : f[v[K - j] + 1] = [error |-> E, parts |-> SubSeq(parts, (K - j) + 1, K)]}
    OBVIOUS
  <1>10. SubSeq(parts, K + 1, K) = <<>>
    BY <1>0, NoRest
  <1>11. 0 \in T
    <2>1. 0 \in 0..K /\ K - 0 = K /\ K \in 0..L
      BY <1>5
    <2>2. v[K] \in Nat
      BY <1>6, <2>1
    <2>3. v[K] + 1 \in Nat \ {0}
      BY <2>2
    <2>4. f[v[K] + 1] = Decoded(f, b, v[K] + 1)
      BY <1>4, <2>3
    <2>5. CASE v[K] = n
      <3>1. v[K] + 1 > Len(b)
        BY <1>3, <2>2, <2>5
      <3>2. f[v[K] + 1] = [error |-> FALSE, parts |-> <<>>]
        BY <2>4, <3>1 DEF Decoded
      <3>3. E = FALSE
        BY <1>8, <2>5
      <3> QED BY <1>9, <1>10, <2>1, <3>2, <3>3
    <2>6. CASE v[K] # n
      <3>1. v[K] < n /\ ~(v[K] + 1 > Len(b))
        BY <1>3, <2>2, <2>6
      <3>2. K \in 0..(L - 1) /\ K < Len(parts)
        <4>1. K # L
          BY <1>1, <2>2, <3>1
        <4> QED BY <1>1, <1>5, <4>1
      <3>3. v[K + 1] \in Nat /\ DecodePart(b, v[K] + 1) = IF v[K + 1] <= n THEN Found(parts[K + 1], v[K + 1] + 1) ELSE Overflow
        BY <1>7, <3>1, <3>2
      <3>4. ~(v[K + 1] <= n)
        BY <3>2, <3>3
      <3>5. DecodePart(b, v[K] + 1) = Overflow
        BY <3>3, <3>4
      <3>6. f[v[K] + 1] = [error |-> TRUE, parts |-> <<>>]
        BY <2>4, <3>1, <3>5 DEF Decoded, Overflow
      <3>7. E = TRUE
        BY <1>8, <2>6
      <3> QED BY <1>9, <1>10, <2>1, <3>6, <3>7
    <2> QED BY <2>5, <2>6
  <1>12. ASSUME NEW j \in 0..(K - 1), j \in T PROVE j + 1 \in T
    <2>0. L \in Nat /\ K \in Nat /\ K <= L /\ j \in Nat /\ j < K
      BY <1>1, <1>5
    <2>1. PICK k : k = K - (j + 1)
      OBVIOUS
    <2>2. k \in 0..(K - 1) /\ k \in 0..(L - 1) /\ k + 1 = K - j /\ k + 1 \in 0..L /\ k \in 0..L /\ k + 1 <= K
          /\ k <= K /\ j + 1 \in 0..K
      BY <2>0, <2>1
    <2>3. v[k] < v[k + 1]
      <3>1. k + 1 \in 0..Len(parts) /\ k \in 0..(k + 1) /\ k # k + 1
        BY <1>1, <2>2
      <3> QED BY <1>0, <3>1, SizesGrow
    <2>4. v[k] \in Nat /\ v[k + 1] \in Nat /\ v[K] \in Nat /\ v[k + 1] <= v[K]
      <3>1. K \in 0..L
        BY <2>0
      <3> QED BY <1>6, <2>2, <3>1
    <2>5. v[k + 1] <= n /\ v[k] < n /\ ~(v[k] + 1 > Len(b))
      BY <1>3, <2>3, <2>4
    <2>6. PICK p : p = parts[k + 1]
      OBVIOUS
    <2>7. DecodePart(b, v[k] + 1) = Found(p, v[k + 1] + 1) /\ v[k] + 1 \in Nat \ {0}
      BY <1>7, <2>2, <2>5, <2>6
    <2>8. PICK r : r = f[v[k + 1] + 1] /\ r = [error |-> E, parts |-> SubSeq(parts, (k + 1) + 1, K)]
      BY <1>9, <1>12, <2>2
    <2>9. f[v[k] + 1] = Decoded(f, b, v[k] + 1)
      BY <1>4, <2>7
    <2>10. f[v[k] + 1] = [error |-> r.error, parts |-> <<p>> \o r.parts]
      <3>1. PICK d : d = DecodePart(b, v[k] + 1)
        OBVIOUS
      <3>2. ~d.error /\ d.part = p /\ d.next = v[k + 1] + 1
        BY <2>7, <3>1 DEF Found
      <3>3. f[v[k] + 1] = [error |-> f[d.next].error, parts |-> <<d.part>> \o f[d.next].parts]
        BY <2>5, <2>9, <3>1, <3>2, Zenon DEF Decoded
      <3> QED BY <2>8, <3>2, <3>3
    <2>11. <<p>> \o r.parts = SubSeq(parts, k + 1, K)
      <3>1. PICK S : S = Seq(Byte) /\ parts \in Seq(S)
        BY <1>0
      <3>2. K \in 0..Len(parts) /\ k \in 0..(K - 1)
        BY <2>2
      <3>3. <<parts[k + 1]>> \o SubSeq(parts, (k + 1) + 1, K) = SubSeq(parts, k + 1, K)
        BY <3>1, <3>2, RestOf, Zenon
      <3>4. r.parts = SubSeq(parts, (k + 1) + 1, K)
        <4>1. PICK q : q = SubSeq(parts, (k + 1) + 1, K)
          OBVIOUS
        <4>2. r = [error |-> E, parts |-> q]
          BY <2>8, <4>1
        <4>3. r.parts = q
          BY <4>2
        <4> QED BY <4>1, <4>3
      <3> QED BY <2>6, <3>3, <3>4, Zenon
    <2>12. f[v[k] + 1] = [error |-> E, parts |-> SubSeq(parts, k + 1, K)]
      <3>1. r.error = E
        <4>1. PICK q : q = SubSeq(parts, (k + 1) + 1, K)
          OBVIOUS
        <4>2. r = [error |-> E, parts |-> q]
          BY <2>8, <4>1
        <4> QED BY <4>2
      <3> QED BY <2>10, <2>11, <3>1
    <2> QED BY <1>9, <2>1, <2>2, <2>12
  <1>13. K \in T
    <2>1. K \in 0..K /\ \A j \in 0..(K - 1) : j \in T => j + 1 \in T
      BY <1>5, <1>12
    <2> QED BY <1>5, <1>11, <2>1, LoopInduction
  <1>14. f[1] = [error |-> E, parts |-> SubSeq(parts, 1, K)]
    <2>1. K - K = 0 /\ 0 + 1 = 1
      BY <1>5
    <2>2. v[0] = 0
      BY DEF SizesAre
    <2>3. f[v[K - K] + 1] = [error |-> E, parts |-> SubSeq(parts, (K - K) + 1, K)]
      BY <1>9, <1>13
    <2> QED BY <2>1, <2>2, <2>3
  <1> QED BY <1>1, <1>4, <1>8, <1>14

\* A whole sequence is its part from the first member to the last.
LEMMA WholeOf ==
  ASSUME NEW S, NEW s \in Seq(S)
  PROVE  SubSeq(s, 1, Len(s)) = s
  <1>1. PICK m, l : m = 1 /\ l = Len(s)
    OBVIOUS
  <1>2. m \in Nat \ {0} /\ l \in Nat /\ m + l <= Len(s) + 1 /\ m + l - 1 = l /\ \A i \in 1..l : (m - 1) + i = i
    <2>1. Len(s) \in Nat
      OBVIOUS
    <2> QED BY <1>1, <2>1
  <1>3. PICK p : p = SubSeq(s, m, m + l - 1)
    OBVIOUS
  <1>4. p \in Seq(S) /\ Len(p) = l /\ \A i \in 1..l : p[i] = s[(m - 1) + i]
    BY <1>2, <1>3, MiddleOf
  <1>5. p = s
    BY <1>1, <1>2, <1>4, SameMembers
  <1> QED BY <1>1, <1>2, <1>3, <1>5

\* The size of all parts is the last sum.
LEMMA SizeIsLast ==
  ASSUME NEW parts \in Seq(Seq(Byte)), NEW v, SizesAre(v, parts)
  PROVE  EncodedSize(parts) = v[Len(parts)]
  <1>1. PICK S, n : S = Seq(Byte) /\ parts \in Seq(S) /\ n = Len(parts)
    OBVIOUS
  <1>2. SubSeq(parts, 1, n) = parts
    BY <1>1, WholeOf
  <1>3. n \in 0..Len(parts)
    <2>1. Len(parts) \in Nat
      OBVIOUS
    <2> QED BY <1>1, <2>1
  <1>4. EncodedSize(SubSeq(parts, 1, n)) = v[n]
    BY <1>3, SizeOfFirst
  <1> QED BY <1>1, <1>2, <1>4

\* A part more.
LEMMA SizeOfMore ==
  ASSUME NEW p \in Seq(Byte), NEW rest \in Seq(Seq(Byte))
  PROVE  /\ <<p>> \o rest \in Seq(Seq(Byte)) /\ Len(<<p>> \o rest) = Len(rest) + 1
         /\ (<<p>> \o rest)[1] = p
         /\ \A i \in 1..Len(rest) : (<<p>> \o rest)[i + 1] = rest[i]
         /\ EncodedSize(<<p>> \o rest) = (Len(p) + CountSize(p)) + EncodedSize(rest)
         /\ EncodedSize(rest) \in Nat
  <1>1. PICK S, n, a, q : S = Seq(Byte) /\ n = Len(rest) /\ a = <<p>> /\ q = a \o rest
    OBVIOUS
  <1>2. a \in Seq(S) /\ rest \in Seq(S) /\ Len(a) = 1 /\ a[1] = p /\ n \in Nat
    <2>1. Len(rest) \in Nat
      OBVIOUS
    <2> QED BY <1>1, <2>1
  <1>3. /\ q \in Seq(S) /\ Len(q) = Len(a) + Len(rest)
        /\ \A i \in 1..(Len(a) + Len(rest)) : q[i] = IF i <= Len(a) THEN a[i] ELSE rest[i - Len(a)]
    <2>1. a \in Seq(S) /\ rest \in Seq(S)
      BY <1>2
    <2> QED BY <1>1, <2>1, ConcatProperties
  <1>4. Len(q) = n + 1 /\ q[1] = p /\ \A i \in 1..n : q[i + 1] = rest[i]
    <2>0. n \in Nat
      BY <1>2
    <2>1. Len(a) + Len(rest) = n + 1 /\ Len(a) = 1
      BY <1>1, <1>2
    <2>2. \A i \in 1..(n + 1) : q[i] = IF i <= 1 THEN a[i] ELSE rest[i - 1]
      BY <1>3, <2>1
    <2>3. 1 \in 1..(n + 1) /\ \A i \in 1..n : i + 1 \in 1..(n + 1) /\ ~(i + 1 <= 1) /\ (i + 1) - 1 = i
      BY <2>0
    <2> QED BY <1>2, <1>3, <2>1, <2>2, <2>3
  <1>5. PICK v : SizesAre(v, rest) /\ v[n] = EncodedSize(rest)
    BY <1>1, SizeLoop
  <1>6. v \in [0..n -> Nat] /\ v[0] = 0 /\ \A k \in 1..n : v[k] = v[k - 1] + (Len(rest[k]) + CountSize(rest[k]))
    BY <1>1, <1>5 DEF SizesAre
  <1>7. PICK z : z = Len(p) + CountSize(p) /\ z \in Nat
    <2>1. Len(p) \in Nat /\ CountSize(p) \in Nat
      BY EncodePartFacts
    <2>2. Len(p) + CountSize(p) \in Nat
      BY <2>1
    <2> QED BY <2>2
  <1>8. PICK u : u = [k \in 0..(n + 1) |-> IF k = 0 THEN 0 ELSE z + v[k - 1]]
    OBVIOUS
  <1>9. SizesAre(u, q)
    <2>0. n \in Nat
      BY <1>2
    <2>1. u \in [0..(n + 1) -> Nat] /\ u[0] = 0
      <3>1. ASSUME NEW k \in 0..(n + 1), k # 0 PROVE z + v[k - 1] \in Nat
        <4>1. k - 1 \in 0..n
          BY <2>0, <3>1
        <4>2. v[k - 1] \in Nat
          BY <1>6, <4>1
        <4> QED BY <1>7, <4>2
      <3>2. 0 \in 0..(n + 1)
        BY <2>0
      <3> QED BY <1>8, <3>1, <3>2
    <2>2. ASSUME NEW k \in 1..(n + 1) PROVE u[k] = u[k - 1] + (Len(q[k]) + CountSize(q[k]))
      <3>1. k \in 0..(n + 1) /\ k # 0 /\ k - 1 \in 0..(n + 1) /\ k - 1 \in 0..n
        BY <2>0
      <3>2. u[k] = z + v[k - 1]
        BY <1>8, <3>1
      <3>3. CASE k = 1
        <4>1. q[k] = p /\ k - 1 = 0
          BY <1>4, <3>3
        <4>2. u[k - 1] = 0 /\ v[k - 1] = 0
          BY <1>6, <2>1, <4>1
        <4>3. z + 0 = 0 + z
          BY <1>7
        <4> QED BY <1>7, <3>2, <4>1, <4>2, <4>3
      <3>4. CASE k # 1
        <4>1. PICK i : i = k - 1 /\ i \in 1..n /\ i + 1 = k /\ i # 0
          <5>1. k - 1 \in 1..n /\ (k - 1) + 1 = k /\ k - 1 # 0
            BY <2>0, <3>4
          <5> QED BY <5>1
        <4>2. q[k] = rest[i]
          BY <1>4, <4>1
        <4>3. PICK x, y, r : x = v[i - 1] /\ r = rest[i] /\ y = Len(r) + CountSize(r) /\ v[i] = x + y
          BY <1>6, <4>1
        <4>4. x \in Nat
          <5>1. i - 1 \in 0..n
            BY <2>0, <4>1
          <5> QED BY <1>6, <4>3, <5>1
        <4>5. y \in Nat
          <5>1. r \in Seq(Byte)
            BY <1>1, <4>1, <4>3
          <5>2. Len(r) \in Nat /\ CountSize(r) \in Nat
            BY <5>1, EncodePartFacts
          <5> QED BY <4>3, <5>2
        <4>6. u[i] = z + x
          <5>1. i \in 0..(n + 1)
            BY <3>1, <4>1
          <5> QED BY <1>8, <4>1, <4>3, <5>1
        <4>7. z + (x + y) = (z + x) + y
          BY <1>7, <4>4, <4>5
        <4> QED BY <3>2, <4>1, <4>2, <4>3, <4>6, <4>7
      <3> QED BY <3>3, <3>4
    <2> QED BY <1>4, <2>1, <2>2 DEF SizesAre
  <1>10. EncodedSize(q) = u[n + 1]
    <2>1. q \in Seq(Seq(Byte))
      BY <1>1, <1>3
    <2> QED BY <1>4, <1>9, <2>1, SizeIsLast
  <1>11. u[n + 1] = z + v[n] /\ v[n] \in Nat
    <2>0. n \in Nat
      BY <1>2
    <2>1. n + 1 \in 0..(n + 1) /\ n + 1 # 0 /\ (n + 1) - 1 = n /\ n \in 0..n
      BY <2>0
    <2> QED BY <1>6, <1>8, <2>1
  <1> QED BY <1>1, <1>3, <1>4, <1>5, <1>7, <1>10, <1>11

-----------------------------------------------------------------------------
\* What EncodeRoundTrip says of one message.
LEMMA RoundTripFacts ==
  ASSUME NEW parts, Fitting(parts)
  PROVE  LET End(k) == EncodedSize(SubSeq(parts, 1, k))
             bytes  == Encode(parts).bytes
         IN  /\ bytes \in Seq(Byte) /\ Len(bytes) = End(Len(parts))
             /\ \A n \in 0..Len(bytes) :
                  LET complete == {k \in 0..Len(parts) : End(k) <= n}
                  IN  Decode(SubSeq(bytes, 1, n)) =
                        [error |-> \A k \in complete : End(k) # n,
                         parts |-> SubSeq(parts, 1, Max(complete))]
  <1>1. parts \in Seq(Seq(Byte))
    BY DEF Fitting
  <1>2. PICK L : L = Len(parts) /\ L \in Nat
    <2>1. Len(parts) \in Nat
      BY <1>1
    <2> QED BY <2>1
  <1>3. PICK v : SizesAre(v, parts)
    BY <1>1, SizeLoop
  <1>4. PICK bytes : bytes = Encode(parts).bytes
    OBVIOUS
  <1>5. bytes \in Seq(Byte) /\ Len(bytes) = v[L]
    BY <1>2, <1>3, <1>4, Layout
  <1>6. \A k \in 0..L : EncodedSize(SubSeq(parts, 1, k)) = v[k]
    BY <1>1, <1>2, <1>3, SizeOfFirst
  <1>7. \A k \in 0..L : v[k] \in Nat
    <2> SUFFICES ASSUME NEW k \in 0..L PROVE v[k] \in Nat
      OBVIOUS
    <2>1. k \in 0..Len(parts) /\ k \in 0..k
      BY <1>2
    <2> QED BY <1>1, <1>3, <2>1, SizesGrow
  <1>8. L \in 0..L /\ 0 \in 0..L /\ v[0] = 0
    BY <1>2, <1>3 DEF SizesAre
  <1>9. ASSUME NEW n \in 0..Len(bytes)
        PROVE  LET complete == {k \in 0..Len(parts) : EncodedSize(SubSeq(parts, 1, k)) <= n}
               IN  Decode(SubSeq(bytes, 1, n)) =
                     [error |-> \A k \in complete : EncodedSize(SubSeq(parts, 1, k)) # n,
                      parts |-> SubSeq(parts, 1, Max(complete))]
    <2>1. n \in Nat /\ n <= v[L]
      <3>1. Len(bytes) \in Nat
        BY <1>5
      <3> QED BY <1>5, <3>1
    <2>2. PICK C, K : C = {k \in 0..L : v[k] <= n} /\ K = Max(C)
      OBVIOUS
    <2>3. {k \in 0..Len(parts) : EncodedSize(SubSeq(parts, 1, k)) <= n} = C
      BY <1>2, <1>6, <2>2
    <2>4. C \in SUBSET (0..L) /\ C # {}
      BY <1>8, <2>1, <2>2
    <2>5. K \in C /\ \A y \in C : y <= K
      BY <1>2, <2>2, <2>4, LargestOf
    <2>6. K \in 0..L /\ v[K] <= n /\ K \in Nat
      BY <1>2, <2>2, <2>5
    <2>7. K < L => n < v[K + 1]
      <3> SUFFICES ASSUME K < L PROVE n < v[K + 1]
        OBVIOUS
      <3>1. K + 1 \in 0..L /\ ~(K + 1 <= K)
        BY <1>2, <2>6
      <3>2. ~(v[K + 1] <= n)
        BY <2>2, <2>5, <3>1
      <3>3. v[K + 1] \in Nat
        BY <1>7, <3>1
      <3> QED BY <2>1, <3>2, <3>3
    <2>8. (\A k \in C : v[k] # n) <=> ~(v[K] = n)
      <3>1. ASSUME v[K] # n, NEW k \in C PROVE v[k] # n
        <4>1. CASE k = K
          BY <3>1, <4>1
        <4>2. CASE k # K
          <5>1. k \in 0..K /\ K \in 0..Len(parts)
            <6>1. k \in 0..L /\ k <= K
              BY <2>4, <2>5
            <6> QED BY <1>2, <2>6, <6>1
          <5>2. v[k] < v[K] /\ v[k] \in Nat /\ v[K] \in Nat
            BY <1>1, <1>3, <4>2, <5>1, SizesGrow
          <5> QED BY <2>1, <2>6, <5>2
        <4> QED BY <4>1, <4>2
      <3> QED BY <2>5, <3>1
    <2>9. Decode(SubSeq(bytes, 1, n)) = [error |-> ~(v[K] = n), parts |-> SubSeq(parts, 1, K)]
      <3>1. K \in 0..Len(parts) /\ n <= v[Len(parts)] /\ (K < Len(parts) => n < v[K + 1])
        BY <1>2, <2>1, <2>6, <2>7
      <3> QED BY <1>3, <1>4, <2>1, <2>6, <3>1, DecodeEncoded
    <2>10. (\A k \in C : EncodedSize(SubSeq(parts, 1, k)) # n) <=> ~(v[K] = n)
      <3>1. \A k \in C : EncodedSize(SubSeq(parts, 1, k)) = v[k]
        BY <1>6, <2>4
      <3> QED BY <2>8, <3>1
    <2>11. PICK e, g : e = (\A k \in C : EncodedSize(SubSeq(parts, 1, k)) # n) /\ g = ~(v[K] = n) /\ e = g
      BY <2>10
    <2>12. PICK q : q = SubSeq(parts, 1, K)
      OBVIOUS
    <2>13. Decode(SubSeq(bytes, 1, n)) = [error |-> e, parts |-> q]
      BY <2>9, <2>11, <2>12
    <2> QED BY <2>2, <2>3, <2>11, <2>12, <2>13
  <1>10. Len(bytes) = EncodedSize(SubSeq(parts, 1, Len(parts)))
    BY <1>2, <1>5, <1>6, <1>8
  <1> QED BY <1>4, <1>5, <1>9, <1>10

\* A message that is encoded fits.
LEMMA FitsIfEncoded ==
  ASSUME NEW parts \in Seq(Seq(Byte)), ~Encode(parts).error
  PROVE  Fitting(parts)
  <1>1. ~ \E i \in DOMAIN parts : Len(parts[i]) > MaxSize
    <2> SUFFICES ASSUME \E i \in DOMAIN parts : Len(parts[i]) > MaxSize PROVE FALSE
      OBVIOUS
    <2>1. Encode(parts) = [error |-> TRUE, bytes |-> <<>>]
      BY Zenon DEF Encode
    <2> QED BY <2>1
  <1>2. ASSUME NEW k \in 1..Len(parts) PROVE Len(parts[k]) <= MaxSize
    <2>1. PICK p \in Seq(Byte) : p = parts[k] /\ k \in DOMAIN parts
      OBVIOUS
    <2>2. ~(Len(p) > MaxSize) /\ Len(p) \in Nat
      BY <1>1, <2>1
    <2> QED BY <2>1, <2>2, ShortFits
  <1> QED BY <1>2 DEF Fitting

\* What is encoded and read as a whole.
LEMMA DecodedAgain ==
  ASSUME NEW parts, Fitting(parts)
  PROVE  Decode(Encode(parts).bytes) = [error |-> FALSE, parts |-> parts]
  <1>1. parts \in Seq(Seq(Byte))
    BY DEF Fitting
  <1>2. PICK v : SizesAre(v, parts)
    BY <1>1, SizeLoop
  <1>3. PICK L, n, bytes : L = Len(parts) /\ n = v[L] /\ bytes = Encode(parts).bytes
    OBVIOUS
  <1>4. L \in 0..L /\ L \in Nat /\ ~(L < L)
    <2>1. Len(parts) \in Nat
      BY <1>1
    <2> QED BY <1>3, <2>1
  <1>5. n \in Nat /\ n <= n
    <2>1. v[L] \in Nat
      BY <1>1, <1>2, <1>3, <1>4, SizesGrow
    <2> QED BY <1>3, <2>1
  <1>6. bytes \in Seq(Byte) /\ Len(bytes) = n
    BY <1>2, <1>3, Layout
  <1>7. SubSeq(bytes, 1, n) = bytes
    BY <1>6, WholeOf
  <1>8. SubSeq(parts, 1, L) = parts
    <2>1. PICK S : S = Seq(Byte) /\ parts \in Seq(S)
      BY <1>1
    <2> QED BY <1>3, <2>1, WholeOf
  <1>9. Decode(SubSeq(bytes, 1, n)) = [error |-> ~(v[L] = n), parts |-> SubSeq(parts, 1, L)]
    BY <1>2, <1>3, <1>4, <1>5, DecodeEncoded
  <1>10. v[L] = n
    BY <1>3
  <1> QED BY <1>3, <1>7, <1>8, <1>9, <1>10

-----------------------------------------------------------------------------
\* What decode gives from a source on takes no more bytes than there are from it on.
Taken(r, s, b) ==
  /\ r = [error |-> r.error, parts |-> r.parts] /\ r.error \in BOOLEAN
  /\ Fitting(r.parts)
  /\ EncodedSize(r.parts) \in Nat /\ s + EncodedSize(r.parts) <= Len(b) + 1

\* Without a part.
LEMMA NothingTaken ==
  ASSUME NEW e \in BOOLEAN, NEW b \in Seq(Byte), NEW s \in Nat, s <= Len(b) + 1
  PROVE  Taken([error |-> e, parts |-> <<>>], s, b)
  <1>1. PICK r, p : r = [error |-> e, parts |-> p] /\ p = <<>>
    OBVIOUS
  <1>2. p \in Seq(Seq(Byte)) /\ Len(p) = 0
    BY <1>1
  <1>3. Fitting(p)
    BY <1>2 DEF Fitting
  <1>4. PICK v : SizesAre(v, p) /\ v[Len(p)] = EncodedSize(p)
    BY <1>2, SizeLoop
  <1>5. EncodedSize(p) = 0
    BY <1>2, <1>4 DEF SizesAre
  <1>6. s + 0 <= Len(b) + 1
    OBVIOUS
  <1>7. r = [error |-> r.error, parts |-> r.parts] /\ r.error \in BOOLEAN /\ r.parts = p
    BY <1>1
  <1> QED BY <1>1, <1>3, <1>5, <1>6, <1>7 DEF Taken

\* With a part more.
LEMMA PartTaken ==
  ASSUME NEW b \in Seq(Byte), NEW s \in Nat, NEW d, Accepted(d, s, b), NEW r, Taken(r, d.next, b)
  PROVE  Taken([error |-> r.error, parts |-> <<d.part>> \o r.parts], s, b)
  <1>1. PICK p, next, rest, e, q : /\ p = d.part /\ next = d.next /\ rest = r.parts /\ e = r.error
                                   /\ q = <<p>> \o rest
    OBVIOUS
  <1>2. p \in Seq(Byte) /\ Len(p) <= MaxSize /\ rest \in Seq(Seq(Byte)) /\ e \in BOOLEAN
        /\ \A k \in 1..Len(rest) : Len(rest[k]) <= MaxSize
    BY <1>1 DEF Accepted, Taken, Fitting
  <1>3. /\ q \in Seq(Seq(Byte)) /\ Len(q) = Len(rest) + 1
        /\ q[1] = p /\ \A i \in 1..Len(rest) : q[i + 1] = rest[i]
        /\ EncodedSize(q) = (Len(p) + CountSize(p)) + EncodedSize(rest)
        /\ EncodedSize(rest) \in Nat
    BY <1>1, <1>2, SizeOfMore
  <1>4. Fitting(q)
    <2>0. Len(rest) \in Nat
      BY <1>2
    <2>1. ASSUME NEW k \in 1..Len(q) PROVE Len(q[k]) <= MaxSize
      <3>1. CASE k = 1
        BY <1>2, <1>3, <3>1
      <3>2. CASE k # 1
        <4>1. k \in 1..(Len(rest) + 1)
          BY <1>3
        <4>2. k - 1 \in 1..Len(rest) /\ (k - 1) + 1 = k
          BY <2>0, <3>2, <4>1
        <4> QED BY <1>2, <1>3, <4>2
      <3> QED BY <3>1, <3>2
    <2> QED BY <1>3, <2>1 DEF Fitting
  <1>5. PICK z, t, L : /\ z = Len(p) + CountSize(p) /\ t = EncodedSize(rest) /\ L = Len(b)
                       /\ EncodedSize(q) = z + t
    BY <1>3
  <1>6. z \in Nat /\ t \in Nat /\ L \in Nat
    <2>1. Len(p) \in Nat /\ CountSize(p) \in Nat
      BY <1>2, EncodePartFacts
    <2>2. Len(b) \in Nat
      OBVIOUS
    <2> QED BY <1>3, <1>5, <2>1, <2>2
  <1>7. next \in Nat /\ s + z <= next /\ next + t <= L + 1
    BY <1>1, <1>5 DEF Accepted, Taken
  <1>8. z + t \in Nat /\ s + (z + t) <= L + 1
    BY <1>6, <1>7
  <1>9. PICK w : w = [error |-> e, parts |-> q]
    OBVIOUS
  <1>10. w = [error |-> w.error, parts |-> w.parts] /\ w.error \in BOOLEAN /\ w.parts = q
    BY <1>2, <1>9
  <1>11. Taken(w, s, b)
    BY <1>4, <1>5, <1>8, <1>10 DEF Taken
  <1> QED BY <1>1, <1>9, <1>11

\* What decode gives for any bytes.
LEMMA DecodeTakes ==
  ASSUME NEW b \in Seq(Byte)
  PROVE  Taken(Decode(b), 1, b)
  <1>1. PICK L : L = Len(b) /\ L \in Nat
    <2>1. Len(b) \in Nat
      OBVIOUS
    <2> QED BY <2>1
  <1>2. PICK f : Decode(b) = f[1] /\ \A s \in Nat \ {0} : f[s] = Decoded(f, b, s)
    BY DecodeIs
  <1>3. PICK T : T = {k \in 0..L : \A s \in (L + 1 - k)..(L + 1) : Taken(f[s], s, b)}
    OBVIOUS
  <1>4. 0 \in T
    <2>1. PICK s : s = L + 1
      OBVIOUS
    <2>2. s \in Nat \ {0} /\ s > Len(b) /\ s <= Len(b) + 1 /\ s \in Nat
      BY <1>1, <2>1
    <2>3. f[s] = [error |-> FALSE, parts |-> <<>>]
      BY <1>2, <2>2 DEF Decoded
    <2>4. Taken(f[s], s, b)
      <3>1. PICK e \in BOOLEAN : e = FALSE
        OBVIOUS
      <3>2. Taken([error |-> e, parts |-> <<>>], s, b)
        BY <2>2, NothingTaken
      <3> QED BY <2>3, <3>1, <3>2
    <2>5. 0 \in 0..L /\ \A x \in (L + 1 - 0)..(L + 1) : x = s
      BY <1>1, <2>1
    <2> QED BY <1>3, <2>4, <2>5
  <1>5. ASSUME NEW k \in 0..(L - 1), k \in T PROVE k + 1 \in T
    <2>1. PICK s : s = L + 1 - (k + 1)
      OBVIOUS
    <2>2. /\ s \in Nat \ {0} /\ s \in Nat /\ s \in 1..Len(b) /\ ~(s > Len(b)) /\ s <= Len(b) + 1
          /\ k + 1 \in 0..L /\ L + 1 - k = s + 1
      BY <1>1, <2>1
    <2>3. PICK d : d = DecodePart(b, s)
      OBVIOUS
    <2>4. Taken(f[s], s, b)
      <3>1. CASE d = Overflow
        <4>1. d.error
          BY <3>1 DEF Overflow
        <4>2. f[s] = [error |-> TRUE, parts |-> <<>>]
          BY <1>2, <2>2, <2>3, <4>1 DEF Decoded
        <4>3. PICK e \in BOOLEAN : e = TRUE
          OBVIOUS
        <4>4. Taken([error |-> e, parts |-> <<>>], s, b)
          BY <2>2, NothingTaken
        <4> QED BY <4>2, <4>3, <4>4
      <3>2. CASE Accepted(d, s, b)
        <4>1. ~d.error
          BY <3>2 DEF Accepted, Found
        <4>2. PICK r : r = f[d.next]
          OBVIOUS
        <4>3. f[s] = [error |-> r.error, parts |-> <<d.part>> \o r.parts]
          <5>1. f[s] = Decoded(f, b, s)
            BY <1>2, <2>2
          <5> QED BY <2>2, <2>3, <4>1, <4>2, <5>1, Zenon DEF Decoded
        <4>4. d.next \in (L + 1 - k)..(L + 1)
          <5>1. PICK x : x = d.next /\ x \in Nat /\ s < x /\ x <= L + 1
            BY <1>1, <3>2 DEF Accepted
          <5>2. x \in (s + 1)..(L + 1)
            BY <1>1, <2>2, <5>1
          <5> QED BY <2>2, <5>1, <5>2
        <4>5. Taken(r, d.next, b)
          BY <1>3, <1>5, <4>2, <4>4
        <4> QED BY <2>2, <3>2, <4>3, <4>5, PartTaken
      <3>3. d = Overflow \/ Accepted(d, s, b)
        BY <2>2, <2>3, DecodeAccepts
      <3> QED BY <3>1, <3>2, <3>3
    <2>5. ASSUME NEW x \in (L + 1 - (k + 1))..(L + 1) PROVE Taken(f[x], x, b)
      <3>1. x = s \/ x \in (L + 1 - k)..(L + 1)
        BY <1>1, <2>1
      <3> QED BY <1>3, <1>5, <2>4, <3>1
    <2> QED BY <1>3, <2>2, <2>5
  <1>6. L \in T
    <2>1. L \in 0..L /\ \A k \in 0..(L - 1) : k \in T => k + 1 \in T
      BY <1>1, <1>5
    <2> QED BY <1>1, <1>4, <2>1, LoopInduction
  <1>7. 1 \in (L + 1 - L)..(L + 1)
    BY <1>1
  <1> QED BY <1>2, <1>3, <1>6, <1>7

\* What DecodeStaysInside says of any bytes.
LEMMA StaysInsideFacts ==
  ASSUME NEW b \in Seq(Byte)
  PROVE  LET r == Decode(b)
         IN  /\ EncodedSize(r.parts) <= Len(b)
             /\ \A i \in DOMAIN r.parts : r.parts[i] \in Seq(Byte)
             /\ ~r.error => Decode(Encode(r.parts).bytes) = r
  <1>1. PICK r, L : r = Decode(b) /\ L = Len(b)
    OBVIOUS
  <1>2. Taken(r, 1, b) /\ L \in Nat
    <2>1. Len(b) \in Nat
      OBVIOUS
    <2> QED BY <1>1, <2>1, DecodeTakes
  <1>3. EncodedSize(r.parts) <= L
    <2>1. PICK z : z = EncodedSize(r.parts) /\ z \in Nat /\ 1 + z <= L + 1
      BY <1>1, <1>2 DEF Taken
    <2> QED BY <1>2, <2>1
  <1>4. r.parts \in Seq(Seq(Byte)) /\ Fitting(r.parts)
    BY <1>2 DEF Taken, Fitting
  <1>5. \A i \in DOMAIN r.parts : r.parts[i] \in Seq(Byte)
    BY <1>4
  <1>6. ASSUME ~r.error PROVE Decode(Encode(r.parts).bytes) = r
    <2>1. Decode(Encode(r.parts).bytes) = [error |-> FALSE, parts |-> r.parts]
      BY <1>4, DecodedAgain
    <2>2. r = [error |-> r.error, parts |-> r.parts] /\ r.error = FALSE
      BY <1>2, <1>6 DEF Taken
    <2> QED BY <2>1, <2>2
  <1> QED BY <1>1, <1>3, <1>5, <1>6

-----------------------------------------------------------------------------
(* The theorems.                                                           *)

\* An input stays, and the result is what the conversion makes of it.
THEOREM Invariance == Spec => []IInv
  <1>1. Init => IInv
    BY DEF Init, IInv
  <1>2. IInv /\ [Next]_vars => IInv'
    <2> SUFFICES ASSUME IInv, [Next]_vars PROVE IInv'
      OBVIOUS
    <2>1. CASE UNCHANGED vars
      BY <2>1 DEF vars, IInv, Input, Conversion
    <2>2. CASE Convert
      <3>1. Input' /\ Conversion' = Conversion
        BY <2>2 DEF Convert, IInv, Input, Conversion
      <3> QED BY <2>2, <3>1 DEF Convert, IInv
    <2> QED BY <2>1, <2>2 DEF Next
  <1> QED BY <1>1, <1>2, PTL DEF Spec

\* A result of this kind.
LEMMA ResultIs ==
  ASSUME IInv, NEW k, Converted(k)
  PROVE  kind = k /\ Input /\ Result = Conversion
  BY DEF IInv, Converted, Result

\* Whatever the size of a buffer and of what it is advanced by, it stays inside
\* the memory it was made of, and truncation is reported.
THEOREM BufferInside == Spec => []BufferStaysInside
  <1>1. IInv => BufferStaysInside
    <2> SUFFICES ASSUME IInv, Converted("buffer") PROVE BufferStaysInside
      BY DEF BufferStaysInside
    <2>1. in \in BufferUses /\ Result = BufferOf(1, in.length, in.width, in.nBytes)
      BY ResultIs DEF Input, Conversion
    <2>2. /\ in.length \in Nat /\ in.width \in 1..2 /\ in.nBytes \in Nat
          /\ in.m \in Nat /\ in.n \in Nat
      <3>1. PICK most : most = MaxLength /\ most \in Nat
        BY ParserBounds
      <3>2. \A i \in 0..most : i \in Nat
        BY <3>1
      <3>3. \A i \in 0..(2 * most) : i \in Nat
        BY <3>1
      <3>4. \A i \in 0..(2 * most + 1) : i \in Nat
        BY <3>1
      <3> QED BY <2>1, <3>1, <3>2, <3>3, <3>4 DEF BufferUses
    <2>3. PICK total, start : /\ total = in.length * in.width
                              /\ start = IF in.length # 0 THEN 1 ELSE NullPtr
      OBVIOUS
    <2>4. total \in Nat /\ start \in Nat
      BY <2>2, <2>3 DEF NullPtr
    <2>5. Result = Buffer(start, Least(total, in.nBytes))
      BY <2>1, <2>3 DEF BufferOf
    <2>6. Inside(Result, total, in.nBytes, in.m, in.n)
      BY <2>2, <2>4, <2>5, BufferFacts
    <2> QED BY <2>3, <2>6 DEF Inside, BufferStaysInside
  <1> QED BY <1>1, Invariance, PTL

\* Array options of any length below the default size come back as they were set.
THEOREM OptionsReturned == Spec => []OptionReturned
  <1>1. IInv => OptionReturned
    <2> SUFFICES ASSUME IInv, Converted("option") PROVE OptionReturned
      BY DEF OptionReturned
    <2>1. in \in OptionReads /\ Result = GetOption(in.nullTerm, in.value, in.init)
      BY ResultIs DEF Input, Conversion
    <2>2. PICK text, key : text = in.value.text /\ key = in.value.key
      OBVIOUS
    <2>3. /\ text \in Seq(Nat) /\ key \in Seq(Nat) /\ in.init \in 1..DefaultSize
          /\ in.nullTerm \in {0, 1, 2}
          /\ in.nullTerm = 2 => Len(text) = Z85Size - 1 /\ Len(key) = KeySize
          /\ in.nullTerm # 2 => Len(text) < DefaultSize
      <3>1. CASE in \in [nullTerm : {0, 1}, init : 1..DefaultSize,
                         value : {[text |-> t, key |-> <<>>] : t \in AtMostLong(MaxLength, {1, 2})}]
        <4>1. PICK t \in AtMostLong(MaxLength, {1, 2}) : in.value = [text |-> t, key |-> <<>>]
          BY <3>1
        <4>2. PICK i \in 0..MaxLength : t \in [1..i -> {1, 2}]
          BY <4>1 DEF AtMostLong
        <4>3. MaxLength \in Nat /\ MaxLength < DefaultSize /\ DefaultSize \in Nat
          BY ParserBounds, BufferAssumption
        <4>4. t \in Seq(Nat) /\ Len(t) = i
          BY <4>2, <4>3
        <4>5. text = t /\ key = <<>> /\ <<>> \in Seq(Nat)
          BY <2>2, <4>1
        <4>6. Len(text) < DefaultSize
          BY <4>2, <4>3, <4>4, <4>5
        <4> QED BY <3>1, <4>4, <4>5, <4>6
      <3>2. CASE in \in [nullTerm : {2}, init : 1..DefaultSize,
                         value : {[text |-> [i \in 1..(Z85Size - 1) |-> 1],
                                   key |-> [i \in 1..KeySize |-> 2]]}]
        <4>1. text = [i \in 1..(Z85Size - 1) |-> 1] /\ key = [i \in 1..KeySize |-> 2]
          <5>1. PICK t, k : t = [i \in 1..(Z85Size - 1) |-> 1] /\ k = [i \in 1..KeySize |-> 2]
            OBVIOUS
          <5>2. in.value = [text |-> t, key |-> k]
            BY <3>2, <5>1
          <5> QED BY <2>2, <5>1, <5>2
        <4>2. Z85Size - 1 \in Nat /\ KeySize \in Nat
          BY BufferAssumption
        <4>3. text \in Seq(Nat) /\ Len(text) = Z85Size - 1
          BY <4>1, <4>2
        <4>4. key \in Seq(Nat) /\ Len(key) = KeySize
          BY <4>1, <4>2
        <4> QED BY <3>2, <4>3, <4>4
      <3> QED BY <2>1, <3>1, <3>2 DEF OptionReads
    <2>4. PICK value, got : value = in.value /\ got = GetOption(in.nullTerm, value, in.init)
      OBVIOUS
    <2>5. /\ in.init = DefaultSize => got = text
          /\ got \in {text, key, Throw}
      BY <2>2, <2>3, <2>4, OptionFacts
    <2> QED BY <2>1, <2>2, <2>4, <2>5 DEF OptionReturned
  <1> QED BY <1>1, Invariance, PTL

\* While no more can be reclaimed than there is, the usage of the memory is the share
\* that cannot be, for any word width.
THEOREM MemoryUsageIsShare == Spec => []UsageIsShare
  <1>1. IInv => UsageIsShare
    <2> SUFFICES ASSUME IInv, Converted("meminfo"), Reclaimable(in) <= MemTotal
                 PROVE  UsageIsShare
      BY DEF UsageIsShare
    <2>1. in \in Meminfo(MemTotal, MaxAmount) /\ Result = GetMemoryUsage(in)
      BY ResultIs DEF Input, Conversion
    <2>2. PICK a \in [Amounts -> 0..MaxAmount] : in = [l \in Lines |-> IF l = "MemTotal" THEN MemTotal ELSE a[l]]
      BY <2>1 DEF Meminfo
    <2>3. PICK m, r, used : m = GetMemoryInfo(in) /\ r = Reclaimable(in) /\ used = Used(m)
      OBVIOUS
    <2>4. in["MemTotal"] = MemTotal /\ \A l \in Amounts : in[l] \in 0..MaxAmount
      BY <2>2 DEF Lines, Amounts
    <2>5. m["MemTotal"] = MemTotal /\ Reclaimable(m) = r
      BY <2>3, <2>4 DEF GetMemoryInfo, Reclaimable, Lines, Amounts
    <2>6. /\ MemTotal \in Nat \ {0} /\ MaxAmount \in Nat /\ MemTotal + 4 * MaxAmount < W /\ W \in Nat
      BY ParserBounds, MemoryAssumption
    <2>7. r \in Int /\ -MaxAmount <= r /\ r <= 4 * MaxAmount
      BY <2>3, <2>4, <2>6 DEF Reclaimable, Amounts
    <2>8. used = (MemTotal - (r % W)) % W
      BY <2>3, <2>5 DEF Used
    <2>9. used = MemTotal - r
      BY <2>3, <2>6, <2>7, <2>8, UsedFacts
    <2>10. Result = Hundredths(used, MemTotal)
      BY <2>1, <2>3, <2>5 DEF GetMemoryUsage
    <2> QED BY <2>3, <2>9, <2>10 DEF UsageIsShare
  <1> QED BY <1>1, Invariance, PTL

\* string_trimmed cuts every space at both ends, whatever the string.
THEOREM TrimmedFromBothEnds == Spec => []TrimmedExactly
  <1>1. IInv => TrimmedExactly
    <2> SUFFICES ASSUME IInv, Converted("trim") PROVE TrimmedExactly
      BY DEF TrimmedExactly
    <2>1. in \in AtMostLong(MaxChars, Chars) /\ Result = StringTrimmed(in)
      BY ResultIs DEF Input, Conversion
    <2>2. PICK s, n : s = in /\ s \in Seq(Chars) /\ DOMAIN s = 1..n /\ n = Len(s) /\ n \in Nat
      <3>1. PICK n \in 0..MaxChars : in \in [1..n -> Chars]
        BY <2>1 DEF AtMostLong
      <3>2. MaxChars \in Nat
        BY ParserBounds
      <3> QED BY <3>1, <3>2
    <2>3. \E i \in 0..n : \E j \in i..n :
            /\ StringTrimmed(s) = SubSeq(s, i + 1, j)
            /\ \A k \in 1..n : k <= i \/ k > j => IsSpace(s[k])
            /\ i < j => ~IsSpace(s[i + 1]) /\ ~IsSpace(s[j])
      <3>1. \E i \in 0..Len(s) : \E j \in i..Len(s) :
              /\ StringTrimmed(s) = SubSeq(s, i + 1, j)
              /\ \A k \in 1..Len(s) : k <= i \/ k > j => IsSpace(s[k])
              /\ i < j => ~IsSpace(s[i + 1]) /\ ~IsSpace(s[j])
        BY <2>2, TrimFacts, Zenon
      <3> QED BY <2>2, <3>1
    <2>4. PICK i \in 0..n : \E j \in i..n :
            /\ StringTrimmed(s) = SubSeq(s, i + 1, j)
            /\ \A k \in 1..n : k <= i \/ k > j => IsSpace(s[k])
            /\ i < j => ~IsSpace(s[i + 1]) /\ ~IsSpace(s[j])
      BY <2>3
    <2>5. PICK j \in i..n :
            /\ StringTrimmed(s) = SubSeq(s, i + 1, j)
            /\ \A k \in 1..n : k <= i \/ k > j => IsSpace(s[k])
            /\ i < j => ~IsSpace(s[i + 1]) /\ ~IsSpace(s[j])
      BY <2>4
    <2>6. PICK r : r = Result /\ r = SubSeq(s, i + 1, j)
      BY <2>1, <2>2, <2>5
    <2>7. ASSUME r # <<>> PROVE ~IsSpace(Head(r)) /\ ~IsSpace(Last(r))
      <3>1. i \in Nat /\ j \in Nat /\ i <= j /\ j <= n
        <4>1. n \in Nat
          BY <2>2
        <4> QED BY <4>1
      <3>2. i < j
        <4>1. i = j => SubSeq(s, i + 1, j) = <<>>
          BY <2>2, <3>1
        <4> QED BY <2>6, <2>7, <3>1, <4>1
      <3>3. r \in Seq(Chars) /\ Len(r) = j - i /\ r[1] = s[i + 1] /\ r[j - i] = s[j]
        <4>1. PICK a, d : a = i + 1 /\ d = j - i
          OBVIOUS
        <4>2. /\ a \in 1..n /\ d \in Nat /\ d >= 1 /\ j - a + 1 = d /\ a + 1 - 1 = a /\ a + d - 1 = j
              /\ j \in 1..n /\ j \in Nat
          <5>1. n \in Nat
            BY <2>2
          <5> QED BY <3>1, <3>2, <4>1, <5>1
        <4>3. r = SubSeq(s, a, j)
          BY <2>6, <4>1
        <4>4. r = [k \in 1..d |-> s[a + k - 1]]
          BY <2>2, <4>2, <4>3
        <4>5. r[1] = s[a] /\ r[d] = s[j]
          BY <4>2, <4>4
        <4>6. \A k \in 1..d : r[k] \in Chars
          <5> SUFFICES ASSUME NEW k \in 1..d PROVE r[k] \in Chars
            OBVIOUS
          <5>1. a + k - 1 \in 1..n
            <6>1. n \in Nat
              BY <2>2
            <6> QED BY <4>2, <6>1
          <5> QED BY <2>2, <4>4, <5>1
        <4>7. r = [k \in 1..d |-> r[k]]
          BY <4>4
        <4>8. r \in Seq(Chars) /\ Len(r) = d
          <5>1. d \in Nat
            BY <4>2
          <5> QED BY <4>6, <4>7, <5>1, AsSequence, Zenon
        <4> QED BY <4>1, <4>5, <4>8
      <3>4. Head(r) = s[i + 1] /\ Last(r) = s[j]
        BY <3>3 DEF Last
      <3> QED BY <2>5, <3>2, <3>4
    <2>8. \E i_ \in 0..n : \E j_ \in i_..n :
            r = SubSeq(s, i_ + 1, j_) /\ \A k \in DOMAIN s : k <= i_ \/ k > j_ => IsSpace(s[k])
      BY <2>2, <2>5, <2>6
    <2> QED BY <2>2, <2>6, <2>7, <2>8 DEF TrimmedExactly
  <1> QED BY <1>1, Invariance, PTL

\* Where the first two lines of /proc/cpuinfo that have a key show a name and a clock,
\* the scan ends with both, and with these, however many lines there are.
THEOREM BothReported == Spec => []FirstNameAndClock
  <1>1. IInv => FirstNameAndClock
    <2> SUFFICES ASSUME IInv, Converted("cpuinfo") PROVE FirstNameAndClock
      BY DEF FirstNameAndClock
    <2>1. in \in CpuinfoFiles /\ Result = GetCPUModelNameAndBaseClock(in)
      BY ResultIs DEF Input, Conversion
    <2>2. PICK f, n : /\ f = in /\ n = Len(f) /\ n \in Nat /\ (\E V : f \in Seq(V))
                      /\ \A i \in 1..n : /\ f[i].key \in {"model name", "cpu MHz", "flags"}
                                         /\ f[i].value = <<32, 64 + i, 10>>
      <3>1. PICK most : most = MaxLines /\ \A h \in 0..most : h \in Nat
        <4>1. PICK most : most = MaxLines /\ most \in Nat
          BY ParserBounds
        <4>2. \A h \in 0..most : h \in Nat
          BY <4>1
        <4> QED BY <4>1, <4>2
      <3>2. PICK keys \in AtMostLong(most, {"model name", "cpu MHz", "flags"}) :
              in = [i \in DOMAIN keys |-> Line(keys[i], <<32, 64 + i, 10>>)]
        BY <2>1, <3>1 DEF CpuinfoFiles
      <3>3. PICK m : m \in Nat /\ keys \in [1..m -> {"model name", "cpu MHz", "flags"}]
        <4>1. PICK m \in 0..most : keys \in [1..m -> {"model name", "cpu MHz", "flags"}]
          BY <3>2 DEF AtMostLong
        <4> QED BY <3>1, <4>1
      <3>4. PICK f : f = in
        OBVIOUS
      <3>5. f = [i \in 1..m |-> Line(keys[i], <<32, 64 + i, 10>>)]
        BY <3>2, <3>3, <3>4
      <3>6. PICK V : V = {f[i] : i \in 1..m}
        OBVIOUS
      <3>7. f = [i \in 1..m |-> f[i]] /\ \A i \in 1..m : f[i] \in V
        BY <3>5, <3>6
      <3>8. f \in Seq(V) /\ Len(f) = m
        <4>1. m \in Nat
          BY <3>3
        <4> QED BY <3>7, <4>1, AsSequence, Zenon
      <3>9. ASSUME NEW i \in 1..m
            PROVE  /\ f[i].key \in {"model name", "cpu MHz", "flags"}
                   /\ f[i].value = <<32, 64 + i, 10>>
        BY <3>3, <3>5 DEF Line
      <3> QED BY <3>3, <3>4, <3>6, <3>8, <3>9
    <2>3. SUFFICES ASSUME NEW a, NEW b, a \in DOMAIN in, b \in DOMAIN in,
                          in[a].key = "model name", in[b].key = "cpu MHz",
                          \A i \in DOMAIN in : i <= a \/ i <= b => i \in {a, b} \/ in[i].key = "flags"
                   PROVE  Result = [modelName |-> <<in[a].value[2]>>, cpuMhz |-> <<in[b].value[2]>>, findNum |-> 2]
      BY DEF FirstNameAndClock
    <2>4. PICK found, rows : found = GetCPUModelNameAndBaseClock(f) /\ rows = Scanned(f, n)
      OBVIOUS
    <2>5. /\ found = [modelName |-> found.modelName, cpuMhz |-> found.cpuMhz, findNum |-> found.findNum]
          /\ found.findNum = 2 <=> \E i, j \in Keyed(f, n) : i # j
          /\ LastWith(found.modelName, f, rows, "model name") /\ LastWith(found.cpuMhz, f, rows, "cpu MHz")
      <3>1. PICK V : f \in Seq(V)
        BY <2>2
      <3>2. LET g == GetCPUModelNameAndBaseClock(f)
            IN  /\ g = [modelName |-> g.modelName, cpuMhz |-> g.cpuMhz, findNum |-> g.findNum]
                /\ g.findNum = 2 <=> \E i, j \in Keyed(f, Len(f)) : i # j
                /\ LastWith(g.modelName, f, Scanned(f, Len(f)), "model name")
                /\ LastWith(g.cpuMhz, f, Scanned(f, Len(f)), "cpu MHz")
        BY <3>1, ScanFacts, Zenon
      <3> QED BY <2>2, <2>4, <3>2
    <2>6. /\ n \in Nat /\ a \in 1..n /\ b \in 1..n /\ a # b
          /\ f[a].key = "model name" /\ f[b].key = "cpu MHz"
          /\ \A i \in 1..n : i <= a \/ i <= b => i \in {a, b} \/ f[i].key = "flags"
      <3>1. PICK V : f \in Seq(V)
        BY <2>2
      <3>2. DOMAIN f = 1..n
        <4>1. DOMAIN f = 1..Len(f)
          BY <3>1
        <4> QED BY <2>2, <4>1
      <3>3. DOMAIN in = 1..n /\ n \in Nat /\ f = in
        BY <2>2, <3>2
      <3>4. a # b
        <4>1. in[a].key = "model name" /\ in[b].key = "cpu MHz"
          BY <2>3
        <4>2. "model name" # "cpu MHz"
          OBVIOUS
        <4> QED BY <4>1, <4>2, Zenon
      <3> QED BY <2>3, <3>3, <3>4, Zenon
    <2>7. a \in Keyed(f, n) /\ b \in Keyed(f, n) /\ \A i \in Keyed(f, n) : i <= a \/ i <= b => i \in {a, b}
      BY <2>6 DEF Keyed, Keys
    <2>8. rows = {a, b}
      <3>1. n \in Nat /\ a \in 1..n /\ b \in 1..n /\ a # b
        BY <2>6
      <3>2. ASSUME NEW i \in 1..n, NEW h
            PROVE  h \in Keyed(f, i - 1) <=> h \in Keyed(f, n) /\ h < i
        <4>1. h \in 1..(i - 1) <=> h \in 1..n /\ h < i
          BY <3>1
        <4> QED BY <4>1 DEF Keyed
      <3>3. ASSUME NEW i \in rows PROVE i \in {a, b}
        <4>1. i \in Keyed(f, n) /\ \A g, h \in Keyed(f, i - 1) : g = h
          BY <2>4, <3>3 DEF Scanned
        <4>2. i \in 1..n
          BY <4>1 DEF Keyed
        <4>3. ~(a < i /\ b < i)
          BY <2>7, <3>1, <3>2, <4>1, <4>2
        <4>4. i <= a \/ i <= b
          BY <3>1, <4>2, <4>3
        <4> QED BY <2>7, <4>1, <4>4
      <3>4. ASSUME NEW i \in {a, b} PROVE i \in rows
        <4>1. i \in 1..n /\ i \in Keyed(f, n)
          BY <2>7, <3>1
        <4>2. \A h \in Keyed(f, i - 1) : h \in Keyed(f, n) /\ h < i /\ h \in 1..n
          BY <3>2, <4>1 DEF Keyed
        <4>3. \A h \in 1..n : h < i => h # i /\ (h <= a \/ h <= b)
          BY <3>1
        <4>4. \A h \in Keyed(f, i - 1) : h \in {a, b} /\ h # i
          BY <2>7, <4>2, <4>3
        <4>5. \A g, h \in Keyed(f, i - 1) : g = h
          BY <4>4
        <4> QED BY <2>4, <4>1, <4>5 DEF Scanned
      <3> QED BY <3>3, <3>4
    <2>9. ASSUME NEW i \in 1..n, NEW value, NEW key, LastWith(value, f, rows, key),
                 {j \in rows : f[j].key = key} = {i}
          PROVE  value = <<f[i].value[2]>>
      <3>1. PICK hits : hits = {j \in rows : f[j].key = key} /\ hits = {i}
        BY <2>9
      <3>2. value = StringTrimmed(f[i].value)
        <4>1. \/ hits = {} /\ value = <<>>
              \/ \E j \in hits : (\A h \in hits : h <= j) /\ value = StringTrimmed(f[j].value)
          BY <2>9, <3>1, Zenon DEF LastWith
        <4>2. i \in hits /\ \A j \in hits : j = i
          BY <3>1
        <4> QED BY <4>1, <4>2, Zenon
      <3>3. f[i].value = <<32, 64 + i, 10>>
        BY <2>2
      <3>4. i \in Nat
        <4>1. n \in Nat
          BY <2>6
        <4> QED BY <4>1
      <3>5. value = <<64 + i>>
        <4>1. StringTrimmed(<<32, 64 + i, 10>>) = <<64 + i>>
          BY <3>4, ValueFacts, Zenon
        <4> QED BY <3>2, <3>3, <4>1, Zenon
      <3>6. f[i].value[2] = 64 + i
        BY <3>3, <3>4
      <3> QED BY <3>5, <3>6, Zenon
    <2>10. {j \in rows : f[j].key = "model name"} = {a} /\ {j \in rows : f[j].key = "cpu MHz"} = {b}
      <3>1. f[a].key = "model name" /\ f[b].key = "cpu MHz" /\ a # b
        BY <2>6
      <3> QED BY <2>8, <3>1
    <2>11. found.modelName = <<f[a].value[2]>> /\ found.cpuMhz = <<f[b].value[2]>>
      <3>1. a \in 1..n /\ b \in 1..n
        BY <2>6
      <3>2. LastWith(found.modelName, f, rows, "model name")
        BY <2>5
      <3>3. LastWith(found.cpuMhz, f, rows, "cpu MHz")
        BY <2>5
      <3>4. found.modelName = <<f[a].value[2]>>
        BY <2>9, <2>10, <3>1, <3>2
      <3>5. found.cpuMhz = <<f[b].value[2]>>
        BY <2>9, <2>10, <3>1, <3>3
      <3> QED BY <3>4, <3>5
    <2>12. found.findNum = 2
      BY <2>5, <2>6, <2>7
    <2>13. f = in /\ found = Result
      BY <2>1, <2>2, <2>4
    <2>14. Result = [modelName |-> Result.modelName, cpuMhz |-> Result.cpuMhz, findNum |-> Result.findNum]
      BY <2>5, <2>13
    <2> QED BY <2>11, <2>12, <2>13, <2>14, Zenon
  <1> QED BY <1>1, Invariance, PTL

\* Whatever iostat prints, and whatever devName held before, the rates are the
\* columns of the second report, with the last device once more for each blank line.
THEOREM LastDeviceAgain == Spec => []LastDeviceRecounted
  <1>1. IInv => LastDeviceRecounted
    <2> SUFFICES ASSUME IInv, Converted("iostat") PROVE LastDeviceRecounted
      BY DEF LastDeviceRecounted
    <2>1. /\ in \in IostatRuns
          /\ Result = ParseIostat(IostatOutput(in.first, in.second, in.tail), in.dev0)
      BY ResultIs DEF Input, Conversion
    <2>2. PICK first, second, tail, dev0 : /\ first = in.first /\ second = in.second
                                           /\ tail = in.tail /\ dev0 = in.dev0
      OBVIOUS
    <2>3. first \in IostatRows /\ second \in IostatRows /\ tail \in 1..2 /\ dev0 \in Leftovers
      BY <2>1, <2>2 DEF IostatRuns
    <2>4. ASSUME NEW rows \in IostatRows PROVE rows \in Seq(IoRows)
      <3>1. PICK most : most = MaxRows /\ most \in Nat
        BY ParserBounds
      <3>2. \A h \in 0..most : h \in Nat
        BY <3>1
      <3>3. PICK h \in 0..most : rows \in [1..h -> IoRows]
        BY <3>1 DEF IostatRows, IoRows, AtMostLong
      <3> QED BY <3>2, <3>3
    <2>5. first \in Seq(IoRows) /\ second \in Seq(IoRows) /\ tail \in Nat
      BY <2>3, <2>4
    <2>6. PICK rates : rates = ParseIostat(IostatOutput(first, second, tail), dev0)
      OBVIOUS
    <2>7. /\ rates.read = SumColumn(second, 1) + tail * LastColumn(second, 1)
          /\ rates.write = SumColumn(second, 2) + tail * LastColumn(second, 2)
      BY <2>3, <2>5, <2>6, RecountFacts
    <2>8. Result = rates
      BY <2>1, <2>2, <2>6
    <2> QED BY <2>2, <2>7, <2>8 DEF LastDeviceRecounted
  <1> QED BY <1>1, Invariance, PTL

\* Parts of one repeated byte.
Repeated(sizes, values) == {[i \in 1..n |-> c] : n \in sizes, c \in values}

\* Whatever the parts, what is encoded is decoded to the same parts, and cut off at
\* any byte to the complete ones.
THEOREM RoundTrip == Spec => []EncodeRoundTrip
  <1>1. IInv => EncodeRoundTrip
    <2> SUFFICES ASSUME IInv, Converted("encode"), ~Result.error PROVE EncodeRoundTrip
      BY DEF EncodeRoundTrip
    <2>1. in \in MultipartMessages /\ Result = Encode(in)
      BY ResultIs DEF Input, Conversion
    <2>2. PICK parts : parts = in /\ parts \in Seq(Seq(Byte))
      <3>1. PICK most : most = MaxParts /\ \A h \in 0..most : h \in Nat
        <4>1. PICK most : most = MaxParts /\ most \in Nat
          BY ParserBounds
        <4>2. \A h \in 0..most : h \in Nat
          BY <4>1
        <4> QED BY <4>1, <4>2
      <3>2. PICK sizes, values, P : /\ sizes = {0, 1, MaxByte - 1, MaxByte, MaxByte + 1}
                                    /\ values = {0, MaxByte}
                                    /\ P = Repeated(sizes, values)
        OBVIOUS
      <3>3. sizes \subseteq Nat /\ values \subseteq Byte
        <4>1. PICK x : x = MaxByte /\ x \in Nat \ {0} /\ x \in Byte
          BY ShortFits
        <4>2. 0 \in Byte
          BY CodecAssumption DEF Byte
        <4>3. {0, 1, x - 1, x, x + 1} \subseteq Nat
          BY <4>1
        <4> QED BY <3>2, <4>1, <4>2, <4>3
      <3>4. ASSUME NEW p \in P PROVE p \in Seq(Byte)
        <4>1. PICK n \in sizes, c \in values : p = [i \in 1..n |-> c]
          BY <3>2 DEF Repeated
        <4>2. n \in Nat /\ c \in Byte
          BY <3>3
        <4>3. p = [i \in 1..n |-> p[i]] /\ \A i \in 1..n : p[i] \in Byte
          BY <4>1, <4>2
        <4> QED BY <4>2, <4>3, AsSequence, Zenon
      <3>5. PICK f : f = in
        OBVIOUS
      <3>6. PICK m : m \in Nat /\ f \in [1..m -> P]
        <4>1. in \in AtMostLong(most, P)
          BY <2>1, <3>1, <3>2 DEF MultipartMessages, Repeated
        <4>2. PICK m \in 0..most : f \in [1..m -> P]
          BY <3>5, <4>1 DEF AtMostLong
        <4> QED BY <3>1, <4>2
      <3>7. PICK S : S = Seq(Byte)
        OBVIOUS
      <3>8. f = [i \in 1..m |-> f[i]] /\ \A i \in 1..m : f[i] \in S
        BY <3>4, <3>6, <3>7
      <3>9. f \in Seq(S)
        BY <3>6, <3>8, AsSequence, Zenon
      <3> QED BY <3>5, <3>7, <3>9
    <2>3. Fitting(parts)
      BY <2>1, <2>2, FitsIfEncoded
    <2>4. LET End(k) == EncodedSize(SubSeq(parts, 1, k))
              bytes  == Encode(parts).bytes
          IN  /\ bytes \in Seq(Byte) /\ Len(bytes) = End(Len(parts))
              /\ \A n \in 0..Len(bytes) :
                   LET complete == {k \in 0..Len(parts) : End(k) <= n}
                   IN  Decode(SubSeq(bytes, 1, n)) =
                         [error |-> \A k \in complete : End(k) # n,
                          parts |-> SubSeq(parts, 1, Max(complete))]
      BY <2>3, RoundTripFacts
    <2> QED BY <2>1, <2>2, <2>4, Zenon DEF EncodeRoundTrip
  <1> QED BY <1>1, Invariance, PTL

\* Whatever the bytes, decode reads none behind their end, and what it accepts is
\* what encode can give back.
THEOREM StaysInside == Spec => []DecodeStaysInside
  <1>1. IInv => DecodeStaysInside
    <2> SUFFICES ASSUME IInv, Converted("decode") PROVE DecodeStaysInside
      BY DEF DecodeStaysInside
    <2>1. in \in AtMostLong(MaxBytes, Byte) /\ Result = Decode(in)
      BY ResultIs DEF Input, Conversion
    <2>2. PICK b : b = in /\ b \in Seq(Byte)
      <3>1. PICK n \in 0..MaxBytes : in \in [1..n -> Byte]
        BY <2>1 DEF AtMostLong
      <3>2. MaxBytes \in Nat
        BY ParserBounds
      <3>3. n \in Nat
        BY <3>2
      <3> QED BY <3>1, <3>3
    <2>3. LET r == Decode(b)
          IN  /\ EncodedSize(r.parts) <= Len(b)
              /\ \A i \in DOMAIN r.parts : r.parts[i] \in Seq(Byte)
              /\ ~r.error => Decode(Encode(r.parts).bytes) = r
      BY <2>2, StaysInsideFacts
    <2> QED BY <2>1, <2>2, <2>3, Zenon DEF DecodeStaysInside
  <1> QED BY <1>1, Invariance, PTL
=============================================================================
