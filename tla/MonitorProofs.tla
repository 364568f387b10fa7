---------------------------- MODULE MonitorProofs ----------------------------
(***************************************************************************)
(* Proofs about the documents of CM::Monitor, for anything df,             *)
(* /proc/meminfo and /proc/cpuinfo may show at each reading. The properties*)
(* speak of a finished document. IInv adds what its readings have given so *)
(* far, each with what it saw (ReadInOrder, DocumentsOfTwoRuns), and that  *)
(* the cache never loses what was known (CacheKept). What the parser of    *)
(* /proc/cpuinfo makes of one reading is not looked into; what DiskInfoByDf*)
(* makes of a table of any length is, by induction over its rows (Loops).  *)
(***************************************************************************)
EXTENDS Monitor, Loops, SequenceTheorems, TLAPS

-----------------------------------------------------------------------------
(* Documents.                                                              *)

\* A patch adds its keys to an object.
LEMMA PatchObject ==
  ASSUME NEW target, NEW patch, target # Null, patch # Null
  PROVE  /\ DOMAIN MergePatch(target, patch) = DOMAIN target \cup DOMAIN patch
         /\ \A k \in DOMAIN patch : MergePatch(target, patch)[k] = patch[k]
         /\ \A k \in DOMAIN target : k \notin DOMAIN patch => MergePatch(target, patch)[k] = target[k]
  BY DEF MergePatch

\* The document of RequestBaseInfo, unless it is null: CPU, memory and the disks.
LEMMA InfoDocument ==
  ASSUME NEW v,
         v[1] \in Values("model"), v[2] \in Values("clock"), v[3] = CpuUsage,
         v[4] \in Values("total"), v[5] \in Values("unused"), v[6] \in Values("share"),
         GetInfoByJson(v) # Null
  PROVE  /\ DOMAIN GetInfoByJson(v) = {<<"cpu">>, <<"memory">>}
                                        \cup {<<"disk", n>> : n \in 0..(Len(v[7]) - 1)}
         /\ \A n \in 0..(Len(v[7]) - 1) : GetInfoByJson(v)[<<"disk", n>>] = v[7][n + 1]
         /\ GetInfoByJson(v)[<<"cpu">>] = [modelName |-> v[1], baseClock |-> v[2], usage |-> v[3]]
  <1>1. PICK cpu, memory, disk : /\ cpu = GetCPU(v[1], v[2], v[3]) /\ memory = GetMemory(v[4], v[5], v[6])
                                 /\ disk = GetDisk(v[7])
    OBVIOUS
  <1>2. PICK one, two, all : /\ one = MergePatch(Null, cpu) /\ two = MergePatch(one, memory)
                             /\ all = MergePatch(two, disk)
    OBVIOUS
  <1>3. all = GetInfoByJson(v)
    BY <1>1, <1>2 DEF GetInfoByJson
  <1>4. cpu # Null /\ memory # Null /\ MergePatch(cpu, memory) # Null
    BY <1>1, MonitorAssumption
  <1>5. disk # Null /\ v[7] # <<>>
    <2>1. disk # Null
      BY <1>2, <1>3 DEF MergePatch
    <2> QED BY <1>1, <2>1 DEF GetDisk
  <1>6. /\ DOMAIN cpu = {<<"cpu">>} /\ DOMAIN memory = {<<"memory">>}
        /\ cpu[<<"cpu">>] = [modelName |-> v[1], baseClock |-> v[2], usage |-> v[3]]
    BY <1>1 DEF GetCPU, GetMemory
  <1>7. /\ DOMAIN disk = {<<"disk", n>> : n \in 0..(Len(v[7]) - 1)}
        /\ \A k \in DOMAIN disk : disk[k] = v[7][k[2] + 1]
    BY <1>1, <1>5 DEF GetDisk
  <1>8. one = cpu
    <2>1. cpu = [k \in DOMAIN cpu |-> cpu[k]]
      BY <1>1 DEF GetCPU
    <2> QED BY <1>2, <1>4, <2>1 DEF MergePatch
  <1>9. /\ two # Null /\ DOMAIN two = {<<"cpu">>, <<"memory">>}
        /\ two[<<"cpu">>] = cpu[<<"cpu">>]
    <2>1. two = MergePatch(cpu, memory)
      BY <1>2, <1>8
    <2>2. <<"cpu">> \in DOMAIN cpu /\ <<"cpu">> \notin DOMAIN memory
      BY <1>6
    <2>3. /\ DOMAIN MergePatch(cpu, memory) = DOMAIN cpu \cup DOMAIN memory
          /\ \A k \in DOMAIN cpu : k \notin DOMAIN memory => MergePatch(cpu, memory)[k] = cpu[k]
      BY <1>4, PatchObject
    <2>4. two[<<"cpu">>] = cpu[<<"cpu">>]
      BY <2>1, <2>2, <2>3
    <2>5. DOMAIN two = {<<"cpu">>, <<"memory">>}
      BY <1>6, <2>1, <2>3
    <2> QED BY <1>4, <2>1, <2>4, <2>5
  <1>10. <<"cpu">> \notin DOMAIN disk
    BY <1>7
  <1>11. /\ DOMAIN all = {<<"cpu">>, <<"memory">>} \cup DOMAIN disk
         /\ \A k \in DOMAIN disk : all[k] = disk[k]
         /\ all[<<"cpu">>] = cpu[<<"cpu">>]
    <2>1. /\ DOMAIN MergePatch(two, disk) = DOMAIN two \cup DOMAIN disk
          /\ \A k \in DOMAIN disk : MergePatch(two, disk)[k] = disk[k]
          /\ \A k \in DOMAIN two : k \notin DOMAIN disk => MergePatch(two, disk)[k] = two[k]
      BY <1>5, <1>9, PatchObject
    <2>2. <<"cpu">> \in DOMAIN two
      BY <1>9
    <2> QED BY <1>2, <1>9, <1>10, <2>1, <2>2
  <1>12. \A n \in 0..(Len(v[7]) - 1) : all[<<"disk", n>>] = v[7][n + 1]
    BY <1>7, <1>11
  <1> QED BY <1>3, <1>6, <1>7, <1>11, <1>12

-----------------------------------------------------------------------------
(* What DiskInfoByDf makes of a table.                                     *)

\* The state of its loop when the rows are in R.
DfState(R) == [reading : BOOLEAN, disks : Seq(R)]
DfStart == [reading |-> TRUE, disks |-> <<>>]

\* One row, read or not.
LEMMA ReadRowFacts ==
  ASSUME NEW R, NEW s \in DfState(R), NEW row \in R
  PROVE  /\ ReadRow(s, row) \in DfState(R)
         /\ ReadRow(s, row).reading = TRUE <=> s.reading = TRUE /\ row.shape \notin {"dash", "space"}
         /\ ReadRow(s, row).disks = IF s.reading = TRUE /\ row.shape # "dash" /\ row.dev
                                      THEN Append(s.disks, row) ELSE s.disks
  <1>1. s.reading \in BOOLEAN /\ s.disks \in Seq(R)
    BY DEF DfState
  <1>2. Append(s.disks, row) \in Seq(R)
    BY <1>1
  <1>3. CASE ~s.reading \/ row.shape = "dash"
    <2>1. ReadRow(s, row) = [s EXCEPT !.reading = FALSE]
      BY <1>3 DEF ReadRow
    <2>2. /\ ReadRow(s, row) \in DfState(R)
          /\ ReadRow(s, row).reading = FALSE /\ ReadRow(s, row).disks = s.disks
      BY <2>1 DEF DfState
    <2> QED BY <1>1, <1>3, <2>2
  <1>4. CASE s.reading /\ row.shape # "dash"
    BY <1>1, <1>2, <1>4 DEF ReadRow, DfState
  <1> QED BY <1>1, <1>3, <1>4

\* The fold over the table is a loop of ReadRow.
LEMMA DfLoop ==
  ASSUME NEW R, NEW t \in Seq(R)
  PROVE  \E v \in [0..Len(t) -> DfState(R)] :
           /\ v[0] = DfStart /\ v[Len(t)].disks = DiskInfoByDf(t)
           /\ \A k \in 1..Len(t) : v[k] = ReadRow(v[k - 1], t[k])
  <1>1. PICK n, S, base, step : /\ n = Len(t) /\ S = DfState(R) /\ base = DfStart
                                /\ step = [p \in S \X (1..n) |-> ReadRow(p[1], t[p[2]])]
    OBVIOUS
  <1>2. n \in Nat /\ DOMAIN t = 1..n /\ base \in S
    BY <1>1 DEF DfState, DfStart
  <1>3. step \in [S \X (1..n) -> S]
    <2>1. \A k \in 1..n : t[k] \in R
      BY <1>1
    <2> QED BY <1>1, <2>1, ReadRowFacts
  <1>4. PICK it : FoldsBy(it, n, S, base, step)
    BY <1>2, <1>3, FoldExists
  <1>5. it = [s \in SUBSET (DOMAIN t) |->
                IF s = {} THEN base ELSE ReadRow(it[s \ {Max(s)}], t[Max(s)])]
    <2>1. ASSUME NEW s \in SUBSET (1..n), s # {}
          PROVE  it[s] = ReadRow(it[s \ {Max(s)}], t[Max(s)])
      <3>1. Max(s) \in 1..n /\ s \ {Max(s)} \in SUBSET (1..n)
        BY <1>2, <2>1, LargestFacts
      <3> QED BY <1>1, <1>4, <2>1, <3>1 DEF FoldsBy
    <2> QED BY <1>2, <1>4, <2>1 DEF FoldsBy
  <1>6. PICK g : /\ g = [s \in SUBSET (DOMAIN t) |->
                           IF s = {} THEN base ELSE ReadRow(g[s \ {Max(s)}], t[Max(s)])]
                 /\ FoldLeft(ReadRow, base, t) = g[DOMAIN t]
    BY <1>5, Zenon DEF FoldLeft, MapThenFoldSet
  <1>7. g[{}] = base
    BY <1>6
  <1>8. ASSUME NEW s \in SUBSET (1..n), s # {}, g[s \ {Max(s)}] \in S
        PROVE  g[s] = step[<<g[s \ {Max(s)}], Max(s)>>]
    <2>1. Max(s) \in 1..n
      BY <1>2, <1>8, LargestFacts
    <2> QED BY <1>1, <1>2, <1>6, <1>8, <2>1
  <1>9. LoopEnds(g[1..n], n, S, base, step)
    BY <1>2, <1>3, <1>7, <1>8, FoldIsLoop
  <1>10. PICK v \in [0..n -> S] : /\ v[0] = base /\ v[n] = g[1..n]
                                  /\ \A k \in 1..n : v[k] = step[<<v[k - 1], k>>]
    BY <1>9 DEF LoopEnds
  <1>11. ASSUME NEW k \in 1..n PROVE v[k] = ReadRow(v[k - 1], t[k])
    <2>1. v[k - 1] \in S
      BY <1>2, <1>10
    <2> QED BY <1>1, <1>10, <2>1
  <1>12. v[n].disks = DiskInfoByDf(t)
    BY <1>1, <1>2, <1>6, <1>10 DEF DiskInfoByDf, DfStart
  <1> QED BY <1>1, <1>10, <1>11, <1>12

\* Another row at the end of what is listed in order.
LEMMA ListsOneMore ==
  ASSUME NEW R, NEW t \in Seq(R), NEW list \in Seq(R), NEW rows \in SUBSET Nat, NEW i \in DOMAIN t,
         ListsInOrder(list, t, rows), \A j \in rows : j < i
  PROVE  ListsInOrder(Append(list, t[i]), t, rows \cup {i})
  <1>1. PICK n, more : n = Len(list) /\ more = Append(list, t[i])
    OBVIOUS
  <1>2. PICK row \in [1..n -> rows] :
          /\ \A m \in 1..n : list[m] = t[row[m]]
          /\ \A l, m \in 1..n : l < m => row[l] < row[m]
          /\ \A j \in rows : \E m \in 1..n : row[m] = j
    BY <1>1 DEF ListsInOrder
  <1>3. /\ n \in Nat /\ Len(more) = n + 1 /\ more[n + 1] = t[i]
        /\ \A m \in 1..n : more[m] = list[m]
    <2>1. t[i] \in R
      OBVIOUS
    <2> QED BY <1>1, <2>1, AppendProperties
  <1>4. PICK next : next = [m \in 1..(n + 1) |-> IF m = n + 1 THEN i ELSE row[m]]
    OBVIOUS
  <1>5. next[n + 1] = i /\ \A m \in 1..n : next[m] = row[m] /\ row[m] \in rows
    BY <1>2, <1>3, <1>4
  <1>6. ASSUME NEW m \in 1..(n + 1) PROVE m = n + 1 \/ m \in 1..n
    BY <1>3
  <1>7. next \in [1..(n + 1) -> rows \cup {i}]
    BY <1>4, <1>5, <1>6
  <1>8. \A m \in 1..(n + 1) : more[m] = t[next[m]]
    BY <1>2, <1>3, <1>5, <1>6
  <1>9. ASSUME NEW l \in 1..(n + 1), NEW m \in 1..(n + 1), l < m
        PROVE  next[l] < next[m]
    <2>1. l \in 1..n
      BY <1>3, <1>9
    <2> QED BY <1>2, <1>5, <1>6, <1>9, <2>1
  <1>10. ASSUME NEW j \in rows \cup {i} PROVE \E m \in 1..(n + 1) : next[m] = j
    <2>1. CASE j = i
      BY <1>3, <1>5, <2>1
    <2>2. CASE j \in rows
      <3>1. PICK m \in 1..n : row[m] = j
        BY <1>2, <2>2
      <3> QED BY <1>3, <1>5, <3>1
    <2> QED BY <2>1, <2>2
  <1>11. PICK z : z = n + 1
    OBVIOUS
  <1>12. ListsInOrder(more, t, rows \cup {i})
    <2>1. Len(more) = z
      BY <1>3, <1>11
    <2>2. /\ next \in [1..z -> rows \cup {i}]
          /\ \A m \in 1..z : more[m] = t[next[m]]
          /\ \A l, m \in 1..z : l < m => next[l] < next[m]
          /\ \A j \in rows \cup {i} : \E m \in 1..z : next[m] = j
      BY <1>7, <1>8, <1>9, <1>10, <1>11
    <2> QED BY <2>1, <2>2, Zenon DEF ListsInOrder
  <1> QED BY <1>1, <1>12

\* The devices among the first k rows that are read.
DevicesOf(t, k) == {i \in 1..k : Readable(t, i) /\ t[i].dev}

\* DiskInfoByDf lists the devices that are read.
LEMMA DfListsDevices ==
  ASSUME NEW R, NEW t \in Seq(R)
  PROVE  /\ DiskInfoByDf(t) \in Seq(R)
         /\ ListsInOrder(DiskInfoByDf(t), t, DevicesOf(t, Len(t)))
  <1>1. PICK n, v : /\ n = Len(t) /\ v \in [0..n -> DfState(R)]
                    /\ v[0] = DfStart /\ v[n].disks = DiskInfoByDf(t)
                    /\ \A k \in 1..n : v[k] = ReadRow(v[k - 1], t[k])
    BY DfLoop
  <1>2. n \in Nat /\ DOMAIN t = 1..n /\ \A k \in 1..n : t[k] \in R
    BY <1>1
  <1> DEFINE Plain(k) == \A i \in 1..k : t[i].shape \notin {"dash", "space"}
             ReadTo(k) == /\ v[k].reading = TRUE <=> Plain(k)
                          /\ ListsInOrder(v[k].disks, t, DevicesOf(t, k))
  <1>3. ReadTo(0)
    <2>1. v[0].reading = TRUE /\ v[0].disks = <<>> /\ DevicesOf(t, 0) = {} /\ Plain(0)
      BY <1>1 DEF DfStart, DevicesOf
    <2>2. ListsInOrder(<<>>, t, {})
      <3>1. PICK row : row = [m \in 1..0 |-> 0]
        OBVIOUS
      <3>2. row \in [1..Len(<<>>) -> {}] /\ \A m \in 1..Len(<<>>) : FALSE
        BY <3>1
      <3> QED BY <3>2 DEF ListsInOrder
    <2> QED BY <2>1, <2>2
  <1>4. ASSUME NEW k \in 0..(n - 1), ReadTo(k) PROVE ReadTo(k + 1)
    <2>1. PICK i, s, w : i = k + 1 /\ s = v[k] /\ w = v[i]
      OBVIOUS
    <2>2. k \in 0..n /\ i \in 1..n /\ i - 1 = k /\ s \in DfState(R) /\ t[i] \in R
      BY <1>1, <1>2, <2>1
    <2>3. (s.reading = TRUE <=> Plain(k)) /\ ListsInOrder(s.disks, t, DevicesOf(t, k))
      BY <1>4, <2>1
    <2>4. /\ w.reading = TRUE <=> s.reading = TRUE /\ t[i].shape \notin {"dash", "space"}
          /\ w.disks = IF s.reading = TRUE /\ t[i].shape # "dash" /\ t[i].dev
                         THEN Append(s.disks, t[i]) ELSE s.disks
      <3>1. w = ReadRow(s, t[i])
        BY <1>1, <2>1, <2>2
      <3> QED BY <2>2, <3>1, ReadRowFacts
    <2>5. \A j \in 1..i : j = i \/ j \in 1..k
      BY <2>1, <2>2
    <2>6. w.reading = TRUE <=> Plain(i)
      <3>1. Plain(i) <=> Plain(k) /\ t[i].shape \notin {"dash", "space"}
        <4>1. i \in 1..i /\ \A j \in 1..k : j \in 1..i
          BY <2>1, <2>2
        <4> QED BY <2>5, <4>1
      <3> QED BY <2>3, <2>4, <3>1
    <2>7. Readable(t, i) <=> Plain(k) /\ t[i].shape # "dash"
      <3>1. \A j \in 1..k : j \in 1..i /\ j < i
        BY <2>1, <2>2
      <3> QED BY <2>2, <2>5, <3>1 DEF Readable
    <2>8. DevicesOf(t, i) = IF Readable(t, i) /\ t[i].dev THEN DevicesOf(t, k) \cup {i} ELSE DevicesOf(t, k)
      BY <2>1, <2>2 DEF DevicesOf
    <2>9. ListsInOrder(w.disks, t, DevicesOf(t, i))
      <3>1. CASE Readable(t, i) /\ t[i].dev
        <4>1. DevicesOf(t, k) \in SUBSET Nat /\ \A j \in DevicesOf(t, k) : j < i
          BY <2>1, <2>2 DEF DevicesOf
        <4>2. s.disks \in Seq(R) /\ i \in DOMAIN t
          BY <1>2, <2>2 DEF DfState
        <4>3. ListsInOrder(Append(s.disks, t[i]), t, DevicesOf(t, k) \cup {i})
          BY <2>3, <4>1, <4>2, ListsOneMore
        <4> QED BY <2>3, <2>4, <2>7, <2>8, <3>1, <4>3
      <3>2. CASE ~(Readable(t, i) /\ t[i].dev)
        BY <2>3, <2>4, <2>7, <2>8, <3>2
      <3> QED BY <3>1, <3>2
    <2> QED BY <2>1, <2>6, <2>9
  <1>5. ReadTo(n)
    <2> HIDE DEF ReadTo
    <2>1. PICK T : T = {k \in 0..n : ReadTo(k)}
      OBVIOUS
    <2>2. 0 \in T /\ \A k \in 0..(n - 1) : k \in T => k + 1 \in T
      BY <1>2, <1>3, <1>4, <2>1
    <2>3. n \in T
      BY <1>2, <2>2, LoopInduction
    <2> QED BY <2>1, <2>3
  <1>6. v[n].disks \in Seq(R)
    BY <1>1, <1>2 DEF DfState
  <1> QED BY <1>1, <1>5, <1>6

\* They are the devices of the rows fscanf gets through.
LEMMA DevicesReadable ==
  ASSUME NEW R, NEW t \in Seq(R)
  PROVE  DevicesOf(t, Len(t)) = {i \in 1..ReadableRows(t) : t[i].dev}
  <1>1. PICK n, r, s : /\ n = Len(t) /\ r = ReadableRows(t)
                       /\ s = {k \in 0..Len(t) : Readable(t, k)}
    OBVIOUS
  <1>2. n \in Nat /\ 0 \in s /\ s \in SUBSET (0..n)
    BY <1>1 DEF Readable
  <1>3. r \in s /\ \A k \in s : k <= r
    BY <1>1, <1>2, LargestOf DEF ReadableRows
  <1>4. r \in 0..n /\ Readable(t, r)
    BY <1>1, <1>3
  <1>5. ASSUME NEW i \in 1..n PROVE Readable(t, i) <=> i <= r
    <2>1. CASE Readable(t, i)
      BY <1>1, <1>2, <1>3, <2>1
    <2>2. CASE i <= r
      <3>1. \A j \in 1..i : j \in 1..r /\ (j < i => j < r)
        BY <1>2, <1>4, <2>2
      <3> QED BY <1>4, <2>2, <3>1 DEF Readable
    <2> QED BY <2>1, <2>2
  <1>6. \A i \in Nat : i \in 1..r <=> i \in 1..n /\ i <= r
    BY <1>2, <1>4
  <1> QED BY <1>1, <1>5, <1>6 DEF DevicesOf

-----------------------------------------------------------------------------
(* Sums over disks.                                                        *)

\* The fold over one number of each disk is a loop that adds it.
LEMMA SumLoop ==
  ASSUME NEW disks \in Seq(DfRow), NEW field \in {"blocks", "used"}
  PROVE  \E v \in [0..Len(disks) -> Nat] :
           /\ v[0] = 0 /\ v[Len(disks)] = FoldLeft(LAMBDA sum, d : sum + d[field], 0, disks)
           /\ \A k \in 1..Len(disks) : v[k] = v[k - 1] + disks[k][field]
  <1>1. PICK n, step : /\ n = Len(disks)
                       /\ step = [p \in Nat \X (1..n) |-> p[1] + disks[p[2]][field]]
    OBVIOUS
  <1>2. n \in Nat /\ DOMAIN disks = 1..n
    BY <1>1
  <1>3. \A k \in 1..n : disks[k][field] \in Nat
    <2>1. \A k \in 1..n : disks[k] \in DfRow
      BY <1>1
    <2>2. \A d \in DfRow : d["blocks"] \in Nat /\ d["used"] \in Nat
      BY DEF DfRow
    <2> QED BY <2>1, <2>2
  <1>4. step \in [Nat \X (1..n) -> Nat]
    BY <1>1, <1>3
  <1>5. PICK it : FoldsBy(it, n, Nat, 0, step)
    BY <1>2, <1>4, FoldExists
  <1>6. it = [s \in SUBSET (DOMAIN disks) |->
                IF s = {} THEN 0 ELSE it[s \ {Max(s)}] + disks[Max(s)][field]]
    <2>1. ASSUME NEW s \in SUBSET (1..n), s # {}
          PROVE  it[s] = it[s \ {Max(s)}] + disks[Max(s)][field]
      <3>1. Max(s) \in 1..n /\ s \ {Max(s)} \in SUBSET (1..n)
        BY <1>2, <2>1, LargestFacts
      <3> QED BY <1>1, <1>5, <2>1, <3>1 DEF FoldsBy
    <2> QED BY <1>2, <1>5, <2>1 DEF FoldsBy
  <1>7. PICK g : /\ g = [s \in SUBSET (DOMAIN disks) |->
                           IF s = {} THEN 0 ELSE g[s \ {Max(s)}] + disks[Max(s)][field]]
                 /\ FoldLeft(LAMBDA sum, d : sum + d[field], 0, disks) = g[DOMAIN disks]
    BY <1>6, Zenon DEF FoldLeft, MapThenFoldSet
  <1>8. g[{}] = 0
    BY <1>7
  <1>9. ASSUME NEW s \in SUBSET (1..n), s # {}, g[s \ {Max(s)}] \in Nat
        PROVE  g[s] = step[<<g[s \ {Max(s)}], Max(s)>>]
    <2>1. Max(s) \in 1..n
      BY <1>2, <1>9, LargestFacts
    <2> QED BY <1>1, <1>2, <1>7, <1>9, <2>1
  <1>10. LoopEnds(g[1..n], n, Nat, 0, step)
    <2>1. PICK S, base : S = Nat /\ base = 0
      OBVIOUS
    <2>2. base \in S /\ n \in Nat /\ step \in [S \X (1..n) -> S] /\ g[{}] = base
      BY <1>2, <1>4, <1>8, <2>1
    <2>3. \A s \in SUBSET (1..n) : s # {} /\ g[s \ {Max(s)}] \in S
                                     => g[s] = step[<<g[s \ {Max(s)}], Max(s)>>]
      BY <1>9, <2>1
    <2>4. LoopEnds(g[1..n], n, S, base, step)
      BY <2>2, <2>3, FoldIsLoop
    <2> QED BY <2>1, <2>4
  <1>11. PICK v \in [0..n -> Nat] : /\ v[0] = 0 /\ v[n] = g[1..n]
                                    /\ \A k \in 1..n : v[k] = step[<<v[k - 1], k>>]
    BY <1>10 DEF LoopEnds
  <1>12. \A k \in 1..n : v[k] = v[k - 1] + disks[k][field]
    <2> SUFFICES ASSUME NEW k \in 1..n PROVE v[k] = v[k - 1] + disks[k][field]
      OBVIOUS
    <2>1. v[k - 1] \in Nat
      BY <1>2, <1>11
    <2> QED BY <1>1, <1>11, <2>1
  <1>13. v[n] = FoldLeft(LAMBDA sum, d : sum + d[field], 0, disks)
    BY <1>2, <1>7, <1>11
  <1> QED BY <1>1, <1>11, <1>12, <1>13, Zenon

\* Rows with no more used than there is.
FittingRow == {row \in DfRow : row.used <= row.blocks}

\* They sum up to no more used than there is.
LEMMA UsedFits ==
  ASSUME NEW disks \in Seq(FittingRow)
  PROVE  DiskUsed(disks) <= DiskTotal(disks)
  <1>1. PICK n : n = Len(disks)
    OBVIOUS
  <1>2. n \in Nat /\ disks \in Seq(DfRow) /\ \A k \in 1..n : disks[k] \in FittingRow
    BY <1>1 DEF FittingRow
  <1>3. PICK u \in [0..n -> Nat] :
          /\ u[0] = 0 /\ u[n] = DiskUsed(disks)
          /\ \A k \in 1..n : u[k] = u[k - 1] + disks[k]["used"]
    BY <1>1, <1>2, SumLoop, Zenon DEF DiskUsed
  <1>4. PICK b \in [0..n -> Nat] :
          /\ b[0] = 0 /\ b[n] = DiskTotal(disks)
          /\ \A k \in 1..n : b[k] = b[k - 1] + disks[k]["blocks"]
    BY <1>1, <1>2, SumLoop, Zenon DEF DiskTotal
  <1>5. PICK T : T = {k \in 0..n : u[k] <= b[k]}
    OBVIOUS
  <1>6. 0 \in T
    BY <1>2, <1>3, <1>4, <1>5
  <1>7. ASSUME NEW k \in 0..(n - 1), k \in T PROVE k + 1 \in T
    <2>1. k + 1 \in 1..n /\ (k + 1) - 1 = k /\ u[k] <= b[k] /\ u[k] \in Nat /\ b[k] \in Nat
      BY <1>2, <1>5, <1>7
    <2>2. PICK x, y : x = disks[k + 1]["used"] /\ y = disks[k + 1]["blocks"]
      OBVIOUS
    <2>3. x \in Nat /\ y \in Nat /\ x <= y
      <3>1. disks[k + 1] \in FittingRow
        BY <1>2, <2>1
      <3> QED BY <2>2, <3>1 DEF FittingRow, DfRow
    <2>4. u[k + 1] = u[k] + x /\ b[k + 1] = b[k] + y
      BY <1>3, <1>4, <2>1, <2>2
    <2>5. u[k + 1] <= b[k + 1]
      BY <2>1, <2>3, <2>4
    <2> QED BY <1>2, <1>5, <2>1, <2>5
  <1>8. n \in T
    <2>1. \A k \in 0..(n - 1) : k \in T => k + 1 \in T
      BY <1>7
    <2>2. n \in Nat
      BY <1>2
    <2>3. \A k \in 0..n : k \in T
      BY <1>6, <2>1, <2>2, LoopInduction
    <2> QED BY <2>2, <2>3
  <1> QED BY <1>3, <1>4, <1>5, <1>8

\* Nothing sums up to nothing.
LEMMA NoDisks == DiskTotal(<<>>) = 0
  <1>1. <<>> \in Seq(DfRow) /\ Len(<<>>) = 0
    OBVIOUS
  <1>2. PICK v : v[0] = 0 /\ v[0] = DiskTotal(<<>>)
    BY <1>1, SumLoop, Zenon DEF DiskTotal
  <1> QED BY <1>2

-----------------------------------------------------------------------------
(* Readings.                                                               *)

\* The readings of a document are a sequence of kinds.
LEMMA ReadingsKinds ==
  ASSUME NEW r \in Requests \cup {"startup"}
  PROVE  Readings(r) \in Seq(Kinds)
  <1>1. CASE r = "startup"
    <2>1. Readings(r) = <<"total", "unused", "share", "df", "model", "clock", "usage">>
      BY <1>1 DEF Readings
    <2> QED BY <2>1 DEF Kinds
  <1>2. CASE r = "RequestBaseInfo"
    <2>1. Readings(r) = <<"model", "clock", "usage", "total", "unused", "share", "df">>
      BY <1>2 DEF Readings
    <2> QED BY <2>1 DEF Kinds
  <1>3. CASE r \in {"DisksOverview", "DisksInfo"}
    <2>1. Readings(r) = <<"df", "df">>
      BY <1>3 DEF Readings
    <2> QED BY <2>1 DEF Kinds
  <1>4. CASE r = "DiskIO"
    <2>1. Readings(r) = <<"io">>
      BY <1>4 DEF Readings
    <2> QED BY <2>1 DEF Kinds
  <1> QED BY <1>1, <1>2, <1>3, <1>4 DEF Requests

\* A sequence gets an element.
LEMMA OneMore ==
  ASSUME NEW S, NEW f \in Seq(S), NEW x \in S
  PROVE  /\ Len(Append(f, x)) = Len(f) + 1
         /\ Append(f, x) = [i \in 1..(Len(f) + 1) |-> Append(f, x)[i]]
         /\ \A i \in 1..Len(f) : Append(f, x)[i] = f[i]
         /\ Append(f, x)[Len(f) + 1] = x
  <1>1. PICK g : g = Append(f, x)
    OBVIOUS
  <1>2. /\ g \in Seq(S) /\ Len(g) = Len(f) + 1
        /\ (\A i \in 1..Len(f) : g[i] = f[i]) /\ g[Len(f) + 1] = x
    BY <1>1, AppendProperties
  <1>3. g = [i \in 1..Len(g) |-> g[i]]
    BY <1>2
  <1> QED BY <1>1, <1>2, <1>3

\* What has been read is a sequence of values.
LEMMA ReadSequences ==
  ASSUME ReadInOrder, request # NoRequest
  PROVE  /\ got \in Seq(UNION {Values(k) : k \in Kinds})
         /\ seen \in Seq(UNION {Sights(k) : k \in Kinds})
  <1>1. /\ request \in Requests \cup {"startup"} /\ Len(got) \in Nat
        /\ got = [i \in 1..Len(got) |-> got[i]] /\ seen = [i \in 1..Len(got) |-> seen[i]]
        /\ Len(got) <= Len(Readings(request))
        /\ \A i \in 1..Len(got) : got[i] \in Values(Readings(request)[i]) /\ seen[i] \in Sights(Readings(request)[i])
    BY DEF ReadInOrder, Match
  <1>2. \A i \in 1..Len(got) : Readings(request)[i] \in Kinds
    BY <1>1, ReadingsKinds
  <1>3. \A i \in 1..Len(got) : /\ got[i] \in UNION {Values(k) : k \in Kinds}
                               /\ seen[i] \in UNION {Sights(k) : k \in Kinds}
    BY <1>1, <1>2
  <1> QED BY <1>1, <1>3, AsSequence

\* A reading of the kind that is due adds a value and what it saw.
LEMMA GotStep ==
  ASSUME ReadInOrder, NEW kind \in Kinds, Due(kind), NEW v, NEW s, Match(kind, v, s), Got(v, s)
  PROVE  ReadInOrder' /\ UNCHANGED <<request, reply, known>>
  <1>1. UNCHANGED <<request, reply, known>> /\ got' = Append(got, v) /\ seen' = Append(seen, s)
    BY DEF Got
  <1>2. /\ request # NoRequest /\ request \in Requests \cup {"startup"}
        /\ Len(got) < Len(Readings(request)) /\ Readings(request)[Len(got) + 1] = kind
        /\ Len(seen) = Len(got) /\ Len(got) \in Nat
        /\ \A i \in 1..Len(got) : Match(Readings(request)[i], got[i], seen[i])
    BY DEF ReadInOrder, Due
  <1>3. Len(Readings(request)) \in Nat
    BY <1>2, ReadingsKinds
  <1>4. PICK V, S, n : /\ V = UNION {Values(k) : k \in Kinds} /\ S = UNION {Sights(k) : k \in Kinds}
                       /\ n = Len(got)
    OBVIOUS
  <1>5. got \in Seq(V) /\ seen \in Seq(S) /\ v \in V /\ s \in S /\ Len(got) = n /\ Len(seen) = n
    BY <1>2, <1>4, ReadSequences DEF Match
  <1>6. /\ Len(got') = n + 1 /\ got' = [i \in 1..(n + 1) |-> got'[i]]
        /\ (\A i \in 1..n : got'[i] = got[i]) /\ got'[n + 1] = v
    BY <1>1, <1>5, OneMore
  <1>7. /\ Len(seen') = n + 1 /\ seen' = [i \in 1..(n + 1) |-> seen'[i]]
        /\ (\A i \in 1..n : seen'[i] = seen[i]) /\ seen'[n + 1] = s
    BY <1>1, <1>5, OneMore
  <1>8. ASSUME NEW i \in 1..(n + 1)
        PROVE  Match(Readings(request)[i], got'[i], seen'[i])
    <2>1. CASE i = n + 1
      BY <1>2, <1>4, <1>6, <1>7, <2>1
    <2>2. CASE i # n + 1
      <3>1. i \in 1..n /\ n \in Nat
        BY <1>2, <1>4, <2>2
      <3> QED BY <1>2, <1>4, <1>6, <1>7, <3>1
    <2> QED BY <2>1, <2>2
  <1>9. \A i \in 1..Len(got') : Match(Readings(request)[i], got[i], seen[i])'
    BY <1>1, <1>6, <1>8 DEF Match, FromCache
  <1>10. n + 1 \in Nat /\ n + 1 <= Len(Readings(request))
    BY <1>2, <1>3, <1>4
  <1> QED BY <1>1, <1>2, <1>6, <1>7, <1>9, <1>10 DEF ReadInOrder

\* What does not touch the reply and what was known at start-up keeps the
\* properties of the reply.
LEMMA ReplyFrame ==
  ASSUME UNCHANGED <<reply, known>>, InfoMatchesDf, IdentityKeptSinceStartup, DocumentsOfTwoRuns
  PROVE  InfoMatchesDf' /\ IdentityKeptSinceStartup' /\ DocumentsOfTwoRuns'
  BY DEF InfoMatchesDf, IdentityKeptSinceStartup, DocumentsOfTwoRuns

\* A look-up takes what the cache has, or fills it.
LEMMA LookUpStep ==
  ASSUME IInv, NEW kind, NEW field, NEW value, LookUp(kind, field, value),
         \/ kind = "model" /\ field = "modelName" /\ value = "modelName"
         \/ kind = "clock" /\ field = "baseClock" /\ value = "cpuMhz"
  PROVE  IInv'
  <1>1. /\ CacheKept /\ ReadInOrder /\ kind \in Kinds
        /\ InfoMatchesDf /\ IdentityKeptSinceStartup /\ DocumentsOfTwoRuns
    BY DEF IInv, Kinds
  <1>2. Due(kind)
    BY DEF LookUp
  <1>3. CASE cache[field] # <<>> /\ Got(cache[field], NoReading) /\ UNCHANGED cache
    <2>1. PICK v : v = cache[field]
      OBVIOUS
    <2>2. /\ v # <<>> /\ v \in Values(kind) /\ NoReading \in Sights(kind)
          /\ known[field] # <<>> => v = known[field]
      BY <1>1, <1>3, <2>1 DEF CacheKept, Sights
    <2>3. Match(kind, v, NoReading)
      BY <2>2 DEF Match, FromCache
    <2>4. ReadInOrder' /\ UNCHANGED <<request, reply, known>>
      BY <1>1, <1>2, <1>3, <2>1, <2>3, GotStep
    <2>5. CacheKept'
      BY <1>1, <1>3, <2>4 DEF CacheKept
    <2> QED BY <1>1, <2>4, <2>5, ReplyFrame DEF IInv
  <1>4. CASE /\ cache[field] = <<>>
             /\ \E f \in Cpuinfos :
                  LET found == GetCPUModelNameAndBaseClock(f)[value]
                  IN  cache' = [cache EXCEPT ![field] = found] /\ Got(found, f)
    <2>1. PICK f \in Cpuinfos :
            /\ cache' = [cache EXCEPT ![field] = GetCPUModelNameAndBaseClock(f)[value]]
            /\ Got(GetCPUModelNameAndBaseClock(f)[value], f)
      BY <1>4
    <2>2. PICK v : v = GetCPUModelNameAndBaseClock(f)[value]
      OBVIOUS
    <2>3. known[field] = <<>>
      BY <1>1, <1>4 DEF CacheKept
    <2>4. v \in Values(kind) /\ f \in Sights(kind) /\ f # NoReading
      BY <2>2, MonitorAssumption DEF Values, Sights
    <2>5. Match(kind, v, f)
      BY <2>2, <2>3, <2>4 DEF Match, FromCache
    <2>6. ReadInOrder' /\ UNCHANGED <<request, reply, known>>
      BY <1>1, <1>2, <2>1, <2>2, <2>5, GotStep
    <2>7. CacheKept'
      BY <1>1, <2>1, <2>2, <2>3, <2>4, <2>6 DEF CacheKept
    <2> QED BY <1>1, <2>6, <2>7, ReplyFrame DEF IInv
  <1> QED BY <1>3, <1>4 DEF LookUp

\* Readings of other kinds leave the cache alone.
LEMMA ReadStep ==
  ASSUME IInv, AskMemory \/ RunDf \/ AskSamplers
  PROVE  IInv'
  <1>1. /\ CacheKept /\ ReadInOrder /\ cache' = cache
        /\ InfoMatchesDf /\ IdentityKeptSinceStartup /\ DocumentsOfTwoRuns
    BY DEF IInv, AskMemory, RunDf, AskSamplers
  <1>2. ReadInOrder' /\ UNCHANGED <<request, reply, known>>
    <2>1. CASE AskMemory
      <3>1. PICK m \in Meminfos :
              \/ Due("total")  /\ Got(GetMemoryTotal(m), m)
              \/ Due("unused") /\ Got(GetMemoryUnused(m), m)
              \/ Due("share")  /\ \E h \in GetMemoryUsage(m) : Got(h, m)
        BY <2>1 DEF AskMemory
      <3>2. CASE Due("total") /\ Got(GetMemoryTotal(m), m)
        <4>1. Match("total", GetMemoryTotal(m), m)
          BY DEF Match, Values, Sights
        <4> QED BY <1>1, <3>2, <4>1, GotStep DEF Kinds
      <3>3. CASE Due("unused") /\ Got(GetMemoryUnused(m), m)
        <4>1. Match("unused", GetMemoryUnused(m), m)
          BY DEF Match, Values, Sights
        <4> QED BY <1>1, <3>3, <4>1, GotStep DEF Kinds
      <3>4. CASE Due("share") /\ \E h \in GetMemoryUsage(m) : Got(h, m)
        <4>1. PICK h \in GetMemoryUsage(m) : Got(h, m)
          BY <3>4
        <4>2. Match("share", h, m)
          BY DEF Match, Values, Sights
        <4> QED BY <1>1, <3>4, <4>1, <4>2, GotStep DEF Kinds
      <3> QED BY <3>1, <3>2, <3>3, <3>4
    <2>2. CASE RunDf
      <3>1. PICK t \in Tables : Got(DiskInfoByDf(t), t)
        BY <2>2 DEF RunDf
      <3>2. Match("df", DiskInfoByDf(t), t)
        BY DEF Match, Values, Sights
      <3> QED BY <1>1, <2>2, <3>1, <3>2, GotStep DEF RunDf, Kinds
    <2>3. CASE AskSamplers
      <3>1. Match("usage", CpuUsage, NoReading) /\ Match("io", DiskIO, NoReading)
        BY DEF Match, Values, Sights
      <3> QED BY <1>1, <2>3, <3>1, GotStep DEF AskSamplers, Kinds
    <2> QED BY <2>1, <2>2, <2>3
  <1>3. CacheKept'
    BY <1>1, <1>2 DEF CacheKept
  <1> QED BY <1>1, <1>2, <1>3, ReplyFrame DEF IInv

-----------------------------------------------------------------------------
(* The life of a document.                                                 *)

\* No reading has been made.
LEMMA NothingRead == <<>> = [i \in 1..Len(<<>>) |-> <<>>[i]] /\ Len(<<>>) = 0
  OBVIOUS

\* A request begins with no reading, and the reply of the last one is gone.
LEMMA BeginStep ==
  ASSUME IInv, Begin
  PROVE  IInv'
  <1>1. /\ request = NoRequest /\ request' \in Requests /\ reply' = NoReply
        /\ UNCHANGED <<cache, got, seen, known>>
    BY DEF Begin
  <1>2. CacheKept /\ ReadInOrder
    BY DEF IInv
  <1>3. CacheKept'
    BY <1>1, <1>2 DEF CacheKept
  <1>4. got = <<>> /\ Len(got) = 0 /\ request' # NoRequest
    BY <1>1, <1>2, MonitorAssumption DEF ReadInOrder
  <1>5. Len(Readings(request')) \in Nat
    BY <1>1, ReadingsKinds
  <1>6. ReadInOrder'
    BY <1>1, <1>2, <1>4, <1>5 DEF ReadInOrder
  <1>7. reply'.request \notin {"RequestBaseInfo", "DisksOverview", "DisksInfo"}
    BY <1>1, MonitorAssumption DEF NoReply, Requests
  <1>8. InfoMatchesDf' /\ IdentityKeptSinceStartup' /\ DocumentsOfTwoRuns'
    BY <1>7 DEF InfoMatchesDf, IdentityKeptSinceStartup, DocumentsOfTwoRuns
  <1> QED BY <1>3, <1>6, <1>8 DEF IInv

\* The readings of a complete RequestBaseInfo.
LEMMA InfoReadings ==
  ASSUME ReadInOrder, request = "RequestBaseInfo", Len(got) = Len(Readings(request))
  PROVE  /\ Match("model", got[1], seen[1]) /\ Match("clock", got[2], seen[2])
         /\ Match("usage", got[3], seen[3]) /\ Match("total", got[4], seen[4])
         /\ Match("unused", got[5], seen[5]) /\ Match("share", got[6], seen[6])
         /\ Match("df", got[7], seen[7])
  <1>1. PICK r : r = Readings(request)
    OBVIOUS
  <1>2. r = <<"model", "clock", "usage", "total", "unused", "share", "df">>
    BY <1>1 DEF Readings
  <1>3. Len(r) = 7 /\ r[1] = "model" /\ r[2] = "clock" /\ r[3] = "usage" /\ r[4] = "total"
        /\ r[5] = "unused" /\ r[6] = "share" /\ r[7] = "df"
    BY <1>2
  <1>4. request # NoRequest
    BY MonitorAssumption DEF Requests
  <1>5. \A i \in 1..7 : Match(r[i], got[i], seen[i])
    BY <1>1, <1>3, <1>4 DEF ReadInOrder
  <1> QED BY <1>3, <1>5

\* The readings of the complete documents that run df twice.
LEMMA TwoReadings ==
  ASSUME ReadInOrder, request \in {"DisksOverview", "DisksInfo"}, Len(got) = Len(Readings(request))
  PROVE  Match("df", got[1], seen[1]) /\ Match("df", got[2], seen[2])
  <1>1. PICK r : r = Readings(request)
    OBVIOUS
  <1>2. r = <<"df", "df">>
    BY <1>1 DEF Readings
  <1>3. Len(r) = 2 /\ r[1] = "df" /\ r[2] = "df"
    BY <1>2
  <1>4. request # NoRequest
    BY MonitorAssumption DEF Requests
  <1>5. \A i \in 1..2 : Match(r[i], got[i], seen[i])
    BY <1>1, <1>3, <1>4 DEF ReadInOrder
  <1> QED BY <1>3, <1>5

\* The document is made of the readings, and replied with them.
LEMMA FinishStep ==
  ASSUME IInv, Finish
  PROVE  IInv'
  <1>1. CacheKept /\ ReadInOrder
    BY DEF IInv
  <1>2. /\ request # NoRequest /\ Len(got) = Len(Readings(request))
        /\ known' = (IF request = "startup" THEN cache ELSE known)
        /\ request' = NoRequest /\ got' = <<>> /\ seen' = <<>> /\ cache' = cache
        /\ reply'.request = request /\ reply'.seen = seen
        /\ request = "RequestBaseInfo" => reply'.value = GetInfoByJson(got)
    BY DEF Finish
  <1>3. CacheKept'
    BY <1>1, <1>2 DEF CacheKept
  <1>4. ReadInOrder'
    BY <1>2, NothingRead DEF ReadInOrder
  <1>8. DocumentsOfTwoRuns'
    <2> SUFFICES ASSUME request \in {"DisksOverview", "DisksInfo"} PROVE DocumentsOfTwoRuns'
      BY <1>2 DEF DocumentsOfTwoRuns
    <2>1. Match("df", got[1], seen[1]) /\ Match("df", got[2], seen[2])
      BY <1>1, <1>2, TwoReadings
    <2>2. /\ got[1] = DiskInfoByDf(seen[1]) /\ got[2] = DiskInfoByDf(seen[2])
          /\ seen[1] \in Tables /\ seen[2] \in Tables
      BY <2>1 DEF Match, Sights
    <2>3. reply'.value = IF request = "DisksInfo" THEN DisksInfo(got[1], got[2])
                                                 ELSE DiskInfoOverview(got[1], got[2])
      BY DEF Finish
    <2> QED BY <1>2, <2>2, <2>3 DEF DocumentsOfTwoRuns
  <1>5. CASE request # "RequestBaseInfo"
    BY <1>2, <1>3, <1>4, <1>5, <1>8 DEF InfoMatchesDf, IdentityKeptSinceStartup, IInv
  <1>6. CASE request = "RequestBaseInfo" /\ GetInfoByJson(got) = Null
    BY <1>2, <1>3, <1>4, <1>6, <1>8 DEF InfoMatchesDf, IdentityKeptSinceStartup, IInv
  <1>7. CASE request = "RequestBaseInfo" /\ GetInfoByJson(got) # Null
    <2>1. /\ got[1] \in Values("model") /\ got[2] \in Values("clock") /\ got[3] \in Values("usage")
          /\ got[4] \in Values("total") /\ got[5] \in Values("unused") /\ got[6] \in Values("share")
          /\ got[7] = DiskInfoByDf(seen[7])
          /\ FromCache("modelName", "modelName", got[1], seen[1])
          /\ FromCache("baseClock", "cpuMhz", got[2], seen[2])
      BY <1>1, <1>2, <1>7, InfoReadings DEF Match
    <2>2. got[3] = CpuUsage
      BY <2>1 DEF Values
    <2>3. PICK info : info = GetInfoByJson(got)
      OBVIOUS
    <2>4. /\ DOMAIN info = {<<"cpu">>, <<"memory">>} \cup {<<"disk", n>> : n \in 0..(Len(got[7]) - 1)}
          /\ \A n \in 0..(Len(got[7]) - 1) : info[<<"disk", n>>] = got[7][n + 1]
          /\ info[<<"cpu">>] = [modelName |-> got[1], baseClock |-> got[2], usage |-> got[3]]
      BY <1>7, <2>1, <2>2, <2>3, InfoDocument
    <2>5. reply'.value = info /\ known' = known
      BY <1>2, <1>7, <2>3
    <2>6. InfoMatchesDf'
      BY <1>2, <2>1, <2>4, <2>5 DEF InfoMatchesDf
    <2>7. info[<<"cpu">>]["modelName"] = got[1] /\ info[<<"cpu">>]["baseClock"] = got[2]
      BY <2>4
    <2>8. IdentityKeptSinceStartup'
      BY <1>2, <1>7, <2>1, <2>5, <2>7 DEF IdentityKeptSinceStartup, FromCache
    <2> QED BY <1>3, <1>4, <1>8, <2>6, <2>8 DEF IInv
  <1> QED BY <1>5, <1>6, <1>7

-----------------------------------------------------------------------------
(* The theorems.                                                           *)

\* When main starts nothing has been read.
LEMMA InitIInv == Init => IInv
  <1> SUFFICES ASSUME Init PROVE IInv
    OBVIOUS
  <1>1. /\ cache = [modelName |-> <<>>, baseClock |-> <<>>] /\ known = cache
        /\ request = "startup" /\ got = <<>> /\ seen = <<>> /\ reply = NoReply
    BY DEF Init
  <1>2. CacheKept
    BY <1>1 DEF CacheKept
  <1>3. Len(Readings(request)) \in Nat
    BY <1>1, ReadingsKinds
  <1>4. ReadInOrder
    BY <1>1, <1>3, NothingRead, MonitorAssumption DEF ReadInOrder
  <1>5. reply.request \notin {"RequestBaseInfo", "DisksOverview", "DisksInfo"}
    BY <1>1, MonitorAssumption DEF NoReply, Requests
  <1> QED BY <1>2, <1>4, <1>5 DEF InfoMatchesDf, IdentityKeptSinceStartup, DocumentsOfTwoRuns, IInv

\* Every reading, request and reply keeps the invariant.
LEMMA NextIInv == IInv /\ [Next]_vars => IInv'
  <1> SUFFICES ASSUME IInv, [Next]_vars PROVE IInv'
    OBVIOUS
  <1>1. CASE UNCHANGED vars
    BY <1>1 DEF vars, IInv, CacheKept, ReadInOrder, Match, FromCache, InfoMatchesDf,
                IdentityKeptSinceStartup, DocumentsOfTwoRuns
  <1>2. CASE GetCPUModelName \/ GetCpuBaseClock
    BY <1>2, LookUpStep DEF GetCPUModelName, GetCpuBaseClock
  <1>3. CASE AskMemory \/ RunDf \/ AskSamplers
    BY <1>3, ReadStep
  <1>4. CASE Begin
    BY <1>4, BeginStep
  <1>5. CASE Finish
    BY <1>5, FinishStep
  <1> QED BY <1>1, <1>2, <1>3, <1>4, <1>5 DEF Next

\* The inductive invariant holds in every reachable state.
THEOREM Invariance == Spec => []IInv
  BY InitIInv, NextIInv, PTL DEF Spec

\* A document of GetInfoByJson that is not null has the CPU, the memory and each
\* disk of its own run of df, under its number.
THEOREM InfoIsOfDf == Spec => []InfoMatchesDf
  <1>1. IInv => InfoMatchesDf
    BY DEF IInv
  <1> QED BY <1>1, Invariance, PTL

\* The identity found before the server became ready is in every document.
THEOREM IdentityKept == Spec => []IdentityKeptSinceStartup
  <1>1. IInv => IdentityKeptSinceStartup
    BY DEF IInv
  <1> QED BY <1>1, Invariance, PTL

\* The disks of a table df may print.
LEMMA TableDisks ==
  ASSUME NEW t \in Tables
  PROVE  /\ t \in Seq(FittingRow) /\ DiskInfoByDf(t) \in Seq(FittingRow)
         /\ ListsInOrder(DiskInfoByDf(t), t, {i \in 1..ReadableRows(t) : t[i].dev})
         /\ DiskInfoByDf(t) # Null
  <1>1. t \in Seq(DfRow) /\ \A i \in DOMAIN t : t[i].used <= t[i].blocks
    BY MonitorAssumption
  <1>2. t \in Seq(FittingRow)
    <2>1. \A i \in 1..Len(t) : t[i] \in FittingRow
      BY <1>1 DEF FittingRow
    <2>2. t = [i \in 1..Len(t) |-> t[i]] /\ Len(t) \in Nat
      BY <1>1
    <2> QED BY <2>1, <2>2, AsSequence
  <1>3. DiskInfoByDf(t) # Null
    BY MonitorAssumption DEF Values
  <1> QED BY <1>2, <1>3, DfListsDevices, DevicesReadable

\* Whatever df prints, the list of DisksInfo holds each device of the rows that can
\* be read, once and in the order of df.
THEOREM ListReadable == Spec => []ListIsReadablePrefix
  <1>1. IInv => ListIsReadablePrefix
    <2> SUFFICES ASSUME DocumentsOfTwoRuns, reply.request = "DisksInfo"
                 PROVE  ListIsReadablePrefix
      BY DEF IInv, ListIsReadablePrefix
    <2>1. PICK t, disks, list, devices :
            /\ t = reply.seen[1] /\ disks = DiskInfoByDf(t) /\ list = reply.value.list
            /\ devices = {i \in 1..ReadableRows(t) : t[i].dev}
      OBVIOUS
    <2>2. t \in Tables /\ list = IF disks = <<>> THEN Null ELSE disks
      BY <2>1 DEF DocumentsOfTwoRuns, DisksInfo
    <2>3. disks \in Seq(FittingRow) /\ ListsInOrder(disks, t, devices)
      BY <2>1, <2>2, TableDisks
    <2>4. PICK row \in [1..Len(disks) -> devices] :
            \A i \in devices : \E n \in 1..Len(disks) : row[n] = i
      BY <2>3 DEF ListsInOrder
    <2>5. CASE devices = {}
      <3>1. 1..Len(disks) = {}
        BY <2>4, <2>5
      <3>2. disks = <<>>
        BY <2>3, <3>1
      <3> QED BY <2>1, <2>2, <2>5, <3>2 DEF ListIsReadablePrefix
    <2>6. CASE devices # {}
      <3>1. 1..Len(disks) # {}
        BY <2>4, <2>6
      <3>2. disks # <<>>
        BY <3>1
      <3> QED BY <2>1, <2>2, <2>3, <2>6, <3>2 DEF ListIsReadablePrefix
    <2> QED BY <2>5, <2>6
  <1> QED BY <1>1, Invariance, PTL

\* The two runs of df behind an overview or a list agree whenever df printed the
\* same: never more used than there is, and the total is the sum of the list.
THEOREM Consistent == Spec => []ConsistentIfUndisturbed
  <1>1. IInv => ConsistentIfUndisturbed
    <2> SUFFICES ASSUME DocumentsOfTwoRuns, reply.seen[1] = reply.seen[2],
                        reply.request \in {"DisksOverview", "DisksInfo"}
                 PROVE  ConsistentIfUndisturbed
      BY DEF IInv, ConsistentIfUndisturbed
    <2>1. PICK t, disks : t = reply.seen[1] /\ disks = DiskInfoByDf(t)
      OBVIOUS
    <2>2. /\ t \in Tables
          /\ reply.value = IF reply.request = "DisksInfo" THEN DisksInfo(disks, disks)
                                                         ELSE DiskInfoOverview(disks, disks)
      BY <2>1 DEF DocumentsOfTwoRuns
    <2>3. disks \in Seq(FittingRow) /\ disks # Null
      BY <2>1, <2>2, TableDisks
    <2>4. CASE reply.request = "DisksOverview"
      <3>1. DiskUsed(disks) <= DiskTotal(disks)
        BY <2>3, UsedFits
      <3>2. reply.value.useCount = DiskUsed(disks) /\ reply.value.lastCount = DiskTotal(disks)
        BY <2>2, <2>4 DEF DiskInfoOverview
      <3> QED BY <2>4, <3>1, <3>2 DEF ConsistentIfUndisturbed
    <2>5. CASE reply.request = "DisksInfo"
      <3>1. /\ reply.value.list = (IF disks = <<>> THEN Null ELSE disks)
            /\ reply.value.total = DiskTotal(disks)
        BY <2>2, <2>5 DEF DisksInfo
      <3>2. disks = <<>> => DiskTotal(disks) = 0
        BY NoDisks
      <3> QED BY <2>3, <2>5, <3>1, <3>2 DEF ConsistentIfUndisturbed
    <2> QED BY <2>4, <2>5
  <1> QED BY <1>1, Invariance, PTL
=============================================================================
