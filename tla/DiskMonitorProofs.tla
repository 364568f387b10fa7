-------------------------- MODULE DiskMonitorProofs --------------------------
(***************************************************************************)
(* Proofs about the I/O sampler, for every set of outputs of iostat and    *)
(* every number of rounds.                                                 *)
(*                                                                         *)
(* FreshReply speaks of a finished call only, so it is not inductive. IInv *)
(* adds what the call in progress has loaded (LoadsFresh), what the two    *)
(* atomics hold while the thread is between its stores                     *)
(* (AtomicsMatchHistory, LocalIsNewest), that the rounds of a reply are    *)
(* past (ReplyInHistory), and how the flag follows the life of the object  *)
(* (FlagTellsLifetime).                                                    *)
(***************************************************************************)
EXTENDS DiskMonitor, TLAPS

\* What DiskIO computes from any output is a record of two rates.
LEMMA ResultType == \A r \in Results : r \in [read : Rates, write : Rates]
  BY DEF Results, Rates, ParseIostat

\* The constructor of DiskPrivate establishes the invariant.
LEMMA InitIInv == Init => IInv
  BY DiskAssumption DEF Init, IInv, TypeOK, AtomicsMatchHistory, LocalIsNewest,
     LoadsFresh, ReplyInHistory, FreshReply, FlagTellsLifetime, NoReply, Nothing,
     NoAccessAfterDestroy, RoundValue, ReadRounds, WholeRounds, IoPlaces, OwnerPlaces

\* A step that changes neither the history nor the loads, and takes no stored
\* round back, keeps the parts of the invariant that are about rounds.
LEMMA RoundsFrame ==
  ASSUME LoadsFresh, ReplyInHistory, FreshReply,
         UNCHANGED <<loaded, reply, published, begun>>,
         owner' = "GetDiskIO" => owner = "GetDiskIO",
         begun \in Nat, reply.to \in Nat,
         ReadRounds \in Int, ReadRounds' \in Int, ReadRounds <= ReadRounds',
         WholeRounds \in Int, WholeRounds' \in Int, WholeRounds <= WholeRounds'
  PROVE  LoadsFresh' /\ ReplyInHistory' /\ FreshReply'
  <1>1. \A i, f : RoundValue(i, f)' = RoundValue(i, f)
    BY DEF RoundValue
  <1>2. begun..ReadRounds \subseteq begun..ReadRounds'
    OBVIOUS
  <1>3. begun..WholeRounds \subseteq begun..WholeRounds'
    OBVIOUS
  <1>4. begun <= WholeRounds'
    BY DEF LoadsFresh
  <1>5. LoadsFresh'
    <2>1. ASSUME owner' = "GetDiskIO", loaded'.read # NotLoaded
          PROVE  \E i \in begun'..ReadRounds' : loaded'.read = RoundValue(i, "read")'
      <3>1. PICK i \in begun..ReadRounds : loaded.read = RoundValue(i, "read")
        BY <2>1 DEF LoadsFresh
      <3> QED BY <3>1, <1>1, <1>2
    <2>2. ASSUME owner' = "GetDiskIO", loaded'.write # NotLoaded
          PROVE  \E j \in begun'..WholeRounds' : loaded'.write = RoundValue(j, "write")'
      <3>1. PICK j \in begun..WholeRounds : loaded.write = RoundValue(j, "write")
        BY <2>2 DEF LoadsFresh
      <3> QED BY <3>1, <1>1, <1>3
    <2> QED BY <2>1, <2>2, <1>4 DEF LoadsFresh
  <1>6. ReplyInHistory'
    BY DEF ReplyInHistory
  <1>7. FreshReply'
    BY <1>1 DEF FreshReply, NoReply
  <1> QED BY <1>5, <1>6, <1>7

\* The counts of stored rounds are integers, and never negative.
LEMMA RoundsType ==
  ASSUME IInv PROVE ReadRounds \in Nat /\ WholeRounds \in Nat /\ WholeRounds <= ReadRounds
  BY DEF IInv, TypeOK, LocalIsNewest, ReadRounds, WholeRounds

\* Every step of the I/O thread, of GetDiskIO and of the destructor keeps the
\* invariant.
LEMMA NextIInv == IInv /\ [Next]_vars => IInv'
  <1> SUFFICES ASSUME IInv, [Next]_vars PROVE IInv'
    OBVIOUS
  <1> USE DiskAssumption, ResultType DEF IInv
  <1>1. CASE IoCheck
    <2>1. TypeOK'
      BY <1>1 DEF IoCheck, TypeOK, IoPlaces
    <2>2. UNCHANGED <<ReadRounds, WholeRounds>>
      BY <1>1 DEF IoCheck, ReadRounds, WholeRounds
    <2>3. AtomicsMatchHistory' /\ LocalIsNewest'
      BY <1>1, <2>2 DEF IoCheck, AtomicsMatchHistory, LocalIsNewest, RoundValue
    <2>4. LoadsFresh' /\ ReplyInHistory' /\ FreshReply'
      BY <1>1, <2>2, RoundsFrame, RoundsType DEF IoCheck, TypeOK
    <2>5. FlagTellsLifetime' /\ NoAccessAfterDestroy'
      BY <1>1 DEF IoCheck, FlagTellsLifetime, NoAccessAfterDestroy
    <2> QED BY <2>1, <2>3, <2>4, <2>5
  <1>2. CASE IoRunIostat
    <2> PICK r \in Results : local' = r /\ published' = Append(published, r)
      BY <1>2 DEF IoRunIostat
    <2>1. TypeOK'
      BY <1>2 DEF IoRunIostat, TypeOK, IoPlaces
    <2>2. UNCHANGED <<ReadRounds, WholeRounds>>
      BY <1>2 DEF IoRunIostat, ReadRounds, WholeRounds, TypeOK
    <2>3. \A i \in 0..Len(published) :
            \A f \in {"read", "write"} : RoundValue(i, f)' = RoundValue(i, f)
      BY DEF RoundValue, TypeOK
    <2>4. ReadRounds = Len(published) /\ WholeRounds = Len(published)
      BY <1>2 DEF IoRunIostat, ReadRounds, WholeRounds
    <2>5. AtomicsMatchHistory'
      BY <1>2, <2>2, <2>3, <2>4 DEF IoRunIostat, AtomicsMatchHistory, TypeOK
    <2>6. LocalIsNewest'
      BY DEF LocalIsNewest, TypeOK
    <2>7. LoadsFresh'
      BY <1>2, <2>2, <2>3, <2>4 DEF IoRunIostat, LoadsFresh, TypeOK
    <2>8. ReplyInHistory' /\ FreshReply'
      BY <1>2, <2>2, <2>3, <2>4
         DEF IoRunIostat, ReplyInHistory, FreshReply, NoReply, TypeOK
    <2>9. FlagTellsLifetime' /\ NoAccessAfterDestroy'
      BY <1>2 DEF IoRunIostat, FlagTellsLifetime, NoAccessAfterDestroy
    <2> QED BY <2>1, <2>5, <2>6, <2>7, <2>8, <2>9
  <1>3. CASE IoPopenFails
    <2>1. TypeOK'
      BY <1>3 DEF IoPopenFails, TypeOK, IoPlaces
    <2>2. UNCHANGED <<ReadRounds, WholeRounds>>
      BY <1>3 DEF IoPopenFails, ReadRounds, WholeRounds
    <2>3. AtomicsMatchHistory' /\ LocalIsNewest'
      BY <1>3, <2>2 DEF IoPopenFails, AtomicsMatchHistory, LocalIsNewest, RoundValue
    <2>4. LoadsFresh' /\ ReplyInHistory' /\ FreshReply'
      BY <1>3, <2>2, RoundsFrame, RoundsType DEF IoPopenFails, TypeOK
    <2>5. FlagTellsLifetime' /\ NoAccessAfterDestroy'
      BY <1>3 DEF IoPopenFails, FlagTellsLifetime, NoAccessAfterDestroy
    <2> QED BY <2>1, <2>3, <2>4, <2>5
  <1>4. CASE IoStoreRead
    <2>1. TypeOK'
      BY <1>4 DEF IoStoreRead, TypeOK, IoPlaces, LocalIsNewest
    <2>2. /\ ReadRounds' = ReadRounds + 1 /\ ReadRounds' = Len(published)
          /\ WholeRounds' = WholeRounds
      BY <1>4 DEF IoStoreRead, ReadRounds, WholeRounds, TypeOK
    <2>3. AtomicsMatchHistory' /\ LocalIsNewest'
      BY <1>4, <2>2 DEF IoStoreRead, AtomicsMatchHistory, LocalIsNewest, RoundValue
    <2>4. LoadsFresh' /\ ReplyInHistory' /\ FreshReply'
      BY <1>4, <2>2, RoundsFrame, RoundsType DEF IoStoreRead, TypeOK
    <2>5. FlagTellsLifetime' /\ NoAccessAfterDestroy'
      BY <1>4 DEF IoStoreRead, FlagTellsLifetime, NoAccessAfterDestroy
    <2> QED BY <2>1, <2>3, <2>4, <2>5
  <1>5. CASE IoStoreWrite
    <2>1. TypeOK'
      BY <1>5 DEF IoStoreWrite, TypeOK, IoPlaces, LocalIsNewest
    <2>2. /\ WholeRounds' = WholeRounds + 1 /\ WholeRounds' = Len(published)
          /\ ReadRounds' = ReadRounds
      BY <1>5 DEF IoStoreWrite, ReadRounds, WholeRounds, TypeOK
    <2>3. AtomicsMatchHistory' /\ LocalIsNewest'
      BY <1>5, <2>2 DEF IoStoreWrite, AtomicsMatchHistory, LocalIsNewest, RoundValue
    <2>4. LoadsFresh' /\ ReplyInHistory' /\ FreshReply'
      BY <1>5, <2>2, RoundsFrame, RoundsType DEF IoStoreWrite, TypeOK
    <2>5. FlagTellsLifetime' /\ NoAccessAfterDestroy'
      BY <1>5 DEF IoStoreWrite, FlagTellsLifetime, NoAccessAfterDestroy
    <2> QED BY <2>1, <2>3, <2>4, <2>5
  <1>6. CASE GetDiskIOBegin
    <2>1. TypeOK'
      BY <1>6 DEF GetDiskIOBegin, TypeOK, OwnerPlaces, Nothing, WholeRounds,
                  LocalIsNewest
    <2>2. AtomicsMatchHistory' /\ LocalIsNewest'
      BY <1>6 DEF GetDiskIOBegin, AtomicsMatchHistory, LocalIsNewest, RoundValue,
                  ReadRounds, WholeRounds
    <2>3. LoadsFresh'
      BY <1>6 DEF GetDiskIOBegin, LoadsFresh, WholeRounds, Nothing, TypeOK
    <2>4. ReplyInHistory' /\ FreshReply'
      BY <1>6 DEF GetDiskIOBegin, ReplyInHistory, FreshReply, RoundValue, ReadRounds,
                  NoReply
    <2>5. FlagTellsLifetime' /\ NoAccessAfterDestroy'
      BY <1>6 DEF GetDiskIOBegin, FlagTellsLifetime, NoAccessAfterDestroy
    <2> QED BY <2>1, <2>2, <2>3, <2>4, <2>5
  <1>7. CASE GetDiskIOLoadRead
    <2>1. TypeOK'
      BY <1>7 DEF GetDiskIOLoadRead, TypeOK
    <2>2. UNCHANGED <<ReadRounds, WholeRounds>>
      BY <1>7 DEF GetDiskIOLoadRead, ReadRounds, WholeRounds
    <2>3. AtomicsMatchHistory' /\ LocalIsNewest'
      BY <1>7, <2>2 DEF GetDiskIOLoadRead, AtomicsMatchHistory, LocalIsNewest, RoundValue
    <2>4. loaded'.read = RoundValue(ReadRounds, "read") /\ loaded'.write = loaded.write
      BY <1>7 DEF GetDiskIOLoadRead, AtomicsMatchHistory, TypeOK
    <2>5. ReadRounds \in begun..ReadRounds
      BY DEF LoadsFresh, ReadRounds, WholeRounds, TypeOK
    <2>6. LoadsFresh'
      BY <1>7, <2>2, <2>4, <2>5 DEF GetDiskIOLoadRead, LoadsFresh, RoundValue
    <2>7. ReplyInHistory' /\ FreshReply'
      BY <1>7, <2>2 DEF GetDiskIOLoadRead, ReplyInHistory, FreshReply, RoundValue, NoReply
    <2>8. FlagTellsLifetime' /\ NoAccessAfterDestroy'
      BY <1>7 DEF GetDiskIOLoadRead, FlagTellsLifetime, NoAccessAfterDestroy
    <2> QED BY <2>1, <2>3, <2>6, <2>7, <2>8
  <1>8. CASE GetDiskIOLoadWrite
    <2>1. TypeOK'
      BY <1>8 DEF GetDiskIOLoadWrite, TypeOK
    <2>2. UNCHANGED <<ReadRounds, WholeRounds>>
      BY <1>8 DEF GetDiskIOLoadWrite, ReadRounds, WholeRounds
    <2>3. AtomicsMatchHistory' /\ LocalIsNewest'
      BY <1>8, <2>2 DEF GetDiskIOLoadWrite, AtomicsMatchHistory, LocalIsNewest, RoundValue
    <2>4. loaded'.write = RoundValue(WholeRounds, "write") /\ loaded'.read = loaded.read
      BY <1>8 DEF GetDiskIOLoadWrite, AtomicsMatchHistory, TypeOK
    <2>5. WholeRounds \in begun..WholeRounds
      BY DEF LoadsFresh, WholeRounds, TypeOK
    <2>6. LoadsFresh'
      BY <1>8, <2>2, <2>4, <2>5 DEF GetDiskIOLoadWrite, LoadsFresh, RoundValue
    <2>7. ReplyInHistory' /\ FreshReply'
      BY <1>8, <2>2 DEF GetDiskIOLoadWrite, ReplyInHistory, FreshReply, RoundValue, NoReply
    <2>8. FlagTellsLifetime' /\ NoAccessAfterDestroy'
      BY <1>8 DEF GetDiskIOLoadWrite, FlagTellsLifetime, NoAccessAfterDestroy
    <2> QED BY <2>1, <2>3, <2>6, <2>7, <2>8
  <1>9. CASE GetDiskIOReturn
    <2>1. TypeOK'
      BY <1>9 DEF GetDiskIOReturn, TypeOK, OwnerPlaces, ReadRounds, LocalIsNewest
    <2>2. UNCHANGED <<ReadRounds, WholeRounds>> /\ WholeRounds <= ReadRounds
      BY <1>9 DEF GetDiskIOReturn, ReadRounds, WholeRounds, TypeOK
    <2>3. AtomicsMatchHistory' /\ LocalIsNewest'
      BY <1>9, <2>2 DEF GetDiskIOReturn, AtomicsMatchHistory, LocalIsNewest, RoundValue
    <2>4. LoadsFresh'
      BY <1>9, <2>2 DEF GetDiskIOReturn, LoadsFresh
    <2>5. ReplyInHistory'
      BY <1>9, <2>2 DEF GetDiskIOReturn, ReplyInHistory, ReadRounds, TypeOK
    <2>6. FreshReply'
      <3>1. PICK i \in begun..ReadRounds : loaded.read = RoundValue(i, "read")
        BY <1>9 DEF GetDiskIOReturn, LoadsFresh
      <3>2. PICK j \in begun..WholeRounds : loaded.write = RoundValue(j, "write")
        BY <1>9 DEF GetDiskIOReturn, LoadsFresh
      <3>3. j \in begun..ReadRounds
        BY <2>2, <3>2 DEF TypeOK, ReadRounds, WholeRounds
      <3> QED
        BY <1>9, <3>1, <3>2, <3>3 DEF GetDiskIOReturn, FreshReply, RoundValue
    <2>7. FlagTellsLifetime' /\ NoAccessAfterDestroy'
      BY <1>9 DEF GetDiskIOReturn, FlagTellsLifetime, NoAccessAfterDestroy
    <2> QED BY <2>1, <2>3, <2>4, <2>5, <2>6, <2>7
  <1>10. CASE DestroyStop
    <2>1. TypeOK'
      BY <1>10 DEF DestroyStop, TypeOK, OwnerPlaces
    <2>2. UNCHANGED <<ReadRounds, WholeRounds>>
      BY <1>10 DEF DestroyStop, ReadRounds, WholeRounds
    <2>3. AtomicsMatchHistory' /\ LocalIsNewest'
      BY <1>10, <2>2 DEF DestroyStop, AtomicsMatchHistory, LocalIsNewest, RoundValue
    <2>4. LoadsFresh' /\ ReplyInHistory' /\ FreshReply'
      BY <1>10, <2>2, RoundsFrame, RoundsType DEF DestroyStop, TypeOK
    <2>5. FlagTellsLifetime' /\ NoAccessAfterDestroy'
      BY <1>10 DEF DestroyStop, FlagTellsLifetime, NoAccessAfterDestroy
    <2> QED BY <2>1, <2>3, <2>4, <2>5
  <1>11. CASE DestroyJoin
    <2>1. TypeOK'
      BY <1>11 DEF DestroyJoin, TypeOK, OwnerPlaces
    <2>2. UNCHANGED <<ReadRounds, WholeRounds>>
      BY <1>11 DEF DestroyJoin, ReadRounds, WholeRounds
    <2>3. AtomicsMatchHistory' /\ LocalIsNewest'
      BY <1>11, <2>2 DEF DestroyJoin, AtomicsMatchHistory, LocalIsNewest, RoundValue
    <2>4. LoadsFresh' /\ ReplyInHistory' /\ FreshReply'
      BY <1>11, <2>2, RoundsFrame, RoundsType DEF DestroyJoin, TypeOK
    <2>5. FlagTellsLifetime' /\ NoAccessAfterDestroy'
      BY <1>11 DEF DestroyJoin, FlagTellsLifetime, NoAccessAfterDestroy
    <2> QED BY <2>1, <2>3, <2>4, <2>5
  <1>12. CASE UNCHANGED vars
    BY <1>12 DEF vars, TypeOK, AtomicsMatchHistory, LocalIsNewest, LoadsFresh,
       ReplyInHistory, FreshReply, FlagTellsLifetime, NoAccessAfterDestroy,
       RoundValue, ReadRounds, WholeRounds, NoReply
  <1> QED
    BY <1>1, <1>2, <1>3, <1>4, <1>5, <1>6, <1>7, <1>8, <1>9, <1>10, <1>11, <1>12
       DEF Next, IoThread, GetDiskIO, Destroy

\* The inductive invariant holds in every reachable state.
THEOREM Invariance == Spec => []IInv
  <1>1. Init => IInv
    BY InitIInv
  <1>2. IInv /\ [Next]_vars => IInv'
    BY NextIInv
  <1> QED BY <1>1, <1>2, PTL DEF Spec

\* The atomics hold rates of runs of iostat or are uninitialized, and all other
\* variables keep to their types.
THEOREM TypeCorrect == Spec => []TypeOK
  <1>1. IInv => TypeOK
    BY DEF IInv
  <1> QED BY <1>1, Invariance, PTL

\* Outside the window between the two stores of DiskIO, the atomics hold the two
\* rates of the latest run.
THEOREM StoresTornOnlyInside == Spec => []AtomicsMatchHistory
  <1>1. IInv => AtomicsMatchHistory
    BY DEF IInv
  <1> QED BY <1>1, Invariance, PTL

\* Every reply of GetDiskIO is fresh, whatever the interleaving of its two loads
\* with the two stores of DiskIO.
THEOREM RepliesFresh == Spec => []FreshReply
  <1>1. IInv => FreshReply
    BY DEF IInv
  <1> QED BY <1>1, Invariance, PTL

\* The destructor never leaves the I/O thread with a destroyed object.
THEOREM LifetimeSafe == Spec => []NoAccessAfterDestroy
  <1>1. IInv => NoAccessAfterDestroy
    BY DEF IInv
  <1> QED BY <1>1, Invariance, PTL
=============================================================================
