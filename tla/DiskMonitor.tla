---------------------------- MODULE DiskMonitor ----------------------------
(***************************************************************************)
(* The I/O sampler of CM::DiskMonitor (DiskMonitor.cpp). Three activities  *)
(* share the DiskPrivate object:                                           *)
(*   - the I/O thread (DiskIOThread) runs iostat again and again and       *)
(*     publishes each result with two separate atomic stores, the read     *)
(*     rate first;                                                         *)
(*   - the owner of the object (the server thread) calls GetDiskIO, which  *)
(*     does two separate atomic loads; C++ leaves the order in which the   *)
(*     arguments of make_tuple are evaluated unspecified, so the loads may *)
(*     happen in either order;                                             *)
(*   - the owner destroys the object: the flag is cleared, then the thread *)
(*     is joined.                                                          *)
(* Every action below is one atomic access to the shared object, or a      *)
(* stretch of code that touches only local variables.                      *)
(***************************************************************************)
EXTENDS Iostat

CONSTANTS
  Outputs,     \* what a run of iostat may print
  Leftovers,   \* what the uninitialized devName of DiskIO may hold
  Uninit,      \* the indeterminate value of an atomic nobody has written
  NotLoaded,   \* no load has happened yet
  MaxRounds,   \* bound: runs of iostat in a behaviour
  PopenMayFail \* whether popen may return NULL

\* The results of a run: what ParseIostat makes of the output.
Results == {ParseIostat(out, dev0) : out \in Outputs, dev0 \in Leftovers}
Rates   == {r.read : r \in Results} \cup {r.write : r \in Results}

ASSUME DiskAssumption ==
  /\ Outputs # {} /\ Leftovers # {}
  /\ Uninit # NotLoaded
  /\ {Uninit, NotLoaded} \cap Rates = {}
  /\ MaxRounds \in Nat
  /\ PopenMayFail \in BOOLEAN

VARIABLES
  diskReadIO, diskWriteIO, \* the two atomics of DiskPrivate
  ioThreadRunning,         \* the flag the destructor clears
  io,                      \* where the I/O thread is
  local,                   \* readIO and writeIO, the thread's local variables
  owner,                   \* where the owner of the object is
  loaded,                  \* what the current call of GetDiskIO has loaded
  reply,                   \* what the last call of GetDiskIO returned
  published,               \* history: the result of every run of iostat
  begun                    \* history: rounds complete when the call began

vars == <<diskReadIO, diskWriteIO, ioThreadRunning, io, local, owner, loaded,
          reply, published, begun>>

IoPlaces    == {"check", "iostat", "storeRead", "storeWrite", "exited", "crashed"}
OwnerPlaces == {"idle", "GetDiskIO", "joining", "destroyed"}

Nothing == [read |-> NotLoaded, write |-> NotLoaded]
NoReply == [read |-> NotLoaded, write |-> NotLoaded, from |-> 0, to |-> 0]

\* Rounds whose read rate, and whose both rates, the thread has stored.
ReadRounds  == IF io = "storeRead" THEN Len(published) - 1 ELSE Len(published)
WholeRounds == IF io \in {"storeRead", "storeWrite"} THEN Len(published) - 1
                                                     ELSE Len(published)

-----------------------------------------------------------------------------
(* The state after the constructor: the atomics are left uninitialized     *)
(* (C++17) and the thread has been started.                                *)
Init ==
  /\ diskReadIO = Uninit /\ diskWriteIO = Uninit
  /\ ioThreadRunning = TRUE
  /\ io = "check" /\ local = Nothing
  /\ owner = "idle" /\ loaded = Nothing /\ reply = NoReply
  /\ published = <<>> /\ begun = 0

-----------------------------------------------------------------------------
(* The I/O thread.                                                         *)

\* while (ioThreadRunning): the only place where the thread may leave.
IoCheck ==
  /\ io = "check"
  /\ \/ /\ ioThreadRunning
        /\ Len(published) < MaxRounds
        /\ io' = "iostat"
     \/ /\ ~ioThreadRunning
        /\ io' = "exited"
  /\ UNCHANGED <<diskReadIO, diskWriteIO, ioThreadRunning, local, owner,
                 loaded, reply, published, begun>>

\* A plausible bug: the sums are not reset between two runs of iostat.
IoRunIostatNoReset ==
  /\ io = "iostat"
  /\ \E r \in Results :
       /\ local' = IF local = Nothing THEN r
                   ELSE [read |-> local.read + r.read, write |-> local.write + r.write]
       /\ published' = Append(published, r)
  /\ io' = "storeRead"
  /\ UNCHANGED <<diskReadIO, diskWriteIO, ioThreadRunning, owner, loaded,
                 reply, begun>>

\* popen succeeds; the output is read to its end and summed in local variables.
IoRunIostat ==
  /\ io = "iostat"
  /\ \E r \in Results :
       /\ local' = r
       /\ published' = Append(published, r)
  /\ io' = "storeRead"
  /\ UNCHANGED <<diskReadIO, diskWriteIO, ioThreadRunning, owner, loaded,
                 reply, begun>>

\* popen fails: the error is logged and fgets is called on NULL, which ends
\* the process.
IoPopenFails ==
  /\ PopenMayFail
  /\ io = "iostat"
  /\ io' = "crashed"
  /\ UNCHANGED <<diskReadIO, diskWriteIO, ioThreadRunning, local, owner,
                 loaded, reply, published, begun>>

\* A plausible bug: the thread also looks at the flag between the two stores.
IoStoreReadEarlyExit ==
  /\ io = "storeRead"
  /\ diskReadIO' = local.read
  /\ io' = IF ioThreadRunning THEN "storeWrite" ELSE "exited"
  /\ UNCHANGED <<diskWriteIO, ioThreadRunning, local, owner, loaded, reply,
                 published, begun>>

IoStoreRead ==
  /\ io = "storeRead"
  /\ diskReadIO' = local.read
  /\ io' = "storeWrite"
  /\ UNCHANGED <<diskWriteIO, ioThreadRunning, local, owner, loaded, reply,
                 published, begun>>

\* A plausible bug: a rate of zero is taken for "no data" and not stored.
IoStoreWriteSkipZero ==
  /\ io = "storeWrite"
  /\ diskWriteIO' = IF local.write = 0 THEN diskWriteIO ELSE local.write
  /\ io' = "check"
  /\ UNCHANGED <<diskReadIO, ioThreadRunning, local, owner, loaded, reply,
                 published, begun>>

IoStoreWrite ==
  /\ io = "storeWrite"
  /\ diskWriteIO' = local.write
  /\ io' = "check"
  /\ UNCHANGED <<diskReadIO, ioThreadRunning, local, owner, loaded, reply,
                 published, begun>>

-----------------------------------------------------------------------------
(* The owner of the object.                                                *)

GetDiskIOBegin ==
  /\ io # "crashed"
  /\ owner = "idle"
  /\ owner' = "GetDiskIO"
  /\ loaded' = Nothing
  /\ begun' = WholeRounds
  /\ UNCHANGED <<diskReadIO, diskWriteIO, ioThreadRunning, io, local, reply,
                 published>>

GetDiskIOLoadRead ==
  /\ io # "crashed"
  /\ owner = "GetDiskIO" /\ loaded.read = NotLoaded
  /\ loaded' = [loaded EXCEPT !.read = diskReadIO]
  /\ UNCHANGED <<diskReadIO, diskWriteIO, ioThreadRunning, io, local, owner,
                 reply, published, begun>>

GetDiskIOLoadWrite ==
  /\ io # "crashed"
  /\ owner = "GetDiskIO" /\ loaded.write = NotLoaded
  /\ loaded' = [loaded EXCEPT !.write = diskWriteIO]
  /\ UNCHANGED <<diskReadIO, diskWriteIO, ioThreadRunning, io, local, owner,
                 reply, published, begun>>

GetDiskIOReturn ==
  /\ io # "crashed"
  /\ owner = "GetDiskIO"
  /\ loaded.read # NotLoaded /\ loaded.write # NotLoaded
  /\ owner' = "idle"
  /\ reply' = [read |-> loaded.read, write |-> loaded.write,
               from |-> begun, to |-> ReadRounds]
  /\ UNCHANGED <<diskReadIO, diskWriteIO, ioThreadRunning, io, local, loaded,
                 published, begun>>

\* A plausible bug: the destructor joins without clearing the flag.
DestroyStopForgotten ==
  /\ io # "crashed"
  /\ owner = "idle"
  /\ owner' = "joining"
  /\ UNCHANGED <<diskReadIO, diskWriteIO, ioThreadRunning, io, local, loaded,
                 reply, published, begun>>

\* ~DiskPrivate: the flag is cleared ...
DestroyStop ==
  /\ io # "crashed"
  /\ owner = "idle"
  /\ ioThreadRunning' = FALSE
  /\ owner' = "joining"
  /\ UNCHANGED <<diskReadIO, diskWriteIO, io, local, loaded, reply, published,
                 begun>>

\* A plausible bug: the thread is detached instead of joined.
DestroyDetach ==
  /\ owner = "joining"
  /\ owner' = "destroyed"
  /\ UNCHANGED <<diskReadIO, diskWriteIO, ioThreadRunning, io, local, loaded,
                 reply, published, begun>>

\* ... join returns once the thread has ended, and the members are destroyed.
DestroyJoin ==
  /\ owner = "joining"
  /\ io = "exited"
  /\ owner' = "destroyed"
  /\ UNCHANGED <<diskReadIO, diskWriteIO, ioThreadRunning, io, local, loaded,
                 reply, published, begun>>

-----------------------------------------------------------------------------
IoThread == IoCheck \/ IoRunIostat \/ IoPopenFails \/ IoStoreRead \/ IoStoreWrite

GetDiskIO == GetDiskIOBegin \/ GetDiskIOLoadRead \/ GetDiskIOLoadWrite
               \/ GetDiskIOReturn

Destroy == DestroyStop \/ DestroyJoin

Next == IoThread \/ GetDiskIO \/ Destroy

Spec == Init /\ [][Next]_vars

(* The operating system keeps scheduling the thread and iostat ends by     *)
(* itself after two reports; join is a blocking call that returns when the *)
(* thread has ended. Nothing makes the owner destroy the object.           *)
FairSpec == Spec /\ WF_vars(IoThread) /\ WF_vars(DestroyJoin)
                 /\ WF_vars(GetDiskIOLoadRead) /\ WF_vars(GetDiskIOLoadWrite)
                 /\ WF_vars(GetDiskIOReturn)
-----------------------------------------------------------------------------
(* Properties.                                                             *)

\* The value of one of the two rates after i rounds.
RoundValue(i, f) == IF i = 0 THEN Uninit ELSE published[i][f]

\* Every variable keeps to its type; the atomics hold a rate of some run of
\* iostat, or are uninitialized.
TypeOK ==
  /\ diskReadIO \in Rates \cup {Uninit}
  /\ diskWriteIO \in Rates \cup {Uninit}
  /\ ioThreadRunning \in BOOLEAN
  /\ io \in IoPlaces
  /\ local \in Results \cup {Nothing}
  /\ owner \in OwnerPlaces
  /\ loaded \in [read : Rates \cup {Uninit, NotLoaded},
                 write : Rates \cup {Uninit, NotLoaded}]
  /\ reply \in [read : Rates \cup {Uninit, NotLoaded},
                write : Rates \cup {Uninit, NotLoaded}, from : Nat, to : Nat]
  /\ published \in Seq(Results)
  /\ begun \in Nat

\* The two stores of DiskIO can be torn apart only while the thread is between
\* them: at any other moment, in particular after the thread has ended, the
\* atomics hold the two rates of one and the same run, the latest.
AtomicsMatchHistory ==
  /\ diskReadIO  = RoundValue(ReadRounds, "read")
  /\ diskWriteIO = RoundValue(WholeRounds, "write")

\* GetDiskIO is fresh: each rate of a reply is that of a run not older than the
\* last run complete when the call began and not newer than the last run
\* stored when it returned. So a call during which nothing is stored returns
\* the two rates of one run, and a call that begins after the first run never
\* returns an uninitialized rate.
FreshReply ==
  reply # NoReply =>
    \E i, j \in reply.from..reply.to :
      /\ reply.read  = RoundValue(i, "read")
      /\ reply.write = RoundValue(j, "write")

\* The destructor of DiskPrivate returns only when the I/O thread has ended, so
\* the thread never touches a destroyed object.
NoAccessAfterDestroy == owner = "destroyed" => io = "exited"

\* The destructor terminates: join returns because the thread looks at the flag
\* after each run of iostat; only a crash of the process can prevent it.
DestroyCompletes == owner = "joining" ~> owner = "destroyed" \/ io = "crashed"

\* Unless the object is destroyed or the process crashes first, both rates are
\* eventually defined, even if iostat prints nothing.
FirstRatesArrive ==
  <>(~ioThreadRunning \/ io = "crashed" \/ (diskReadIO # Uninit /\ diskWriteIO # Uninit))

\* DiskMonitor.h:65 says that GetDiskIO gets the disk I/O, in kB per second; so
\* no reply holds an indeterminate value.
RatesDefined == reply.read # Uninit /\ reply.write # Uninit

-----------------------------------------------------------------------------
(* The inductive invariant behind FreshReply and NoAccessAfterDestroy.     *)

\* While the thread is between the end of iostat and its second store, its
\* local variables are the newest result of the history.
LocalIsNewest ==
  io \in {"storeRead", "storeWrite"} =>
    Len(published) > 0 /\ local = published[Len(published)]

\* What the call in progress has loaded is already fresh.
LoadsFresh ==
  /\ begun <= WholeRounds
  /\ owner = "GetDiskIO" /\ loaded.read # NotLoaded =>
       \E i \in begun..ReadRounds : loaded.read = RoundValue(i, "read")
  /\ owner = "GetDiskIO" /\ loaded.write # NotLoaded =>
       \E j \in begun..WholeRounds : loaded.write = RoundValue(j, "write")

\* The rounds of the last reply are rounds of the history.
ReplyInHistory == reply.to <= ReadRounds

\* The flag is cleared exactly when the destructor has started, and the thread
\* ends only after that.
FlagTellsLifetime ==
  /\ ioThreadRunning <=> owner \in {"idle", "GetDiskIO"}
  /\ io = "exited" => ~ioThreadRunning

\* The inductive invariant: every part of it is needed by the step proofs.
IInv == /\ TypeOK /\ AtomicsMatchHistory /\ LocalIsNewest /\ LoadsFresh
        /\ ReplyInHistory /\ FreshReply /\ FlagTellsLifetime
        /\ NoAccessAfterDestroy
=============================================================================
