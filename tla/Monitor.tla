------------------------------- MODULE Monitor -------------------------------
(***************************************************************************)
(* CM::Monitor (Monitor.cpp): the JSON documents behind the replies of the *)
(* server, and the three that main makes when it starts. A document is put *)
(* together from several readings of the machine: runs of df, /proc/meminfo*)
(* and /proc/cpuinfo. Anything may change from one reading to the next, so *)
(* each sees any state of what it reads.                                   *)
(*                                                                         *)
(* A JSON value is Null or a function on its keys. The CPU usage and the   *)
(* I/O rates come from the samplers and are one value each here.           *)
(***************************************************************************)
EXTENDS Df, CpuInfo, MemoryMonitor

CONSTANTS
  Tables,           \* what df may print
  Meminfos,         \* what /proc/meminfo may hold
  Cpuinfos,         \* what /proc/cpuinfo may hold
  Null,             \* the JSON value null, which every json object starts as
  NoRequest,        \* no document is being made
  NoReading,        \* what was not read because it was known
  CpuUsage, DiskIO  \* what the samplers say

VARIABLES
  cache,    \* modelName and baseClock of CPUMonitor, empty until found
  request,  \* the document being made
  got,      \* the values its readings have given so far
  seen,     \* history: what those readings saw
  reply,    \* the document just made: its request, its value and its readings
  known     \* history: the identity when the server became ready

vars == <<cache, request, got, seen, reply, known>>

NoReply == [request |-> NoRequest, value |-> Null, seen |-> <<>>]

Requests == {"RequestBaseInfo", "DisksOverview", "DisksInfo", "DiskIO"}

-----------------------------------------------------------------------------
(* The documents, made of the values the readings gave.                    *)

(* json::merge_patch, one level deep: the keys of the documents differ. A  *)
(* patch that is no object replaces the whole target.                      *)
MergePatch(target, patch) ==
  IF patch = Null THEN Null
  ELSE [k \in (IF target = Null THEN {} ELSE DOMAIN target) \cup DOMAIN patch |->
          IF k \in DOMAIN patch THEN patch[k] ELSE target[k]]

GetCPU(model, clock, usage) ==
  [k \in {<<"cpu">>} |-> [modelName |-> model, baseClock |-> clock, usage |-> usage]]

GetMemory(total, unused, usage) ==
  [k \in {<<"memory">>} |-> [total |-> total, unused |-> unused, usage |-> usage]]

\* A plausible bug: the number of the disk is not advanced.
GetDiskSameName(disks) ==
  IF disks = <<>> THEN Null ELSE [k \in {<<"disk", 0>>} |-> Last(disks)]

\* One key per disk, "disk0", "disk1" ...; no key is ever added for an empty
\* list, so the document stays null.
GetDisk(disks) ==
  IF disks = <<>> THEN Null
  ELSE [k \in {<<"disk", n>> : n \in 0..(Len(disks) - 1)} |-> disks[k[2] + 1]]

GetInfoByJson(v) ==
  MergePatch(MergePatch(MergePatch(Null, GetCPU(v[1], v[2], v[3])),
                        GetMemory(v[4], v[5], v[6])),
             GetDisk(v[7]))

\* A plausible bug: lastCount and useCount are swapped.
DiskInfoOverviewSwapped(first, second) ==
  [lastCount |-> DiskUsed(first), useCount |-> DiskTotal(second)]

\* The two values of the initializer list are evaluated from left to right, and
\* each runs df.
DiskInfoOverview(first, second) ==
  [lastCount |-> DiskTotal(first), useCount |-> DiskUsed(second)]

\* The list comes from the first run, the total from the second. Without a disk
\* nothing is pushed, and the list is null. In JSON the two are an array: an object
\* with the list, or null, and the pair of "total" and the sum.
DisksInfo(first, second) ==
  [list |-> IF first = <<>> THEN Null ELSE first, total |-> DiskTotal(second)]

-----------------------------------------------------------------------------
(* The readings each document makes, in their order. main makes memory,    *)
(* disk and CPU documents before the server is ready.                      *)
Readings(r) ==
  CASE r = "startup" -> <<"total", "unused", "share", "df", "model", "clock", "usage">>
    [] r = "RequestBaseInfo" -> <<"model", "clock", "usage", "total", "unused", "share", "df">>
    [] r \in {"DisksOverview", "DisksInfo"} -> <<"df", "df">>
    [] OTHER -> <<"io">>

Init ==
  /\ cache = [modelName |-> <<>>, baseClock |-> <<>>] /\ known = cache
  /\ request = "startup" /\ got = <<>> /\ seen = <<>>
  /\ reply = NoReply

Begin ==
  /\ request = NoRequest
  /\ request' \in Requests
  /\ reply' = NoReply
  /\ UNCHANGED <<cache, got, seen, known>>

\* The next reading of the document is of this kind.
Due(kind) ==
  request # NoRequest /\ Len(got) < Len(Readings(request)) /\ Readings(request)[Len(got) + 1] = kind

Got(value, reading) ==
  /\ got' = Append(got, value)
  /\ seen' = Append(seen, reading)
  /\ UNCHANGED <<request, reply, known>>

\* A plausible bug: what has been found is looked up again.
LookUpAgain(kind, field, value) ==
  /\ Due(kind)
  /\ \E f \in Cpuinfos :
       LET found == GetCPUModelNameAndBaseClock(f)[value]
       IN  cache' = [cache EXCEPT ![field] = found] /\ Got(found, f)

\* A value that has been found is kept; an empty one is looked up again.
LookUp(kind, field, value) ==
  /\ Due(kind)
  /\ \/ cache[field] # <<>> /\ Got(cache[field], NoReading) /\ UNCHANGED cache
     \/ /\ cache[field] = <<>>
        /\ \E f \in Cpuinfos :
             LET found == GetCPUModelNameAndBaseClock(f)[value]
             IN  cache' = [cache EXCEPT ![field] = found] /\ Got(found, f)

GetCPUModelName == LookUp("model", "modelName", "modelName")
GetCpuBaseClock == LookUp("clock", "baseClock", "cpuMhz")

AskMemory ==
  /\ \E m \in Meminfos :
       \/ Due("total")  /\ Got(GetMemoryTotal(m), m)
       \/ Due("unused") /\ Got(GetMemoryUnused(m), m)
       \/ Due("share")  /\ \E h \in GetMemoryUsage(m) : Got(h, m)
  /\ UNCHANGED cache

RunDf ==
  /\ Due("df")
  /\ \E t \in Tables : Got(DiskInfoByDf(t), t)
  /\ UNCHANGED cache

AskSamplers ==
  /\ \/ Due("usage") /\ Got(CpuUsage, NoReading)
     \/ Due("io")    /\ Got(DiskIO, NoReading)
  /\ UNCHANGED cache

Finish ==
  /\ request # NoRequest /\ Len(got) = Len(Readings(request))
  /\ reply' = [request |-> request, seen |-> seen,
               value |-> CASE request = "startup" -> Null
                           [] request = "RequestBaseInfo" -> GetInfoByJson(got)
                           [] request = "DisksOverview" -> DiskInfoOverview(got[1], got[2])
                           [] request = "DisksInfo" -> DisksInfo(got[1], got[2])
                           [] OTHER -> got[1]]
  /\ known' = IF request = "startup" THEN cache ELSE known
  /\ request' = NoRequest /\ got' = <<>> /\ seen' = <<>>
  /\ UNCHANGED cache

Next ==
  \/ Begin \/ Finish
  \/ GetCPUModelName \/ GetCpuBaseClock \/ AskMemory \/ RunDf \/ AskSamplers

Spec == Init /\ [][Next]_vars

-----------------------------------------------------------------------------
(* Properties.                                                             *)

\* A RequestBaseInfo document that is not null holds the CPU, the memory and, in
\* the order of df and without a gap in the numbers, each disk df returned.
InfoMatchesDf ==
  reply.request = "RequestBaseInfo" /\ reply.value # Null =>
    LET disks == DiskInfoByDf(reply.seen[7])
    IN  /\ DOMAIN reply.value = {<<"cpu">>, <<"memory">>}
                                  \cup {<<"disk", n>> : n \in 0..(Len(disks) - 1)}
        /\ \A n \in 0..(Len(disks) - 1) : reply.value[<<"disk", n>>] = disks[n + 1]

\* The rows up to k are read: none has a dash, and none before k a mount point
\* with a space.
Readable(t, k) == \A i \in 1..k : t[i].shape # "dash" /\ (i < k => t[i].shape # "space")

\* The number of rows fscanf gets through.
ReadableRows(t) == Max({k \in 0..Len(t) : Readable(t, k)})

\* The list holds each of these rows of t once, and in the order of t.
ListsInOrder(list, t, rows) ==
  \E row \in [1..Len(list) -> rows] :
    /\ \A n \in 1..Len(list) : list[n] = t[row[n]]
    /\ \A m, n \in 1..Len(list) : m < n => row[m] < row[n]
    /\ \A i \in rows : \E n \in 1..Len(list) : row[n] = i

\* The list of DisksInfo holds every device of the rows that can be read, each
\* once and in the order of df; without one it is null.
ListIsReadablePrefix ==
  reply.request = "DisksInfo" =>
    LET t       == reply.seen[1]
        devices == {i \in 1..ReadableRows(t) : t[i].dev}
    IN  IF devices = {} THEN reply.value.list = Null
                        ELSE ListsInOrder(reply.value.list, t, devices)

\* If nothing is mounted, unmounted or written between the two runs of df, the
\* overview never shows more used than there is, and the total of DisksInfo is
\* the sum of its list.
ConsistentIfUndisturbed ==
  Len(reply.seen) = 2 /\ reply.seen[1] = reply.seen[2] =>
    /\ reply.request = "DisksOverview" => reply.value.useCount <= reply.value.lastCount
    /\ reply.request = "DisksInfo" =>
         reply.value.total = IF reply.value.list = Null THEN 0 ELSE DiskTotal(reply.value.list)

\* What the start-up look-ups of main found is in every document, whatever
\* /proc/cpuinfo shows since, and the file is not opened for it again; what they
\* did not find is what a document's own look-up, or an earlier document's, found.
IdentityKeptSinceStartup ==
  reply.request = "RequestBaseInfo" /\ reply.value # Null =>
    LET cpu == reply.value[<<"cpu">>]
        Kept(field, n, value) ==
          /\ known[field] # <<>> => reply.seen[n] = NoReading /\ cpu[field] = known[field]
          /\ reply.seen[n] # NoReading => cpu[field] = GetCPUModelNameAndBaseClock(reply.seen[n])[value]
          /\ reply.seen[n] = NoReading => cpu[field] # <<>>
    IN  Kept("modelName", 1, "modelName") /\ Kept("baseClock", 2, "cpuMhz")

\* Monitor.h:42 says that GetInfoByJson gets the information of CPU, memory and
\* disk, and DiskMonitor.h:59 that df gives that of the disks; so a document has all
\* three, if df prints a disk at all.
InfoComplete ==
  reply.request = "RequestBaseInfo" /\ (\E i \in DOMAIN reply.seen[7] : reply.seen[7][i].dev) =>
    reply.value # Null /\ {<<"cpu">>, <<"memory">>, <<"disk", 0>>} \subseteq DOMAIN reply.value

-----------------------------------------------------------------------------
(* The inductive invariant of the proofs (MonitorProofs).                  *)

Kinds == {"model", "clock", "usage", "total", "unused", "share", "df", "io"}

\* What a reading of this kind may give.
Values(kind) ==
  CASE kind = "model"  -> {GetCPUModelNameAndBaseClock(f)["modelName"] : f \in Cpuinfos}
    [] kind = "clock"  -> {GetCPUModelNameAndBaseClock(f)["cpuMhz"] : f \in Cpuinfos}
    [] kind = "total"  -> {GetMemoryTotal(m) : m \in Meminfos}
    [] kind = "unused" -> {GetMemoryUnused(m) : m \in Meminfos}
    [] kind = "share"  -> UNION {GetMemoryUsage(m) : m \in Meminfos}
    [] kind = "df"     -> {DiskInfoByDf(t) : t \in Tables}
    [] kind = "usage"  -> {CpuUsage}
    [] OTHER           -> {DiskIO}

\* What it may have seen.
Sights(kind) ==
  CASE kind \in {"model", "clock"} -> Cpuinfos \cup {NoReading}
    [] kind \in {"total", "unused", "share"} -> Meminfos
    [] kind = "df" -> Tables
    [] OTHER -> {NoReading}

\* No document is confused with none, no file with none read, and null with no
\* object: not that of the CPU, of the memory, or of both; nor with a list. What
\* df prints is a table whose rows have no more used than there is.
ASSUME MonitorAssumption ==
  /\ NoRequest \notin Requests \cup {"startup"} /\ NoReading \notin Cpuinfos
  /\ \A model \in Values("model"), clock \in Values("clock") :
     \A total \in Values("total"), unused \in Values("unused"), share \in Values("share") :
       LET cpu    == GetCPU(model, clock, CpuUsage)
           memory == GetMemory(total, unused, share)
       IN  Null \notin {cpu, memory, MergePatch(cpu, memory)}
  /\ Null \notin Values("df")
  /\ \A t \in Tables : t \in Seq(DfRow) /\ \A i \in DOMAIN t : t[i].used <= t[i].blocks

\* What was known when the server became ready is in the cache for good.
CacheKept ==
  /\ DOMAIN cache = {"modelName", "baseClock"} /\ DOMAIN known = DOMAIN cache
  /\ cache["modelName"] \in Values("model") \cup {<<>>}
  /\ cache["baseClock"] \in Values("clock") \cup {<<>>}
  /\ \A field \in DOMAIN known : known[field] # <<>> => cache[field] = known[field]

\* A part of the identity that was known is not looked up; another one is what the
\* file showed, or what an earlier document found.
FromCache(field, value, v, s) ==
  /\ request # "startup" /\ known[field] # <<>> => s = NoReading /\ v = known[field]
  /\ s # NoReading => v = GetCPUModelNameAndBaseClock(s)[value]
  /\ s = NoReading => v # <<>>

\* The value v is what a reading of this kind makes of s.
Match(kind, v, s) ==
  /\ v \in Values(kind) /\ s \in Sights(kind)
  /\ kind = "df" => v = DiskInfoByDf(s)
  /\ kind = "model" => FromCache("modelName", "modelName", v, s)
  /\ kind = "clock" => FromCache("baseClock", "cpuMhz", v, s)

\* The readings so far are the first ones of the document.
ReadInOrder ==
  /\ request \in Requests \cup {"startup", NoRequest}
  /\ Len(got) \in Nat /\ got = [i \in 1..Len(got) |-> got[i]]
  /\ Len(seen) = Len(got) /\ seen = [i \in 1..Len(got) |-> seen[i]]
  /\ IF request = NoRequest THEN got = <<>>
     ELSE /\ Len(got) <= Len(Readings(request))
          /\ \A i \in 1..Len(got) : Match(Readings(request)[i], got[i], seen[i])

\* The two documents made of two runs of df.
DocumentsOfTwoRuns ==
  reply.request \in {"DisksOverview", "DisksInfo"} =>
    LET Disks(n) == DiskInfoByDf(reply.seen[n])
    IN  /\ reply.seen[1] \in Tables /\ reply.seen[2] \in Tables
        /\ reply.value = IF reply.request = "DisksInfo" THEN DisksInfo(Disks(1), Disks(2))
                                                      ELSE DiskInfoOverview(Disks(1), Disks(2))

IInv ==
  /\ CacheKept /\ ReadInOrder
  /\ InfoMatchesDf /\ IdentityKeptSinceStartup /\ DocumentsOfTwoRuns
=============================================================================
