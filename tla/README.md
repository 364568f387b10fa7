# ComputerMonitor: a TLA+ verification project

ComputerMonitor (the "RAID monitor server") reports CPU, memory and disk figures
of a Linux machine over ZeroMQ. This directory holds TLA+ models of its own code
(about 1300 lines of C++) and of the classes of the header-only ZeroMQ binding
it carries in `include/`, TLC configurations that check them on small instances,
and TLAPS proofs. Source paths below are relative to the repository
root, `src/` in `PROJECT.json`.

## 1. Inventory

The repository has no design document and no tests; the code, its comments and
the headers' doc comments are the only statement of intent.

| Component | State | Operations | Interacts with | Correct means |
|---|---|---|---|---|
| Server loop, `main.cpp` | REP socket, current request | bind, create monitors, recv, one of five branches, send | clients by messages; monitors by calls | one reply per request, in every branch; sockets used in order |
| Clients, `Client.cpp`, `raid_monitor_server.h` | REQ socket, `request_num` | send, poll/recv, timeout, close with linger, sleep | server | the reply belongs to the request; the non-blocking client always returns |
| Facade, `Monitor.cpp` | three owned monitors | the four documents | df, `/proc`, samplers | documents are complete and their halves agree |
| CPU sampler, `CPUMonitor.cpp` | atomic `cpuUsage`, flag `running`, detached thread | sample, read, destroy | kernel counters; reader thread | usage is the busy share, at any uptime; thread does not outlive the object |
| CPU identity, `CPUMonitor.cpp:148-183,201-211` | cached `modelName`, `baseClock` | scan of `/proc/cpuinfo` | facade | both values found; cached once found |
| Memory, `MemoryMonitor.cpp` | none kept | three getters, each reads `/proc/meminfo` | kernel | amounts and share as documented |
| Disk capacity by df, `DiskMonitor.cpp:77-108,206-226` | none kept | run df, parse, sum | mounted file systems | every device counted once |
| Disk I/O sampler, `DiskMonitor.cpp:125-184,228-230` | two atomics, flag, joined thread | run iostat, store, load, destroy | reader thread | fresh, defined rates; destructor returns and is safe |
| Disk capacity by statfs, `DiskMonitor.cpp:56-75,110-123,194-204` | last values | three getters | none (compiled out of the facade by `USEDF_METHOD 1`) | |
| `string_trimmed`, `Common.h` | none | trim | CPU identity | leading and trailing blanks removed |
| Messages, `zmq.hpp` `message_t`; `zmq_addon.hpp` `multipart_t` | a `zmq_msg_t`; a queue of them | construct, move, swap, copy, rebuild; push, pop, join, clone; send and receive part by part | libzmq's reference counts; a pipe | no content freed early or leaked; messages arrive whole |
| Encoding, `zmq_addon.hpp` `encode`, `decode` | none | both directions | | decode undoes encode; cut data is noticed |
| Buffers and options, `zmq.hpp` | start and size | `+=`, `buffer(...)`, `recv`, `get` | sockets | never beyond the memory; strings without their null |
| Owners, `zmq.hpp` `context_t`, `socket_t`, `monitor_t` | what libzmq gave out; `socket_ref` | construct, move, assign, swap, close, shutdown; init, `check_event`, abort | libzmq, two threads, signals | one owner each; close returns; events whole |
| Vendored: nlohmann_json, spdlog; libzmq itself | | | | external |

The program uses of the binding `context_t`, `socket_t`, `message_t`, `buffer`,
`poll` and one option; `zmq_addon.hpp` and `monitor_t` are carried along but not
included or used by it. They are modelled because they hold most of the
repository's delicate code.

What is hard here, and hard to test: two threads that publish by separate atomic
stores while the server thread reads by separate loads; object lifetime against a
detached and against a joined thread; unsigned counters that wrap after days of
uptime; parsing that keeps values of earlier lines; two runs of a command that
see two different machines; timeouts that race with late replies, requests
delivered after their client gave up, and crashes between receive and send. In
the binding: C++ moves against a C library that counts references, exceptions
between two calls that belong together, messages of which one part is refused,
termination that waits for other threads. The
list, line by line, is `hazards` in `PROJECT.json`.

## 2. Modules

| Module | Models | Kind |
|---|---|---|
| `Iostat` | the parsing loop of `DiskPrivate::DiskIO` | operators |
| `DiskMonitor`, `DiskMonitorProofs` | the I/O thread, `GetDiskIO`, the destructor | state machine, EXTENDS `Iostat`; theorems |
| `CPUMonitor`, `CPUMonitorProofs` | the detached thread, `CalcCPUUsage`, `GetCPUUSage`, the destructor, the kernel's counters | state machine; theorems |
| `CpuInfo` | the scan of `/proc/cpuinfo`, `string_trimmed` | operators |
| `MemoryMonitor` | the lines of `/proc/meminfo` that are read and the arithmetic on them | operators |
| `TwoDecimals` | the format `" {:.2f}"` | operators, used by CPU and memory |
| `Df` | the token loop of `DiskInfoByDf` and its sums | operators |
| `Monitor`, `MonitorProofs` | the documents of the facade, reading by reading, with the cached CPU identity | state machine, composes `Df`, `CpuInfo`, `MemoryMonitor`; theorems |
| `AtMostOnceCall` | what the exchange promises | abstract specification |
| `RaidServer`, `RaidServerProofs` | server, network and the three kinds of client | state machine, implements `AtMostOnceCall`; theorems |
| `MultipartCodec` | `encode`, `decode` | operators |
| `ZmqBuffer` | buffers, `recv` into a buffer, `get` of array options | operators |
| `Message` | `message_t` | actions on single messages |
| `Multipart`, `MultipartProofs` | `multipart_t`, `send_multipart`, `recv_multipart_n`, two threads and a pipe | state machine, EXTENDS `Message`; theorems |
| `Sockets`, `SocketsProofs` | `context_t`, `socket_t`, `socket_ref`, `monitor_t`, two threads and libzmq's I/O thread | state machine; theorems |
| `MCParsers`, `ParsersProofs` | checks the operator modules against reference definitions | one step per input; theorems |
| `Loops` | what a fold over a sequence of any length computes, and induction over numbers | lemmas |
| `MC...` (the others) | small instances for TLC | |

### The disk I/O sampler

`Iostat` abstracts a line of iostat's output to what `sscanf` finds in it. What
it does *not* find keeps its old value (`Sscanf`); that is the whole difficulty
of the loop, together with the uninitialized `devName`. `ParseIostat` folds the
loop body over the lines after the three that are dropped.

`DiskMonitor` has one action per atomic access: `IoCheck` (loop condition),
`IoRunIostat` (popen, reading, sums in locals), `IoStoreRead`, `IoStoreWrite`;
`GetDiskIOBegin`, `GetDiskIOLoadRead`, `GetDiskIOLoadWrite` (in either order: the
evaluation order of the arguments of `make_tuple` is unspecified),
`GetDiskIOReturn`; `DestroyStop`, `DestroyJoin`. `IoPopenFails` is the NULL pipe
that is logged and then used. `published` and `begun` are history variables: the
result of each run, and how many were stored when the current call began.

### The CPU sampler

Counters are kept modulo `W` (2^32 in the code), which is all `sscanf("%u")`
leaves of them, so the model runs through all uptimes without a bound. The six
counters other than idle are one: `CalcCPUUsage` uses only idle and the sum. A
double that results from the division is an exact fraction; the rounding of
IEEE arithmetic is left out. `span` and `measured` are history: what the kernel
really counted between the two readings, and whether the 32-bit sum wrapped. The
kernel may take ticks of iowait back (`proc(5)` warns of it). After the destructor
the flag is read from freed memory, which the model lets hold anything.

### Documents, memory, CPU identity and df

A document of `Monitor` is a sequence of readings (`Readings`), each a step: a
run of df, one of the three readings of `/proc/meminfo`, a look-up in
`/proc/cpuinfo`, a value of a sampler. The machine may change between any two, so
each reading sees any state of what it reads; `seen` remembers which. `startup`
is the three documents `main` makes before it serves: they fill the cache of
model name and clock, each field by a look-up of its own. JSON values are `Null`
or functions on keys, and `MergePatch` is nlohmann's, one level deep (deeper
levels cannot meet: the keys of the three parts differ). Amounts of df stay in
kB; the division into GB and TB and the fixed members of `DisksInfo` (state,
progress) are left out.

`ReadRow` is one `fscanf` of six tokens. The counters of `/proc/meminfo` are not
required to add up, since the kernel does not read them atomically. In `CpuInfo`
texts are sequences of character codes, because trimming is about characters.

### Server and clients

The server's place (`down`, `starting`, `receiving`, `handling`) follows `main`.
`rep` and `req` are the states of the sockets, which throw when used out of
order. A request moves from the client's socket (`outbox`) to the server's
(`inbox`) to `cur`; the reply from `replies` to `arrived`. `Timeout` is poll
returning without a reply *in the socket*: one may be on its way, and is then
dropped. A closed socket lingers, so its request can still be delivered.
`ServerCrash` stands for every way the process ends (a NULL stream used by a
monitor, an exception leaving `main`, a kill); `ServerBind` is also the restart.
`ConnectionBreaks` loses what is on the wire, and orphans what the server has.
libzmq is external: its behaviour is modelled from how the code uses it.

### Messages and multipart messages

In `Message` a `zmq_msg_t` is what it refers to: a content, `Empty`, or `Dead` (a
rebuild that found no memory). `refs` is libzmq's count; it changes only in calls
of libzmq, while moves and swaps of C++ just copy the struct. Small messages,
which libzmq copies instead of sharing, are not told apart. `Multipart` adds
the queues, and a pipe: `out` is the message being written, `wire` the complete
ones, `pending` the rest of the one being read. `meant`, `cur` and `taken` are
history: what senders wanted to be one message, the one being received, and what
earlier calls got of it. A sender that gets an exception closes its socket, as the
comments of the functions advise, and is `Over`; a receiver may call again.

`buffer("invalid request")` in `main.cpp:70` is `BufferOf` with the length of the
array: the reply includes the terminating null.

### Contexts, sockets, monitors

One thread owns the contexts, another the sockets and monitors. `lib` is libzmq:
the context of each open handle, which handle receives the events of which
monitored one, and the frames that wait. An object that was closed or moved from
holds `Null`, and so does one that does not exist yet: constructing by move and
assigning to a closed object are the same step. Any call may throw; then
everything the thread owns is destroyed (`Unwinds`), monitors before the sockets
they refer to, and the thread goes on where the exception is handled. In an
ended context every call throws; poll may throw in any. `MayClose` is the contract of `socket_ref`.
`closing` is a `close` of a context that waits in `zmq_ctx_term`: for the sockets
of the context, and for what closed ones have left `unsent`, with the time of
`sockopt::linger` or, by default, without (`LeaveUnsent`, `NoLongerUnsent`,
`Holding`). Whether a socket has sent anything and which linger it has is left
open; the sockets of monitors only receive.

## 3. Runs

With two workers `sockets` takes about two minutes (0.5 million states, with
liveness), `cpu_sampler` a minute and a quarter (1.7 million), `multipart` a minute
(1.5 million up to symmetry), `server` half a minute, every other run a few seconds.

| Run | Checks | Result |
|---|---|---|
| `parsers` | `LastDeviceRecounted`, `TrimmedExactly`, `FirstNameAndClock`, `UsageIsShare`, `EncodeRoundTrip`, `DecodeStaysInside`, `BufferStaysInside`, `OptionReturned` | hold |
| `iostat_sum` | `RatesAreSecondReport` | violated: the last device is counted once more per closing blank line |
| `disk_sampler` | `TypeOK`, `AtomicsMatchHistory`, `FreshReply`, `NoAccessAfterDestroy`, `DestroyCompletes`, `FirstRatesArrive` | hold |
| `disk_uninit` | `RatesDefined` | violated: a call in the first second returns an uninitialized atomic |
| `cpu_sampler` | `UsageExactWithoutWrap`, `WrapReportsFullLoad`, `SentinelNeverReturned`, `FirstUsageArrives` | hold |
| `cpu_wrap` | `UsageIsBusyShare` | violated when the 32-bit sum wraps between the readings |
| `cpu_detach` | `ThreadStoppedByDestructor` | violated: nothing waits for the detached thread |
| `monitor_documents` | `InfoMatchesDf`, `ListIsReadablePrefix`, `ConsistentIfUndisturbed`, `IdentityKeptSinceStartup` | hold |
| `monitor_info` | `InfoComplete` | violated: a row that is not read hides the disks after it; without a disk the document is null |
| `server` | `TypeOK`, `SocketCallsInOrder`, `OneOutstanding`, `ReplyAnswersRequest`, `LostOnlyByFailure`, `ImplementsCalls`, `NoBlockReturns`, `AllServed` | hold |
| `multipart` | `CountedOnce`, `DeliveredWhole`, `NotRefusedInside`, `RefusedCallLeaves` | hold |
| `sockets` | `HandlesOwned`, `ContextsTracked`, `MonitoringHasAnEnd`, `EventsWhole`, `CloseReturns` | hold |

Each violated property states what a comment or a header says; `findings` in
`PROJECT.json` quotes the line. Each property of a passing run has a mutant, a
plausible bug defined next to the definition it would replace, that breaks it.

Some properties that hold say what a caller may not expect. `RefusedCallLeaves`:
when the pipe is full, `send_multipart` leaves everything to be sent again, but
`multipart_t::send` has already destroyed the first part. `DeliveredWhole`: after
`recv_multipart_n` has thrown, the next call gets the rest of the same message.
`MonitoringHasAnEnd`: a second `init` of a `monitor_t` forgets the first socket,
which libzmq goes on monitoring. `CloseReturns`: closing a context may take for ever
if a socket without a linger time was closed before it could send everything;
`block_socket` sets none, `no_block_socket` does.

Two properties that hold say exactly what the code does where a violated one says
what its comments promise: `LastDeviceRecounted` (`RatesAreSecondReport`) and
`ListIsReadablePrefix` (`InfoComplete`). The run of `InfoComplete` uses a table whose only
disk is behind a row that is not read; where df prints no disk at all, as in a
container, the document is null as well.

Three more disagreements are in the models, but no property is about them:

* `CPUMonitor.cpp:156` takes the count of two for both values being found. Two lines
  of one key, as from two processors without a clock, end the scan too: the other
  value is empty, the one reported the second processor's. `FirstNameAndClock` is
  about the files for which the comment is right.
* `MemoryMonitor.h:32` describes the usage as a fraction. Counters of which more can be
  reclaimed than there is, or less than nothing, give one above 1. `UsageIsShare` is
  about those of which no more can be reclaimed than there is.
* `MemoryMonitor.h:26` describes the unused memory. `GetMemoryUnused` is always 0, since
  `GetMemoryInfo` does not look for `MemAvailable`.

### Bounds

* `parsers`: two devices and two rows per report of iostat, rates 0 and 1, one or
  two closing blank lines, every leftover of `devName` (the loop carries only the
  last row and two sums from line to line). Texts of up to four characters on both
  sides of `isSpace`'s limits; five lines of `/proc/cpuinfo` with three kinds of
  key. Amounts 0..2 of a memory of 4: what is reclaimable is negative, within the
  total, and above it. Bytes of four values and sizes of two bytes, so that parts
  lie below, at and above the largest byte and every string of up to five bytes
  can be decoded. Options of up to three characters and every initial size.
* `disk_sampler`: three runs of iostat (`MaxRounds`): a call can overlap two, and
  one is left for the destructor. The proofs need no such bound.
* `cpu_sampler`: words of four values, at most two ticks and one lost tick
  between the readings. Idle, other and sum wrap alone and together. No bound on
  time. The window stays below a word, as half a second does below 2^32 ticks.
* `monitor_documents`: tables of df of up to two rows: what stops the reading
  comes before, between or after disks. A few different files of `/proc`, with and
  without the keys looked for.
* `server`: one client of each kind, two requests each (10 in the code: a request
  sees only the outcome of the one before), one crash, one broken connection; one
  client sends a text that is no command.
* `multipart`: two messages, two multipart messages of up to two parts, two
  contents, a pipe that holds one message. One message may be complete while
  another is written or waits to be; a content that is freed is used again.
  `Quiet`: messages are built while none is being received; the two threads
  touch different messages. Objects of a kind are interchangeable, hence symmetry.
* `sockets`: two objects of each class, two contexts, three handles (a monitored
  socket, its monitor and one more, or two monitors), one waiting event and its end,
  one interrupt per close, messages left unsent with a linger time and without.
  `OneContext`, `MonitorsIdle`: monitors are used while there is one context and nothing
  is unsent, as they touch neither; `LeaveUnsent`: one socket's messages at a time,
  since one is enough to keep `zmq_ctx_term` waiting.

Runs that say `CHECK_DEADLOCK FALSE` are of programs that may stop: a destroyed
object, a crashed process, clients that have ended.

### Fairness

* The sampling threads (`FairSpec` of `DiskMonitor` and `CPUMonitor`): weak fairness
  of the thread as a whole. The operating system schedules it, iostat ends after
  two reports and the sleep after half a second. A failing popen or fopen ends the
  process, and the liveness properties are stated up to such a crash.
* `DestroyJoin`, the loads and the return of `GetDiskIO`: a call in progress goes on.
* Nothing obliges an owner to call or to destroy.
* `ClientFairSpec` of `RaidServer`: each client runs; a poll of one second ends. No
  fairness of the server or the network: `NoBlockReturns` must hold without.
* `ServerFairness`, the premise of `AllServed`: the server runs, messages are
  delivered and, per client, strong fairness of `ServerRecv`, since a REP socket
  serves its peers in turn. `AllServed` excuses behaviours with a crash or a broken
  connection, which REQ sockets do not recover from.
* `Fairness` of `Sockets`: a call in an ended context, also one that waits, returns
  with the error; an exception unwinds its thread, and a `check_event` or a callback
  that has begun goes on; the time of what lingers passes; `zmq_ctx_term` returns once no socket is left and
  nothing is unsent. That messages are ever sent is not assumed. Nothing
  obliges either thread to close, and a thread need not use its sockets before
  the context ends.

## 4. Proofs

The proofs of a component begin with an inductive invariant `IInv`, by a theorem
named `Invariance`, and derive the properties below from it. The `IInv`s are defined at the end
of the component's module, in named parts. Being conjunctions of properties and of
what their proofs need besides, they are not among the properties of the runs. The theorems hold for every value of the
constants that satisfies the module's assumptions, not only for the bounds of
section 3. Every invariant and every action property of a run is the statement of
a theorem.

| Module | Theorems (property) |
|---|---|
| `DiskMonitorProofs` | `TypeCorrect` (`TypeOK`), `StoresTornOnlyInside` (`AtomicsMatchHistory`), `RepliesFresh` (`FreshReply`), `LifetimeSafe` (`NoAccessAfterDestroy`) |
| `CPUMonitorProofs` | `UsageExact` (`UsageExactWithoutWrap`), `WrapIsFullLoad` (`WrapReportsFullLoad`), `SentinelHidden` (`SentinelNeverReturned`) |
| `RaidServerProofs` | `TypeCorrect` (`TypeOK`), `CallsInOrder` (`SocketCallsInOrder`), `AtMostOneOutstanding` (`OneOutstanding`), `RepliesCorrect` (`ReplyAnswersRequest`), `LossNeedsFailure` (`LostOnlyByFailure`), `Refinement` (`ImplementsCalls`) |
| `MonitorProofs` | `InfoIsOfDf` (`InfoMatchesDf`), `ListReadable` (`ListIsReadablePrefix`), `Consistent` (`ConsistentIfUndisturbed`), `IdentityKept` (`IdentityKeptSinceStartup`) |
| `SocketsProofs` | `SocketsOwned` (`HandlesOwned`), `ContextsOwned` (`ContextsTracked`), `MonitoringEnds` (`MonitoringHasAnEnd`), `EventsStayWhole` (`EventsWhole`) |
| `MultipartProofs` | `WholeMessages` (`DeliveredWhole`), `RefusedAtFirstOnly` (`NotRefusedInside`), `RefusalLeavesRest` (`RefusedCallLeaves`, an action property), `ReferencesCounted` (`CountedOnce`) |
| `ParsersProofs` | `LastDeviceAgain` (`LastDeviceRecounted`), `TrimmedFromBothEnds` (`TrimmedExactly`), `BothReported` (`FirstNameAndClock`), `MemoryUsageIsShare` (`UsageIsShare`), `RoundTrip` (`EncodeRoundTrip`), `StaysInside` (`DecodeStaysInside`), `BufferInside` (`BufferStaysInside`), `OptionsReturned` (`OptionReturned`) |

*Disk I/O sampler.* `FreshReply` is about finished calls and is not inductive.
The invariant adds what the call in progress has loaded (`LoadsFresh`: from a run
between the start of the call and now), what the atomics hold at each place of the
thread (`AtomicsMatchHistory`) and why the next store keeps that
(`LocalIsNewest`), that a reply's runs are past (`ReplyInHistory`), and how flag,
thread and object follow each other (`FlagTellsLifetime`). Lemma `RoundsFrame` does
the work for all steps that neither load nor publish. Assumed (`DiskAssumption`):
the sets are not empty, the two special values differ and are no rates.

*CPU sampler.* The properties compare a sample with what the kernel counted; the
thread knows two readings modulo `W`. `SpanAccounts` says that the readings are
`span` apart, modulo `W`; the arithmetic of `CalcCPUUsage` on such readings is a
lemma (`SampleOfSpan`). Assumed (`CPUAssumption`): less than one turn of a counter
passes between two readings, as half a second does in 2^32 ticks.

*Server and clients.* That a reply answers the last request needs to know where
the one message of a client is. The invariant says so per client: socket and loop
agree (`ClientPlaces`), there is at most one message and none while the socket may
send (`OneMessage`), a request in any queue is the last one made (`RequestIsLast`),
and `executed` is ahead of `num` exactly when a reply is under way or lost
(`ExecutedOnce`). A step of the server or of one client leaves the other clients'
part alone (lemma `ClientFrame`). `Refinement` maps each action to `AtMostOnceCall`:
sending is `Ask`, the server's reply is the execution, receiving is the answer, a
timeout is giving up, the rest are stutters. Assumed: `ServerAssumption`, and that
the value for "no request" is none (`NoRequestAssumption`).

*Documents.* The properties speak of finished documents. `ReadInOrder` relates
every value read so far to what that reading saw; `CacheKept` says that what was
known at start-up stays in the cache. `InfoDocument` is what two applications of
`MergePatch` to distinct keys give. `DocumentsOfTwoRuns` says that both parts of a
document of the disks are what `DiskInfoByDf` makes of the tables of its two runs. Its
token loop is followed row by row: what it holds after any row is the devices among
the rows so far, in order, and their two sums, until the row at which it stops. The
scan of `/proc/cpuinfo` stays opaque here: these theorems hold whatever it makes of a
reading. Assumed (`MonitorAssumption`): null is no object and no table of df, the
markers for "no document" and "no reading" are none, and no row of df shows more used
than there is.

*Contexts, sockets, monitors.* The properties count owners; the invariant says who
owns what: no two objects hold one handle, every open handle has an owner that
knows its context (`Owns`), a `context_t` holds a context until it is terminated
(`ContextsHeld`), events go to open handles and nothing waits for closed ones
(`LibSound`), and what waits is whole events, or begins with the second frame of
the one a `check_event` is in (`WholeEvents`). The lemmas about one close, one open
and one swap (`Owns` is preserved) carry all the operations built of them,
including the unwinding after an exception. Assumed (`SocketsAssumption`): null is
no handle and no context, sockets and monitors are different objects. What is left
unsent does not occur in the invariant: the theorems hold for every `Lingers`.

*Multipart messages.* `SentSoFar`: what is written of the open message, followed by
what the call has left, is what earlier calls and this one were to send. It makes
`DeliveredWhole` inductive and gives `NothingWritten`: a call that meets an empty
`out` has all its parts left, so a refusal is always before the first part.
`GotSoFar` is the same for the receiver. Assumed (`MultipartAssumption`): a receiving
call may take at least one part.

*Reference counts.* `CountedOnce` adds up how often a content occurs in the variables,
the multipart objects, the pipe and the receiver, and is inductive together with
`IInv` (a part that is taken exists because no message of the pipe is empty and a
call that sends has parts left). The lemmas say how such a number changes when one
value is replaced, a part is put or taken at either end, sequences are joined, or a
message enters or leaves the pipe; each is a bijection or a disjoint union of places.
With them each operation is arithmetic. Assumed (`MessageAssumption`,
`MultipartAssumption`): finitely many variables and multipart objects, and no content
that is one of the three markers for a message without one.

*Loops.* What a fold or a recursive function computes for every input takes an
induction over data. The library's induction rules are of no use here, as they have
an operator as parameter; `Loops` does without. From the fact that `<` on the natural
numbers is well founded it proves induction for *sets* of numbers (`LeastNumber`,
`Induction`, `LoopInduction`), then that `FoldLeft`'s recursive function exists
(`FoldExists`) and takes the values of a loop (`FoldIsLoop`). A proof about a fold
gets that sequence of values, and shows by `LoopInduction` what each is.

*Conversions.* For inputs of any size:

* `string_trimmed`: `EndIs` and `BeginIs` are the two loops, `TrimFacts` where they stop.
* `/proc/cpuinfo`: `ScannedTo` is what is known after each line: how many keys were
  found, and the last value of each.
* iostat: `FirstReport` shows that the loop reaches the second title with its sums
  at 0 whatever came before, `SecondReport` that the sums are then those of
  the rows so far and `devName` is the last device, and `LastBlanks` that
  each closing blank line adds that device again (`RecountFacts`).
* `encode`: `Layout` says where the bytes of each part are. `ReadWritten` is the round
  trip of a size, by division with remainder in any base and length.
* `decode`: `DecodeExists` is that its loop ends on any bytes, since each part takes at
  least one. `DecodeAt` is what it finds where a part was written, cut or not, and
  `DecodeEncoded` carries this from the cut back to the first part.
  `DecodeTakes` bounds what is accepted of bytes nobody encoded. `RoundTripFacts` and
  `StaysInsideFacts` are about all messages and all bytes; the theorems take
  the inputs the specification enumerates.
* Buffers, array options and the memory usage need no induction.

Assumed: `ParserBounds` (amounts that do not pass one turn of a word, options shorter
than the default buffer, no device of iostat without a name or named like the
title) and `CodecAssumption` (at least two values of a byte, one byte of a long size).

Only model-checked, and why:

* liveness (`DestroyCompletes`, `FirstRatesArrive`, `FirstUsageArrives`,
  `NoBlockReturns`, `AllServed`, `CloseReturns`): fairness is out of the prover's
  reach;
* that the model's definitions of a loop agree with the C++ they translate is, as for
  every definition, a matter of reading: `map` in `PROJECT.json` names the lines.

## 5. Not modelled

* Capacity by statfs: compiled out.
* The text of logs and JSON, the arguments of the client's `main`, IEEE rounding,
  buffer sizes (`char[20]`, `char[80]`) against longer names.
* In `RaidServer`: signals that interrupt a socket call; high-water marks of
  sockets (a client has one message at most).
* `poller_t` and `active_poller_t`: compiled only with `ZMQ_BUILD_DRAFT_API`, which
  the build does not define. `proxy` and `proxy_steerable`: one call of libzmq each.
* The table of option names, flags and enumerations of `zmq.hpp`, its
  implementation of `optional` for old compilers, and the dumps `str()`: no state.
* The C declarations of `zmq.h`, nlohmann_json, spdlog, libzmq: external, apart from
  what is relied on.
* Two threads that use one object of the binding at once: the classes do not
  promise to support it.

## 6. Plan

Done: sampler of disk I/O; CPU sampler; server and clients with the abstract call;
documents with memory and CPU identity; messages, encoding, buffers, sockets,
contexts and monitors of the binding. Proofs for every state
machine and every conversion: all invariants and action properties are theorems.

Left: a composition of `RaidServer` with the samplers: a failing popen or fopen of
either thread as the cause of a crash, the first reply of `DiskIO` against the first
run of iostat.
