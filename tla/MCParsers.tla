----------------------------- MODULE MCParsers -----------------------------
(***************************************************************************)
(* Checks the pure conversions of the program and of its ZeroMQ binding    *)
(* against reference definitions, over all inputs within the bounds. A     *)
(* behaviour takes one input of one kind and converts it.                  *)
(***************************************************************************)
EXTENDS Iostat, CpuInfo, MemoryMonitor, MultipartCodec, ZmqBuffer

CONSTANTS
  Devices, Rates, MaxRows,      \* iostat
  Chars, MaxChars, MaxLines,    \* string_trimmed, /proc/cpuinfo
  MemTotal, MaxAmount,          \* /proc/meminfo
  MaxParts, MaxBytes,           \* encode, decode
  MaxLength                     \* buffers, options

ASSUME ParserBounds ==
  /\ Rates \cup Chars \subseteq Nat
  /\ {MaxRows, MaxChars, MaxLines, MaxParts, MaxBytes, MaxLength, MaxAmount} \subseteq Nat
  /\ MemTotal \in Nat \ {0} /\ MemTotal + 4 * MaxAmount < W
  /\ MaxLength < DefaultSize   \* no option fills the default buffer
  /\ Devices \cap {"", "Device"} = {}   \* no name is blank or the title

VARIABLES kind, in, out

vars == <<kind, in, out>>

AtMostLong(n, S) == UNION {[1..i -> S] : i \in 0..n}

-----------------------------------------------------------------------------
(* The inputs of each kind.                                                *)

IostatRows == AtMostLong(MaxRows, {Row(d, r, w) : d \in Devices, r \in Rates, w \in Rates})

\* What the uninitialized devName may hold: nothing like a name, or what an
\* earlier call left on the stack.
Leftovers == {"garbage", "Device"} \cup Devices

IostatRuns == [first : IostatRows, second : IostatRows, tail : 1..2, dev0 : Leftovers]

\* Each line has a value of its own, so that a wrong line shows.
CpuinfoFiles ==
  {[i \in DOMAIN keys |-> Line(keys[i], <<32, 64 + i, 10>>)] :
     keys \in AtMostLong(MaxLines, {"model name", "cpu MHz", "flags"})}

\* Parts of one repeated byte, of lengths around the largest byte.
MultipartMessages ==
  AtMostLong(MaxParts, {[i \in 1..n |-> b] : n \in {0, 1, MaxByte - 1, MaxByte, MaxByte + 1},
                                             b \in {0, MaxByte}})

BufferUses == [length : 0..MaxLength, width : 1..2, nBytes : 0..(2 * MaxLength),
               m : 0..(2 * MaxLength + 1), n : 0..(2 * MaxLength + 1)]

OptionReads ==
  [nullTerm : {0, 1}, init : 1..DefaultSize, value : {[text |-> t, key |-> <<>>] :
                                                        t \in AtMostLong(MaxLength, {1, 2})}]
   \cup
  [nullTerm : {2}, init : 1..DefaultSize, value : {[text |-> [i \in 1..(Z85Size - 1) |-> 1],
                                                    key |-> [i \in 1..KeySize |-> 2]]}]

-----------------------------------------------------------------------------
Input ==
  \/ kind = "iostat"  /\ in \in IostatRuns
  \/ kind = "trim"    /\ in \in AtMostLong(MaxChars, Chars)
  \/ kind = "cpuinfo" /\ in \in CpuinfoFiles
  \/ kind = "meminfo" /\ in \in Meminfo(MemTotal, MaxAmount)
  \/ kind = "encode"  /\ in \in MultipartMessages
  \/ kind = "decode"  /\ in \in AtMostLong(MaxBytes, Byte)
  \/ kind = "buffer"  /\ in \in BufferUses
  \/ kind = "option"  /\ in \in OptionReads

Init == out = <<>> /\ Input

Conversion ==
  CASE kind = "iostat"  -> ParseIostat(IostatOutput(in.first, in.second, in.tail), in.dev0)
    [] kind = "trim"    -> StringTrimmed(in)
    [] kind = "cpuinfo" -> GetCPUModelNameAndBaseClock(in)
    [] kind = "meminfo" -> GetMemoryUsage(in)
    [] kind = "encode"  -> Encode(in)
    [] kind = "decode"  -> Decode(in)
    [] kind = "buffer"  -> BufferOf(1, in.length, in.width, in.nBytes)
    [] kind = "option"  -> GetOption(in.nullTerm, in.value, in.init)

Convert == out = <<>> /\ out' = <<Conversion>> /\ UNCHANGED <<kind, in>>

Next == Convert

Spec == Init /\ [][Next]_vars

Converted(k) == kind = k /\ out # <<>>
Result == out[1]

-----------------------------------------------------------------------------
SumColumn(rows, c) == FoldLeft(LAMBDA acc, row : acc + row.rates[c], 0, rows)

LastColumn(rows, c) == IF rows = <<>> THEN 0 ELSE Last(rows).rates[c]

\* The exact rates DiskIO computes: the column sums of the second report, plus
\* the last device once more for each blank line that closes the report (sscanf
\* leaves devName and data as the last device set them), whatever the first
\* report (totals since boot) and the uninitialized devName held.
LastDeviceRecounted ==
  Converted("iostat") =>
    /\ Result.read  = SumColumn(in.second, 1) + in.tail * LastColumn(in.second, 1)
    /\ Result.write = SumColumn(in.second, 2) + in.tail * LastColumn(in.second, 2)

\* DiskMonitor.cpp:127 says that the data of the second output are the transfer
\* values of the interval; so the rates are the column sums of that report.
RatesAreSecondReport ==
  Converted("iostat") => /\ Result.read  = SumColumn(in.second, 1)
                         /\ Result.write = SumColumn(in.second, 2)

\* string_trimmed cuts spaces from both ends, all of them and nothing else.
TrimmedExactly ==
  Converted("trim") =>
    /\ \E i \in 0..Len(in) : \E j \in i..Len(in) :
         /\ Result = SubSeq(in, i + 1, j)
         /\ \A k \in DOMAIN in : k <= i \/ k > j => IsSpace(in[k])
    /\ Result # <<>> => ~IsSpace(Head(Result)) /\ ~IsSpace(Last(Result))

\* Where the first two lines with either key show one each, as a processor with both
\* does, the count of two means what CPUMonitor.cpp:156 says: both are found, and
\* these are reported, whatever lines come between and after.
FirstNameAndClock ==
  Converted("cpuinfo") =>
    \A name, clock \in DOMAIN in :
      /\ in[name].key = "model name" /\ in[clock].key = "cpu MHz"
      /\ \A i \in DOMAIN in : i <= name \/ i <= clock => i \in {name, clock} \/ in[i].key = "flags"
     => Result = [modelName |-> <<in[name].value[2]>>, cpuMhz |-> <<in[clock].value[2]>>, findNum |-> 2]

\* As long as no more can be reclaimed than there is, the usage is the share of
\* the memory that cannot be, although the difference in brackets is unsigned and
\* may pass below 0 (Shmem is read at another moment than Cached).
UsageIsShare ==
  Converted("meminfo") /\ Reclaimable(in) <= MemTotal =>
    Result = Hundredths(MemTotal - Reclaimable(in), MemTotal)

\* What is encoded fills exactly the message that was allocated for it (the
\* assertion at zmq_addon.hpp:256) and is decoded to the same parts. Cut off at
\* any byte, it is never taken for another one: decode gives the complete parts,
\* and throws unless the cut is between two parts.
EncodeRoundTrip ==
  Converted("encode") /\ ~Result.error =>
    LET End(k) == EncodedSize(SubSeq(in, 1, k))
    IN  /\ Len(Result.bytes) = End(Len(in))
        /\ \A n \in 0..Len(Result.bytes) :
             LET complete == {k \in 0..Len(in) : End(k) <= n}
             IN  Decode(SubSeq(Result.bytes, 1, n)) =
                   [error |-> \A k \in complete : End(k) # n,
                    parts |-> SubSeq(in, 1, Max(complete))]

\* Whatever the bytes are, decode reads none behind their end, and the parts it
\* accepts are parts encode can give back.
DecodeStaysInside ==
  Converted("decode") =>
    /\ EncodedSize(Result.parts) <= Len(in)
    /\ \A i \in DOMAIN Result.parts : Result.parts[i] \in Seq(Byte)
    /\ ~Result.error => Decode(Encode(Result.parts).bytes) = Result

\* No sequence of advances leaves the memory of the sequence the buffer was made
\* of; two advances are one; and a message received into the rest is cut to it,
\* and reported as cut exactly when it is longer.
BufferStaysInside ==
  Converted("buffer") =>
    LET rest == Advance(Advance(Result, in.m), in.n)
    IN  /\ Result.size <= in.length * in.width /\ Result.size <= in.nBytes
        /\ rest = Advance(Result, in.m + in.n)
        /\ rest.size >= 0 /\ rest.data + rest.size = Result.data + Result.size
        /\ AtMost(rest, in.n).size <= rest.size
        /\ LET r == RecvInto(rest, in.n)
           IN  r.size <= rest.size /\ (Truncated(r) <=> in.n > rest.size)

\* With the default size each array option is returned as it was set, without
\* the null; with another size it is returned so, or in binary, or not at all.
OptionReturned ==
  Converted("option") =>
    /\ in.init = DefaultSize => Result = in.value.text
    /\ Result \in {in.value.text, in.value.key, Throw}

-----------------------------------------------------------------------------
(* The inductive invariant of the proofs (ParsersProofs).                  *)

IInv == Input /\ (out # <<>> => out = <<Conversion>>)
=============================================================================
