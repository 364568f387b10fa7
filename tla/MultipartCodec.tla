--------------------------- MODULE MultipartCodec ---------------------------
(***************************************************************************)
(* encode and decode of zmq_addon.hpp: a multipart message as one string   *)
(* of bytes, each part behind its size. The size is one byte, or the       *)
(* largest byte followed by SizeBytes bytes in network order.              *)
(***************************************************************************)
EXTENDS Integers, Sequences, SequencesExt

CONSTANTS
  Base,      \* 256, the number of values of a byte
  SizeBytes  \* 4, the bytes of a long size

ASSUME CodecAssumption == Base \in Nat /\ Base > 1 /\ SizeBytes \in Nat \ {0}

Byte == 0..(Base - 1)
MaxByte == Base - 1

\* The weight of the i-th byte from the last: shifts by 8, 16 and 24 in the code.
Power[i \in 0..SizeBytes] == IF i = 0 THEN 1 ELSE Base * Power[i - 1]

MaxSize == Power[SizeBytes] - 1

WriteNetworkOrder(value) ==
  [i \in 1..SizeBytes |-> (value \div Power[SizeBytes - i]) % Base]

ReadNetworkOrder(buf) == FoldLeft(LAMBDA value, b : Base * value + b, 0, buf)

-----------------------------------------------------------------------------
CountSize(part) == IF Len(part) < MaxByte THEN 1 ELSE 1 + SizeBytes

\* The size of the message that is allocated, from the first pass.
EncodedSize(parts) == FoldLeft(LAMBDA sum, p : sum + Len(p) + CountSize(p), 0, parts)

\* A plausible bug: a part whose size is the largest byte is taken for a small one.
EncodePartShort(part) ==
  (IF Len(part) <= MaxByte THEN <<Len(part)>> ELSE <<MaxByte>> \o WriteNetworkOrder(Len(part)))
    \o part

EncodePart(part) ==
  (IF Len(part) < MaxByte THEN <<Len(part)>> ELSE <<MaxByte>> \o WriteNetworkOrder(Len(part)))
    \o part

\* The bytes, or the exception when a size does not fit.
Encode(parts) ==
  IF \E i \in DOMAIN parts : Len(parts[i]) > MaxSize
    THEN [error |-> TRUE, bytes |-> <<>>]
    ELSE [error |-> FALSE, bytes |-> FoldLeft(LAMBDA bytes, p : bytes \o EncodePart(p), <<>>, parts)]

-----------------------------------------------------------------------------
\* What one iteration finds at source: the part, or that a size or a part would
\* end behind the limit.
Overflow == [error |-> TRUE, part |-> <<>>, next |-> 0]

\* A plausible bug: sizes are short, and not compared with the limit of the data;
\* -1 stands for what lies behind it.
DecodePartUnchecked(bytes, source) ==
  LET start == source + 1
      size  == bytes[source]
      At(i) == IF i <= Len(bytes) THEN bytes[i] ELSE -1
  IN  [error |-> FALSE, part |-> [i \in 1..size |-> At(start + i - 1)], next |-> start + size]

DecodePart(bytes, source) ==
  LET long  == bytes[source] = MaxByte
      start == source + 1 + (IF long THEN SizeBytes ELSE 0)
      size  == IF long THEN ReadNetworkOrder(SubSeq(bytes, source + 1, source + SizeBytes))
                       ELSE bytes[source]
  IN  IF long /\ Len(bytes) - source < SizeBytes THEN Overflow
      ELSE IF Len(bytes) + 1 - start < size THEN Overflow
      ELSE [error |-> FALSE, part |-> SubSeq(bytes, start, start + size - 1), next |-> start + size]

(* The loop of decode, from its last iteration back to the first. Parts    *)
(* found before an overflow have been written to the output by then.       *)
Decode(bytes) ==
  LET from[source \in Nat \ {0}] ==
        IF source > Len(bytes) THEN [error |-> FALSE, parts |-> <<>>]
        ELSE LET d == DecodePart(bytes, source)
             IN  IF d.error THEN [error |-> TRUE, parts |-> <<>>]
                 ELSE [error |-> from[d.next].error, parts |-> <<d.part>> \o from[d.next].parts]
  IN  from[1]
=============================================================================
