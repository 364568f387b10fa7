----------------------------- MODULE ZmqBuffer -----------------------------
(***************************************************************************)
(* The buffers of zmq.hpp (mutable_buffer and const_buffer, a start and a  *)
(* size), what socket_base::recv writes to one, and the strings that       *)
(* socket_base::get makes of array options.                                *)
(***************************************************************************)
EXTENDS Integers, Sequences, SequencesExt

CONSTANTS
  DefaultSize,  \* 1024, the default of init_size
  KeySize,      \* 32, a binary CURVE key
  Z85Size       \* 41, a key in Z85 and its null

ASSUME BufferAssumption ==
  /\ {DefaultSize, KeySize, Z85Size} \subseteq Nat \ {0}
  /\ KeySize < Z85Size /\ Z85Size < DefaultSize

NullPtr == 0
Throw   == <<-1>>   \* error_t is thrown; no option holds this

Least(a, b) == IF a < b THEN a ELSE b

Buffer(data, size) == [data |-> data, size |-> size]

\* A plausible bug: the shift is not limited, and the unsigned size wraps.
AdvanceUnlimited(buf, n) == Buffer(buf.data + n, (buf.size - n) % 2 ^ 16)

\* operator+= and operator+
Advance(buf, n) == Buffer(buf.data + Least(n, buf.size), buf.size - Least(n, buf.size))

\* buffer(b, n)
AtMost(buf, n) == Buffer(buf.data, Least(buf.size, n))

\* A contiguous sequence of `length` elements of `width` bytes; for a string
\* literal the length includes the null.
BufferOf(start, length, width, nBytes) ==
  Buffer(IF length # 0 THEN start ELSE NullPtr, Least(length * width, nBytes))

\* What a message of this size leaves in the buffer.
RecvInto(buf, nbytes) == [size |-> Least(nbytes, buf.size), untruncated_size |-> nbytes]

Truncated(r) == r.size # r.untruncated_size

-----------------------------------------------------------------------------
(* zmq_getsockopt on an array option: binary data, a string with its null, *)
(* or a key, as its two sizes ask for it. Too small a buffer is an error.  *)
GetSockOpt(nullTerm, value, size) ==
  CASE nullTerm = 0 -> IF Len(value.text) <= size THEN value.text ELSE Throw
    [] nullTerm = 1 -> IF Len(value.text) < size THEN Append(value.text, 0) ELSE Throw
    [] OTHER -> IF size = Z85Size THEN Append(value.text, 0)
                ELSE IF size = KeySize THEN value.key ELSE Throw

\* A plausible bug: the default is not changed for keys.
GetOptionNoDefault(nullTerm, value, initSize) ==
  LET got == GetSockOpt(nullTerm, value, initSize)
  IN  IF got # Throw /\ nullTerm # 0 THEN Front(got) ELSE got

\* socket_base::get: the option as a std::string, without its null.
GetOption(nullTerm, value, initSize) ==
  LET size == IF nullTerm = 2 /\ initSize = DefaultSize THEN Z85Size ELSE initSize
      got  == GetSockOpt(nullTerm, value, size)
      null == \/ nullTerm = 1 /\ Len(got) > 0
              \/ nullTerm = 2 /\ Len(got) = Z85Size
  IN  IF got # Throw /\ null THEN Front(got) ELSE got
=============================================================================
