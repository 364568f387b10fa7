------------------------------ MODULE Message ------------------------------
(***************************************************************************)
(* zmq::message_t (zmq.hpp), a zmq_msg_t with a C++ lifetime. A zmq_msg_t  *)
(* refers to a content that libzmq counts the references of and frees with *)
(* the last one. C++ moves and swaps copy the struct bit by bit, behind    *)
(* the back of that count.                                                 *)
(***************************************************************************)
EXTENDS Integers, Sequences, FiniteSets, SequencesExt

CONSTANTS
  Objects,   \* the message_t variables of a program
  Contents,  \* the blocks of memory messages keep their data in
  None,      \* the variable holds no object
  Empty,     \* a message without data
  Dead       \* a zmq_msg_t that is closed and not initialized again

ASSUME MessageAssumption ==
  IsFiniteSet(Objects) /\ {None, Empty, Dead} \cap Contents = {}

VARIABLES
  msg,   \* what the zmq_msg_t of each object refers to
  refs   \* the reference count of each content; a free one has none

Valid(h) == h \notin {None, Dead}

Fresh == {c \in Contents : refs[c] = 0}

Count(c, handles) == Cardinality({i \in DOMAIN handles : handles[i] = c})

(* zmq_msg_init_size, _init_data, _copy: each adds a reference;            *)
(* zmq_msg_close: takes one away, and does nothing to a message that has   *)
(* none or is not valid.                                                   *)
Referenced(handles, r) == [c \in Contents |-> r[c] + Count(c, handles)]
Closed(handles, r) == [c \in Contents |-> r[c] - Count(c, handles)]

-----------------------------------------------------------------------------
\* The constructors. One that throws leaves no object.
Construct(x) ==
  /\ msg[x] = None
  /\ \E h \in Fresh \cup {Empty} :
       msg' = [msg EXCEPT ![x] = h] /\ refs' = Referenced(<<h>>, refs)

\* A plausible bug: the source keeps its reference.
MoveConstructShared(x, y) ==
  /\ msg[x] = None /\ msg[y] # None
  /\ msg' = [msg EXCEPT ![x] = msg[y]]
  /\ UNCHANGED refs

\* message_t(message_t &&)
MoveConstruct(x, y) ==
  /\ msg[x] = None /\ msg[y] # None
  /\ msg' = [msg EXCEPT ![x] = msg[y], ![y] = Empty]
  /\ UNCHANGED refs

\* The assertion of the destructor fails for a dead message.
Destroy(x) ==
  /\ msg[x] # None
  /\ msg' = [msg EXCEPT ![x] = None] /\ refs' = Closed(<<msg[x]>>, refs)

\* rebuild closes first; if there is no memory then for the new content it
\* throws, and leaves a dead message.
Rebuild(x) ==
  /\ Valid(msg[x])
  /\ \E h \in Fresh \cup {Empty, Dead} :
       /\ msg' = [msg EXCEPT ![x] = h]
       /\ refs' = Referenced(<<h>>, Closed(<<msg[x]>>, refs))

\* x.move(y): what x held is released at once.
Move(x, y) ==
  /\ x # y /\ Valid(msg[x]) /\ Valid(msg[y])
  /\ msg' = [msg EXCEPT ![x] = msg[y], ![y] = Empty] /\ refs' = Closed(<<msg[x]>>, refs)

\* x.copy(y): the content is shared.
Copy(x, y) ==
  /\ x # y /\ Valid(msg[x]) /\ Valid(msg[y])
  /\ msg' = [msg EXCEPT ![x] = msg[y]]
  /\ refs' = Referenced(<<msg[y]>>, Closed(<<msg[x]>>, refs))

\* swap, and x = std::move(y): what x held goes to y and is not released.
Swap(x, y) ==
  /\ x # y /\ msg[x] # None /\ msg[y] # None
  /\ msg' = [msg EXCEPT ![x] = msg[y], ![y] = msg[x]]
  /\ UNCHANGED refs

\* rebuild, move and copy of a dead message throw and change nothing.
MessageStep ==
  \/ \E x \in Objects : Construct(x) \/ Destroy(x) \/ Rebuild(x)
  \/ \E x, y \in Objects : MoveConstruct(x, y) \/ Move(x, y) \/ Copy(x, y) \/ Swap(x, y)
=============================================================================
