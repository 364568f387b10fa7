----------------------------- MODULE Multipart -----------------------------
(***************************************************************************)
(* zmq::multipart_t and the functions send_multipart and recv_multipart_n  *)
(* (zmq_addon.hpp), over a pipe from a sending to a receiving thread. The  *)
(* sending thread builds messages of message_t parts and sends them part   *)
(* by part, the receiving thread takes them part by part.                  *)
(*                                                                         *)
(* libzmq makes a message visible when its last part is written, keeps at  *)
(* most HWM of them, and refuses (EAGAIN) only the first part of one.      *)
(***************************************************************************)
EXTENDS Message

CONSTANTS
  Multiparts,  \* the multipart_t objects of the sending thread
  HWM,         \* complete messages the pipe holds
  MaxParts     \* bound: parts of a multipart_t, and of a message

ASSUME MultipartAssumption == MaxParts \in Nat \ {0} /\ IsFiniteSet(Multiparts)

VARIABLES
  parts,    \* the parts of each multipart_t
  snd,      \* the call of the sending thread: what it sends, and how far it is
  out,      \* parts written of the message that is not yet complete
  wire,     \* complete messages
  rcv,      \* the call of the receiving thread
  pending,  \* the rest of a message whose first part has been taken
  inbox,    \* what the receiving thread has got by its call
  ret,      \* what the last receiving call returned
  meant,    \* history: the messages in the pipe, as their senders meant them
  cur,      \* history: the one that is being received
  taken     \* history: the parts of it that earlier calls have got

threads == <<parts, snd, out, wire, rcv, pending, inbox, ret, meant, cur, taken>>
vars == <<msg, refs, threads>>

Idle == [at |-> "idle"]
Over == [at |-> "over"]   \* an exception: the socket is closed, as advised
sending == <<snd, out, wire, meant>>
receiving == <<rcv, pending, inbox, ret, cur, taken>>

Init ==
  /\ msg = [x \in Objects |-> None] /\ refs = [c \in Contents |-> 0]
  /\ parts = [p \in Multiparts |-> <<>>]
  /\ snd = Idle /\ out = <<>> /\ wire = <<>> /\ meant = <<<<>>>>
  /\ rcv = Idle /\ pending = <<>> /\ inbox = <<>> /\ ret = "none" /\ cur = <<>> /\ taken = <<>>

-----------------------------------------------------------------------------
(* Building a multipart message.                                           *)

\* pushmem, addmem, pushstr, addstr, pushtyp, addtyp and the constructors
AddMem(p) ==
  /\ Len(parts[p]) < MaxParts
  /\ \E c \in Fresh :
       /\ parts' = [parts EXCEPT ![p] = Append(@, c)] \/ parts' = [parts EXCEPT ![p] = <<c>> \o @]
       /\ refs' = Referenced(<<c>>, refs)
  /\ UNCHANGED msg

\* push, add, push_back: the part is moved out of x. Bound: x is not empty.
Add(p, x) ==
  /\ msg[x] \notin {None, Empty} /\ Len(parts[p]) < MaxParts
  /\ parts' = [parts EXCEPT ![p] = Append(@, msg[x])] \/ parts' = [parts EXCEPT ![p] = <<msg[x]>> \o @]
  /\ msg' = [msg EXCEPT ![x] = Empty]
  /\ UNCHANGED refs

\* x = p.pop(), x = p.remove(): the temporary is swapped with x, and destroyed.
Pop(p, x) ==
  /\ parts[p] # <<>>
  /\ \/ msg' = [msg EXCEPT ![x] = Head(parts[p])] /\ parts' = [parts EXCEPT ![p] = Tail(@)]
     \/ msg' = [msg EXCEPT ![x] = Last(parts[p])] /\ parts' = [parts EXCEPT ![p] = Front(@)]
  /\ refs' = Closed(<<msg[x]>>, refs)

\* popstr, and poptyp unless it throws, which changes nothing
PopStr(p) ==
  /\ parts[p] # <<>> /\ Head(parts[p]) # Dead
  /\ refs' = Closed(<<Head(parts[p])>>, refs)
  /\ parts' = [parts EXCEPT ![p] = Tail(@)]
  /\ UNCHANGED msg

\* clear, and the destructor
Clear(p) ==
  /\ refs' = Closed(parts[p], refs)
  /\ parts' = [parts EXCEPT ![p] = <<>>]
  /\ UNCHANGED msg

\* append and prepend move the parts one by one.
Join(p, q) ==
  /\ p # q /\ Len(parts[p]) + Len(parts[q]) <= MaxParts
  /\ \/ parts' = [parts EXCEPT ![p] = @ \o parts[q], ![q] = <<>>]
     \/ parts' = [parts EXCEPT ![p] = parts[q] \o @, ![q] = <<>>]
  /\ UNCHANGED <<msg, refs>>

\* p = std::move(q)
MoveAssign(p, q) ==
  /\ p # q
  /\ refs' = Closed(parts[p], refs)
  /\ parts' = [parts EXCEPT ![p] = parts[q], ![q] = <<>>]
  /\ UNCHANGED msg

\* p = q.clone(): new contents, except for empty parts. A dead part would be read.
Clone(p, q) ==
  /\ p # q /\ \A i \in DOMAIN parts[q] : parts[q][i] # Dead
  /\ \E new \in [DOMAIN parts[q] -> Fresh \cup {Empty}] :
       /\ \A i, j \in DOMAIN new : new[i] = new[j] /\ new[i] # Empty => i = j
       /\ \A i \in DOMAIN new : new[i] = Empty <=> parts[q][i] = Empty
       /\ refs' = Referenced(new, Closed(parts[p], refs))
       /\ parts' = [parts EXCEPT ![p] = new]
  /\ UNCHANGED msg

\* Bound: messages are built while none is being received. Such a step and a step
\* of the receiving thread touch different messages, and commute.
Quiet == rcv = Idle /\ inbox = <<>> /\ pending = <<>> /\ wire = <<>>

Build ==
  /\ snd = Idle /\ Quiet
  /\ \/ MessageStep /\ UNCHANGED parts
     \/ \E p \in Multiparts : AddMem(p) \/ PopStr(p) \/ Clear(p)
     \/ \E p \in Multiparts, x \in Objects : Add(p, x) \/ Pop(p, x)
     \/ \E p, q \in Multiparts : Join(p, q) \/ MoveAssign(p, q) \/ Clone(p, q)
  /\ UNCHANGED <<sending, receiving>>

-----------------------------------------------------------------------------
(* Sending.                                                                *)

\* multipart_t::send (which clears the flag sndmore), or send_multipart with
\* either flag. `all` is what the caller wants to be sent.
SendBegin(p, at, sndmore) ==
  /\ snd = Idle /\ parts[p] # <<>>
  /\ Len(out) + Len(parts[p]) <= MaxParts
  /\ at = "send" => ~sndmore
  /\ snd' = [at |-> at, p |-> p, it |-> 1, sndmore |-> sndmore, all |-> parts[p]]
  /\ UNCHANGED <<msg, refs, parts, out, wire, meant, receiving>>

\* zmq_msg_send: a message is complete, and visible, with a part without sndmore.
Write(h, more) ==
  /\ h # Dead /\ (out = <<>> => Len(wire) < HWM)
  /\ IF more THEN out' = Append(out, h) /\ UNCHANGED wire
             ELSE out' = <<>> /\ wire' = Append(wire, Append(out, h))

\* It fails: error_t is thrown for a dead message, and for any message when the
\* context is terminated or a signal arrives; otherwise the pipe is full.
NotSent(h) ==
  /\ \/ snd' = Over
     \/ h # Dead /\ out = <<>> /\ Len(wire) = HWM /\ snd' = Idle
  /\ UNCHANGED <<out, wire, meant>>

\* The call has sent everything: this is what the receiver should see.
SendDone ==
  /\ snd' = Idle
  /\ LET now == [meant EXCEPT ![Len(meant)] = @ \o snd.all]
     IN  meant' = IF snd.sndmore THEN now ELSE Append(now, <<>>)

\* A plausible bug: a call that is refused clears the object.
SendPopClearing ==
  /\ snd.at = "send"
  /\ LET h == Head(parts[snd.p])
         more == Len(parts[snd.p]) > 1
     IN  \/ /\ Write(h, more) /\ UNCHANGED refs
            /\ IF more THEN UNCHANGED <<snd, meant>> ELSE SendDone
            /\ parts' = [parts EXCEPT ![snd.p] = Tail(@)]
         \/ NotSent(h) /\ refs' = Closed(parts[snd.p], refs) /\ parts' = [parts EXCEPT ![snd.p] = <<>>]
  /\ UNCHANGED <<msg, receiving>>

\* One iteration of multipart_t::send: the part is taken out before it is sent,
\* and destroyed if it is not.
SendPop ==
  /\ snd.at = "send"
  /\ LET h == Head(parts[snd.p])
         more == Len(parts[snd.p]) > 1
     IN  \/ /\ Write(h, more) /\ UNCHANGED refs
            /\ IF more THEN UNCHANGED <<snd, meant>> ELSE SendDone
         \/ NotSent(h) /\ refs' = Closed(<<h>>, refs)
  /\ parts' = [parts EXCEPT ![snd.p] = Tail(@)]
  /\ UNCHANGED <<msg, receiving>>

\* A plausible bug: sndmore is set only for the parts before the last but one.
SendNextEarly ==
  /\ snd.at = "send_multipart"
  /\ LET h == parts[snd.p][snd.it]
         last == snd.it = Len(parts[snd.p])
     IN  \/ /\ Write(h, snd.sndmore \/ snd.it + 1 < Len(parts[snd.p]))
            /\ parts' = [parts EXCEPT ![snd.p][snd.it] = Empty]
            /\ IF last THEN SendDone ELSE snd' = [snd EXCEPT !.it = @ + 1] /\ UNCHANGED meant
         \/ NotSent(h) /\ UNCHANGED parts
  /\ UNCHANGED <<msg, refs, receiving>>

\* One iteration of send_multipart: a part that is sent becomes empty, and stays.
SendNext ==
  /\ snd.at = "send_multipart"
  /\ LET h == parts[snd.p][snd.it]
         last == snd.it = Len(parts[snd.p])
     IN  \/ /\ Write(h, snd.sndmore \/ ~last)
            /\ parts' = [parts EXCEPT ![snd.p][snd.it] = Empty]
            /\ IF last THEN SendDone ELSE snd' = [snd EXCEPT !.it = @ + 1] /\ UNCHANGED meant
         \/ NotSent(h) /\ UNCHANGED parts
  /\ UNCHANGED <<msg, refs, receiving>>

-----------------------------------------------------------------------------
(* Receiving.                                                              *)

\* multipart_t::recv clears the object first; recv_multipart_n writes to a new
\* container. n is the number of parts it may write.
RecvBegin(n) ==
  /\ rcv = Idle
  /\ refs' = Closed(inbox, refs) /\ inbox' = <<>>
  /\ rcv' = [at |-> "recv", n |-> n]
  /\ IF pending # <<>> THEN taken' = taken \o inbox /\ UNCHANGED cur
                      ELSE taken' = <<>> /\ cur' = <<>>
  /\ ret' = "none"
  /\ UNCHANGED <<msg, parts, sending, pending>>

\* The next part is there, and the loop goes on if it has the flag more.
RecvPart ==
  /\ rcv.at = "recv" /\ Len(inbox) < rcv.n
  /\ \/ /\ pending # <<>>
        /\ inbox' = Append(inbox, Head(pending)) /\ pending' = Tail(pending)
        /\ UNCHANGED <<wire, meant, cur>>
     \/ /\ pending = <<>> /\ wire # <<>>
        /\ inbox' = Append(inbox, Head(Head(wire))) /\ pending' = Tail(Head(wire))
        /\ wire' = Tail(wire) /\ cur' = Head(meant) /\ meant' = Tail(meant)
  /\ IF pending' # <<>> THEN UNCHANGED <<rcv, ret>> ELSE rcv' = Idle /\ ret' = "whole"
  /\ UNCHANGED <<msg, refs, parts, snd, out, taken>>

\* A plausible bug: the part after the last that is wanted is thrown away.
TooManyDropping ==
  /\ rcv.at = "recv" /\ Len(inbox) >= rcv.n /\ pending # <<>>
  /\ rcv' = Idle /\ ret' = "cut"
  /\ pending' = Tail(pending) /\ refs' = Closed(<<Head(pending)>>, refs)
  /\ UNCHANGED <<msg, parts, sending, inbox, cur, taken>>

\* recv_multipart_n has written n parts and there are more: it throws, and the
\* rest of the message stays to be received.
TooMany ==
  /\ rcv.at = "recv" /\ Len(inbox) >= rcv.n
  /\ rcv' = Idle /\ ret' = "cut"
  /\ UNCHANGED <<msg, refs, parts, sending, pending, inbox, cur, taken>>

\* EAGAIN: there is no message; or error_t is thrown, at any part, which leaves
\* what has been received.
RecvFails ==
  /\ rcv.at = "recv" /\ Len(inbox) < rcv.n
  /\ rcv' = Idle
  /\ ret' = "error" \/ (pending = <<>> /\ wire = <<>> /\ ret' = "nothing")
  /\ UNCHANGED <<msg, refs, parts, sending, pending, inbox, cur, taken>>

-----------------------------------------------------------------------------
Next ==
  \/ Build \/ SendPop \/ SendNext
  \/ \E p \in Multiparts, at \in {"send", "send_multipart"}, more \in BOOLEAN : SendBegin(p, at, more)
  \/ RecvPart \/ TooMany \/ RecvFails
  \/ \E n \in {1, MaxParts} : RecvBegin(n)

Spec == Init /\ [][Next]_vars

-----------------------------------------------------------------------------
(* Properties.                                                             *)

\* Where a family of sequences of messages refers to c, and how often.
Within(c, family) ==
  UNION {{k} \X {i \in DOMAIN family[k] : family[k][i] = c} : k \in DOMAIN family}
CountWithin(c, family) == Cardinality(Within(c, family))

Holders(c) ==
  Count(c, msg) + CountWithin(c, parts) + Count(c, out)
    + CountWithin(c, wire) + Count(c, pending) + Count(c, inbox)

\* No content is freed while a message refers to it and none is leaked: libzmq's
\* count is the number of messages that refer to it, wherever C++ has moved them
\* to: variables, the parts of multipart_t objects, the pipe.
CountedOnce == \A c \in Contents : refs[c] = Holders(c)

\* The pipe holds what the callers wanted to be sent, message by message; what a
\* message was meant to be is what calls have got of it, in order, and what is
\* left; and a call returns exactly at its end, or throws and leaves a rest.
DeliveredWhole ==
  /\ Front(meant) = wire
  /\ cur = taken \o inbox \o pending
  /\ ret = "whole" => pending = <<>>
  /\ ret = "cut" => pending # <<>>

\* The assertions at zmq_addon.hpp:59 and :183: a call is refused for want of room
\* or of messages only before its first part, since with every later part it is
\* inside a message.
NotRefusedInside ==
  /\ snd.at = "send_multipart" /\ snd.it > 1 => out # <<>>
  /\ snd.at = "send" /\ parts[snd.p] # snd.all => out # <<>>
  /\ rcv.at = "recv" /\ inbox # <<>> => pending # <<>>

\* A call that is refused leaves what the caller can send again: send_multipart
\* all of it, multipart_t::send all but the first part, which is destroyed.
RefusedCallLeaves ==
  [][snd.at \in {"send", "send_multipart"} /\ snd' = Idle /\ Len(meant') <= Len(meant) /\ Last(meant') = Last(meant) =>
       parts'[snd.p] = IF snd.at = "send" THEN Tail(snd.all) ELSE snd.all]_vars
-----------------------------------------------------------------------------
(* The inductive invariant of the proofs (MultipartProofs).                *)

Handle == Contents \cup {Empty, Dead}
Calls ==
  [at : {"send", "send_multipart"}, p : Multiparts, it : Nat, sndmore : BOOLEAN,
   all : Seq(Handle)]

Typed ==
  /\ msg \in [Objects -> Handle \cup {None}] /\ parts \in [Multiparts -> Seq(Handle)]
  /\ snd \in {Idle, Over} \cup Calls /\ rcv \in {Idle} \cup [at : {"recv"}, n : Nat \ {0}]
  /\ out \in Seq(Handle) /\ wire \in Seq(Seq(Handle)) /\ meant \in Seq(Seq(Handle))
  /\ pending \in Seq(Handle) /\ inbox \in Seq(Handle)
  /\ cur \in Seq(Handle) /\ taken \in Seq(Handle)

\* What the call still has to send.
Rest ==
  IF snd.at = "send" THEN parts[snd.p]
                     ELSE SubSeq(parts[snd.p], snd.it, Len(parts[snd.p]))

\* What has been written of the open message and what the call has left make up
\* what earlier calls and this one were to send.
SentSoFar ==
  /\ snd = Idle => out = Last(meant)
  /\ snd \in Calls =>
       /\ out \o Rest = Last(meant) \o snd.all
       /\ Rest # <<>> /\ Len(Rest) <= Len(snd.all)
       /\ snd.at = "send" => ~snd.sndmore
       /\ snd.at = "send_multipart" =>
            /\ snd.it \in 1..Len(parts[snd.p]) /\ Len(parts[snd.p]) = Len(snd.all)

\* No message is empty, and the last element of meant is the one still open.
MessagesMeant ==
  /\ meant # <<>> /\ Front(meant) = wire
  /\ \A i \in DOMAIN wire : wire[i] # <<>>

\* A call that has got nothing begins at the start of a message.
GotSoFar ==
  /\ cur = taken \o inbox \o pending
  /\ rcv.at = "recv" /\ pending = <<>> => inbox = <<>> /\ taken = <<>>
  /\ rcv.at = "recv" => ret = "none"
  /\ ret = "whole" => pending = <<>>
  /\ ret = "cut" => pending # <<>>

IInv == Typed /\ SentSoFar /\ MessagesMeant /\ GotSoFar
=============================================================================
