--------------------------- MODULE MultipartProofs ---------------------------
(***************************************************************************)
(* Proofs about multipart messages, for any numbers of objects, contents   *)
(* and parts and any high-water mark: first that whole messages arrive,    *)
(* then that references are counted.                                       *)
(*                                                                         *)
(* The properties compare whole messages. IInv says how far a call is      *)
(* inside one: what has been written and what the call has left are what   *)
(* was meant (SentSoFar), and a receiving call that has got nothing is at  *)
(* the start of a message (GotSoFar).                                      *)
(***************************************************************************)
EXTENDS Multipart, SequenceTheorems, FiniteSetTheorems, TLAPS

-----------------------------------------------------------------------------
(* Sequences.                                                              *)

\* The next part moves from the rest to what is sent.
LEMMA MoveHead ==
  ASSUME NEW S, NEW a \in Seq(S), NEW r \in Seq(S), r # <<>>
  PROVE  /\ Head(r) \in S /\ Append(a, Head(r)) \in Seq(S) /\ Tail(r) \in Seq(S)
         /\ Append(a, Head(r)) # <<>>
         /\ Append(a, Head(r)) \o Tail(r) = a \o r
         /\ Len(r) = 1 => Append(a, Head(r)) = a \o r /\ Tail(r) = <<>>
         /\ Len(r) > 1 => Tail(r) # <<>>
         /\ Len(Tail(r)) <= Len(r)
  <1>1. Head(r) \in S /\ Append(a, Head(r)) \in Seq(S) /\ Tail(r) \in Seq(S)
    OBVIOUS
  <1>2. Append(a, Head(r)) \o Tail(r) = a \o r
    OBVIOUS
  <1>3. ASSUME Len(r) = 1 PROVE Append(a, Head(r)) = a \o r /\ Tail(r) = <<>>
    <2>1. Tail(r) = <<>>
      <3>1. Len(Tail(r)) = 0
        BY <1>3
      <3> QED BY <1>1, <3>1, EmptySeq
    <2> QED BY <1>1, <1>2, <2>1, ConcatEmptySeq
  <1>4. Len(r) > 1 => Tail(r) # <<>>
    OBVIOUS
  <1>5. Len(Tail(r)) <= Len(r)
    OBVIOUS
  <1>6. Append(a, Head(r)) # <<>>
    BY <1>1, AppendProperties
  <1> QED BY <1>1, <1>2, <1>3, <1>4, <1>5, <1>6

\* All but the last element.
LEMMA FrontProperties ==
  ASSUME NEW S, NEW m \in Seq(S), m # <<>>
  PROVE  /\ Front(m) \in Seq(S) /\ Len(Front(m)) = Len(m) - 1
         /\ \A i \in 1..(Len(m) - 1) : Front(m)[i] = m[i]
  <1> DEFINE n == Len(m) - 1
  <1>1. n \in Nat /\ Len(m) \in Nat
    BY EmptySeq
  <1>2. \A i \in 1..n : m[i] \in S
    BY <1>1, ElementOfSeq
  <1>3. /\ SubSeq(m, 1, n) \in Seq(S) /\ Len(SubSeq(m, 1, n)) = IF 1 <= n THEN n - 1 + 1 ELSE 0
        /\ \A i \in 1..(n - 1 + 1) : SubSeq(m, 1, n)[i] = m[1 + i - 1]
    <2> HIDE DEF n
    <2> QED BY <1>1, <1>2, SubSeqProperties
  <1>4. n - 1 + 1 = n /\ (IF 1 <= n THEN n - 1 + 1 ELSE 0) = n /\ \A i \in 1..n : 1 + i - 1 = i
    <2> HIDE DEF n
    <2> QED BY <1>1
  <1>5. Front(m) = SubSeq(m, 1, n)
    BY DEF Front
  <1> HIDE DEF n
  <1> QED BY <1>3, <1>4, <1>5 DEF n

\* A sequence with another last element.
Replaced(m, x) == [m EXCEPT ![Len(m)] = x]

\* The last element of a sequence is replaced.
LEMMA ReplaceLast ==
  ASSUME NEW S, NEW m \in Seq(S), m # <<>>, NEW x \in S
  PROVE  /\ Replaced(m, x) \in Seq(S) /\ Replaced(m, x) # <<>>
         /\ Len(Replaced(m, x)) = Len(m) /\ Last(Replaced(m, x)) = x
         /\ Front(Replaced(m, x)) = Front(m) /\ Replaced(m, x) = Append(Front(m), x)
  <1>0. PICK now : now = Replaced(m, x)
    OBVIOUS
  <1> USE <1>0 DEF Replaced
  <1>1. now \in Seq(S) /\ now # <<>> /\ Len(now) = Len(m)
    OBVIOUS
  <1>2. Last(now) = x
    BY <1>1 DEF Last
  <1>3. Front(now) = Front(m)
    <2>1. Front(now) \in Seq(S) /\ Len(Front(now)) = Len(m) - 1
      BY <1>1, FrontProperties
    <2>2. Front(m) \in Seq(S) /\ Len(Front(m)) = Len(m) - 1
      BY FrontProperties
    <2>3. \A i \in 1..(Len(m) - 1) : now[i] = m[i]
      OBVIOUS
    <2>4. \A i \in 1..(Len(m) - 1) : Front(now)[i] = now[i]
      BY <1>1, FrontProperties
    <2>5. \A i \in 1..(Len(m) - 1) : Front(m)[i] = m[i]
      BY FrontProperties
    <2> QED BY <2>1, <2>2, <2>3, <2>4, <2>5, SeqEqual
  <1>4. now = Append(Front(m), x)
    BY <1>1 DEF Front
  <1> HIDE DEF Replaced
  <1> QED BY <1>0, <1>1, <1>2, <1>3, <1>4

\* A sequence gets an element.
LEMMA AppendLast ==
  ASSUME NEW S, NEW m \in Seq(S), NEW x \in S
  PROVE  /\ Append(m, x) \in Seq(S) /\ Append(m, x) # <<>>
         /\ Len(Append(m, x)) = Len(m) + 1
         /\ Last(Append(m, x)) = x /\ Front(Append(m, x)) = m
  <1>1. Append(m, x) \in Seq(S) /\ Append(m, x) # <<>> /\ Len(Append(m, x)) = Len(m) + 1
    BY AppendProperties
  <1>2. Last(Append(m, x)) = x
    BY <1>1 DEF Last
  <1>3. Front(Append(m, x)) = m
    BY <1>1 DEF Front
  <1> QED BY <1>1, <1>2, <1>3

\* The first element of a sequence with at least two is taken away.
LEMMA TakeFirst ==
  ASSUME NEW S, NEW m \in Seq(S), m # <<>>, Front(m) # <<>>
  PROVE  /\ Tail(m) \in Seq(S) /\ Tail(m) # <<>> /\ Last(Tail(m)) = Last(m)
         /\ Front(Tail(m)) = Tail(Front(m)) /\ Head(Front(m)) = Head(m)
         /\ Front(m) \in Seq(S) /\ Len(Tail(m)) < Len(m)
  <1>1. Len(m) \in Nat /\ Len(m) > 1 /\ Front(m) \in Seq(S) /\ Len(Front(m)) = Len(m) - 1
    BY DEF Front
  <1>2. Tail(m) \in Seq(S) /\ Len(Tail(m)) = Len(m) - 1 /\ Tail(m) # <<>>
    <2>1. Tail(m) \in Seq(S) /\ Len(Tail(m)) = Len(m) - 1
      BY HeadTailProperties
    <2> QED BY <1>1, <2>1, EmptySeq
  <1>3. Last(Tail(m)) = Last(m)
    BY <1>1, <1>2 DEF Last
  <1>4. Head(Front(m)) = Head(m)
    BY <1>1 DEF Front
  <1>5. Front(Tail(m)) = Tail(Front(m))
    BY <1>1, <1>2 DEF Front
  <1> QED BY <1>1, <1>2, <1>3, <1>4, <1>5

-----------------------------------------------------------------------------
(* The receiving thread.                                                   *)

\* The sender's part of the invariant depends on the open message only.
LEMMA SentFrame ==
  ASSUME SentSoFar, UNCHANGED <<snd, parts, out>>, Last(meant') = Last(meant)
  PROVE  SentSoFar'
  BY DEF SentSoFar, Rest

\* recv begins: what an earlier call got of a message that is not at its end is
\* remembered.
LEMMA RecvBeginStep ==
  ASSUME IInv, NEW n \in {1, MaxParts}, RecvBegin(n)
  PROVE  IInv'
  <1>1. Typed /\ SentSoFar /\ MessagesMeant /\ GotSoFar /\ n \in Nat \ {0}
    BY MultipartAssumption DEF IInv
  <1>2. /\ inbox' = <<>> /\ rcv' = [at |-> "recv", n |-> n] /\ ret' = "none"
        /\ UNCHANGED <<msg, parts, snd, out, wire, meant, pending>>
        /\ IF pending # <<>> THEN taken' = taken \o inbox /\ cur' = cur
                            ELSE taken' = <<>> /\ cur' = <<>>
    BY DEF RecvBegin, sending
  <1>3. SentSoFar'
    BY <1>1, <1>2, SentFrame
  <1>4. MessagesMeant'
    BY <1>1, <1>2 DEF MessagesMeant
  <1>5. taken \in Seq(Handle) /\ inbox \in Seq(Handle) /\ pending \in Seq(Handle)
    BY <1>1 DEF Typed
  <1>6. taken' \in Seq(Handle) /\ cur' \in Seq(Handle) /\ inbox' \in Seq(Handle)
    <2>1. taken \o inbox \in Seq(Handle)
      BY <1>5
    <2>2. cur \in Seq(Handle) /\ <<>> \in Seq(Handle)
      BY <1>1 DEF Typed
    <2> QED BY <1>2, <2>1, <2>2
  <1>7. Typed'
    BY <1>1, <1>2, <1>6 DEF Typed
  <1>8. cur' = taken' \o inbox' \o pending'
    <2>1. CASE pending # <<>>
      <3>1. taken' \o inbox' = taken \o inbox
        BY <1>2, <1>5, <2>1
      <3> QED BY <1>1, <1>2, <2>1, <3>1 DEF GotSoFar
    <2>2. CASE pending = <<>>
      BY <1>2, <2>2
    <2> QED BY <2>1, <2>2
  <1>9. GotSoFar'
    BY <1>2, <1>8 DEF GotSoFar
  <1> QED BY <1>3, <1>4, <1>7, <1>9 DEF IInv

\* The next part of a message that has been begun, or the first of the next one.
LEMMA RecvPartStep ==
  ASSUME IInv, RecvPart
  PROVE  IInv'
  <1>1. Typed /\ SentSoFar /\ MessagesMeant /\ GotSoFar
    BY DEF IInv
  <1>2. /\ UNCHANGED <<msg, parts, snd, out, taken>> /\ rcv.at = "recv"
        /\ IF pending' # <<>> THEN UNCHANGED <<rcv, ret>> ELSE rcv' = Idle /\ ret' = "whole"
    BY DEF RecvPart
  <1>3. /\ taken \in Seq(Handle) /\ inbox \in Seq(Handle) /\ pending \in Seq(Handle)
        /\ meant \in Seq(Seq(Handle)) /\ meant # <<>> /\ ret = "none"
    BY <1>1, <1>2 DEF Typed, MessagesMeant, GotSoFar
  <1>4. CASE /\ pending # <<>>
             /\ inbox' = Append(inbox, Head(pending)) /\ pending' = Tail(pending)
             /\ UNCHANGED <<wire, meant, cur>>
    <2>1. inbox' \in Seq(Handle) /\ pending' \in Seq(Handle) /\ inbox' \o pending' = inbox \o pending
      <3>1. /\ Append(inbox, Head(pending)) \in Seq(Handle) /\ Tail(pending) \in Seq(Handle)
            /\ Append(inbox, Head(pending)) \o Tail(pending) = inbox \o pending
        <4>1. inbox \in Seq(Handle) /\ pending \in Seq(Handle) /\ pending # <<>>
          BY <1>3, <1>4
        <4> QED BY <4>1, MoveHead
      <3> QED BY <1>4, <3>1
    <2>2. cur' = taken' \o inbox' \o pending'
      <3>1. taken \o inbox \o pending = taken \o (inbox \o pending)
        <4>1. taken \in Seq(Handle) /\ inbox \in Seq(Handle) /\ pending \in Seq(Handle)
          BY <1>3
        <4> QED BY <4>1
      <3>2. taken \o inbox' \o pending' = taken \o (inbox' \o pending')
        <4>1. taken \in Seq(Handle) /\ inbox' \in Seq(Handle) /\ pending' \in Seq(Handle)
          BY <1>3, <2>1
        <4> QED BY <4>1
      <3> QED BY <1>1, <1>2, <1>4, <2>1, <3>1, <3>2 DEF GotSoFar
    <2>3. SentSoFar'
      BY <1>1, <1>2, <1>4, SentFrame
    <2>4. MessagesMeant'
      BY <1>1, <1>4 DEF MessagesMeant
    <2>5. Typed'
      BY <1>1, <1>2, <1>4, <2>1 DEF Typed
    <2>6. GotSoFar'
      BY <1>2, <1>3, <2>2 DEF GotSoFar, Idle
    <2> QED BY <2>3, <2>4, <2>5, <2>6 DEF IInv
  <1>5. CASE /\ pending = <<>> /\ wire # <<>>
             /\ inbox' = Append(inbox, Head(Head(wire))) /\ pending' = Tail(Head(wire))
             /\ wire' = Tail(wire) /\ cur' = Head(meant) /\ meant' = Tail(meant)
    <2>1. inbox = <<>> /\ taken = <<>> /\ Front(meant) = wire /\ wire \in Seq(Seq(Handle))
      BY <1>1, <1>2, <1>5 DEF GotSoFar, MessagesMeant, Typed
    <2>2. PICK x : x = Head(wire)
      OBVIOUS
    <2>3. x \in Seq(Handle) /\ x # <<>>
      BY <1>1, <1>5, <2>1, <2>2 DEF MessagesMeant
    <2>4. /\ inbox' \in Seq(Handle) /\ pending' \in Seq(Handle) /\ inbox' \o pending' = inbox \o x
      <3>1. inbox' = Append(inbox, Head(x)) /\ pending' = Tail(x)
        BY <1>5, <2>2
      <3>2. /\ Append(inbox, Head(x)) \in Seq(Handle) /\ Tail(x) \in Seq(Handle)
            /\ Append(inbox, Head(x)) \o Tail(x) = inbox \o x
        <4>1. inbox \in Seq(Handle) /\ x \in Seq(Handle) /\ x # <<>>
          BY <1>3, <2>3
        <4> QED BY <4>1, MoveHead
      <3> QED BY <3>1, <3>2
    <2>5. inbox' \o pending' = x
      BY <2>1, <2>3, <2>4, ConcatEmptySeq
    <2>6. /\ meant' \in Seq(Seq(Handle)) /\ meant' # <<>> /\ Last(meant') = Last(meant)
          /\ Front(meant') = wire' /\ cur' = x
      <3>1. Front(meant) # <<>>
        BY <1>5, <2>1
      <3>2. /\ Tail(meant) \in Seq(Seq(Handle)) /\ Tail(meant) # <<>> /\ Last(Tail(meant)) = Last(meant)
            /\ Front(Tail(meant)) = Tail(Front(meant)) /\ Head(Front(meant)) = Head(meant)
        BY <1>3, <3>1, TakeFirst
      <3> QED BY <1>5, <2>1, <2>2, <3>2
    <2>7. cur' = taken' \o inbox' \o pending'
      <3>1. taken' \o inbox' = inbox'
        BY <1>2, <2>1, <2>4, ConcatEmptySeq
      <3> QED BY <2>5, <2>6, <3>1
    <2>8. wire' \in Seq(Seq(Handle)) /\ \A i \in DOMAIN wire' : wire'[i] # <<>>
      <3>1. \A i \in 1..Len(wire) : wire[i] # <<>>
        BY <1>1, <2>1 DEF MessagesMeant
      <3>2. /\ Tail(wire) \in Seq(Seq(Handle)) /\ Len(Tail(wire)) = Len(wire) - 1
            /\ \A i \in 1..Len(Tail(wire)) : Tail(wire)[i] = wire[i + 1]
        BY <1>5, <2>1, HeadTailProperties
      <3>3. Len(wire) \in Nat
        BY <2>1
      <3> QED BY <1>5, <3>1, <3>2, <3>3
    <2>9. SentSoFar'
      BY <1>1, <1>2, <2>6, SentFrame
    <2>10. MessagesMeant'
      BY <2>6, <2>8 DEF MessagesMeant
    <2>11. Typed'
      BY <1>1, <1>2, <2>3, <2>4, <2>6, <2>8 DEF Typed
    <2>12. GotSoFar'
      BY <1>2, <1>3, <2>7 DEF GotSoFar, Idle
    <2> QED BY <2>9, <2>10, <2>11, <2>12 DEF IInv
  <1> QED BY <1>4, <1>5 DEF RecvPart

\* A call that ends early: with too many parts there is a rest of the message.
LEMMA RecvEndStep ==
  ASSUME IInv, TooMany \/ RecvFails
  PROVE  IInv'
  <1>1. Typed /\ SentSoFar /\ MessagesMeant /\ GotSoFar
    BY DEF IInv
  <1>2. /\ UNCHANGED <<msg, parts, snd, out, wire, meant, pending, inbox, cur, taken>>
        /\ rcv' = Idle /\ rcv.at = "recv" /\ ret' \in {"cut", "error", "nothing"}
    BY DEF TooMany, RecvFails, sending
  <1>3. SentSoFar'
    BY <1>1, <1>2, SentFrame
  <1>4. MessagesMeant' /\ Typed'
    BY <1>1, <1>2 DEF MessagesMeant, Typed
  <1>5. ret' = "cut" => pending # <<>>
    <2>1. SUFFICES ASSUME ret' = "cut" PROVE pending # <<>>
      OBVIOUS
    <2>2. Len(inbox) >= rcv.n
      BY <2>1 DEF TooMany, RecvFails
    <2>3. rcv.n \in Nat \ {0}
      BY <1>1, <1>2 DEF Typed, Idle
    <2>4. inbox # <<>>
      BY <2>2, <2>3
    <2> QED BY <1>1, <1>2, <2>4 DEF GotSoFar
  <1>6. GotSoFar'
    BY <1>1, <1>2, <1>5 DEF GotSoFar, Idle
  <1> QED BY <1>3, <1>4, <1>6 DEF IInv

-----------------------------------------------------------------------------
(* The sending thread.                                                     *)

\* The facts about a call that is sending.
LEMMA Sending ==
  ASSUME IInv, snd \in Calls
  PROVE  /\ Last(meant) \in Seq(Handle) /\ Rest \in Seq(Handle) /\ snd.all \in Seq(Handle)
         /\ out \in Seq(Handle) /\ parts[snd.p] \in Seq(Handle) /\ snd.p \in Multiparts
         /\ out \o Rest = Last(meant) \o snd.all /\ Rest # <<>> /\ Len(Rest) <= Len(snd.all)
         /\ snd.all # <<>>
         /\ snd.at = "send_multipart" =>
              /\ snd.it \in 1..Len(parts[snd.p]) /\ Len(parts[snd.p]) = Len(snd.all)
              /\ Head(Rest) = parts[snd.p][snd.it]
              /\ Len(Rest) = Len(parts[snd.p]) - snd.it + 1
  <1>1. /\ meant \in Seq(Seq(Handle)) /\ meant # <<>> /\ out \in Seq(Handle)
        /\ snd.p \in Multiparts /\ snd.all \in Seq(Handle) /\ snd.it \in Nat
        /\ parts[snd.p] \in Seq(Handle)
    BY DEF IInv, Typed, MessagesMeant, Calls
  <1>2. Last(meant) \in Seq(Handle)
    BY <1>1 DEF Last
  <1>3. /\ out \o Rest = Last(meant) \o snd.all /\ Rest # <<>> /\ Len(Rest) <= Len(snd.all)
        /\ snd.at = "send_multipart" =>
             snd.it \in 1..Len(parts[snd.p]) /\ Len(parts[snd.p]) = Len(snd.all)
    BY DEF IInv, SentSoFar
  <1>4. snd.at \in {"send", "send_multipart"}
    BY DEF Calls
  <1>5. CASE snd.at = "send"
    <2>1. Rest \in Seq(Handle)
      BY <1>1, <1>5 DEF Rest
    <2>2. Len(Rest) \in Nat \ {0} /\ Len(snd.all) \in Nat
      BY <1>1, <1>3, <2>1, EmptySeq
    <2>3. snd.all # <<>>
      BY <1>3, <2>2
    <2> QED BY <1>1, <1>2, <1>3, <1>5, <2>1, <2>3
  <1>6. CASE snd.at = "send_multipart"
    <2>1. PICK s, k : s = parts[snd.p] /\ k = snd.it
      OBVIOUS
    <2>2. s \in Seq(Handle) /\ k \in 1..Len(s) /\ Rest = SubSeq(s, k, Len(s)) /\ Len(s) \in Nat
      BY <1>1, <1>3, <1>6, <2>1 DEF Rest
    <2>3. SubSeq(s, k, Len(s)) \in Seq(Handle) /\ Len(SubSeq(s, k, Len(s))) = Len(s) - k + 1
      BY <2>2
    <2>4. Head(SubSeq(s, k, Len(s))) = s[k]
      <3>1. Len(s) \in k..Len(s)
        BY <2>2
      <3> QED BY <2>2, <3>1, HeadTailOfSubSeq
    <2>5. snd.all # <<>>
      <3>1. Len(snd.all) \in Nat \ {0}
        BY <1>3, <1>6, <2>1, <2>2
      <3> QED BY <3>1
    <2> QED BY <1>1, <1>2, <1>3, <1>6, <2>1, <2>2, <2>3, <2>4, <2>5
  <1> QED BY <1>4, <1>5, <1>6

\* A call that has written nothing of the open message still has everything to
\* send, and no other call has written anything.
LEMMA NothingWritten ==
  ASSUME IInv, snd \in Calls, out = <<>>
  PROVE  Last(meant) = <<>> /\ Rest = snd.all
  <1>1. PICK a, b, c : a = Last(meant) /\ b = snd.all /\ c = Rest
    OBVIOUS
  <1>2. a \in Seq(Handle) /\ b \in Seq(Handle) /\ c \in Seq(Handle)
    BY <1>1, Sending
  <1>3. <<>> \o c = a \o b /\ Len(c) <= Len(b)
    BY <1>1, Sending
  <1>4. c = a \o b
    BY <1>2, <1>3
  <1>5. Len(c) = Len(a) + Len(b) /\ Len(a) \in Nat /\ Len(b) \in Nat
    BY <1>2, <1>4
  <1>6. Len(a) = 0
    BY <1>3, <1>5
  <1>7. a = <<>>
    BY <1>2, <1>6
  <1> QED BY <1>1, <1>2, <1>4, <1>7

\* A part that is not the last one of the call is written.
LEMMA WriteMore ==
  ASSUME IInv, snd \in Calls, Len(Rest) > 1, Write(Head(Rest), TRUE)
  PROVE  /\ out' \in Seq(Handle) /\ wire' = wire
         /\ Tail(Rest) \in Seq(Handle) /\ Tail(Rest) # <<>> /\ Len(Tail(Rest)) <= Len(Rest)
         /\ out' \o Tail(Rest) = out \o Rest
  <1>1. out' = Append(out, Head(Rest)) /\ wire' = wire
    BY DEF Write
  <1>2. PICK r : r = Rest
    OBVIOUS
  <1>3. r \in Seq(Handle) /\ r # <<>> /\ out \in Seq(Handle) /\ Len(r) > 1
    BY <1>2, Sending
  <1>4. /\ Append(out, Head(r)) \in Seq(Handle) /\ Tail(r) \in Seq(Handle)
        /\ Append(out, Head(r)) \o Tail(r) = out \o r
        /\ Len(r) > 1 => Tail(r) # <<>>
        /\ Len(Tail(r)) <= Len(r)
    <2>1. out \in Seq(Handle) /\ r \in Seq(Handle) /\ r # <<>>
      BY <1>3
    <2> QED BY <2>1, MoveHead
  <1> QED BY <1>1, <1>2, <1>3, <1>4

\* The last part of the call is written: the open message is what was meant.
LEMMA WriteLast ==
  ASSUME IInv, snd \in Calls, Len(Rest) = 1, Write(Head(Rest), snd.sndmore), SendDone
  PROVE  /\ out' \in Seq(Handle) /\ wire' \in Seq(Seq(Handle)) /\ meant' \in Seq(Seq(Handle))
         /\ MessagesMeant' /\ SentSoFar'
         /\ ~(Len(meant') <= Len(meant) /\ Last(meant') = Last(meant))
  <1>1. PICK r, w, m, now : /\ r = Rest /\ w = Append(out, Head(r)) /\ m = Last(meant) \o snd.all
                            /\ now = [meant EXCEPT ![Len(meant)] = Last(meant) \o snd.all]
    OBVIOUS
  <1>2. r \in Seq(Handle) /\ r # <<>> /\ out \in Seq(Handle) /\ Len(r) = 1
    BY <1>1, Sending
  <1>3. /\ Append(out, Head(r)) \in Seq(Handle) /\ Append(out, Head(r)) # <<>>
        /\ Len(r) = 1 => Append(out, Head(r)) = out \o r /\ Tail(r) = <<>>
    <2>1. out \in Seq(Handle) /\ r \in Seq(Handle) /\ r # <<>>
      BY <1>2
    <2> QED BY <2>1, MoveHead
  <1>4. w \in Seq(Handle) /\ w = m
    BY <1>1, <1>2, <1>3, Sending
  <1>5. /\ meant \in Seq(Seq(Handle)) /\ meant # <<>> /\ Front(meant) = wire
        /\ wire \in Seq(Seq(Handle)) /\ \A i \in DOMAIN wire : wire[i] # <<>>
    BY DEF IInv, Typed, MessagesMeant
  <1>6. snd' = Idle /\ meant' = IF snd.sndmore THEN now ELSE Append(now, <<>>)
    <2>1. [meant EXCEPT ![Len(meant)] = @ \o snd.all] = now
      BY <1>1, <1>5 DEF Last
    <2> QED BY <2>1 DEF SendDone
  <1>7. IF snd.sndmore THEN out' = w /\ wire' = wire
                       ELSE out' = <<>> /\ wire' = Append(wire, w)
    BY <1>1 DEF Write
  <1>8. /\ now \in Seq(Seq(Handle)) /\ now # <<>> /\ Len(now) = Len(meant)
        /\ Last(now) = w /\ Front(now) = Front(meant) /\ now = Append(Front(meant), w)
    <2>1. now = Replaced(meant, w)
      BY <1>1, <1>4 DEF Replaced
    <2>2. PICK H : H = Seq(Handle)
      OBVIOUS
    <2>3. meant \in Seq(H) /\ meant # <<>> /\ w \in H
      BY <1>4, <1>5, <2>2
    <2>4. /\ Replaced(meant, w) \in Seq(H) /\ Replaced(meant, w) # <<>>
          /\ Len(Replaced(meant, w)) = Len(meant) /\ Last(Replaced(meant, w)) = w
          /\ Front(Replaced(meant, w)) = Front(meant)
          /\ Replaced(meant, w) = Append(Front(meant), w)
      BY <2>3, ReplaceLast
    <2> QED BY <2>1, <2>2, <2>4
  <1>9. w # <<>>
    BY <1>1, <1>3
  <1>10. Len(meant) \in Nat
    BY <1>5
  <1>11. CASE snd.sndmore
    <2>1. MessagesMeant'
      BY <1>5, <1>6, <1>7, <1>8, <1>11 DEF MessagesMeant
    <2>2. SentSoFar'
      BY <1>6, <1>7, <1>8, <1>11 DEF SentSoFar, Idle, Calls
    <2>3. Last(meant') # Last(meant)
      <3>1. PICK a, b : a = Last(meant) /\ b = snd.all
        OBVIOUS
      <3>2. a \in Seq(Handle) /\ b \in Seq(Handle) /\ b # <<>>
        BY <3>1, Sending
      <3>3. a \o b # a
        BY <3>2, ConcatEqualIffEmpty
      <3> QED BY <1>1, <1>4, <1>6, <1>8, <1>11, <3>1, <3>3
    <2> QED BY <1>4, <1>5, <1>6, <1>7, <1>8, <1>11, <2>1, <2>2, <2>3
  <1>12. CASE ~snd.sndmore
    <2>1. <<>> \in Seq(Handle)
      OBVIOUS
    <2>2. /\ Append(now, <<>>) \in Seq(Seq(Handle)) /\ Append(now, <<>>) # <<>>
          /\ Len(Append(now, <<>>)) = Len(now) + 1
          /\ Last(Append(now, <<>>)) = <<>> /\ Front(Append(now, <<>>)) = now
      BY <1>8, <2>1, AppendLast
    <2>3. /\ wire' \in Seq(Seq(Handle)) /\ \A i \in DOMAIN wire' : wire'[i] # <<>>
      <3>1. /\ Append(wire, w) \in Seq(Seq(Handle)) /\ Len(Append(wire, w)) = Len(wire) + 1
            /\ \A i \in 1..Len(wire) : Append(wire, w)[i] = wire[i]
            /\ Append(wire, w)[Len(wire) + 1] = w
        BY <1>4, <1>5, AppendProperties
      <3>2. \A i \in 1..(Len(wire) + 1) : i \in 1..Len(wire) \/ i = Len(wire) + 1
        BY <1>5
      <3>3. DOMAIN Append(wire, w) = 1..(Len(wire) + 1) /\ DOMAIN wire = 1..Len(wire)
        BY <1>5, <3>1
      <3> QED BY <1>5, <1>7, <1>9, <1>12, <3>1, <3>2, <3>3
    <2>4. MessagesMeant'
      BY <1>5, <1>6, <1>7, <1>8, <1>12, <2>2, <2>3 DEF MessagesMeant
    <2>5. SentSoFar'
      BY <1>6, <1>7, <1>12, <2>2 DEF SentSoFar, Idle, Calls
    <2>6. ~(Len(meant') <= Len(meant))
      BY <1>6, <1>8, <1>10, <1>12, <2>2
    <2> QED BY <1>6, <1>7, <1>12, <2>1, <2>2, <2>3, <2>4, <2>5, <2>6
  <1> QED BY <1>11, <1>12

\* The receiver's part of the invariant depends on its own variables only.
LEMMA GotFrame ==
  ASSUME GotSoFar, UNCHANGED receiving
  PROVE  GotSoFar'
  BY DEF GotSoFar, receiving

\* A part that is not sent ends the call; one that is refused is the first.
LEMMA NotSentStep ==
  ASSUME IInv, snd \in Calls, NEW h, NotSent(h)
  PROVE  /\ snd' \in {Idle, Over} /\ UNCHANGED <<out, wire, meant>>
         /\ SentSoFar' /\ MessagesMeant'
         /\ snd' = Idle => Rest = snd.all
  <1>1. snd' \in {Idle, Over} /\ UNCHANGED <<out, wire, meant>>
    BY DEF NotSent
  <1>2. snd' = Idle => out = <<>>
    BY DEF NotSent, Idle, Over
  <1>3. snd' = Idle => Last(meant) = <<>> /\ Rest = snd.all
    BY <1>2, NothingWritten
  <1>4. SentSoFar'
    BY <1>1, <1>2, <1>3 DEF SentSoFar, Calls, Idle, Over
  <1>5. MessagesMeant'
    BY <1>1 DEF IInv, MessagesMeant
  <1> QED BY <1>1, <1>3, <1>4, <1>5

\* A call goes on to its next part.
LEMMA GoesOn ==
  ASSUME IInv, snd \in Calls, Len(Rest) > 1, Write(Head(Rest), TRUE), meant' = meant,
         snd' \in Calls, Rest' = Tail(Rest), snd'.all = snd.all, snd'.at = snd.at,
         snd'.sndmore = snd.sndmore,
         snd'.at = "send_multipart" =>
           snd'.it \in 1..Len(parts'[snd'.p]) /\ Len(parts'[snd'.p]) = Len(snd'.all)
  PROVE  /\ out' \in Seq(Handle) /\ wire' = wire /\ SentSoFar' /\ MessagesMeant'
  <1>1. /\ out' \in Seq(Handle) /\ wire' = wire
        /\ Tail(Rest) \in Seq(Handle) /\ Tail(Rest) # <<>> /\ Len(Tail(Rest)) <= Len(Rest)
        /\ out' \o Tail(Rest) = out \o Rest
    BY WriteMore
  <1>2. /\ out \o Rest = Last(meant) \o snd.all /\ Len(Rest) <= Len(snd.all)
        /\ Rest \in Seq(Handle) /\ snd.all \in Seq(Handle)
    BY Sending
  <1>3. snd.at = "send" => ~snd.sndmore
    BY DEF IInv, SentSoFar
  <1>4. Rest' # <<>> /\ out' \o Rest' = Last(meant') \o snd'.all
    BY <1>1, <1>2
  <1>5. Len(Rest') <= Len(snd'.all)
    <2>1. Len(Tail(Rest)) \in Nat /\ Len(Rest) \in Nat /\ Len(snd.all) \in Nat
      BY <1>1, <1>2
    <2> QED BY <1>1, <1>2, <2>1
  <1>6. SentSoFar'
    <2>1. snd' # Idle
      BY DEF Calls, Idle
    <2>2. snd'.at = "send" => ~snd'.sndmore
      BY <1>3
    <2> QED BY <1>4, <1>5, <2>1, <2>2 DEF SentSoFar
  <1>7. MessagesMeant'
    BY <1>1 DEF IInv, MessagesMeant
  <1> QED BY <1>1, <1>6, <1>7

\* A call begins with everything left to send.
LEMMA SendBeginStep ==
  ASSUME IInv, NEW p \in Multiparts, NEW at \in {"send", "send_multipart"},
         NEW more \in BOOLEAN, SendBegin(p, at, more)
  PROVE  IInv'
  <1>1. Typed /\ SentSoFar /\ MessagesMeant /\ GotSoFar
    BY DEF IInv
  <1>2. /\ snd = Idle /\ parts[p] # <<>> /\ (at = "send" => ~more)
        /\ snd' = [at |-> at, p |-> p, it |-> 1, sndmore |-> more, all |-> parts[p]]
        /\ UNCHANGED <<msg, parts, out, wire, meant, receiving>>
    BY DEF SendBegin
  <1>3. parts[p] \in Seq(Handle) /\ out = Last(meant)
    BY <1>1, <1>2 DEF Typed, SentSoFar
  <1>4. /\ snd' \in Calls /\ snd'.p = p /\ snd'.it = 1 /\ snd'.all = parts[p]
        /\ snd'.at = at /\ snd'.sndmore = more
    BY <1>2, <1>3 DEF Calls
  <1>5. Rest' = parts[p]
    <2>1. SubSeq(parts[p], 1, Len(parts[p])) = parts[p]
      BY <1>3, SubSeqFull
    <2> QED BY <1>2, <1>4, <2>1 DEF Rest
  <1>6. Len(parts[p]) \in Nat \ {0}
    BY <1>2, <1>3, EmptySeq
  <1>7. 1 \in 1..Len(parts[p]) /\ Len(parts[p]) <= Len(parts[p])
    BY <1>6
  <1>8. SentSoFar'
    BY <1>2, <1>3, <1>4, <1>5, <1>7 DEF SentSoFar, Calls, Idle
  <1>9. Typed'
    BY <1>1, <1>2, <1>4 DEF Typed, receiving
  <1>10. MessagesMeant' /\ GotSoFar'
    BY <1>1, <1>2, GotFrame DEF MessagesMeant
  <1> QED BY <1>8, <1>9, <1>10 DEF IInv

\* The thread is in a call when it sends.
LEMMA InCall ==
  ASSUME IInv, snd.at \in {"send", "send_multipart"}
  PROVE  snd \in Calls
  BY DEF IInv, Typed, Idle, Over

\* multipart_t::send sends the part at the head of what is left.
LEMMA SendPopStep ==
  ASSUME IInv, SendPop
  PROVE  IInv'
  <1>1. Typed /\ SentSoFar /\ MessagesMeant /\ GotSoFar
    BY DEF IInv
  <1>2. snd.at = "send" /\ snd \in Calls /\ ~snd.sndmore
    BY <1>1, InCall DEF SendPop, SentSoFar
  <1>3. Rest = parts[snd.p]
    BY <1>2 DEF Rest
  <1>4. /\ parts' = [parts EXCEPT ![snd.p] = Tail(Rest)] /\ UNCHANGED <<msg, receiving>>
        /\ \/ /\ Write(Head(Rest), Len(Rest) > 1)
              /\ IF Len(Rest) > 1 THEN UNCHANGED <<snd, meant>> ELSE SendDone
           \/ NotSent(Head(Rest))
    BY <1>3 DEF SendPop
  <1>5. Rest \in Seq(Handle) /\ Rest # <<>> /\ snd.p \in Multiparts
    BY <1>2, Sending
  <1>6. Tail(Rest) \in Seq(Handle) /\ Len(Rest) \in Nat \ {0}
    BY <1>5, EmptySeq
  <1>7. parts' \in [Multiparts -> Seq(Handle)] /\ parts'[snd.p] = Tail(Rest)
    BY <1>1, <1>4, <1>5, <1>6 DEF Typed
  <1>8. GotSoFar'
    BY <1>1, <1>4, GotFrame
  <1>9. CASE Write(Head(Rest), Len(Rest) > 1) /\ Len(Rest) > 1 /\ UNCHANGED <<snd, meant>>
    <2>1. Rest' = Tail(Rest)
      BY <1>2, <1>7, <1>9 DEF Rest
    <2>2. Write(Head(Rest), TRUE)
      BY <1>9
    <2>3. out' \in Seq(Handle) /\ wire' = wire /\ SentSoFar' /\ MessagesMeant'
      BY <1>2, <1>9, <2>1, <2>2, GoesOn
    <2>4. Typed'
      BY <1>1, <1>4, <1>7, <1>9, <2>3 DEF Typed, receiving
    <2> QED BY <1>8, <2>3, <2>4 DEF IInv
  <1>10. CASE Write(Head(Rest), Len(Rest) > 1) /\ ~(Len(Rest) > 1) /\ SendDone
    <2>1. Len(Rest) = 1
      <3>1. ~(Len(Rest) > 1)
        BY <1>10
      <3>2. PICK n : n = Len(Rest)
        OBVIOUS
      <3>3. n \in Nat \ {0} /\ ~(n > 1)
        BY <1>6, <3>1, <3>2
      <3>4. n = 1
        BY <3>3
      <3> QED BY <3>2, <3>4
    <2>2. Write(Head(Rest), snd.sndmore)
      BY <1>2, <1>10 DEF Write
    <2>3. /\ out' \in Seq(Handle) /\ wire' \in Seq(Seq(Handle)) /\ meant' \in Seq(Seq(Handle))
          /\ MessagesMeant' /\ SentSoFar' /\ snd' = Idle
      BY <1>2, <1>10, <2>1, <2>2, WriteLast DEF SendDone
    <2>4. Typed'
      BY <1>1, <1>4, <1>7, <2>3 DEF Typed, receiving
    <2> QED BY <1>8, <2>3, <2>4 DEF IInv
  <1>11. CASE NotSent(Head(Rest))
    <2>1. /\ snd' \in {Idle, Over} /\ UNCHANGED <<out, wire, meant>> /\ SentSoFar' /\ MessagesMeant'
      BY <1>2, <1>11, NotSentStep
    <2>2. Typed'
      BY <1>1, <1>4, <1>7, <2>1 DEF Typed, receiving
    <2> QED BY <1>8, <2>1, <2>2 DEF IInv
  <1> QED BY <1>4, <1>9, <1>10, <1>11

\* send_multipart sends the part at its iterator, and leaves an empty one.
LEMMA SendNextStep ==
  ASSUME IInv, SendNext
  PROVE  IInv'
  <1>1. Typed /\ SentSoFar /\ MessagesMeant /\ GotSoFar
    BY DEF IInv
  <1>2. snd.at = "send_multipart" /\ snd \in Calls
    BY <1>1, InCall DEF SendNext
  <1>3. PICK s, k : s = parts[snd.p] /\ k = snd.it
    OBVIOUS
  <1>4. /\ s \in Seq(Handle) /\ Len(s) \in Nat /\ k \in 1..Len(s) /\ Len(s) = Len(snd.all)
        /\ Head(Rest) = s[k] /\ Len(Rest) = Len(s) - k + 1 /\ snd.p \in Multiparts
    BY <1>2, <1>3, Sending
  <1>5. /\ UNCHANGED <<msg, receiving>>
        /\ \/ /\ Write(Head(Rest), snd.sndmore \/ k # Len(s))
              /\ parts' = [parts EXCEPT ![snd.p][snd.it] = Empty]
              /\ IF k = Len(s) THEN SendDone ELSE snd' = [snd EXCEPT !.it = @ + 1] /\ UNCHANGED meant
           \/ NotSent(Head(Rest)) /\ UNCHANGED parts
    BY <1>2, <1>3, <1>4 DEF SendNext
  <1>6. GotSoFar'
    BY <1>1, <1>5, GotFrame
  <1>7. CASE NotSent(Head(Rest)) /\ UNCHANGED parts
    <2>1. /\ snd' \in {Idle, Over} /\ UNCHANGED <<out, wire, meant>> /\ SentSoFar' /\ MessagesMeant'
      BY <1>2, <1>7, NotSentStep
    <2>2. Typed'
      BY <1>1, <1>5, <1>7, <2>1 DEF Typed, receiving
    <2> QED BY <1>6, <2>1, <2>2 DEF IInv
  <1>8. CASE /\ Write(Head(Rest), snd.sndmore \/ k # Len(s))
             /\ parts' = [parts EXCEPT ![snd.p][snd.it] = Empty]
             /\ IF k = Len(s) THEN SendDone ELSE snd' = [snd EXCEPT !.it = @ + 1] /\ UNCHANGED meant
    <2>1. PICK t : t = [s EXCEPT ![k] = Empty]
      OBVIOUS
    <2>2. /\ t \in Seq(Handle) /\ Len(t) = Len(s)
          /\ \A i \in 1..Len(s) : i # k => t[i] = s[i]
      BY <1>4, <2>1 DEF Handle
    <2>3. parts' = [parts EXCEPT ![snd.p] = t]
      BY <1>3, <1>8, <2>1
    <2>4. parts' \in [Multiparts -> Seq(Handle)] /\ parts'[snd.p] = t
      BY <1>1, <1>4, <2>2, <2>3 DEF Typed
    <2>5. CASE k = Len(s)
      <3>1. Len(Rest) = 1
        BY <1>4, <2>5
      <3>2. Write(Head(Rest), snd.sndmore)
        <4>1. (snd.sndmore \/ k # Len(s)) = snd.sndmore
          BY <1>2, <2>5 DEF Calls
        <4> QED BY <1>8, <4>1
      <3>3. /\ out' \in Seq(Handle) /\ wire' \in Seq(Seq(Handle)) /\ meant' \in Seq(Seq(Handle))
            /\ MessagesMeant' /\ SentSoFar' /\ snd' = Idle
        BY <1>2, <1>8, <2>5, <3>1, <3>2, WriteLast DEF SendDone
      <3>4. Typed'
        BY <1>1, <1>5, <2>4, <3>3 DEF Typed, receiving
      <3> QED BY <1>6, <3>3, <3>4 DEF IInv
    <2>6. CASE k # Len(s)
      <3>1. Write(Head(Rest), TRUE) /\ snd' = [snd EXCEPT !.it = k + 1] /\ meant' = meant
        <4>1. (snd.sndmore \/ k # Len(s)) = TRUE
          BY <2>6
        <4> QED BY <1>3, <1>8, <2>6, <4>1
      <3>2. k + 1 \in 1..Len(s) /\ Len(Rest) > 1 /\ k + 1 \in Nat
        BY <1>4, <2>6
      <3>3. /\ snd' \in Calls /\ snd'.p = snd.p /\ snd'.it = k + 1 /\ snd'.all = snd.all
            /\ snd'.at = snd.at /\ snd'.sndmore = snd.sndmore
        BY <1>2, <3>1, <3>2 DEF Calls
      <3>4. Rest' = Tail(Rest)
        <4>1. Rest' = SubSeq(t, k + 1, Len(t))
          BY <1>2, <2>4, <3>3 DEF Rest
        <4>2. Rest = SubSeq(s, k, Len(s))
          BY <1>2, <1>3 DEF Rest
        <4>3. Tail(SubSeq(s, k, Len(s))) = SubSeq(s, k + 1, Len(s))
          <5>1. Len(s) \in k..Len(s)
            BY <1>4
          <5> QED BY <1>4, <5>1, HeadTailOfSubSeq
        <4>4. SubSeq(t, k + 1, Len(t)) = SubSeq(s, k + 1, Len(s))
          BY <1>4, <2>2, <3>2
        <4> QED BY <4>1, <4>2, <4>3, <4>4
      <3>5. out' \in Seq(Handle) /\ wire' = wire /\ SentSoFar' /\ MessagesMeant'
        <4>1. snd'.it \in 1..Len(parts'[snd'.p]) /\ Len(parts'[snd'.p]) = Len(snd'.all)
          BY <1>4, <2>2, <2>4, <3>2, <3>3
        <4> QED BY <1>2, <3>1, <3>2, <3>3, <3>4, <4>1, GoesOn
      <3>6. Typed'
        BY <1>1, <1>5, <2>4, <3>1, <3>3, <3>5 DEF Typed, receiving
      <3> QED BY <1>6, <3>5, <3>6 DEF IInv
    <2> QED BY <2>5, <2>6
  <1> QED BY <1>5, <1>7, <1>8

-----------------------------------------------------------------------------
(* Building messages.                                                      *)

\* A part goes to one end of a multipart_t, and one is taken from either end.
LEMMA Ends ==
  ASSUME NEW S, NEW s \in Seq(S)
  PROVE  /\ \A h \in S : Append(s, h) \in Seq(S) /\ <<h>> \o s \in Seq(S)
         /\ s # <<>> => /\ Head(s) \in S /\ Tail(s) \in Seq(S)
                        /\ Last(s) \in S /\ Front(s) \in Seq(S)
  <1>1. \A h \in S : Append(s, h) \in Seq(S) /\ <<h>> \o s \in Seq(S)
    OBVIOUS
  <1>2. ASSUME s # <<>> PROVE Head(s) \in S /\ Tail(s) \in Seq(S)
    BY <1>2
  <1>3. ASSUME s # <<>> PROVE Last(s) \in S
    BY <1>3 DEF Last
  <1>4. ASSUME s # <<>> PROVE Front(s) \in Seq(S)
    BY <1>4, FrontProperties
  <1> QED BY <1>1, <1>2, <1>3, <1>4

\* The operations of a message_t keep its handle one that libzmq knows.
LEMMA MessageTyped ==
  ASSUME Typed, MessageStep
  PROVE  msg' \in [Objects -> Handle \cup {None}]
  <1>1. msg \in [Objects -> Handle \cup {None}]
    BY DEF Typed
  <1>2. Fresh \subseteq Handle /\ Empty \in Handle /\ Dead \in Handle
    BY DEF Fresh, Handle
  <1>3. ASSUME NEW x \in Objects, Construct(x) \/ Destroy(x) \/ Rebuild(x)
        PROVE  msg' \in [Objects -> Handle \cup {None}]
    <2>1. \E h \in Handle \cup {None} : msg' = [msg EXCEPT ![x] = h]
      BY <1>2, <1>3 DEF Construct, Destroy, Rebuild
    <2> QED BY <1>1, <2>1
  <1>4. ASSUME NEW x \in Objects, NEW y \in Objects,
               MoveConstruct(x, y) \/ Move(x, y) \/ Copy(x, y) \/ Swap(x, y)
        PROVE  msg' \in [Objects -> Handle \cup {None}]
    <2>1. \/ msg' = [msg EXCEPT ![x] = msg[y]]
          \/ \E h \in Handle \cup {None} : msg' = [msg EXCEPT ![x] = msg[y], ![y] = h]
      BY <1>1, <1>2, <1>4 DEF MoveConstruct, Move, Copy, Swap
    <2> QED BY <1>1, <2>1
  <1> QED BY <1>3, <1>4 DEF MessageStep

\* The operations on one multipart_t.
LEMMA PartsTyped ==
  ASSUME Typed, NEW p \in Multiparts, AddMem(p) \/ PopStr(p) \/ Clear(p)
  PROVE  msg' = msg /\ parts' \in [Multiparts -> Seq(Handle)]
  <1>1. parts \in [Multiparts -> Seq(Handle)] /\ parts[p] \in Seq(Handle)
    BY DEF Typed
  <1>2. msg' = msg
    BY DEF AddMem, PopStr, Clear
  <1>3. \E s \in Seq(Handle) : parts' = [parts EXCEPT ![p] = s]
    <2>1. CASE AddMem(p)
      <3>1. PICK c \in Fresh : \/ parts' = [parts EXCEPT ![p] = Append(parts[p], c)]
                               \/ parts' = [parts EXCEPT ![p] = <<c>> \o parts[p]]
        BY <2>1 DEF AddMem
      <3>2. c \in Handle
        BY DEF Fresh, Handle
      <3>3. Append(parts[p], c) \in Seq(Handle) /\ <<c>> \o parts[p] \in Seq(Handle)
        BY <1>1, <3>2, Ends
      <3> QED BY <3>1, <3>3
    <2>2. CASE PopStr(p)
      <3>1. Tail(parts[p]) \in Seq(Handle)
        BY <1>1, <2>2, Ends DEF PopStr
      <3> QED BY <2>2, <3>1 DEF PopStr
    <2>3. CASE Clear(p)
      <3>1. <<>> \in Seq(Handle)
        OBVIOUS
      <3> QED BY <2>3, <3>1 DEF Clear
    <2> QED BY <2>1, <2>2, <2>3
  <1> QED BY <1>1, <1>2, <1>3

\* A part moves between a message_t and a multipart_t.
LEMMA MovesTyped ==
  ASSUME Typed, NEW p \in Multiparts, NEW x \in Objects, Add(p, x) \/ Pop(p, x)
  PROVE  msg' \in [Objects -> Handle \cup {None}] /\ parts' \in [Multiparts -> Seq(Handle)]
  <1>1. /\ parts \in [Multiparts -> Seq(Handle)] /\ parts[p] \in Seq(Handle)
        /\ msg \in [Objects -> Handle \cup {None}]
    BY DEF Typed
  <1>2. /\ \E h \in Handle : msg' = [msg EXCEPT ![x] = h]
        /\ \E s \in Seq(Handle) : parts' = [parts EXCEPT ![p] = s]
    <2>1. CASE Add(p, x)
      <3>1. msg[x] \in Handle /\ Empty \in Handle
        BY <1>1, <2>1 DEF Add, Handle
      <3>2. Append(parts[p], msg[x]) \in Seq(Handle) /\ <<msg[x]>> \o parts[p] \in Seq(Handle)
        BY <1>1, <3>1, Ends
      <3> QED BY <2>1, <3>1, <3>2 DEF Add
    <2>2. CASE Pop(p, x)
      <3>1. /\ Head(parts[p]) \in Handle /\ Tail(parts[p]) \in Seq(Handle)
            /\ Last(parts[p]) \in Handle /\ Front(parts[p]) \in Seq(Handle)
        BY <1>1, <2>2, Ends DEF Pop
      <3> QED BY <2>2, <3>1 DEF Pop
    <2> QED BY <2>1, <2>2
  <1>3. msg' \in [Objects -> Handle \cup {None}]
    BY <1>1, <1>2
  <1>4. parts' \in [Multiparts -> Seq(Handle)]
    BY <1>1, <1>2
  <1> QED BY <1>3, <1>4

\* The operations on two multipart_t.
LEMMA TwoPartsTyped ==
  ASSUME Typed, NEW p \in Multiparts, NEW q \in Multiparts,
         Join(p, q) \/ MoveAssign(p, q) \/ Clone(p, q)
  PROVE  msg' = msg /\ parts' \in [Multiparts -> Seq(Handle)]
  <1>1. /\ parts \in [Multiparts -> Seq(Handle)]
        /\ parts[p] \in Seq(Handle) /\ parts[q] \in Seq(Handle) /\ <<>> \in Seq(Handle)
    BY DEF Typed
  <1>2. msg' = msg
    BY DEF Join, MoveAssign, Clone
  <1>3. CASE Join(p, q)
    <2>1. parts[p] \o parts[q] \in Seq(Handle) /\ parts[q] \o parts[p] \in Seq(Handle)
      BY <1>1, ConcatProperties
    <2>2. \E s \in Seq(Handle) : parts' = [parts EXCEPT ![p] = s, ![q] = <<>>]
      BY <1>3, <2>1 DEF Join
    <2> QED BY <1>1, <1>2, <2>2
  <1>4. CASE MoveAssign(p, q)
    <2>1. parts' = [parts EXCEPT ![p] = parts[q], ![q] = <<>>]
      BY <1>4 DEF MoveAssign
    <2> QED BY <1>1, <1>2, <2>1
  <1>5. CASE Clone(p, q)
    <2>1. PICK new \in [DOMAIN parts[q] -> Fresh \cup {Empty}] : parts' = [parts EXCEPT ![p] = new]
      BY <1>5 DEF Clone
    <2>2. Fresh \cup {Empty} \subseteq Handle
      BY DEF Fresh, Handle
    <2>3. new \in Seq(Handle)
      <3>1. PICK n \in Nat : DOMAIN parts[q] = 1..n
        BY <1>1, LenProperties
      <3>2. new = [i \in 1..n |-> new[i]] /\ \A i \in 1..n : new[i] \in Handle
        BY <2>2, <3>1
      <3>3. [i \in 1..n |-> new[i]] \in Seq(Handle)
        BY <3>2, IsASeq
      <3> QED BY <3>2, <3>3
    <2> QED BY <1>1, <1>2, <2>1, <2>3
  <1> QED BY <1>3, <1>4, <1>5

\* Building takes place between calls, and touches neither the pipe nor what
\* has been received.
LEMMA BuildStep ==
  ASSUME IInv, Build
  PROVE  IInv'
  <1>1. Typed /\ SentSoFar /\ MessagesMeant /\ GotSoFar
    BY DEF IInv
  <1>2. snd = Idle /\ UNCHANGED <<snd, out, wire, meant, receiving>>
    BY DEF Build, sending
  <1>3. msg' \in [Objects -> Handle \cup {None}] /\ parts' \in [Multiparts -> Seq(Handle)]
    <2>1. CASE MessageStep /\ UNCHANGED parts
      BY <1>1, <2>1, MessageTyped DEF Typed
    <2>2. CASE \E p \in Multiparts : AddMem(p) \/ PopStr(p) \/ Clear(p)
      BY <1>1, <2>2, PartsTyped DEF Typed
    <2>3. CASE \E p \in Multiparts, x \in Objects : Add(p, x) \/ Pop(p, x)
      BY <1>1, <2>3, MovesTyped
    <2>4. CASE \E p, q \in Multiparts : Join(p, q) \/ MoveAssign(p, q) \/ Clone(p, q)
      BY <1>1, <2>4, TwoPartsTyped DEF Typed
    <2> QED BY <2>1, <2>2, <2>3, <2>4 DEF Build
  <1>4. Typed'
    BY <1>1, <1>2, <1>3 DEF Typed, receiving
  <1>5. SentSoFar'
    BY <1>1, <1>2 DEF SentSoFar, Calls, Idle
  <1>6. MessagesMeant'
    BY <1>1, <1>2 DEF MessagesMeant
  <1>7. GotSoFar'
    BY <1>1, <1>2, GotFrame
  <1> QED BY <1>4, <1>5, <1>6, <1>7 DEF IInv

-----------------------------------------------------------------------------
(* The theorems.                                                           *)

\* Nothing has been sent or received.
LEMMA InitIInv == Init => IInv
  <1> SUFFICES ASSUME Init PROVE IInv
    OBVIOUS
  <1>1. /\ msg = [x \in Objects |-> None] /\ parts = [p \in Multiparts |-> <<>>]
        /\ snd = Idle /\ out = <<>> /\ wire = <<>> /\ meant = <<<<>>>>
        /\ rcv = Idle /\ pending = <<>> /\ inbox = <<>> /\ ret = "none" /\ cur = <<>> /\ taken = <<>>
    BY DEF Init
  <1>2. <<>> \in Seq(Handle) /\ <<>> \in Seq(Seq(Handle))
    OBVIOUS
  <1>3. meant \in Seq(Seq(Handle)) /\ meant # <<>> /\ Last(meant) = <<>> /\ Front(meant) = <<>>
    <2>1. meant \in Seq(Seq(Handle)) /\ Len(meant) = 1 /\ meant[1] = <<>>
      BY <1>1, <1>2
    <2>2. Last(meant) = <<>> /\ meant # <<>>
      BY <2>1 DEF Last
    <2>3. Front(meant) \in Seq(Seq(Handle)) /\ Len(Front(meant)) = Len(meant) - 1
      BY <2>1, <2>2, FrontProperties
    <2> QED BY <2>1, <2>2, <2>3, EmptySeq
  <1>4. Typed
    BY <1>1, <1>2, <1>3 DEF Typed
  <1>5. SentSoFar
    BY <1>1, <1>3 DEF SentSoFar, Calls, Idle
  <1>6. MessagesMeant
    BY <1>1, <1>3 DEF MessagesMeant
  <1>7. GotSoFar
    BY <1>1 DEF GotSoFar, Idle
  <1> QED BY <1>4, <1>5, <1>6, <1>7 DEF IInv

\* Every step of either thread keeps the invariant.
LEMMA NextIInv == IInv /\ [Next]_vars => IInv'
  <1> SUFFICES ASSUME IInv, [Next]_vars PROVE IInv'
    OBVIOUS
  <1>1. CASE UNCHANGED vars
    BY <1>1 DEF vars, threads, IInv, Typed, SentSoFar, Rest, MessagesMeant, GotSoFar
  <1>2. CASE Next
    BY <1>2, BuildStep, SendPopStep, SendNextStep, SendBeginStep, RecvPartStep, RecvEndStep,
       RecvBeginStep DEF Next
  <1> QED BY <1>1, <1>2

\* The inductive invariant holds in every reachable state.
THEOREM Invariance == Spec => []IInv
  BY InitIInv, NextIInv, PTL DEF Spec

\* What the receiver gets is what the senders meant, whole and in order: across
\* calls that throw, and messages sent by several calls with sndmore.
THEOREM WholeMessages == Spec => []DeliveredWhole
  <1>1. IInv => DeliveredWhole
    BY DEF IInv, MessagesMeant, GotSoFar, DeliveredWhole
  <1> QED BY <1>1, Invariance, PTL

\* The assertions of send_multipart and recv_multipart_n hold: a part after the
\* first is never refused.
THEOREM RefusedAtFirstOnly == Spec => []NotRefusedInside
  <1>1. IInv => NotRefusedInside
    <2> SUFFICES ASSUME IInv PROVE NotRefusedInside
      OBVIOUS
    <2>1. ASSUME snd.at = "send_multipart", snd.it > 1 PROVE out # <<>>
      <3>1. SUFFICES ASSUME out = <<>> PROVE FALSE
        OBVIOUS
      <3>2. snd \in Calls
        BY <2>1, InCall
      <3>3. Rest = snd.all
        BY <3>1, <3>2, NothingWritten
      <3>4. /\ snd.it \in 1..Len(parts[snd.p]) /\ Len(parts[snd.p]) = Len(snd.all)
            /\ Len(Rest) = Len(parts[snd.p]) - snd.it + 1 /\ snd.all \in Seq(Handle)
        BY <2>1, <3>2, Sending
      <3>5. Len(snd.all) \in Nat /\ Len(snd.all) = Len(snd.all) - snd.it + 1 /\ snd.it \in 1..Len(snd.all)
        BY <3>3, <3>4
      <3> QED BY <2>1, <3>5
    <2>2. ASSUME snd.at = "send", parts[snd.p] # snd.all PROVE out # <<>>
      <3>1. Rest = parts[snd.p] /\ snd \in Calls
        BY <2>2, InCall DEF Rest
      <3> QED BY <2>2, <3>1, NothingWritten
    <2>3. rcv.at = "recv" /\ inbox # <<>> => pending # <<>>
      BY DEF IInv, GotSoFar
    <2> QED BY <2>1, <2>2, <2>3 DEF NotRefusedInside
  <1> QED BY <1>1, Invariance, PTL

\* What a refused call leaves in the multipart_t can be sent again, but for the
\* first part when multipart_t::send has taken it out.
THEOREM RefusalLeavesRest == Spec => RefusedCallLeaves
  <1> DEFINE Refused == /\ snd.at \in {"send", "send_multipart"} /\ snd' = Idle
                        /\ Len(meant') <= Len(meant) /\ Last(meant') = Last(meant)
             Left == parts'[snd.p] = IF snd.at = "send" THEN Tail(snd.all) ELSE snd.all
  <1>1. ASSUME IInv, [Next]_vars, Refused PROVE Left
    <2>1. snd \in Calls /\ snd # Idle /\ snd' # snd
      BY <1>1, InCall DEF Idle
    <2>2. CASE SendPop
      <3>1. snd.at = "send" /\ Rest = parts[snd.p] /\ ~snd.sndmore
        BY <1>1, <2>1, <2>2 DEF SendPop, Rest, IInv, SentSoFar
      <3>2. /\ parts' = [parts EXCEPT ![snd.p] = Tail(Rest)]
            /\ \/ /\ Write(Head(Rest), Len(Rest) > 1)
                  /\ IF Len(Rest) > 1 THEN UNCHANGED <<snd, meant>> ELSE SendDone
               \/ NotSent(Head(Rest))
        BY <2>2, <3>1 DEF SendPop
      <3>3. CASE NotSent(Head(Rest))
        <4>1. Rest = snd.all
          BY <1>1, <2>1, <3>3, NotSentStep
        <4>2. parts \in [Multiparts -> Seq(Handle)] /\ snd.p \in Multiparts
          BY <1>1, <2>1, Sending DEF IInv, Typed
        <4> QED BY <3>1, <3>2, <4>1, <4>2
      <3>4. CASE Write(Head(Rest), Len(Rest) > 1) /\ ~(Len(Rest) > 1) /\ SendDone
        <4>1. Len(Rest) = 1
          <5>1. PICK n : n = Len(Rest)
            OBVIOUS
          <5>2. Rest \in Seq(Handle) /\ Rest # <<>>
            BY <1>1, <2>1, Sending
          <5>3. n \in Nat \ {0} /\ ~(n > 1)
            BY <3>4, <5>1, <5>2, EmptySeq
          <5>4. n = 1
            BY <5>3
          <5> QED BY <5>1, <5>4
        <4>2. Write(Head(Rest), snd.sndmore)
          BY <3>1, <3>4 DEF Write
        <4>3. ~(Len(meant') <= Len(meant) /\ Last(meant') = Last(meant))
          BY <1>1, <2>1, <3>4, <4>1, <4>2, WriteLast
        <4> QED BY <1>1, <4>3
      <3> QED BY <2>1, <3>2, <3>3, <3>4
    <2>3. CASE SendNext
      <3>1. PICK s, k : s = parts[snd.p] /\ k = snd.it
        OBVIOUS
      <3>2. /\ snd.at = "send_multipart" /\ s \in Seq(Handle) /\ Len(s) \in Nat /\ k \in 1..Len(s)
            /\ Len(s) = Len(snd.all) /\ Head(Rest) = s[k] /\ Len(Rest) = Len(s) - k + 1
        BY <1>1, <2>1, <2>3, <3>1, Sending DEF SendNext
      <3>3. \/ /\ Write(Head(Rest), snd.sndmore \/ k # Len(s))
               /\ IF k = Len(s) THEN SendDone ELSE snd' = [snd EXCEPT !.it = @ + 1]
            \/ NotSent(Head(Rest)) /\ UNCHANGED parts
        BY <2>3, <3>1, <3>2 DEF SendNext
      <3>4. CASE NotSent(Head(Rest)) /\ UNCHANGED parts
        <4>1. Rest = snd.all
          BY <1>1, <2>1, <3>4, NotSentStep
        <4>2. k = 1
          BY <3>2, <4>1
        <4>3. Rest = SubSeq(s, 1, Len(s))
          BY <3>1, <3>2, <4>2 DEF Rest
        <4>4. SubSeq(s, 1, Len(s)) = s
          BY <3>2, SubSeqFull
        <4> QED BY <3>1, <3>2, <3>4, <4>1, <4>3, <4>4
      <3>5. CASE Write(Head(Rest), snd.sndmore \/ k # Len(s)) /\ k = Len(s) /\ SendDone
        <4>1. Len(Rest) = 1
          BY <3>2, <3>5
        <4>2. Write(Head(Rest), snd.sndmore)
          <5>1. (snd.sndmore \/ k # Len(s)) = snd.sndmore
            BY <2>1, <3>5 DEF Calls
          <5> QED BY <3>5, <5>1
        <4>3. ~(Len(meant') <= Len(meant) /\ Last(meant') = Last(meant))
          BY <1>1, <2>1, <3>5, <4>1, <4>2, WriteLast
        <4> QED BY <1>1, <4>3
      <3>6. CASE snd' = [snd EXCEPT !.it = @ + 1]
        BY <1>1, <2>1, <3>6 DEF Calls, Idle
      <3> QED BY <3>3, <3>4, <3>5, <3>6
    <2>4. SendPop \/ SendNext
      BY <1>1, <2>1 DEF Next, vars, threads, Build, sending, SendBegin, RecvPart, TooMany,
                        RecvFails, RecvBegin
    <2> QED BY <2>2, <2>3, <2>4
  <1>2. IInv /\ [Next]_vars => [Refused => Left]_vars
    BY <1>1
  <1> QED BY <1>2, Invariance, PTL DEF Spec, RefusedCallLeaves

-----------------------------------------------------------------------------
(***************************************************************************)
(* Proof that libzmq's reference counts are right whatever C++ does with   *)
(* messages. The count of a content is the sum of how often it occurs in   *)
(* msg, parts, out, wire, pending and inbox; the lemmas say how each way   *)
(* of moving a part changes such a number.                                 *)
(***************************************************************************)

-----------------------------------------------------------------------------
(* Occurrences in a function with a finite domain, or a sequence.          *)

Where(c, f) == {i \in DOMAIN f : f[i] = c}
One(c, h) == IF h = c THEN 1 ELSE 0
With(f, k, v) == [f EXCEPT ![k] = v]

\* A function with another value.
LEMMA WithType ==
  ASSUME NEW f, NEW k \in DOMAIN f, NEW v
  PROVE  /\ DOMAIN With(f, k, v) = DOMAIN f /\ With(f, k, v)[k] = v
         /\ \A l \in DOMAIN f : l # k => With(f, k, v)[l] = f[l]
  BY DEF With

\* Only finitely many places refer to a content.
LEMMA CountType ==
  ASSUME NEW c, NEW f, IsFiniteSet(DOMAIN f)
  PROVE  IsFiniteSet(Where(c, f)) /\ Count(c, f) = Cardinality(Where(c, f)) /\ Count(c, f) \in Nat
  <1>1. Where(c, f) \in SUBSET (DOMAIN f)
    BY DEF Where
  <1>2. IsFiniteSet(Where(c, f))
    BY <1>1, FS_Subset
  <1>3. Count(c, f) = Cardinality(Where(c, f))
    BY DEF Count, Where
  <1> QED BY <1>2, <1>3, FS_CardinalityType

\* The same for sequences.
LEMMA CountSeqType ==
  ASSUME NEW c, NEW S, NEW s \in Seq(S)
  PROVE  /\ IsFiniteSet(DOMAIN s) /\ IsFiniteSet(Where(c, s))
         /\ Count(c, s) = Cardinality(Where(c, s)) /\ Count(c, s) \in Nat
  <1>1. DOMAIN s = 1..Len(s) /\ Len(s) \in Nat
    BY LenProperties
  <1>2. IsFiniteSet(1..Len(s))
    BY <1>1, FS_Interval
  <1> QED BY <1>1, <1>2, CountType

\* One place gets another message.
LEMMA CountExcept ==
  ASSUME NEW c, NEW f, IsFiniteSet(DOMAIN f), NEW k \in DOMAIN f, NEW v
  PROVE  Count(c, With(f, k, v)) = Count(c, f) - One(c, f[k]) + One(c, v)
  <1>1. PICK g : g = With(f, k, v)
    OBVIOUS
  <1>2. DOMAIN g = DOMAIN f /\ g[k] = v /\ \A i \in DOMAIN f : i # k => g[i] = f[i]
    BY <1>1, WithType
  <1>3. /\ IsFiniteSet(Where(c, f)) /\ Count(c, f) = Cardinality(Where(c, f)) /\ Count(c, f) \in Nat
        /\ IsFiniteSet(Where(c, g)) /\ Count(c, g) = Cardinality(Where(c, g)) /\ Count(c, g) \in Nat
    BY <1>2, CountType
  <1>4. Where(c, f) \ {k} = Where(c, g) \ {k}
    BY <1>2 DEF Where
  <1>5. (k \in Where(c, f) <=> f[k] = c) /\ (k \in Where(c, g) <=> v = c)
    BY <1>2 DEF Where
  <1>6. Cardinality(Where(c, f) \ {k}) = Cardinality(Where(c, f)) - One(c, f[k])
    <2>1. Cardinality(Where(c, f) \ {k}) = IF k \in Where(c, f) THEN Cardinality(Where(c, f)) - 1 ELSE Cardinality(Where(c, f))
      BY <1>3, FS_RemoveElement
    <2> QED BY <1>3, <1>5, <2>1 DEF One
  <1>7. Cardinality(Where(c, g) \ {k}) = Cardinality(Where(c, g)) - One(c, v)
    <2>1. Cardinality(Where(c, g) \ {k}) = IF k \in Where(c, g) THEN Cardinality(Where(c, g)) - 1 ELSE Cardinality(Where(c, g))
      BY <1>3, FS_RemoveElement
    <2> QED BY <1>3, <1>5, <2>1 DEF One
  <1>8. Count(c, f) - One(c, f[k]) = Count(c, g) - One(c, v)
    BY <1>3, <1>4, <1>6, <1>7
  <1>9. One(c, f[k]) \in Nat /\ One(c, v) \in Nat
    BY DEF One
  <1>10. Count(c, g) = Count(c, f) - One(c, f[k]) + One(c, v)
    BY <1>3, <1>8, <1>9
  <1> QED BY <1>1, <1>10

\* A function that maps each place of one set to its own place of the other.
LEMMA SameCount ==
  ASSUME NEW A, NEW B, IsFiniteSet(A), NEW F \in [A -> B],
         \A a, b \in A : F[a] = F[b] => a = b, \A t \in B : \E a \in A : F[a] = t
  PROVE  IsFiniteSet(B) /\ Cardinality(B) = Cardinality(A)
  <1>1. F \in Bijection(A, B)
    BY DEF Bijection, Injection, Surjection, IsInjective
  <1>2. ExistsBijection(A, B)
    BY <1>1 DEF ExistsBijection
  <1> QED BY <1>2, FS_Bijection

\* Two disjoint sets of places.
LEMMA Disjoint ==
  ASSUME NEW A, NEW B, IsFiniteSet(A), IsFiniteSet(B), A \cap B = {}
  PROVE  IsFiniteSet(A \cup B) /\ Cardinality(A \cup B) = Cardinality(A) + Cardinality(B)
  <1>1. /\ IsFiniteSet(A \cup B)
        /\ Cardinality(A \cup B) = Cardinality(A) + Cardinality(B) - Cardinality(A \cap B)
    BY FS_Union
  <1>2. Cardinality(A \cap B) = 0 /\ Cardinality(A) \in Nat /\ Cardinality(B) \in Nat
    BY FS_EmptySet, FS_CardinalityType
  <1> QED BY <1>1, <1>2

\* Parts of two sequences, one after the other.
LEMMA CountConcat ==
  ASSUME NEW c, NEW S, NEW s \in Seq(S), NEW t \in Seq(S)
  PROVE  Count(c, s \o t) = Count(c, s) + Count(c, t)
  <1>1. PICK n, m, u : n = Len(s) /\ m = Len(t) /\ u = s \o t
    OBVIOUS
  <1>2. n \in Nat /\ m \in Nat /\ DOMAIN s = 1..n /\ DOMAIN t = 1..m
    BY <1>1, LenProperties
  <1>3. u \in Seq(S) /\ DOMAIN u = 1..(n + m) /\ \A i \in 1..(n + m) : u[i] = IF i <= n THEN s[i] ELSE t[i - n]
    BY <1>1, ConcatProperties, LenProperties
  <1>4. PICK shifted : shifted = {i \in (n + 1)..(n + m) : t[i - n] = c}
    OBVIOUS
  <1>5. Where(c, u) = Where(c, s) \cup shifted /\ Where(c, s) \cap shifted = {}
    BY <1>2, <1>3, <1>4 DEF Where
  <1>6. IsFiniteSet(shifted) /\ Cardinality(shifted) = Cardinality(Where(c, t))
    <2>1. PICK F : F = [j \in Where(c, t) |-> j + n]
      OBVIOUS
    <2>2. \A j \in Where(c, t) : j \in 1..m /\ j + n \in shifted
      BY <1>2, <1>4 DEF Where
    <2>3. F \in [Where(c, t) -> shifted]
      BY <2>1, <2>2
    <2>4. \A a, b \in Where(c, t) : F[a] = F[b] => a = b
      BY <1>2, <2>1, <2>2
    <2>5. \A i \in shifted : \E a \in Where(c, t) : F[a] = i
      <3>1. SUFFICES ASSUME NEW i \in shifted PROVE i - n \in Where(c, t) /\ F[i - n] = i
        OBVIOUS
      <3>2. i \in Int /\ i - n \in 1..m /\ t[i - n] = c
        BY <1>2, <1>4
      <3>3. i - n \in Where(c, t)
        BY <1>2, <3>2 DEF Where
      <3> QED BY <1>2, <2>1, <3>2, <3>3
    <2>6. IsFiniteSet(Where(c, t))
      BY CountSeqType
    <2> QED BY <2>3, <2>4, <2>5, <2>6, SameCount
  <1>7. Cardinality(Where(c, u)) = Cardinality(Where(c, s)) + Cardinality(shifted)
    <2>1. IsFiniteSet(Where(c, s))
      BY CountSeqType
    <2> QED BY <1>5, <1>6, <2>1, Disjoint
  <1> QED BY <1>1, <1>3, <1>6, <1>7, CountSeqType

\* No part, and one part.
LEMMA CountFew ==
  ASSUME NEW c
  PROVE  Count(c, <<>>) = 0 /\ \A h : Count(c, <<h>>) = One(c, h)
  <1>1. Count(c, <<>>) = 0
    <2>1. {i \in DOMAIN <<>> : <<>>[i] = c} = {}
      OBVIOUS
    <2> QED BY <2>1, FS_EmptySet DEF Count
  <1>2. ASSUME NEW h PROVE Count(c, <<h>>) = One(c, h)
    <2>1. {i \in DOMAIN <<h>> : <<h>>[i] = c} = IF h = c THEN {1} ELSE {}
      OBVIOUS
    <2> QED BY <2>1, FS_EmptySet, FS_Singleton DEF Count, One
  <1> QED BY <1>1, <1>2

\* A part is put at either end.
LEMMA CountAdd ==
  ASSUME NEW c, NEW S, NEW s \in Seq(S), NEW h \in S
  PROVE  /\ Count(c, Append(s, h)) = Count(c, s) + One(c, h)
         /\ Count(c, <<h>> \o s) = Count(c, s) + One(c, h)
  <1>1. <<h>> \in Seq(S) /\ Append(s, h) = s \o <<h>>
    OBVIOUS
  <1>2. Count(c, s) \in Nat /\ One(c, h) \in Nat /\ Count(c, <<h>>) = One(c, h)
    BY CountSeqType, CountFew DEF One
  <1>3. Count(c, s \o <<h>>) = Count(c, s) + Count(c, <<h>>)
    BY <1>1, CountConcat
  <1>4. Count(c, <<h>> \o s) = Count(c, <<h>>) + Count(c, s)
    BY <1>1, CountConcat
  <1> QED BY <1>1, <1>2, <1>3, <1>4

\* A part is taken from either end.
LEMMA CountTake ==
  ASSUME NEW c, NEW S, NEW s \in Seq(S), s # <<>>
  PROVE  /\ Count(c, s) = Count(c, Tail(s)) + One(c, Head(s))
         /\ Count(c, s) = Count(c, Front(s)) + One(c, Last(s))
  <1>1. Head(s) \in S /\ Tail(s) \in Seq(S) /\ s = <<Head(s)>> \o Tail(s)
    OBVIOUS
  <1>2. Last(s) \in S /\ Front(s) \in Seq(S)
    BY Ends
  <1>3. s = Append(Front(s), Last(s))
    BY DEF Front, Last
  <1>4. Count(c, <<Head(s)>> \o Tail(s)) = Count(c, Tail(s)) + One(c, Head(s))
    BY <1>1, CountAdd
  <1>5. Count(c, Append(Front(s), Last(s))) = Count(c, Front(s)) + One(c, Last(s))
    BY <1>2, CountAdd
  <1> QED BY <1>1, <1>3, <1>4, <1>5

-----------------------------------------------------------------------------
(* Occurrences in a family of sequences.                                   *)

\* An occurrence is a key and a place of its sequence.
LEMMA WithinElements ==
  ASSUME NEW c, NEW f, NEW k, NEW i
  PROVE  <<k, i>> \in Within(c, f) <=> k \in DOMAIN f /\ i \in Where(c, f[k])
  BY DEF Within, Where

\* Every occurrence is such a pair.
LEMMA WithinPairs ==
  ASSUME NEW c, NEW f, NEW e \in Within(c, f)
  PROVE  e = <<e[1], e[2]>> /\ e[1] \in DOMAIN f /\ e[2] \in Where(c, f[e[1]])
  <1>1. PICK k \in DOMAIN f : e \in {k} \X Where(c, f[k])
    BY DEF Within, Where
  <1> QED BY <1>1

\* A finite family of finite sequences.
Family(f) == IsFiniteSet(DOMAIN f) /\ \A k \in DOMAIN f : IsFiniteSet(DOMAIN f[k])

\* The parts of the multipart_t objects, for one, and the messages of the pipe.
LEMMA FamilyOfSeqs ==
  ASSUME NEW S
  PROVE  /\ \A D : \A f \in [D -> Seq(S)] : IsFiniteSet(D) => Family(f)
         /\ \A f \in Seq(Seq(S)) : Family(f)
  <1>1. ASSUME NEW D, NEW f \in [D -> Seq(S)], IsFiniteSet(D) PROVE Family(f)
    <2>1. ASSUME NEW k \in DOMAIN f PROVE IsFiniteSet(DOMAIN f[k])
      <3>1. f[k] \in Seq(S)
        BY <2>1
      <3> QED BY <3>1, CountSeqType
    <2> QED BY <1>1, <2>1 DEF Family
  <1>2. ASSUME NEW f \in Seq(Seq(S)) PROVE Family(f)
    <2>1. DOMAIN f = 1..Len(f) /\ Len(f) \in Nat /\ f \in [1..Len(f) -> Seq(S)]
      BY <1>2, LenProperties
    <2>2. IsFiniteSet(1..Len(f))
      BY <2>1, FS_Interval
    <2> QED BY <1>1, <2>1, <2>2
  <1> QED BY <1>1, <1>2

\* There are finitely many.
LEMMA WithinType ==
  ASSUME NEW c, NEW f, Family(f)
  PROVE  IsFiniteSet(Within(c, f)) /\ CountWithin(c, f) \in Nat
  <1> DEFINE D == DOMAIN f
  <1>1. PICK F : F = [k \in D |-> {k} \X Where(c, f[k])]
    OBVIOUS
  <1>2. PICK R : R = {{k} \X Where(c, f[k]) : k \in D}
    OBVIOUS
  <1>3. F \in Surjection(D, R)
    BY <1>1, <1>2 DEF Surjection
  <1>4. IsFiniteSet(R)
    <2>1. IsFiniteSet(D)
      BY DEF Family
    <2> QED BY <1>3, <2>1, FS_Surjection
  <1>5. \A T \in R : IsFiniteSet(T)
    <2>1. SUFFICES ASSUME NEW k \in D PROVE IsFiniteSet({k} \X Where(c, f[k]))
      BY <1>2
    <2>2. IsFiniteSet({k}) /\ IsFiniteSet(Where(c, f[k]))
      <3>1. IsFiniteSet(DOMAIN f[k])
        BY DEF Family
      <3> QED BY <3>1, CountType, FS_Singleton
    <2> QED BY <2>2, FS_Product
  <1>6. UNION R = Within(c, f)
    BY <1>2 DEF Within, Where
  <1>7. IsFiniteSet(Within(c, f))
    BY <1>4, <1>5, <1>6, FS_UNION
  <1> QED BY <1>7, FS_CardinalityType DEF CountWithin

\* The occurrences that are not in the sequence of k.
Others(c, f, k) == {e \in Within(c, f) : e[1] # k}

\* The sequence of one key, and the others.
LEMMA WithinSplit ==
  ASSUME NEW c, NEW f, Family(f), NEW k \in DOMAIN f
  PROVE  /\ IsFiniteSet(Others(c, f, k)) /\ Cardinality(Others(c, f, k)) \in Nat
         /\ CountWithin(c, f) = Cardinality(Others(c, f, k)) + Count(c, f[k])
  <1>1. IsFiniteSet(DOMAIN f[k])
    BY DEF Family
  <1>2. IsFiniteSet(Where(c, f[k])) /\ Count(c, f[k]) = Cardinality(Where(c, f[k]))
    BY <1>1, CountType
  <1>3. IsFiniteSet(Within(c, f))
    BY WithinType
  <1>4. IsFiniteSet(Others(c, f, k))
    <2>1. Others(c, f, k) \in SUBSET Within(c, f)
      BY DEF Others
    <2> QED BY <1>3, <2>1, FS_Subset
  <1>5. PICK own : own = {k} \X Where(c, f[k])
    OBVIOUS
  <1>6. IsFiniteSet(own) /\ Cardinality(own) = Cardinality(Where(c, f[k]))
    <2>1. PICK F : F = [i \in Where(c, f[k]) |-> <<k, i>>]
      OBVIOUS
    <2>2. F \in [Where(c, f[k]) -> own]
      BY <1>5, <2>1
    <2>3. \A a, b \in Where(c, f[k]) : F[a] = F[b] => a = b
      BY <2>1
    <2>4. \A t \in own : \E a \in Where(c, f[k]) : F[a] = t
      BY <1>5, <2>1
    <2> QED BY <1>2, <2>2, <2>3, <2>4, SameCount
  <1>7. Within(c, f) = Others(c, f, k) \cup own
    <2>1. ASSUME NEW e \in Within(c, f) PROVE e \in Others(c, f, k) \cup own
      <3>1. e = <<e[1], e[2]>> /\ e[2] \in Where(c, f[e[1]])
        BY WithinPairs
      <3>2. CASE e[1] = k
        BY <1>5, <3>1, <3>2
      <3> QED BY <3>2 DEF Others
    <2>2. ASSUME NEW e \in own PROVE e \in Within(c, f)
      BY <1>5, <2>2, WithinElements
    <2>3. Others(c, f, k) \subseteq Within(c, f)
      BY DEF Others
    <2> QED BY <2>1, <2>2, <2>3
  <1>8. Others(c, f, k) \cap own = {}
    BY <1>5 DEF Others
  <1>9. Cardinality(Within(c, f)) = Cardinality(Others(c, f, k)) + Cardinality(own)
    BY <1>4, <1>6, <1>7, <1>8, Disjoint
  <1> QED BY <1>2, <1>4, <1>6, <1>9, FS_CardinalityType DEF CountWithin

\* Families that differ in the sequence of k only have the same others.
LEMMA OthersSame ==
  ASSUME NEW c, NEW f, NEW g, NEW k,
         \A j : j # k => (j \in DOMAIN f <=> j \in DOMAIN g),
         \A j \in DOMAIN f : j # k => f[j] = g[j]
  PROVE  Others(c, f, k) = Others(c, g, k)
  <1>1. ASSUME NEW e \in Others(c, f, k) PROVE e \in Others(c, g, k)
    <2>1. e \in Within(c, f) /\ e[1] # k
      BY <1>1 DEF Others
    <2>2. e = <<e[1], e[2]>> /\ e[1] \in DOMAIN f /\ e[2] \in Where(c, f[e[1]])
      BY <2>1, WithinPairs
    <2>3. e[1] \in DOMAIN g /\ e[2] \in Where(c, g[e[1]])
      BY <2>1, <2>2
    <2>4. <<e[1], e[2]>> \in Within(c, g)
      BY <2>3, WithinElements
    <2> QED BY <2>1, <2>2, <2>4 DEF Others
  <1>2. ASSUME NEW e \in Others(c, g, k) PROVE e \in Others(c, f, k)
    <2>1. e \in Within(c, g) /\ e[1] # k
      BY <1>2 DEF Others
    <2>2. e = <<e[1], e[2]>> /\ e[1] \in DOMAIN g /\ e[2] \in Where(c, g[e[1]])
      BY <2>1, WithinPairs
    <2>3. e[1] \in DOMAIN f /\ e[2] \in Where(c, f[e[1]])
      BY <2>1, <2>2
    <2>4. <<e[1], e[2]>> \in Within(c, f)
      BY <2>3, WithinElements
    <2> QED BY <2>1, <2>2, <2>4 DEF Others
  <1> QED BY <1>1, <1>2

\* One multipart_t gets other parts.
LEMMA WithinExcept ==
  ASSUME NEW c, NEW f, Family(f), NEW k \in DOMAIN f, NEW s, IsFiniteSet(DOMAIN s)
  PROVE  /\ Family(With(f, k, s))
         /\ CountWithin(c, With(f, k, s)) = CountWithin(c, f) - Count(c, f[k]) + Count(c, s)
  <1>1. PICK g : g = With(f, k, s)
    OBVIOUS
  <1>2. DOMAIN g = DOMAIN f /\ g[k] = s /\ \A j \in DOMAIN f : j # k => f[j] = g[j]
    BY <1>1, WithType
  <1>3. Family(g)
    <2>1. ASSUME NEW j \in DOMAIN f PROVE IsFiniteSet(DOMAIN g[j])
      BY <1>2, <2>1 DEF Family
    <2> QED BY <1>2, <2>1 DEF Family
  <1>4. Others(c, f, k) = Others(c, g, k)
    BY <1>2, OthersSame
  <1>5. /\ Cardinality(Others(c, f, k)) \in Nat
        /\ CountWithin(c, f) = Cardinality(Others(c, f, k)) + Count(c, f[k])
    BY WithinSplit
  <1>6. CountWithin(c, g) = Cardinality(Others(c, g, k)) + Count(c, g[k])
    BY <1>2, <1>3, WithinSplit
  <1>7. Count(c, f[k]) \in Nat /\ Count(c, s) \in Nat
    <2>1. IsFiniteSet(DOMAIN f[k])
      BY DEF Family
    <2> QED BY <2>1, CountType
  <1>8. CountWithin(c, g) = CountWithin(c, f) - Count(c, f[k]) + Count(c, s)
    BY <1>2, <1>4, <1>5, <1>6, <1>7
  <1> QED BY <1>1, <1>3, <1>8

\* A message is added to the pipe.
LEMMA WithinAppend ==
  ASSUME NEW c, NEW S, NEW w \in Seq(Seq(S)), NEW s \in Seq(S)
  PROVE  CountWithin(c, Append(w, s)) = CountWithin(c, w) + Count(c, s)
  <1>1. PICK n, g : n = Len(w) /\ g = Append(w, s)
    OBVIOUS
  <1>2. n \in Nat /\ DOMAIN w = 1..n /\ w \in [1..n -> Seq(S)]
    BY <1>1, LenProperties
  <1>3. /\ g \in [1..(n + 1) -> Seq(S)] /\ g[n + 1] = s /\ \A j \in 1..n : w[j] = g[j]
        /\ DOMAIN g = 1..(n + 1)
    <2>1. /\ g \in Seq(Seq(S)) /\ Len(g) = n + 1 /\ g[n + 1] = s
          /\ \A j \in 1..n : g[j] = w[j]
      BY <1>1, AppendProperties
    <2> QED BY <2>1, LenProperties
  <1>4. n + 1 \notin DOMAIN w /\ n + 1 \in 1..(n + 1) /\ IsFiniteSet(1..(n + 1))
    BY <1>2, FS_Interval
  <1>5. Others(c, w, n + 1) = Others(c, g, n + 1)
    <2>1. \A j : j # n + 1 => (j \in DOMAIN w <=> j \in DOMAIN g)
      BY <1>2, <1>3
    <2>2. \A j \in DOMAIN w : j # n + 1 => w[j] = g[j]
      BY <1>2, <1>3
    <2> QED BY <2>1, <2>2, OthersSame
  <1>6. Others(c, w, n + 1) = Within(c, w)
    BY <1>4, WithinPairs DEF Others
  <1>7. CountWithin(c, g) = Cardinality(Others(c, g, n + 1)) + Count(c, g[n + 1])
    <2>1. Family(g) /\ n + 1 \in DOMAIN g
      BY <1>3, <1>4, FamilyOfSeqs
    <2> QED BY <2>1, WithinSplit
  <1> QED BY <1>1, <1>3, <1>5, <1>6, <1>7 DEF CountWithin

\* The first message of the pipe is taken.
LEMMA WithinTail ==
  ASSUME NEW c, NEW S, NEW w \in Seq(Seq(S)), w # <<>>
  PROVE  CountWithin(c, w) = CountWithin(c, Tail(w)) + Count(c, Head(w))
  <1>1. PICK n, g : n = Len(w) /\ g = Tail(w)
    OBVIOUS
  <1>2. n \in Nat \ {0} /\ DOMAIN w = 1..n /\ w \in [1..n -> Seq(S)] /\ Head(w) = w[1]
    BY <1>1, LenProperties, EmptySeq
  <1>3. /\ g \in [1..(n - 1) -> Seq(S)] /\ DOMAIN g = 1..(n - 1)
        /\ \A j \in 1..(n - 1) : g[j] = w[j + 1]
    BY <1>1, HeadTailProperties, LenProperties
  <1>4. IsFiniteSet(1..n) /\ IsFiniteSet(1..(n - 1)) /\ 1 \in 1..n
    BY <1>2, FS_Interval
  <1>5. CountWithin(c, w) = Cardinality(Others(c, w, 1)) + Count(c, w[1])
    <2>1. Family(w) /\ 1 \in DOMAIN w
      BY <1>2, <1>4, FamilyOfSeqs
    <2> QED BY <2>1, WithinSplit
  <1>6. Cardinality(Others(c, w, 1)) = Cardinality(Within(c, g))
    <2>1. PICK F : F = [e \in Within(c, g) |-> <<e[1] + 1, e[2]>>]
      OBVIOUS
    <2>2. \A e \in Within(c, g) : /\ e = <<e[1], e[2]>> /\ e[1] \in 1..(n - 1)
                                  /\ e[2] \in Where(c, w[e[1] + 1])
      <3>1. \A e \in Within(c, g) : /\ e = <<e[1], e[2]>> /\ e[1] \in 1..(n - 1)
                                    /\ e[2] \in Where(c, g[e[1]])
        BY <1>3, WithinPairs
      <3> QED BY <1>3, <3>1
    <2>3. F \in [Within(c, g) -> Others(c, w, 1)]
      <3>1. SUFFICES ASSUME NEW e \in Within(c, g) PROVE <<e[1] + 1, e[2]>> \in Others(c, w, 1)
        BY <2>1
      <3>2. e[1] \in 1..(n - 1) /\ e[2] \in Where(c, w[e[1] + 1])
        BY <2>2
      <3>3. e[1] + 1 \in DOMAIN w /\ e[1] + 1 # 1
        BY <1>2, <3>2
      <3>4. <<e[1] + 1, e[2]>> \in Within(c, w)
        BY <3>2, <3>3, WithinElements
      <3> QED BY <3>3, <3>4 DEF Others
    <2>4. \A a, b \in Within(c, g) : F[a] = F[b] => a = b
      <3>1. SUFFICES ASSUME NEW a \in Within(c, g), NEW b \in Within(c, g), F[a] = F[b] PROVE a = b
        OBVIOUS
      <3>2. a[1] \in Int /\ b[1] \in Int /\ a[1] + 1 = b[1] + 1 /\ a[2] = b[2]
        BY <1>2, <2>1, <2>2, <3>1
      <3>3. a[1] = b[1]
        BY <3>2
      <3> QED BY <2>2, <3>2, <3>3
    <2>5. \A t \in Others(c, w, 1) : \E e \in Within(c, g) : F[e] = t
      <3>1. SUFFICES ASSUME NEW t \in Others(c, w, 1) PROVE \E e \in Within(c, g) : F[e] = t
        OBVIOUS
      <3>2. t \in Within(c, w) /\ t[1] # 1
        BY DEF Others
      <3>3. t = <<t[1], t[2]>> /\ t[1] \in 1..n /\ t[2] \in Where(c, w[t[1]])
        BY <1>2, <3>2, WithinPairs
      <3>4. PICK k : k = t[1] - 1
        OBVIOUS
      <3>5. k \in 1..(n - 1) /\ k + 1 = t[1] /\ g[k] = w[t[1]]
        BY <1>2, <1>3, <3>2, <3>3, <3>4
      <3>6. <<k, t[2]>> \in Within(c, g)
        BY <1>3, <3>3, <3>5, WithinElements
      <3>7. F[<<k, t[2]>>] = <<k + 1, t[2]>>
        BY <2>1, <3>6
      <3> QED BY <3>3, <3>5, <3>6, <3>7
    <2>6. IsFiniteSet(Within(c, g))
      <3>1. Family(g)
        BY <1>3, <1>4, FamilyOfSeqs
      <3> QED BY <3>1, WithinType
    <2> QED BY <2>3, <2>4, <2>5, <2>6, SameCount
  <1> QED BY <1>1, <1>2, <1>5, <1>6 DEF CountWithin

\* Two sequences are replaced.
LEMMA WithinExceptTwo ==
  ASSUME NEW c, NEW f, Family(f), NEW k \in DOMAIN f, NEW l \in DOMAIN f, k # l,
         NEW s, IsFiniteSet(DOMAIN s), NEW t, IsFiniteSet(DOMAIN t)
  PROVE  CountWithin(c, With(With(f, k, s), l, t)) =
           (CountWithin(c, f) + Count(c, s) + Count(c, t)) - (Count(c, f[k]) + Count(c, f[l]))
  <1>1. PICK g : g = With(f, k, s)
    OBVIOUS
  <1>2. DOMAIN g = DOMAIN f /\ g[l] = f[l]
    BY <1>1, WithType
  <1>3. Family(g) /\ CountWithin(c, g) = CountWithin(c, f) - Count(c, f[k]) + Count(c, s)
    BY <1>1, WithinExcept
  <1>4. CountWithin(c, With(g, l, t)) = CountWithin(c, g) - Count(c, g[l]) + Count(c, t)
    BY <1>2, <1>3, WithinExcept
  <1>5. CountWithin(c, f) \in Nat
    BY WithinType
  <1>6. /\ Count(c, f[k]) \in Nat /\ Count(c, f[l]) \in Nat
        /\ Count(c, s) \in Nat /\ Count(c, t) \in Nat
    <2>1. IsFiniteSet(DOMAIN f[k]) /\ IsFiniteSet(DOMAIN f[l])
      BY DEF Family
    <2> QED BY <2>1, CountType
  <1>7. CountWithin(c, With(g, l, t)) =
          (CountWithin(c, f) + Count(c, s) + Count(c, t)) - (Count(c, f[k]) + Count(c, f[l]))
    BY <1>2, <1>3, <1>4, <1>5, <1>6
  <1> QED BY <1>1, <1>7

\* Two places get other messages.
LEMMA CountExceptTwo ==
  ASSUME NEW c, NEW f, IsFiniteSet(DOMAIN f), NEW k \in DOMAIN f, NEW l \in DOMAIN f, k # l,
         NEW v, NEW u
  PROVE  Count(c, With(With(f, k, v), l, u)) =
           (Count(c, f) + One(c, v) + One(c, u)) - (One(c, f[k]) + One(c, f[l]))
  <1>1. PICK g : g = With(f, k, v)
    OBVIOUS
  <1>2. DOMAIN g = DOMAIN f /\ g[l] = f[l]
    BY <1>1, WithType
  <1>3. Count(c, g) = Count(c, f) - One(c, f[k]) + One(c, v)
    BY <1>1, CountExcept
  <1>4. Count(c, With(g, l, u)) = Count(c, g) - One(c, g[l]) + One(c, u)
    BY <1>2, CountExcept
  <1>5. Count(c, With(g, l, u)) =
          (Count(c, f) + One(c, v) + One(c, u)) - (One(c, f[k]) + One(c, f[l]))
    <2>1. Count(c, f) \in Nat
      BY CountType
    <2>2. \A h : One(c, h) \in Nat
      BY DEF One
    <2> QED BY <1>2, <1>3, <1>4, <2>1, <2>2
  <1> QED BY <1>1, <1>5

-----------------------------------------------------------------------------
(* The reference counts, action by action.                                 *)

\* All that is added up are natural numbers.
LEMMA Numbers ==
  ASSUME Typed, NEW c
  PROVE  /\ Count(c, msg) \in Nat /\ CountWithin(c, parts) \in Nat /\ Count(c, out) \in Nat
         /\ CountWithin(c, wire) \in Nat /\ Count(c, pending) \in Nat /\ Count(c, inbox) \in Nat
  <1>1. Count(c, msg) \in Nat
    <2>1. IsFiniteSet(DOMAIN msg)
      BY MessageAssumption DEF Typed
    <2> QED BY <2>1, CountType
  <1>2. CountWithin(c, parts) \in Nat
    <2>1. parts \in [Multiparts -> Seq(Handle)] /\ IsFiniteSet(Multiparts)
      BY MultipartAssumption DEF Typed
    <2>2. Family(parts)
      BY <2>1, FamilyOfSeqs
    <2> QED BY <2>2, WithinType
  <1>3. CountWithin(c, wire) \in Nat
    <2>1. Family(wire)
      BY FamilyOfSeqs DEF Typed
    <2> QED BY <2>1, WithinType
  <1>4. Count(c, out) \in Nat /\ Count(c, pending) \in Nat /\ Count(c, inbox) \in Nat
    <2>1. out \in Seq(Handle) /\ pending \in Seq(Handle) /\ inbox \in Seq(Handle)
      BY DEF Typed
    <2> QED BY <2>1, CountSeqType
  <1> QED BY <1>1, <1>2, <1>3, <1>4

\* What libzmq counts for single messages, and the handles that are not counted.
LEMMA Counting ==
  ASSUME NEW c \in Contents
  PROVE  /\ \A h, r : Closed(<<h>>, r)[c] = r[c] - One(c, h)
         /\ \A h, r : Referenced(<<h>>, r)[c] = r[c] + One(c, h)
         /\ \A s, r : Closed(s, r)[c] = r[c] - Count(c, s)
         /\ \A s, r : Referenced(s, r)[c] = r[c] + Count(c, s)
         /\ One(c, None) = 0 /\ One(c, Empty) = 0 /\ One(c, Dead) = 0
         /\ \A h : One(c, h) \in {0, 1}
  <1>1. /\ \A s, r : Closed(s, r)[c] = r[c] - Count(c, s)
        /\ \A s, r : Referenced(s, r)[c] = r[c] + Count(c, s)
    BY DEF Closed, Referenced
  <1>2. \A h : Count(c, <<h>>) = One(c, h)
    BY CountFew
  <1>3. One(c, None) = 0 /\ One(c, Empty) = 0 /\ One(c, Dead) = 0
    BY MessageAssumption DEF One
  <1>4. \A h : One(c, h) \in {0, 1}
    BY DEF One
  <1> QED BY <1>1, <1>2, <1>3, <1>4

\* The references of the variables and the multipart_t objects of the program.
Loose(c) == Count(c, msg) + CountWithin(c, parts)

\* While messages are built, the counts need to follow these only.
LEMMA LooseFrame ==
  ASSUME Typed, CountedOnce, UNCHANGED <<out, wire, pending, inbox>>,
         \A c \in Contents : Loose(c)' \in Int /\ refs'[c] = refs[c] + Loose(c)' - Loose(c)
  PROVE  CountedOnce'
  <1>1. SUFFICES ASSUME NEW c \in Contents PROVE refs'[c] = Holders(c)'
    BY DEF CountedOnce
  <1>2. refs[c] = Holders(c)
    BY DEF CountedOnce
  <1>3. Holders(c)' = Loose(c)' + Count(c, out) + CountWithin(c, wire) + Count(c, pending) + Count(c, inbox)
    BY DEF Holders, Loose
  <1>4. Holders(c) = Loose(c) + Count(c, out) + CountWithin(c, wire) + Count(c, pending) + Count(c, inbox)
    BY DEF Holders, Loose
  <1>5. Loose(c) \in Int
    BY Numbers DEF Loose
  <1>6. Loose(c)' \in Int /\ refs'[c] = refs[c] + Loose(c)' - Loose(c)
    OBVIOUS
  <1>7. /\ Count(c, out) \in Nat /\ CountWithin(c, wire) \in Nat
        /\ Count(c, pending) \in Nat /\ Count(c, inbox) \in Nat
    BY Numbers
  <1> QED BY <1>2, <1>3, <1>4, <1>5, <1>6, <1>7

\* The operations of message_t.
LEMMA MessageCounted ==
  ASSUME Typed, MessageStep, UNCHANGED parts, CountedOnce, NEW c \in Contents
  PROVE  Loose(c)' \in Int /\ refs'[c] = refs[c] + Loose(c)' - Loose(c)
  <1>1. IsFiniteSet(DOMAIN msg) /\ \A x \in Objects : x \in DOMAIN msg
    BY MessageAssumption DEF Typed
  <1>2. /\ Count(c, msg) \in Nat /\ CountWithin(c, parts) \in Nat /\ CountWithin(c, parts') = CountWithin(c, parts)
        /\ refs[c] \in Int
    BY Numbers DEF CountedOnce, Holders
  <1>3. SUFFICES Count(c, msg') \in Int /\ refs'[c] = refs[c] + Count(c, msg') - Count(c, msg)
    BY <1>2 DEF Loose
  <1>4. ASSUME NEW x \in Objects, Construct(x) \/ Destroy(x) \/ Rebuild(x)
        PROVE  Count(c, msg') \in Int /\ refs'[c] = refs[c] + Count(c, msg') - Count(c, msg)
    <2>1. \E h : msg' = With(msg, x, h) /\ refs'[c] = refs[c] - One(c, msg[x]) + One(c, h)
      <3>1. CASE Construct(x)
        <4>1. PICK h : msg' = With(msg, x, h) /\ refs' = Referenced(<<h>>, refs) /\ msg[x] = None
          BY <3>1 DEF Construct, With
        <4>2. refs'[c] = refs[c] + One(c, h) /\ One(c, msg[x]) = 0 /\ One(c, h) \in {0, 1}
          BY <4>1, Counting
        <4> QED BY <1>2, <4>1, <4>2
      <3>2. CASE Destroy(x)
        <4>1. msg' = With(msg, x, None) /\ refs' = Closed(<<msg[x]>>, refs)
          BY <3>2 DEF Destroy, With
        <4>2. refs'[c] = refs[c] - One(c, msg[x]) /\ One(c, None) = 0 /\ One(c, msg[x]) \in {0, 1}
          BY <4>1, Counting
        <4> QED BY <1>2, <4>1, <4>2
      <3>3. CASE Rebuild(x)
        <4>1. PICK h : msg' = With(msg, x, h) /\ refs' = Referenced(<<h>>, Closed(<<msg[x]>>, refs))
          BY <3>3 DEF Rebuild, With
        <4>2. refs'[c] = refs[c] - One(c, msg[x]) + One(c, h)
          BY <4>1, Counting
        <4> QED BY <4>1, <4>2
      <3> QED BY <1>4, <3>1, <3>2, <3>3
    <2>2. PICK h : msg' = With(msg, x, h) /\ refs'[c] = refs[c] - One(c, msg[x]) + One(c, h)
      BY <2>1
    <2>3. Count(c, msg') = Count(c, msg) - One(c, msg[x]) + One(c, h)
      BY <1>1, <2>2, CountExcept
    <2>4. One(c, msg[x]) \in {0, 1} /\ One(c, h) \in {0, 1}
      BY Counting
    <2> QED BY <1>2, <2>2, <2>3, <2>4
  <1>5. ASSUME NEW x \in Objects, NEW y \in Objects,
               MoveConstruct(x, y) \/ Move(x, y) \/ Copy(x, y) \/ Swap(x, y)
        PROVE  Count(c, msg') \in Int /\ refs'[c] = refs[c] + Count(c, msg') - Count(c, msg)
    <2>1. /\ One(c, msg[x]) \in {0, 1} /\ One(c, msg[y]) \in {0, 1} /\ One(c, Empty) = 0
      BY Counting
    <2>2. x # y
      BY <1>5 DEF MoveConstruct, Move, Copy, Swap
    <2>3. CASE MoveConstruct(x, y)
      <3>1. msg' = With(With(msg, x, msg[y]), y, Empty) /\ refs' = refs /\ msg[x] = None
        BY <2>3 DEF MoveConstruct, With
      <3>2. Count(c, msg') = (Count(c, msg) + One(c, msg[y]) + One(c, Empty)) - (One(c, msg[x]) + One(c, msg[y]))
        BY <1>1, <2>2, <3>1, CountExceptTwo
      <3>3. One(c, msg[x]) = 0
        BY <3>1, Counting
      <3> QED BY <1>2, <2>1, <3>1, <3>2, <3>3
    <2>4. CASE Move(x, y)
      <3>1. msg' = With(With(msg, x, msg[y]), y, Empty) /\ refs' = Closed(<<msg[x]>>, refs)
        BY <2>4 DEF Move, With
      <3>2. Count(c, msg') = (Count(c, msg) + One(c, msg[y]) + One(c, Empty)) - (One(c, msg[x]) + One(c, msg[y]))
        BY <1>1, <2>2, <3>1, CountExceptTwo
      <3>3. refs'[c] = refs[c] - One(c, msg[x])
        BY <3>1, Counting
      <3> QED BY <1>2, <2>1, <3>2, <3>3
    <2>5. CASE Copy(x, y)
      <3>1. msg' = With(msg, x, msg[y]) /\ refs' = Referenced(<<msg[y]>>, Closed(<<msg[x]>>, refs))
        BY <2>5 DEF Copy, With
      <3>2. Count(c, msg') = Count(c, msg) - One(c, msg[x]) + One(c, msg[y])
        BY <1>1, <3>1, CountExcept
      <3>3. refs'[c] = refs[c] - One(c, msg[x]) + One(c, msg[y])
        BY <3>1, Counting
      <3> QED BY <1>2, <2>1, <3>2, <3>3
    <2>6. CASE Swap(x, y)
      <3>1. msg' = With(With(msg, x, msg[y]), y, msg[x]) /\ refs' = refs
        BY <2>6 DEF Swap, With
      <3>2. Count(c, msg') = (Count(c, msg) + One(c, msg[y]) + One(c, msg[x])) - (One(c, msg[x]) + One(c, msg[y]))
        BY <1>1, <2>2, <3>1, CountExceptTwo
      <3> QED BY <1>2, <2>1, <3>1, <3>2
    <2> QED BY <1>5, <2>3, <2>4, <2>5, <2>6
  <1> QED BY <1>4, <1>5 DEF MessageStep

\* What the number of references of the multipart_t objects is made of.
LEMMA PartsCount ==
  ASSUME Typed, NEW c, NEW p \in Multiparts
  PROVE  /\ Family(parts) /\ DOMAIN parts = Multiparts /\ parts[p] \in Seq(Handle)
         /\ CountWithin(c, parts) \in Nat /\ Count(c, parts[p]) \in Nat /\ Count(c, msg) \in Nat
         /\ \A s \in Seq(Handle) :
              /\ Count(c, s) \in Nat
              /\ CountWithin(c, With(parts, p, s)) = CountWithin(c, parts) - Count(c, parts[p]) + Count(c, s)
  <1>1. /\ parts \in [Multiparts -> Seq(Handle)] /\ parts[p] \in Seq(Handle)
        /\ DOMAIN parts = Multiparts /\ IsFiniteSet(Multiparts)
    BY MultipartAssumption DEF Typed
  <1>2. Family(parts)
    BY <1>1, FamilyOfSeqs
  <1>3. CountWithin(c, parts) \in Nat /\ Count(c, msg) \in Nat
    BY Numbers
  <1>4. Count(c, parts[p]) \in Nat
    BY <1>1, CountSeqType
  <1>5. ASSUME NEW s \in Seq(Handle)
        PROVE  /\ Count(c, s) \in Nat
               /\ CountWithin(c, With(parts, p, s)) = CountWithin(c, parts) - Count(c, parts[p]) + Count(c, s)
    <2>1. IsFiniteSet(DOMAIN s) /\ Count(c, s) \in Nat
      BY CountSeqType
    <2>2. Family(parts) /\ p \in DOMAIN parts
      BY <1>1, <1>2
    <2> QED BY <2>1, <2>2, WithinExcept
  <1> QED BY <1>1, <1>2, <1>3, <1>4, <1>5

\* The operations on one multipart_t.
LEMMA PartsCounted ==
  ASSUME Typed, CountedOnce, NEW p \in Multiparts, AddMem(p) \/ PopStr(p) \/ Clear(p), NEW c \in Contents
  PROVE  Loose(c)' \in Int /\ refs'[c] = refs[c] + Loose(c)' - Loose(c)
  <1>1. /\ CountWithin(c, parts) \in Nat /\ Count(c, parts[p]) \in Nat /\ Count(c, msg) \in Nat
        /\ parts[p] \in Seq(Handle)
        /\ \A s \in Seq(Handle) :
             /\ Count(c, s) \in Nat
             /\ CountWithin(c, With(parts, p, s)) = CountWithin(c, parts) - Count(c, parts[p]) + Count(c, s)
    BY PartsCount
  <1>2. refs[c] \in Int
    BY Numbers DEF CountedOnce, Holders
  <1>3. msg' = msg
    BY DEF AddMem, PopStr, Clear
  <1>4. \E s \in Seq(Handle) : parts' = With(parts, p, s) /\ refs'[c] = refs[c] - Count(c, parts[p]) + Count(c, s)
    <2>1. CASE AddMem(p)
      <3>1. PICK h \in Fresh : /\ \/ parts' = With(parts, p, Append(parts[p], h))
                                  \/ parts' = With(parts, p, <<h>> \o parts[p])
                               /\ refs' = Referenced(<<h>>, refs)
        BY <2>1 DEF AddMem, With
      <3>2. h \in Handle
        BY DEF Fresh, Handle
      <3>3. Append(parts[p], h) \in Seq(Handle) /\ <<h>> \o parts[p] \in Seq(Handle)
        BY <1>1, <3>2, Ends
      <3>4. /\ Count(c, Append(parts[p], h)) = Count(c, parts[p]) + One(c, h)
            /\ Count(c, <<h>> \o parts[p]) = Count(c, parts[p]) + One(c, h)
        BY <1>1, <3>2, CountAdd
      <3>5. refs'[c] = refs[c] + One(c, h) /\ One(c, h) \in {0, 1}
        BY <3>1, Counting
      <3>6. refs'[c] = refs[c] - Count(c, parts[p]) + (Count(c, parts[p]) + One(c, h))
        BY <1>1, <1>2, <3>5
      <3> QED BY <3>1, <3>3, <3>4, <3>6
    <2>2. CASE PopStr(p)
      <3>1. /\ parts[p] # <<>> /\ parts' = With(parts, p, Tail(parts[p]))
            /\ refs' = Closed(<<Head(parts[p])>>, refs)
        BY <2>2 DEF PopStr, With
      <3>2. Tail(parts[p]) \in Seq(Handle) /\ Count(c, parts[p]) = Count(c, Tail(parts[p])) + One(c, Head(parts[p]))
        BY <1>1, <3>1, Ends, CountTake
      <3>3. refs'[c] = refs[c] - One(c, Head(parts[p])) /\ One(c, Head(parts[p])) \in {0, 1}
        BY <3>1, Counting
      <3>4. Count(c, Tail(parts[p])) \in Nat
        BY <1>1, <3>2
      <3>5. refs'[c] = refs[c] - Count(c, parts[p]) + Count(c, Tail(parts[p]))
        BY <1>1, <1>2, <3>2, <3>3, <3>4
      <3> QED BY <3>1, <3>2, <3>5
    <2>3. CASE Clear(p)
      <3>1. parts' = With(parts, p, <<>>) /\ refs' = Closed(parts[p], refs) /\ <<>> \in Seq(Handle)
        BY <2>3 DEF Clear, With
      <3>2. refs'[c] = refs[c] - Count(c, parts[p]) /\ Count(c, <<>>) = 0
        BY <3>1, Counting, CountFew
      <3>3. refs'[c] = refs[c] - Count(c, parts[p]) + Count(c, <<>>)
        BY <1>1, <1>2, <3>2
      <3> QED BY <3>1, <3>3
    <2> QED BY <2>1, <2>2, <2>3
  <1>5. PICK s \in Seq(Handle) : parts' = With(parts, p, s) /\ refs'[c] = refs[c] - Count(c, parts[p]) + Count(c, s)
    BY <1>4
  <1>6. /\ CountWithin(c, parts') = CountWithin(c, parts) - Count(c, parts[p]) + Count(c, s)
        /\ Count(c, s) \in Nat
    BY <1>1, <1>5
  <1>7. Loose(c)' = Count(c, msg) + CountWithin(c, parts') /\ Loose(c) = Count(c, msg) + CountWithin(c, parts)
    BY <1>3 DEF Loose
  <1> QED BY <1>1, <1>2, <1>5, <1>6, <1>7

\* A part moves between a message_t and a multipart_t.
LEMMA MovesCounted ==
  ASSUME Typed, CountedOnce, NEW p \in Multiparts, NEW x \in Objects, Add(p, x) \/ Pop(p, x), NEW c \in Contents
  PROVE  Loose(c)' \in Int /\ refs'[c] = refs[c] + Loose(c)' - Loose(c)
  <1>1. /\ CountWithin(c, parts) \in Nat /\ Count(c, parts[p]) \in Nat /\ Count(c, msg) \in Nat
        /\ parts[p] \in Seq(Handle)
        /\ \A s \in Seq(Handle) :
             /\ Count(c, s) \in Nat
             /\ CountWithin(c, With(parts, p, s)) = CountWithin(c, parts) - Count(c, parts[p]) + Count(c, s)
    BY PartsCount
  <1>2. refs[c] \in Int /\ One(c, msg[x]) \in {0, 1}
    BY Numbers, Counting DEF CountedOnce, Holders
  <1>3. \A h : Count(c, With(msg, x, h)) = Count(c, msg) - One(c, msg[x]) + One(c, h)
    <2>1. IsFiniteSet(DOMAIN msg) /\ x \in DOMAIN msg
      BY MessageAssumption DEF Typed
    <2> QED BY <2>1, CountExcept
  <1>4. Loose(c)' = Count(c, msg') + CountWithin(c, parts') /\ Loose(c) = Count(c, msg) + CountWithin(c, parts)
    BY DEF Loose
  <1>5. CASE Add(p, x)
    <2>1. /\ msg' = With(msg, x, Empty) /\ refs' = refs /\ msg[x] \in Handle
          /\ \/ parts' = With(parts, p, Append(parts[p], msg[x]))
             \/ parts' = With(parts, p, <<msg[x]>> \o parts[p])
      BY <1>5 DEF Add, With, Typed
    <2>2. Append(parts[p], msg[x]) \in Seq(Handle) /\ <<msg[x]>> \o parts[p] \in Seq(Handle)
      BY <1>1, <2>1, Ends
    <2>3. /\ Count(c, Append(parts[p], msg[x])) = Count(c, parts[p]) + One(c, msg[x])
          /\ Count(c, <<msg[x]>> \o parts[p]) = Count(c, parts[p]) + One(c, msg[x])
      BY <1>1, <2>1, CountAdd
    <2>4. CountWithin(c, parts') = CountWithin(c, parts) - Count(c, parts[p]) + (Count(c, parts[p]) + One(c, msg[x]))
      BY <1>1, <2>1, <2>2, <2>3
    <2>5. Count(c, msg') = Count(c, msg) - One(c, msg[x]) + One(c, Empty) /\ One(c, Empty) = 0
      BY <1>3, <2>1, Counting
    <2> QED BY <1>1, <1>2, <1>4, <2>1, <2>4, <2>5
  <1>6. CASE Pop(p, x)
    <2>1. /\ parts[p] # <<>> /\ refs' = Closed(<<msg[x]>>, refs)
          /\ \/ msg' = With(msg, x, Head(parts[p])) /\ parts' = With(parts, p, Tail(parts[p]))
             \/ msg' = With(msg, x, Last(parts[p])) /\ parts' = With(parts, p, Front(parts[p]))
      BY <1>6 DEF Pop, With
    <2>2. /\ Tail(parts[p]) \in Seq(Handle) /\ Front(parts[p]) \in Seq(Handle)
          /\ Count(c, parts[p]) = Count(c, Tail(parts[p])) + One(c, Head(parts[p]))
          /\ Count(c, parts[p]) = Count(c, Front(parts[p])) + One(c, Last(parts[p]))
      BY <1>1, <2>1, Ends, CountTake
    <2>3. \E h, s : /\ msg' = With(msg, x, h) /\ parts' = With(parts, p, s) /\ s \in Seq(Handle)
                    /\ Count(c, parts[p]) = Count(c, s) + One(c, h)
      BY <2>1, <2>2
    <2>4. PICK h, s : /\ msg' = With(msg, x, h) /\ parts' = With(parts, p, s) /\ s \in Seq(Handle)
                      /\ Count(c, parts[p]) = Count(c, s) + One(c, h)
      BY <2>3
    <2>5. Count(c, msg') = Count(c, msg) - One(c, msg[x]) + One(c, h) /\ One(c, h) \in {0, 1}
      BY <1>3, <2>4, Counting
    <2>6. CountWithin(c, parts') = CountWithin(c, parts) - Count(c, parts[p]) + Count(c, s) /\ Count(c, s) \in Nat
      BY <1>1, <2>4
    <2>7. refs'[c] = refs[c] - One(c, msg[x])
      BY <2>1, Counting
    <2>8. /\ Count(c, parts[p]) = Count(c, s) + One(c, h) /\ Count(c, parts[p]) \in Nat
          /\ CountWithin(c, parts) \in Nat /\ Count(c, msg) \in Nat
      BY <1>1, <2>4
    <2> QED BY <1>2, <1>4, <2>5, <2>6, <2>7, <2>8
  <1> QED BY <1>5, <1>6

\* The operations on two multipart_t.
LEMMA TwoPartsCounted ==
  ASSUME Typed, CountedOnce, NEW p \in Multiparts, NEW q \in Multiparts,
         Join(p, q) \/ MoveAssign(p, q) \/ Clone(p, q), NEW c \in Contents
  PROVE  Loose(c)' \in Int /\ refs'[c] = refs[c] + Loose(c)' - Loose(c)
  <1>1. /\ CountWithin(c, parts) \in Nat /\ Count(c, parts[p]) \in Nat /\ Count(c, msg) \in Nat
        /\ Count(c, parts[q]) \in Nat /\ Family(parts) /\ p \in DOMAIN parts /\ q \in DOMAIN parts
        /\ parts[p] \in Seq(Handle) /\ parts[q] \in Seq(Handle)
    BY PartsCount
  <1>2. refs[c] \in Int
    BY Numbers DEF CountedOnce, Holders
  <1>3. Loose(c)' = Count(c, msg) + CountWithin(c, parts') /\ Loose(c) = Count(c, msg) + CountWithin(c, parts)
    BY DEF Loose, Join, MoveAssign, Clone
  <1>4. p # q
    BY DEF Join, MoveAssign, Clone
  <1>5. \A s \in Seq(Handle) :
          CountWithin(c, With(With(parts, p, s), q, <<>>)) =
            (CountWithin(c, parts) + Count(c, s) + 0) - (Count(c, parts[p]) + Count(c, parts[q]))
    <2>1. SUFFICES ASSUME NEW s \in Seq(Handle)
                   PROVE  CountWithin(c, With(With(parts, p, s), q, <<>>)) =
                            (CountWithin(c, parts) + Count(c, s) + 0) - (Count(c, parts[p]) + Count(c, parts[q]))
      OBVIOUS
    <2>2. IsFiniteSet(DOMAIN s) /\ IsFiniteSet(DOMAIN <<>>) /\ Count(c, <<>>) = 0
      <3>1. <<>> \in Seq(Handle)
        OBVIOUS
      <3> QED BY <3>1, CountSeqType, CountFew
    <2>3. CountWithin(c, With(With(parts, p, s), q, <<>>)) =
            (CountWithin(c, parts) + Count(c, s) + Count(c, <<>>)) - (Count(c, parts[p]) + Count(c, parts[q]))
      BY <1>1, <1>4, <2>2, WithinExceptTwo
    <2> QED BY <2>2, <2>3
  <1>6. CASE Join(p, q)
    <2>1. /\ refs' = refs
          /\ \/ parts' = With(With(parts, p, parts[p] \o parts[q]), q, <<>>)
             \/ parts' = With(With(parts, p, parts[q] \o parts[p]), q, <<>>)
      BY <1>6 DEF Join, With
    <2>2. parts[p] \o parts[q] \in Seq(Handle) /\ parts[q] \o parts[p] \in Seq(Handle)
      BY <1>1, ConcatProperties
    <2>3. /\ Count(c, parts[p] \o parts[q]) = Count(c, parts[p]) + Count(c, parts[q])
          /\ Count(c, parts[q] \o parts[p]) = Count(c, parts[q]) + Count(c, parts[p])
      BY <1>1, CountConcat
    <2>4. PICK s \in Seq(Handle) : /\ parts' = With(With(parts, p, s), q, <<>>)
                                   /\ Count(c, s) = Count(c, parts[p]) + Count(c, parts[q])
      <3>1. Count(c, parts[q]) + Count(c, parts[p]) = Count(c, parts[p]) + Count(c, parts[q])
        BY <1>1
      <3>2. CASE parts' = With(With(parts, p, parts[p] \o parts[q]), q, <<>>)
        BY <2>2, <2>3, <3>2
      <3>3. CASE parts' = With(With(parts, p, parts[q] \o parts[p]), q, <<>>)
        BY <2>2, <2>3, <3>1, <3>3
      <3> QED BY <2>1, <3>2, <3>3
    <2>5. CountWithin(c, parts') =
            (CountWithin(c, parts) + Count(c, s) + 0) - (Count(c, parts[p]) + Count(c, parts[q]))
      BY <1>5, <2>4
    <2>6. /\ Count(c, s) = Count(c, parts[p]) + Count(c, parts[q]) /\ refs'[c] = refs[c]
          /\ CountWithin(c, parts) \in Nat /\ Count(c, parts[p]) \in Nat
          /\ Count(c, parts[q]) \in Nat /\ Count(c, msg) \in Nat
      BY <1>1, <2>1, <2>4
    <2> QED BY <1>2, <1>3, <2>5, <2>6
  <1>7. CASE MoveAssign(p, q)
    <2>1. refs' = Closed(parts[p], refs) /\ parts' = With(With(parts, p, parts[q]), q, <<>>)
      BY <1>7 DEF MoveAssign, With
    <2>2. CountWithin(c, parts') =
            (CountWithin(c, parts) + Count(c, parts[q]) + 0) - (Count(c, parts[p]) + Count(c, parts[q]))
      BY <1>1, <1>5, <2>1
    <2>3. refs'[c] = refs[c] - Count(c, parts[p])
      BY <2>1, Counting
    <2> QED BY <1>1, <1>2, <1>3, <2>2, <2>3
  <1>8. CASE Clone(p, q)
    <2>1. PICK new \in [DOMAIN parts[q] -> Fresh \cup {Empty}] :
            refs' = Referenced(new, Closed(parts[p], refs)) /\ parts' = With(parts, p, new)
      BY <1>8 DEF Clone, With
    <2>2. IsFiniteSet(DOMAIN new) /\ Count(c, new) \in Nat
      <3>1. IsFiniteSet(DOMAIN new)
        BY <1>1, <2>1, CountSeqType
      <3> QED BY <3>1, CountType
    <2>3. CountWithin(c, parts') = CountWithin(c, parts) - Count(c, parts[p]) + Count(c, new)
      BY <1>1, <2>1, <2>2, WithinExcept
    <2>4. refs'[c] = refs[c] - Count(c, parts[p]) + Count(c, new)
      BY <2>1, Counting
    <2> QED BY <1>1, <1>2, <1>3, <2>2, <2>3, <2>4
  <1> QED BY <1>6, <1>7, <1>8

\* Building a message keeps the counts right.
LEMMA BuildCounted ==
  ASSUME IInv, CountedOnce, Build
  PROVE  CountedOnce'
  <1>1. Typed /\ UNCHANGED <<out, wire, pending, inbox>>
    BY DEF IInv, Build, sending, receiving
  <1>2. ASSUME NEW c \in Contents
        PROVE  Loose(c)' \in Int /\ refs'[c] = refs[c] + Loose(c)' - Loose(c)
    <2>1. CASE MessageStep /\ UNCHANGED parts
      BY <1>1, <2>1, MessageCounted
    <2>2. CASE \E p \in Multiparts : AddMem(p) \/ PopStr(p) \/ Clear(p)
      BY <1>1, <2>2, PartsCounted
    <2>3. CASE \E p \in Multiparts, x \in Objects : Add(p, x) \/ Pop(p, x)
      BY <1>1, <2>3, MovesCounted
    <2>4. CASE \E p, q \in Multiparts : Join(p, q) \/ MoveAssign(p, q) \/ Clone(p, q)
      BY <1>1, <2>4, TwoPartsCounted
    <2> QED BY <2>1, <2>2, <2>3, <2>4 DEF Build
  <1> QED BY <1>1, <1>2, LooseFrame

\* A part that is sent is in the open message or the pipe.
LEMMA WriteCounted ==
  ASSUME Typed, NEW h \in Handle, NEW more, Write(h, more), NEW c
  PROVE  /\ Count(c, out') \in Nat /\ CountWithin(c, wire') \in Nat
         /\ Count(c, out') + CountWithin(c, wire') = Count(c, out) + CountWithin(c, wire) + One(c, h)
  <1>1. /\ out \in Seq(Handle) /\ wire \in Seq(Seq(Handle))
        /\ Count(c, out) \in Nat /\ CountWithin(c, wire) \in Nat /\ One(c, h) \in {0, 1}
    BY Numbers DEF Typed, One
  <1>2. Append(out, h) \in Seq(Handle) /\ Count(c, Append(out, h)) = Count(c, out) + One(c, h)
    BY <1>1, Ends, CountAdd
  <1>3. CASE more
    <2>1. out' = Append(out, h) /\ wire' = wire
      BY <1>3 DEF Write
    <2>2. Count(c, out') = Count(c, out) + One(c, h) /\ CountWithin(c, wire') = CountWithin(c, wire)
      BY <1>2, <2>1
    <2>3. Count(c, out) \in Nat /\ CountWithin(c, wire) \in Nat /\ One(c, h) \in {0, 1}
      BY <1>1
    <2> QED BY <2>2, <2>3
  <1>4. CASE ~more
    <2>1. out' = <<>> /\ wire' = Append(wire, Append(out, h))
      BY <1>4 DEF Write
    <2>2. CountWithin(c, wire') = CountWithin(c, wire) + Count(c, Append(out, h))
      BY <1>1, <1>2, <2>1, WithinAppend
    <2>3. Count(c, out') = 0
      BY <2>1, CountFew
    <2>4. Count(c, Append(out, h)) = Count(c, out) + One(c, h)
      BY <1>2
    <2> QED BY <1>1, <2>2, <2>3, <2>4
  <1> QED BY <1>3, <1>4

\* One iteration of multipart_t::send: the part goes to the pipe, or is destroyed.
LEMMA SendPopCounted ==
  ASSUME IInv, CountedOnce, SendPop
  PROVE  CountedOnce'
  <1>1. SUFFICES ASSUME NEW c \in Contents PROVE refs'[c] = Holders(c)'
    BY DEF CountedOnce
  <1>2. PICK s : s = parts[snd.p]
    OBVIOUS
  <1>3. snd \in Calls /\ Rest = s /\ snd.at = "send"
    BY <1>2, InCall DEF SendPop, Rest
  <1>4. s \in Seq(Handle) /\ s # <<>> /\ snd.p \in Multiparts
    BY <1>3, Sending
  <1>5. Head(s) \in Handle /\ Tail(s) \in Seq(Handle) /\ Count(c, s) = Count(c, Tail(s)) + One(c, Head(s))
    BY <1>4, Ends, CountTake
  <1>6. /\ CountWithin(c, parts) \in Nat /\ Count(c, s) \in Nat /\ Count(c, msg) \in Nat
        /\ Count(c, out) \in Nat /\ CountWithin(c, wire) \in Nat
        /\ Count(c, pending) \in Nat /\ Count(c, inbox) \in Nat
    BY <1>4, Numbers, CountSeqType DEF IInv
  <1>7. CountWithin(c, parts') = CountWithin(c, parts) - Count(c, s) + Count(c, Tail(s)) /\ Count(c, Tail(s)) \in Nat
    <2>1. parts' = With(parts, snd.p, Tail(s))
      BY <1>2 DEF SendPop, With
    <2>2. Typed
      BY DEF IInv
    <2> QED BY <1>2, <1>4, <1>5, <2>1, <2>2, PartsCount
  <1>8. One(c, Head(s)) \in {0, 1}
    BY Counting
  <1>9. msg' = msg /\ pending' = pending /\ inbox' = inbox
    BY DEF SendPop, receiving
  <1>10. /\ refs[c] = Count(c, msg) + CountWithin(c, parts) + Count(c, out)
                        + CountWithin(c, wire) + Count(c, pending) + Count(c, inbox)
         /\ Holders(c)' = Count(c, msg) + CountWithin(c, parts') + Count(c, out')
                        + CountWithin(c, wire') + Count(c, pending) + Count(c, inbox)
    BY <1>9 DEF CountedOnce, Holders
  <1>11. CASE \E more : Write(Head(s), more) /\ UNCHANGED refs
    <2>1. PICK more : Write(Head(s), more) /\ refs' = refs
      BY <1>11
    <2>2. /\ Count(c, out') \in Nat /\ CountWithin(c, wire') \in Nat
          /\ Count(c, out') + CountWithin(c, wire') = Count(c, out) + CountWithin(c, wire) + One(c, Head(s))
      BY <1>5, <2>1, WriteCounted DEF IInv
    <2>3. refs'[c] = refs[c]
      BY <2>1
    <2>4. Count(c, s) = Count(c, Tail(s)) + One(c, Head(s))
      BY <1>5
    <2> QED BY <1>6, <1>7, <1>8, <1>10, <2>2, <2>3, <2>4
  <1>12. CASE NotSent(Head(s)) /\ refs' = Closed(<<Head(s)>>, refs)
    <2>1. out' = out /\ wire' = wire
      BY <1>12 DEF NotSent
    <2>2. refs'[c] = refs[c] - One(c, Head(s))
      BY <1>12, Counting
    <2>3. Count(c, s) = Count(c, Tail(s)) + One(c, Head(s))
      BY <1>5
    <2>4. Holders(c)' = Count(c, msg) + CountWithin(c, parts') + Count(c, out)
                        + CountWithin(c, wire) + Count(c, pending) + Count(c, inbox)
      BY <1>10, <2>1
    <2> QED BY <1>6, <1>7, <1>8, <1>10, <2>2, <2>3, <2>4
  <1> QED BY <1>2, <1>11, <1>12 DEF SendPop

\* One iteration of send_multipart: libzmq empties the part that it takes.
LEMMA SendNextCounted ==
  ASSUME IInv, CountedOnce, SendNext
  PROVE  CountedOnce'
  <1>1. SUFFICES ASSUME NEW c \in Contents PROVE refs'[c] = Holders(c)'
    BY DEF CountedOnce
  <1>2. PICK s, k : s = parts[snd.p] /\ k = snd.it
    OBVIOUS
  <1>3. snd \in Calls /\ snd.at = "send_multipart"
    BY InCall DEF SendNext
  <1>4. s \in Seq(Handle) /\ k \in 1..Len(s) /\ snd.p \in Multiparts
    BY <1>2, <1>3, Sending
  <1>5. DOMAIN s = 1..Len(s) /\ s[k] \in Handle /\ IsFiniteSet(DOMAIN s)
    <2>1. DOMAIN s = 1..Len(s) /\ s[k] \in Handle
      BY <1>4, LenProperties, ElementOfSeq
    <2>2. IsFiniteSet(DOMAIN s)
      BY <1>4, CountSeqType
    <2> QED BY <2>1, <2>2
  <1>6. PICK t : t = With(s, k, Empty)
    OBVIOUS
  <1>7. DOMAIN t = DOMAIN s /\ Count(c, t) = Count(c, s) - One(c, s[k]) + One(c, Empty)
    BY <1>4, <1>5, <1>6, WithType, CountExcept
  <1>8. /\ CountWithin(c, parts) \in Nat /\ Count(c, s) \in Nat /\ Count(c, msg) \in Nat
        /\ Count(c, out) \in Nat /\ CountWithin(c, wire) \in Nat
        /\ Count(c, pending) \in Nat /\ Count(c, inbox) \in Nat
    BY <1>4, Numbers, CountSeqType DEF IInv
  <1>9. One(c, s[k]) \in {0, 1} /\ One(c, Empty) = 0
    BY Counting
  <1>10. msg' = msg /\ refs' = refs /\ pending' = pending /\ inbox' = inbox
    BY DEF SendNext, receiving
  <1>11. /\ refs'[c] = Count(c, msg) + CountWithin(c, parts) + Count(c, out)
                        + CountWithin(c, wire) + Count(c, pending) + Count(c, inbox)
         /\ Holders(c)' = Count(c, msg) + CountWithin(c, parts') + Count(c, out')
                        + CountWithin(c, wire') + Count(c, pending) + Count(c, inbox)
    BY <1>10 DEF CountedOnce, Holders
  <1>12. CASE \E more : Write(s[k], more) /\ parts' = With(parts, snd.p, t)
    <2>1. PICK more : Write(s[k], more) /\ parts' = With(parts, snd.p, t)
      BY <1>12
    <2>2. /\ Count(c, out') \in Nat /\ CountWithin(c, wire') \in Nat
          /\ Count(c, out') + CountWithin(c, wire') = Count(c, out) + CountWithin(c, wire) + One(c, s[k])
      BY <1>5, <2>1, WriteCounted DEF IInv
    <2>3. CountWithin(c, parts') = CountWithin(c, parts) - Count(c, s) + Count(c, t)
      <3>1. Family(parts) /\ snd.p \in DOMAIN parts
        <4>1. Typed
          BY DEF IInv
        <4> QED BY <1>4, <4>1, PartsCount
      <3>2. IsFiniteSet(DOMAIN t)
        BY <1>5, <1>7
      <3> QED BY <1>2, <2>1, <3>1, <3>2, WithinExcept
    <2>4. Count(c, t) = Count(c, s) - One(c, s[k]) + One(c, Empty)
      BY <1>7
    <2> QED BY <1>8, <1>9, <1>11, <2>2, <2>3, <2>4
  <1>13. CASE NotSent(s[k]) /\ UNCHANGED parts
    <2>1. out' = out /\ wire' = wire /\ parts' = parts
      BY <1>13 DEF NotSent
    <2> QED BY <1>11, <2>1
  <1>14. \/ \E more : Write(s[k], more) /\ parts' = With(parts, snd.p, t)
         \/ NotSent(s[k]) /\ UNCHANGED parts
    BY <1>2, <1>6 DEF SendNext, With
  <1> QED BY <1>12, <1>13, <1>14

\* recv releases what an earlier call got.
LEMMA RecvBeginCounted ==
  ASSUME IInv, CountedOnce, NEW n, RecvBegin(n)
  PROVE  CountedOnce'
  <1>1. SUFFICES ASSUME NEW c \in Contents PROVE refs'[c] = Holders(c)'
    BY DEF CountedOnce
  <1>2. inbox' = <<>> /\ refs' = Closed(inbox, refs) /\ UNCHANGED <<msg, parts, out, wire, pending>>
    BY DEF RecvBegin, sending
  <1>3. Count(c, <<>>) = 0 /\ refs'[c] = refs[c] - Count(c, inbox)
    BY <1>2, CountFew, Counting
  <1>4. /\ refs[c] = Count(c, msg) + CountWithin(c, parts) + Count(c, out)
                        + CountWithin(c, wire) + Count(c, pending) + Count(c, inbox)
        /\ Holders(c)' = Count(c, msg) + CountWithin(c, parts) + Count(c, out)
                        + CountWithin(c, wire) + Count(c, pending) + Count(c, <<>>)
    BY <1>2 DEF CountedOnce, Holders
  <1>5. /\ CountWithin(c, parts) \in Nat /\ Count(c, msg) \in Nat
        /\ Count(c, out) \in Nat /\ CountWithin(c, wire) \in Nat
        /\ Count(c, pending) \in Nat /\ Count(c, inbox) \in Nat
    BY Numbers DEF IInv
  <1> QED BY <1>3, <1>4, <1>5

\* A part moves from the pipe to the receiver.
LEMMA RecvPartCounted ==
  ASSUME IInv, CountedOnce, RecvPart
  PROVE  CountedOnce'
  <1>1. SUFFICES ASSUME NEW c \in Contents PROVE refs'[c] = Holders(c)'
    BY DEF CountedOnce
  <1>2. /\ inbox \in Seq(Handle) /\ pending \in Seq(Handle) /\ wire \in Seq(Seq(Handle))
        /\ \A i \in DOMAIN wire : wire[i] # <<>>
    BY DEF IInv, Typed, MessagesMeant
  <1>3. UNCHANGED <<msg, refs, parts, out>>
    BY DEF RecvPart
  <1>4. /\ refs'[c] = Count(c, msg) + CountWithin(c, parts) + Count(c, out)
                        + CountWithin(c, wire) + Count(c, pending) + Count(c, inbox)
        /\ Holders(c)' = Count(c, msg) + CountWithin(c, parts) + Count(c, out)
                        + CountWithin(c, wire') + Count(c, pending') + Count(c, inbox')
    BY <1>3 DEF CountedOnce, Holders
  <1>5. /\ CountWithin(c, parts) \in Nat /\ Count(c, msg) \in Nat
        /\ Count(c, out) \in Nat /\ CountWithin(c, wire) \in Nat
        /\ Count(c, pending) \in Nat /\ Count(c, inbox) \in Nat
    BY Numbers DEF IInv
  <1>6. CASE pending # <<>> /\ inbox' = Append(inbox, Head(pending)) /\ pending' = Tail(pending) /\ wire' = wire
    <2>1. Head(pending) \in Handle /\ Tail(pending) \in Seq(Handle)
      BY <1>2, <1>6, Ends
    <2>2. Count(c, inbox') = Count(c, inbox) + One(c, Head(pending))
      BY <1>2, <1>6, <2>1, CountAdd
    <2>3. Count(c, pending) = Count(c, pending') + One(c, Head(pending)) /\ Count(c, pending') \in Nat
      BY <1>2, <1>6, <2>1, CountTake, CountSeqType
    <2>4. CountWithin(c, wire') = CountWithin(c, wire) /\ One(c, Head(pending)) \in {0, 1}
      BY <1>6, Counting
    <2> QED BY <1>4, <1>5, <2>2, <2>3, <2>4
  <1>7. CASE /\ pending = <<>> /\ wire # <<>> /\ wire' = Tail(wire)
             /\ inbox' = Append(inbox, Head(Head(wire))) /\ pending' = Tail(Head(wire))
    <2>1. PICK x : x = Head(wire)
      OBVIOUS
    <2>2. x \in Seq(Handle) /\ x # <<>>
      BY <1>2, <1>7, <2>1
    <2>3. Head(x) \in Handle /\ Tail(x) \in Seq(Handle) /\ Count(c, x) = Count(c, Tail(x)) + One(c, Head(x))
      BY <2>2, Ends, CountTake
    <2>4. Count(c, inbox') = Count(c, inbox) + One(c, Head(x)) /\ One(c, Head(x)) \in {0, 1}
      <3>1. inbox' = Append(inbox, Head(x)) /\ inbox \in Seq(Handle) /\ Head(x) \in Handle
        BY <1>2, <1>7, <2>1, <2>3
      <3>2. Count(c, Append(inbox, Head(x))) = Count(c, inbox) + One(c, Head(x))
        BY <3>1, CountAdd
      <3> QED BY <3>1, <3>2, Counting
    <2>5. CountWithin(c, wire) = CountWithin(c, wire') + Count(c, x)
      BY <1>2, <1>7, <2>1, WithinTail
    <2>6. Count(c, pending) = 0 /\ Count(c, pending') = Count(c, Tail(x)) /\ Count(c, Tail(x)) \in Nat
      BY <1>7, <2>1, <2>3, CountFew, CountSeqType
    <2>7. CountWithin(c, wire') \in Nat
      <3>1. wire' \in Seq(Seq(Handle))
        BY <1>2, <1>7
      <3>2. Family(wire')
        BY <3>1, FamilyOfSeqs
      <3> QED BY <3>2, WithinType
    <2>8. Count(c, x) = Count(c, Tail(x)) + One(c, Head(x))
      BY <2>3
    <2> QED BY <1>4, <1>5, <2>4, <2>5, <2>6, <2>7, <2>8
  <1> QED BY <1>6, <1>7 DEF RecvPart

\* The counts change with messages only.
LEMMA CountedFrame ==
  ASSUME CountedOnce, UNCHANGED <<msg, refs, parts, out, wire, pending, inbox>>
  PROVE  CountedOnce'
  BY DEF CountedOnce, Holders

\* Every step of either thread keeps the counts right.
LEMMA NextCounted == IInv /\ CountedOnce /\ [Next]_vars => CountedOnce'
  <1> SUFFICES ASSUME IInv, CountedOnce, [Next]_vars PROVE CountedOnce'
    OBVIOUS
  <1>1. CASE UNCHANGED vars
    BY <1>1, CountedFrame DEF vars, threads
  <1>2. CASE TooMany \/ RecvFails
    BY <1>2, CountedFrame DEF TooMany, RecvFails, sending
  <1>3. ASSUME NEW p \in Multiparts, NEW at, NEW more, SendBegin(p, at, more) PROVE CountedOnce'
    BY <1>3, CountedFrame DEF SendBegin, receiving
  <1> QED BY <1>1, <1>2, <1>3, BuildCounted, SendPopCounted, SendNextCounted, RecvBeginCounted,
             RecvPartCounted DEF Next

\* Nothing refers to a content at first.
LEMMA InitCounted == Init => CountedOnce
  <1> SUFFICES ASSUME Init, NEW c \in Contents PROVE refs[c] = Holders(c)
    BY DEF CountedOnce
  <1>1. /\ msg = [x \in Objects |-> None] /\ refs[c] = 0 /\ parts = [p \in Multiparts |-> <<>>]
        /\ out = <<>> /\ wire = <<>> /\ pending = <<>> /\ inbox = <<>>
    BY DEF Init
  <1>2. Count(c, msg) = 0
    <2>1. {i \in DOMAIN msg : msg[i] = c} = {}
      BY <1>1, MessageAssumption
    <2> QED BY <2>1, FS_EmptySet DEF Count
  <1>3. CountWithin(c, parts) = 0 /\ CountWithin(c, wire) = 0
    <2>1. ASSUME NEW e, e \in Within(c, parts) \/ e \in Within(c, wire) PROVE FALSE
      <3>1. \A k \in Multiparts : Where(c, parts[k]) = {}
        BY <1>1 DEF Where
      <3>2. DOMAIN parts = Multiparts /\ DOMAIN wire = {}
        BY <1>1
      <3> QED BY <2>1, <3>1, <3>2, WithinPairs
    <2>2. Within(c, parts) = {} /\ Within(c, wire) = {}
      BY <2>1
    <2> QED BY <2>2, FS_EmptySet DEF CountWithin
  <1>4. Count(c, <<>>) = 0
    BY CountFew
  <1> QED BY <1>1, <1>2, <1>3, <1>4 DEF Holders

\* libzmq's count of a content is the number of messages that refer to it,
\* through every move, swap, copy, send and receive: no content is freed while it
\* is in use, and none is leaked.
THEOREM ReferencesCounted == Spec => []CountedOnce
  BY InitCounted, NextCounted, Invariance, PTL DEF Spec
=============================================================================
