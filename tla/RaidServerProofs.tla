-------------------------- MODULE RaidServerProofs --------------------------
(***************************************************************************)
(* Proofs about the server and its clients, for any set of clients, any    *)
(* texts and any number of requests, crashes and broken connections.       *)
(*                                                                         *)
(* That a reply answers its request needs to know where the one            *)
(* outstanding request of a client is: in its socket, with the server, on  *)
(* the way back, or lost. IInv says so for every place, and what the       *)
(* server may be doing meanwhile.                                          *)
(***************************************************************************)
EXTENDS RaidServer, SequenceTheorems, TLAPS

\* A queue is empty if its length is 0.
LEMMA QueueEmpty ==
  ASSUME NEW S, NEW q \in Seq(S)
  PROVE  Len(q) \in Nat /\ (Len(q) = 0 <=> q = <<>>)
  OBVIOUS

\* A queue of one message.
LEMMA ShortQueue ==
  ASSUME NEW S, NEW q \in Seq(S), Len(q) = 1
  PROVE  /\ Head(q) \in S /\ Head(q) = q[1] /\ 1 \in DOMAIN q
         /\ Tail(q) = <<>> /\ Tail(q) \in Seq(S)
  <1>1. Head(q) \in S /\ Head(q) = q[1] /\ 1 \in DOMAIN q
    OBVIOUS
  <1>2. Tail(q) \in Seq(S) /\ Len(Tail(q)) = 0
    OBVIOUS
  <1>3. Tail(q) = <<>>
    BY <1>2, QueueEmpty
  <1> QED BY <1>1, <1>2, <1>3

\* A message put into an empty queue.
LEMMA QueueOfOne ==
  ASSUME NEW S, NEW m \in S
  PROVE  /\ Append(<<>>, m) = <<m>> /\ <<m>> \in Seq(S) /\ Len(<<m>>) = 1 /\ <<m>> # <<>>
         /\ DOMAIN <<m>> = {1} /\ <<m>>[1] = m
  OBVIOUS

\* What the invariant says of a client stays true if nothing of it changes.
LEMMA ClientFrame ==
  ASSUME NEW c, ClientInv(c),
         UNCHANGED <<inbox[c], outbox[c], Working(c), replies[c], arrived[c],
                     client[c], num[c], req[c], sock[c], got[c], executed[c]>>,
         breaks' = 0 => breaks = 0, crashes' = 0 => crashes = 0
  PROVE  ClientInv(c)'
  <1>1. InSystem(c)' = InSystem(c)
    BY DEF InSystem
  <1> QED
    BY <1>1 DEF ClientInv, ClientPlaces, OneMessage, RequestIsLast, ExecutedOnce,
                RepliesMatch, NothingLost, Limit

\* The start of all programs establishes the invariant.
LEMMA InitIInv == Init => IInv
  <1> SUFFICES ASSUME Init PROVE IInv
    OBVIOUS
  <1>1. TypeOK
    BY ServerAssumption DEF Init, TypeOK, Limit
  <1>2. ServerPlaces
    BY DEF Init, ServerPlaces
  <1>3. ASSUME NEW c \in Clients PROVE ClientInv(c)
    <2>1. Working(c) = <<>> /\ InSystem(c) = 0
      BY DEF Init, Working, InSystem
    <2> QED
      BY <2>1, ServerAssumption
         DEF Init, ClientInv, ClientPlaces, OneMessage, RequestIsLast, ExecutedOnce,
             RepliesMatch, NothingLost, Limit
  <1> QED BY <1>1, <1>2, <1>3 DEF IInv

-----------------------------------------------------------------------------
\* The request the server works on is that of one client.
LEMMA WorkingType ==
  ASSUME TypeOK, NEW c \in Clients
  PROVE  /\ Working(c) \in Seq(RequestType)
         /\ cur # NoRequest /\ cur.from = c => /\ Working(c) = <<cur.request>>
                                              /\ Len(Working(c)) = 1
         /\ cur = NoRequest \/ cur.from # c => Working(c) = <<>>
  BY DEF TypeOK, Working

\* If one of the five places holds a message of a client, the other four hold none.
LEMMA Alone ==
  ASSUME TypeOK, NEW c \in Clients, OneMessage(c)
  PROVE  /\ outbox[c] # <<>> =>
              /\ Len(outbox[c]) = 1 /\ inbox[c] = <<>> /\ Working(c) = <<>>
              /\ replies[c] = <<>> /\ arrived[c] = <<>> /\ req[c] = "recv" /\ InSystem(c) = 1
         /\ inbox[c] # <<>> =>
              /\ Len(inbox[c]) = 1 /\ outbox[c] = <<>> /\ Working(c) = <<>>
              /\ replies[c] = <<>> /\ arrived[c] = <<>> /\ req[c] = "recv" /\ InSystem(c) = 1
         /\ Working(c) # <<>> =>
              /\ Len(Working(c)) = 1 /\ outbox[c] = <<>> /\ inbox[c] = <<>>
              /\ replies[c] = <<>> /\ arrived[c] = <<>> /\ req[c] = "recv" /\ InSystem(c) = 1
         /\ replies[c] # <<>> =>
              /\ Len(replies[c]) = 1 /\ outbox[c] = <<>> /\ inbox[c] = <<>>
              /\ Working(c) = <<>> /\ arrived[c] = <<>> /\ req[c] = "recv" /\ InSystem(c) = 1
         /\ arrived[c] # <<>> =>
              /\ Len(arrived[c]) = 1 /\ outbox[c] = <<>> /\ inbox[c] = <<>>
              /\ Working(c) = <<>> /\ replies[c] = <<>> /\ req[c] = "recv" /\ InSystem(c) = 1
         /\ req[c] = "send" =>
              /\ outbox[c] = <<>> /\ inbox[c] = <<>> /\ Working(c) = <<>>
              /\ replies[c] = <<>> /\ arrived[c] = <<>>
  <1>1. /\ outbox[c] \in Seq(RequestType) /\ inbox[c] \in Seq(RequestType)
        /\ Working(c) \in Seq(RequestType)
        /\ replies[c] \in Seq(ReplyType) /\ arrived[c] \in Seq(ReplyType)
    BY WorkingType DEF TypeOK
  <1>2. /\ Len(outbox[c]) \in Nat /\ (Len(outbox[c]) = 0 <=> outbox[c] = <<>>)
        /\ Len(inbox[c]) \in Nat /\ (Len(inbox[c]) = 0 <=> inbox[c] = <<>>)
        /\ Len(Working(c)) \in Nat /\ (Len(Working(c)) = 0 <=> Working(c) = <<>>)
        /\ Len(replies[c]) \in Nat /\ (Len(replies[c]) = 0 <=> replies[c] = <<>>)
        /\ Len(arrived[c]) \in Nat /\ (Len(arrived[c]) = 0 <=> arrived[c] = <<>>)
    BY <1>1, QueueEmpty
  <1>3. req[c] \in {"send", "recv"}
    BY DEF TypeOK
  <1> DEFINE o == Len(outbox[c])  i == Len(inbox[c])  w == Len(Working(c))
             r == Len(replies[c]) a == Len(arrived[c])
  <1>4. InSystem(c) = o + i + w + r + a
    BY DEF InSystem
  <1>5. InSystem(c) <= 1 /\ (req[c] = "send" => InSystem(c) = 0)
    BY DEF OneMessage
  <1>6. o \in Nat /\ i \in Nat /\ w \in Nat /\ r \in Nat /\ a \in Nat
    BY <1>2
  <1> HIDE DEF o, i, w, r, a
  <1>7. /\ o # 0 => o = 1 /\ i = 0 /\ w = 0 /\ r = 0 /\ a = 0 /\ InSystem(c) = 1
        /\ i # 0 => i = 1 /\ o = 0 /\ w = 0 /\ r = 0 /\ a = 0 /\ InSystem(c) = 1
        /\ w # 0 => w = 1 /\ o = 0 /\ i = 0 /\ r = 0 /\ a = 0 /\ InSystem(c) = 1
        /\ r # 0 => r = 1 /\ o = 0 /\ i = 0 /\ w = 0 /\ a = 0 /\ InSystem(c) = 1
        /\ a # 0 => a = 1 /\ o = 0 /\ i = 0 /\ w = 0 /\ r = 0 /\ InSystem(c) = 1
        /\ InSystem(c) = 0 => o = 0 /\ i = 0 /\ w = 0 /\ r = 0 /\ a = 0
    BY <1>4, <1>5, <1>6
  <1>8. InSystem(c) = 1 => req[c] = "recv"
    BY <1>3, <1>5
  <1> QED BY <1>2, <1>5, <1>7, <1>8, Zenon DEF o, i, w, r, a

-----------------------------------------------------------------------------
\* What an action of the server or of the network does to the other clients.
LEMMA OthersKeep ==
  ASSUME NEW c \in Clients, \A d \in Clients \ {c} : ClientInv(d),
         breaks' = 0 => breaks = 0, crashes' = 0 => crashes = 0,
         \A d \in Clients \ {c} :
           UNCHANGED <<inbox[d], outbox[d], Working(d), replies[d], arrived[d],
                       client[d], num[d], req[d], sock[d], got[d], executed[d]>>,
         ClientInv(c)'
  PROVE  \A d \in Clients : ClientInv(d)'
  <1> SUFFICES ASSUME NEW d \in Clients, d # c PROVE ClientInv(d)'
    OBVIOUS
  <1> QED BY ClientFrame

\* The server starts, or starts again.
LEMMA ServerBindStep == IInv /\ ServerBind => IInv'
  <1> SUFFICES ASSUME IInv, ServerBind PROVE IInv'
    OBVIOUS
  <1>1. TypeOK' /\ ServerPlaces'
    BY DEF IInv, TypeOK, ServerPlaces, ServerBind, netVars, clientVars, faultVars, Limit
  <1>2. ASSUME NEW d \in Clients PROVE ClientInv(d)'
    BY ClientFrame DEF IInv, ServerBind, Working, netVars, clientVars, faultVars
  <1> QED BY <1>1, <1>2 DEF IInv

\* The monitors exist, and the loop begins.
LEMMA ServerReadyStep == IInv /\ ServerReady => IInv'
  <1> SUFFICES ASSUME IInv, ServerReady PROVE IInv'
    OBVIOUS
  <1>1. TypeOK' /\ ServerPlaces'
    BY DEF IInv, TypeOK, ServerPlaces, ServerReady, netVars, clientVars, faultVars, Limit
  <1>2. ASSUME NEW d \in Clients PROVE ClientInv(d)'
    BY ClientFrame DEF IInv, ServerReady, Working, netVars, clientVars, faultVars
  <1> QED BY <1>1, <1>2 DEF IInv

\* The request moves from the socket to the loop.
LEMMA ServerRecvStep == ASSUME IInv, NEW c \in Clients, ServerRecv(c) PROVE IInv'
  <1>1. TypeOK /\ ClientInv(c) /\ inbox[c] # <<>>
    BY DEF IInv, ServerRecv
  <1>2. /\ Len(inbox[c]) = 1 /\ outbox[c] = <<>> /\ Working(c) = <<>>
        /\ replies[c] = <<>> /\ arrived[c] = <<>> /\ req[c] = "recv" /\ InSystem(c) = 1
    BY <1>1, Alone DEF ClientInv
  <1>3. inbox[c] \in Seq(RequestType)
    BY <1>1 DEF TypeOK
  <1>4. /\ Head(inbox[c]) \in RequestType /\ Head(inbox[c]) = inbox[c][1] /\ 1 \in DOMAIN inbox[c]
        /\ Tail(inbox[c]) = <<>> /\ Tail(inbox[c]) \in Seq(RequestType)
    BY <1>2, <1>3, ShortQueue
  <1>5. cur' = [from |-> c, request |-> Head(inbox[c])] /\ cur' # NoRequest
    BY <1>4, NoRequestAssumption DEF ServerRecv
  <1>6. TypeOK'
    BY <1>4, <1>5 DEF IInv, TypeOK, ServerRecv, clientVars, faultVars, Limit
  <1>7. ServerPlaces'
    BY <1>5 DEF ServerPlaces, ServerRecv
  <1>8. /\ inbox'[c] = <<>> /\ Working(c)' = <<Head(inbox[c])>> /\ outbox'[c] = <<>>
        /\ replies'[c] = <<>> /\ arrived'[c] = <<>>
        /\ UNCHANGED <<client[c], num[c], req[c], sock[c], got[c], executed[c], breaks, crashes>>
    BY <1>1, <1>2, <1>4, <1>5 DEF ServerRecv, Working, TypeOK, clientVars, faultVars
  <1>9. InSystem(c)' = 1 /\ DOMAIN Working(c)' = {1}
    BY <1>8 DEF InSystem
  <1>10. ClientInv(c)'
    <2>1. RequestIsLast(c)'
      BY <1>1, <1>4, <1>8, <1>9 DEF ClientInv, RequestIsLast
    <2>2. ClientPlaces(c)' /\ OneMessage(c)' /\ NothingLost(c)' /\ RepliesMatch(c)'
      BY <1>1, <1>2, <1>8, <1>9
         DEF ClientInv, ClientPlaces, OneMessage, NothingLost, RepliesMatch, Limit
    <2>3. ExecutedOnce(c)'
      BY <1>1, <1>2, <1>8 DEF ClientInv, ExecutedOnce
    <2> QED BY <2>1, <2>2, <2>3 DEF ClientInv
  <1>11. \A d \in Clients \ {c} :
           UNCHANGED <<inbox[d], outbox[d], Working(d), replies[d], arrived[d],
                       client[d], num[d], req[d], sock[d], got[d], executed[d]>>
    BY <1>1, <1>5 DEF IInv, ServerPlaces, ServerRecv, Working, TypeOK, clientVars, faultVars
  <1> QED BY <1>6, <1>7, <1>8, <1>10, <1>11, OthersKeep DEF IInv

\* The request becomes a reply, or is dropped because nobody waits for the reply.
LEMMA ServerReplyStep == IInv /\ ServerReply => IInv'
  <1> SUFFICES ASSUME IInv, ServerReply PROVE IInv'
    OBVIOUS
  <1> PICK c : c = cur.from
    OBVIOUS
  <1> PICK m : m = [num |-> cur.request.num, text |-> Answer(cur.request.text)]
    OBVIOUS
  <1>1. cur # NoRequest /\ c \in Clients /\ cur.request \in RequestType /\ TypeOK
    BY DEF IInv, ServerPlaces, ServerReply, TypeOK
  <1>2. ClientInv(c) /\ Working(c) = <<cur.request>>
    BY <1>1 DEF IInv, Working
  <1>3. /\ outbox[c] = <<>> /\ inbox[c] = <<>> /\ replies[c] = <<>> /\ arrived[c] = <<>>
        /\ req[c] = "recv"
    BY <1>1, <1>2, Alone DEF ClientInv
  <1>4. /\ cur.request.num = num[c] + 1 /\ cur.request.text = Msg[c]
        /\ breaks = 0 => cur.request.peer
    BY <1>2 DEF ClientInv, RequestIsLast
  <1>5. m \in ReplyType /\ m = [num |-> num[c] + 1, text |-> Answer(Msg[c])]
    BY <1>1, <1>4 DEF RequestType, ReplyType
  <1>6. /\ cur' = NoRequest /\ server' = "receiving" /\ rep' = "recv"
        /\ executed' = [executed EXCEPT ![c] = num[c] + 1]
        /\ UNCHANGED <<inbox, outbox, arrived, client, num, req, sock, got, crashes, breaks>>
    BY <1>4 DEF ServerReply, clientVars, faultVars
  <1>7. \/ cur.request.peer /\ sock[c] = "open" /\ replies' = [replies EXCEPT ![c] = <<m>>]
        \/ ~(cur.request.peer /\ sock[c] = "open") /\ replies' = replies
    <2>1. Append(replies[c], m) = <<m>>
      BY <1>3, <1>5, QueueOfOne
    <2> QED BY <2>1, <1>1 DEF ServerReply, Reply, TypeOK
  <1>8. <<m>> \in Seq(ReplyType) /\ Len(<<m>>) = 1 /\ <<m>> # <<>> /\ DOMAIN <<m>> = {1} /\ <<m>>[1] = m
    BY <1>5, QueueOfOne
  <1>9. num[c] \in Nat /\ num[c] < Limit(c) /\ Limit(c) \in Nat
    BY <1>1, <1>2, <1>3, ServerAssumption DEF ClientInv, ClientPlaces, TypeOK, Limit
  <1>10. TypeOK'
    <2>1. replies' \in [Clients -> Seq(ReplyType)]
      BY <1>1, <1>7, <1>8 DEF TypeOK
    <2>2. executed' \in [Clients -> Nat] /\ \A d \in Clients : executed'[d] <= Limit(d)
      BY <1>1, <1>6, <1>9 DEF TypeOK
    <2>3. \A d \in Clients : Limit(d)' = Limit(d)
      BY DEF Limit
    <2> QED BY <1>1, <1>6, <2>1, <2>2, <2>3 DEF TypeOK
  <1>11. ServerPlaces'
    BY <1>6 DEF ServerPlaces
  <1>12. /\ inbox'[c] = <<>> /\ outbox'[c] = <<>> /\ arrived'[c] = <<>> /\ Working(c)' = <<>>
         /\ executed'[c] = num[c] + 1 /\ replies'[c] \in {<<>>, <<m>>}
         /\ UNCHANGED <<client[c], num[c], req[c], sock[c], got[c], breaks, crashes>>
    BY <1>1, <1>3, <1>6, <1>7 DEF TypeOK, Working
  <1>13. ClientInv(c)'
    <2>1. InSystem(c)' = Len(replies'[c])
      BY <1>8, <1>12 DEF InSystem
    <2>8. InSystem(c)' = 0 \/ InSystem(c)' = 1
      BY <1>8, <1>12, <2>1
    <2>2. ClientPlaces(c)'
      BY <1>2, <1>12 DEF ClientInv, ClientPlaces, Limit
    <2>6. OneMessage(c)'
      <3>1. req'[c] = "recv"
        BY <1>3, <1>12
      <3>2. InSystem(c)' <= 1
        BY <2>8
      <3> QED BY <3>1, <3>2 DEF OneMessage
    <2>7. RequestIsLast(c)'
      BY <1>12 DEF RequestIsLast
    <2>3. ExecutedOnce(c)'
      BY <1>2, <1>3, <1>9, <1>12 DEF ClientInv, ExecutedOnce
    <2>4. RepliesMatch(c)'
      BY <1>2, <1>3, <1>5, <1>8, <1>12 DEF ClientInv, RepliesMatch
    <2>5. NothingLost(c)'
      BY <1>1, <1>2, <1>4, <1>7, <1>8, <1>12, <2>1 DEF ClientInv, ClientPlaces, NothingLost, TypeOK
    <2> QED BY <2>2, <2>3, <2>4, <2>5, <2>6, <2>7 DEF ClientInv
  <1>14. \A d \in Clients \ {c} :
           UNCHANGED <<inbox[d], outbox[d], Working(d), replies[d], arrived[d],
                       client[d], num[d], req[d], sock[d], got[d], executed[d]>>
    BY <1>1, <1>6, <1>7 DEF Working, TypeOK
  <1> QED BY <1>1, <1>6, <1>10, <1>11, <1>13, <1>14, OthersKeep DEF IInv

\* What the server had is lost; its clients keep what their sockets hold.
LEMMA ServerCrashStep == IInv /\ ServerCrash => IInv'
  <1> SUFFICES ASSUME IInv, ServerCrash PROVE IInv'
    OBVIOUS
  <1>1. TypeOK /\ crashes \in Nat
    BY DEF IInv, TypeOK
  <1>2. /\ cur' = NoRequest /\ server' = "down" /\ crashes' = crashes + 1 /\ crashes < MaxCrashes
        /\ inbox' = [c \in Clients |-> <<>>] /\ replies' = [c \in Clients |-> <<>>]
        /\ UNCHANGED <<rep, executed, outbox, arrived, client, num, req, sock, got, breaks>>
    BY DEF ServerCrash, clientVars
  <1>3. TypeOK'
    BY <1>1, <1>2, ServerAssumption DEF TypeOK, Limit
  <1>4. ServerPlaces'
    BY <1>2 DEF ServerPlaces
  <1>5. ASSUME NEW c \in Clients PROVE ClientInv(c)'
    <2>1. ClientInv(c) /\ inbox'[c] = <<>> /\ replies'[c] = <<>> /\ Working(c)' = <<>>
      BY <1>2 DEF IInv, Working
    <2>2. ClientPlaces(c)' /\ RepliesMatch(c)' /\ RequestIsLast(c)' /\ ExecutedOnce(c)'
      BY <1>2, <2>1 DEF ClientInv, ClientPlaces, RepliesMatch, RequestIsLast, ExecutedOnce, Limit
    <2>3. NothingLost(c)'
      BY <1>1, <1>2 DEF NothingLost
    <2>4. OneMessage(c)'
      <3> DEFINE o == Len(outbox[c])  i == Len(inbox[c])  w == Len(Working(c))
                 r == Len(replies[c]) a == Len(arrived[c])
      <3>1. o \in Nat /\ i \in Nat /\ w \in Nat /\ r \in Nat /\ a \in Nat
        <4>1. /\ outbox[c] \in Seq(RequestType) /\ inbox[c] \in Seq(RequestType)
              /\ Working(c) \in Seq(RequestType)
              /\ replies[c] \in Seq(ReplyType) /\ arrived[c] \in Seq(ReplyType)
          BY <1>1, WorkingType DEF TypeOK
        <4> QED BY <4>1
      <3>2. InSystem(c)' = o + 0 + 0 + 0 + a
        BY <1>2, <2>1 DEF InSystem
      <3>3. InSystem(c) = o + i + w + r + a
        BY DEF InSystem
      <3>4. InSystem(c) <= 1 /\ (req'[c] = "send" => InSystem(c) = 0)
        BY <1>2, <2>1 DEF ClientInv, OneMessage
      <3> HIDE DEF o, i, w, r, a
      <3>5. InSystem(c)' <= 1 /\ (InSystem(c) = 0 => InSystem(c)' = 0)
        BY <3>1, <3>2, <3>3, <3>4
      <3> QED BY <3>4, <3>5 DEF OneMessage
    <2> QED BY <2>2, <2>3, <2>4 DEF ClientInv
  <1> QED BY <1>3, <1>4, <1>5 DEF IInv

\* The request moves from the client's socket to the server's.
LEMMA DeliverStep == ASSUME IInv, NEW c \in Clients, Deliver(c) PROVE IInv'
  <1>1. TypeOK /\ ClientInv(c) /\ outbox[c] # <<>> /\ outbox[c] \in Seq(RequestType)
    BY DEF IInv, Deliver, TypeOK
  <1>2. /\ Len(outbox[c]) = 1 /\ inbox[c] = <<>> /\ Working(c) = <<>>
        /\ replies[c] = <<>> /\ arrived[c] = <<>> /\ req[c] = "recv"
    BY <1>1, Alone DEF ClientInv
  <1> PICK m : m = Head(outbox[c])
    OBVIOUS
  <1>3. /\ m \in RequestType /\ m = outbox[c][1] /\ 1 \in DOMAIN outbox[c]
        /\ Tail(outbox[c]) = <<>>
    BY <1>1, <1>2, ShortQueue
  <1>4. /\ Append(inbox[c], m) = <<m>> /\ <<m>> \in Seq(RequestType) /\ Len(<<m>>) = 1
        /\ <<m>> # <<>> /\ DOMAIN <<m>> = {1} /\ <<m>>[1] = m
    BY <1>2, <1>3, QueueOfOne
  <1>5. /\ inbox' = [inbox EXCEPT ![c] = <<m>>] /\ outbox' = [outbox EXCEPT ![c] = <<>>]
        /\ UNCHANGED <<replies, arrived, server, rep, cur, executed,
                       client, num, req, sock, got, crashes, breaks>>
    BY <1>1, <1>3, <1>4 DEF Deliver, serverVars, clientVars, faultVars
  <1>6. TypeOK'
    BY <1>1, <1>4, <1>5 DEF TypeOK, Limit
  <1>7. ServerPlaces'
    BY <1>5 DEF IInv, ServerPlaces
  <1>8. /\ inbox'[c] = <<m>> /\ outbox'[c] = <<>> /\ Working(c)' = <<>>
        /\ replies'[c] = <<>> /\ arrived'[c] = <<>>
    BY <1>1, <1>2, <1>5 DEF TypeOK, Working
  <1>9. ClientInv(c)'
    <2>1. InSystem(c)' = 1
      BY <1>4, <1>8 DEF InSystem
    <2>2. m.num = num[c] + 1 /\ m.text = Msg[c] /\ (breaks = 0 => m.peer) /\ executed[c] = num[c]
      BY <1>1, <1>3 DEF ClientInv, RequestIsLast, ExecutedOnce
    <2>3. RequestIsLast(c)'
      BY <1>4, <1>5, <1>8, <2>2 DEF RequestIsLast
    <2>4. ClientPlaces(c)' /\ OneMessage(c)' /\ NothingLost(c)'
      BY <1>1, <1>2, <1>5, <2>1 DEF ClientInv, ClientPlaces, OneMessage, NothingLost, Limit
    <2>5. RepliesMatch(c)' /\ ExecutedOnce(c)'
      BY <1>1, <1>2, <1>5, <1>8, <2>2 DEF ClientInv, RepliesMatch, ExecutedOnce
    <2> QED BY <2>3, <2>4, <2>5 DEF ClientInv
  <1>10. \A d \in Clients \ {c} :
           UNCHANGED <<inbox[d], outbox[d], Working(d), replies[d], arrived[d],
                       client[d], num[d], req[d], sock[d], got[d], executed[d]>>
    BY <1>1, <1>5 DEF Working, TypeOK
  <1> QED BY <1>5, <1>6, <1>7, <1>9, <1>10, OthersKeep DEF IInv

\* The reply moves from the connection to the client's socket.
LEMMA DeliverReplyStep == ASSUME IInv, NEW c \in Clients, DeliverReply(c) PROVE IInv'
  <1>1. TypeOK /\ ClientInv(c) /\ replies[c] # <<>> /\ replies[c] \in Seq(ReplyType)
    BY DEF IInv, DeliverReply, TypeOK
  <1>2. /\ Len(replies[c]) = 1 /\ outbox[c] = <<>> /\ inbox[c] = <<>>
        /\ Working(c) = <<>> /\ arrived[c] = <<>> /\ req[c] = "recv"
    BY <1>1, Alone DEF ClientInv
  <1> PICK m : m = Head(replies[c])
    OBVIOUS
  <1>3. /\ m \in ReplyType /\ m = replies[c][1] /\ 1 \in DOMAIN replies[c]
        /\ Tail(replies[c]) = <<>>
    BY <1>1, <1>2, ShortQueue
  <1>4. /\ Append(arrived[c], m) = <<m>> /\ <<m>> \in Seq(ReplyType) /\ Len(<<m>>) = 1
        /\ <<m>> # <<>> /\ DOMAIN <<m>> = {1} /\ <<m>>[1] = m
    BY <1>2, <1>3, QueueOfOne
  <1>5. /\ arrived' = [arrived EXCEPT ![c] = <<m>>] /\ replies' = [replies EXCEPT ![c] = <<>>]
        /\ UNCHANGED <<inbox, outbox, server, rep, cur, executed,
                       client, num, req, sock, got, crashes, breaks>>
    BY <1>1, <1>3, <1>4 DEF DeliverReply, serverVars, clientVars, faultVars
  <1>6. TypeOK'
    BY <1>1, <1>4, <1>5 DEF TypeOK, Limit
  <1>7. ServerPlaces'
    BY <1>5 DEF IInv, ServerPlaces
  <1>8. /\ arrived'[c] = <<m>> /\ replies'[c] = <<>> /\ Working(c)' = <<>>
        /\ inbox'[c] = <<>> /\ outbox'[c] = <<>>
    BY <1>1, <1>2, <1>5 DEF TypeOK, Working
  <1>9. ClientInv(c)'
    <2>1. InSystem(c)' = 1
      BY <1>4, <1>8 DEF InSystem
    <2>2. m = [num |-> num[c] + 1, text |-> Answer(Msg[c])] /\ executed[c] = num[c] + 1
      BY <1>1, <1>3 DEF ClientInv, RepliesMatch, ExecutedOnce
    <2>3. RequestIsLast(c)'
      BY <1>8 DEF RequestIsLast
    <2>4. ClientPlaces(c)' /\ OneMessage(c)' /\ NothingLost(c)'
      BY <1>1, <1>2, <1>5, <2>1 DEF ClientInv, ClientPlaces, OneMessage, NothingLost, Limit
    <2>5. RepliesMatch(c)'
      BY <1>1, <1>4, <1>5, <1>8, <2>2 DEF ClientInv, RepliesMatch
    <2>6. ExecutedOnce(c)'
      BY <1>1, <1>2, <1>5, <1>8, <2>2 DEF ClientInv, ExecutedOnce
    <2> QED BY <2>3, <2>4, <2>5, <2>6 DEF ClientInv
  <1>10. \A d \in Clients \ {c} :
           UNCHANGED <<inbox[d], outbox[d], Working(d), replies[d], arrived[d],
                       client[d], num[d], req[d], sock[d], got[d], executed[d]>>
    BY <1>1, <1>5 DEF Working, TypeOK
  <1> QED BY <1>5, <1>6, <1>7, <1>9, <1>10, OthersKeep DEF IInv

\* A request whose peer is gone is otherwise the same.
LEMMA Orphaned ==
  ASSUME NEW r \in RequestType
  PROVE  /\ [r EXCEPT !.peer = FALSE] \in RequestType
         /\ [r EXCEPT !.peer = FALSE].num = r.num /\ [r EXCEPT !.peer = FALSE].text = r.text
  BY DEF RequestType

\* What is on its way is lost, what the server holds has lost its peer.
LEMMA ConnectionBreaksStep == ASSUME IInv, NEW c \in Clients, ConnectionBreaks(c) PROVE IInv'
  <1> DEFINE Orphans == [i \in DOMAIN inbox[c] |-> [inbox[c][i] EXCEPT !.peer = FALSE]]
  <1>1. TypeOK /\ ClientInv(c) /\ inbox[c] \in Seq(RequestType) /\ breaks \in Nat
    BY DEF IInv, TypeOK
  <1> PICK left \in {<<>>, Orphans} : inbox' = [inbox EXCEPT ![c] = left]
    BY DEF ConnectionBreaks
  <1>2. /\ replies' = [replies EXCEPT ![c] = <<>>]
        /\ breaks' = breaks + 1 /\ breaks < MaxBreaks
        /\ cur' = IF cur # NoRequest /\ cur.from = c THEN [cur EXCEPT !.request.peer = FALSE] ELSE cur
        /\ UNCHANGED <<server, rep, executed, outbox, arrived, client, num, req, sock, got, crashes>>
    BY DEF ConnectionBreaks, clientVars
  <1>3. /\ left \in Seq(RequestType) /\ (left = <<>> \/ Len(left) = Len(inbox[c]))
        /\ \A i \in DOMAIN left : i \in DOMAIN inbox[c] /\ left[i].num = inbox[c][i].num
                                                     /\ left[i].text = inbox[c][i].text
    <2>1. CASE left = <<>>
      BY <2>1
    <2>2. CASE left = Orphans
      <3>1. DOMAIN inbox[c] = 1..Len(inbox[c]) /\ Len(inbox[c]) \in Nat
        BY <1>1
      <3>2. \A i \in 1..Len(inbox[c]) :
              /\ inbox[c][i] \in RequestType
              /\ [inbox[c][i] EXCEPT !.peer = FALSE] \in RequestType
              /\ [inbox[c][i] EXCEPT !.peer = FALSE].num = inbox[c][i].num
              /\ [inbox[c][i] EXCEPT !.peer = FALSE].text = inbox[c][i].text
        <4>1. \A i \in 1..Len(inbox[c]) : inbox[c][i] \in RequestType
          BY <1>1, ElementOfSeq
        <4> QED BY <4>1, Orphaned
      <3>3. left = [i \in 1..Len(inbox[c]) |-> [inbox[c][i] EXCEPT !.peer = FALSE]]
        BY <2>2, <3>1
      <3>4. left \in Seq(RequestType) /\ Len(left) = Len(inbox[c])
        BY <3>1, <3>2, <3>3, IsASeq
      <3> QED BY <3>1, <3>2, <3>3, <3>4
    <2> QED BY <2>1, <2>2
  <1>4. /\ cur' # NoRequest <=> cur # NoRequest
        /\ cur' \in [from : Clients, request : RequestType] \cup {NoRequest}
        /\ cur # NoRequest => /\ cur'.from = cur.from /\ cur'.request.num = cur.request.num
                              /\ cur'.request.text = cur.request.text
        /\ cur # NoRequest /\ cur.from # c => cur' = cur
    <2>1. CASE cur # NoRequest /\ cur.from = c
      <3>1. cur \in [from : Clients, request : RequestType]
        BY <1>1, <2>1 DEF TypeOK
      <3>2. cur' = [cur EXCEPT !.request.peer = FALSE]
        BY <1>2, <2>1
      <3>3. cur' \in [from : Clients, request : RequestType]
        BY <3>1, <3>2 DEF RequestType
      <3> QED BY <2>1, <3>1, <3>2, <3>3, NoRequestAssumption DEF RequestType
    <2>2. CASE ~(cur # NoRequest /\ cur.from = c)
      BY <1>1, <1>2, <2>2 DEF TypeOK
    <2> QED BY <2>1, <2>2
  <1>5. TypeOK'
    <2>1. inbox' \in [Clients -> Seq(RequestType)] /\ replies' \in [Clients -> Seq(ReplyType)]
      BY <1>1, <1>2, <1>3 DEF TypeOK
    <2>2. breaks' \in 0..MaxBreaks
      BY <1>1, <1>2, ServerAssumption
    <2> QED BY <1>1, <1>2, <1>4, <2>1, <2>2 DEF TypeOK, Limit
  <1>6. ServerPlaces'
    BY <1>2, <1>4 DEF IInv, ServerPlaces
  <1>7. ClientInv(c)'
    <2>1. inbox'[c] = left /\ replies'[c] = <<>> /\ breaks' # 0
      BY <1>1, <1>2 DEF TypeOK
    <2>2. /\ Len(Working(c)') = Len(Working(c)) /\ DOMAIN Working(c)' = DOMAIN Working(c)
          /\ Working(c)' = <<>> <=> Working(c) = <<>>
          /\ \A i \in DOMAIN Working(c) : /\ Working(c)'[i].num = Working(c)[i].num
                                          /\ Working(c)'[i].text = Working(c)[i].text
      BY <1>4 DEF Working
    <2>3. RequestIsLast(c)'
      BY <1>1, <1>2, <1>3, <2>1, <2>2 DEF ClientInv, RequestIsLast
    <2>4. ClientPlaces(c)' /\ RepliesMatch(c)' /\ NothingLost(c)'
      BY <1>1, <1>2, <2>1 DEF ClientInv, ClientPlaces, RepliesMatch, NothingLost, Limit
    <2>5. ExecutedOnce(c)'
      BY <1>1, <1>2, <1>3, <2>1, <2>2 DEF ClientInv, ExecutedOnce
    <2>6. OneMessage(c)'
      <3> DEFINE o == Len(outbox[c])  i == Len(inbox[c])  w == Len(Working(c))
                 r == Len(replies[c]) a == Len(arrived[c])  j == Len(left)
      <3>1. o \in Nat /\ i \in Nat /\ w \in Nat /\ r \in Nat /\ a \in Nat /\ (j = i \/ j = 0)
        <4>1. /\ outbox[c] \in Seq(RequestType) /\ inbox[c] \in Seq(RequestType)
              /\ Working(c) \in Seq(RequestType)
              /\ replies[c] \in Seq(ReplyType) /\ arrived[c] \in Seq(ReplyType)
          BY <1>1, WorkingType DEF TypeOK
        <4> QED BY <1>3, <4>1
      <3>2. InSystem(c)' = o + j + w + 0 + a
        BY <1>2, <2>1, <2>2 DEF InSystem
      <3>3. InSystem(c) = o + i + w + r + a
        BY DEF InSystem
      <3>4. InSystem(c) <= 1 /\ (req'[c] = "send" => InSystem(c) = 0)
        BY <1>1, <1>2 DEF ClientInv, OneMessage
      <3> HIDE DEF o, i, w, r, a, j
      <3>5. InSystem(c)' <= 1 /\ (InSystem(c) = 0 => InSystem(c)' = 0)
        BY <3>1, <3>2, <3>3, <3>4
      <3> QED BY <3>4, <3>5 DEF OneMessage
    <2> QED BY <2>3, <2>4, <2>5, <2>6 DEF ClientInv
  <1>8. \A d \in Clients \ {c} :
           UNCHANGED <<inbox[d], outbox[d], Working(d), replies[d], arrived[d],
                       client[d], num[d], req[d], sock[d], got[d], executed[d]>>
    BY <1>1, <1>2, <1>4 DEF Working, TypeOK
  <1>9. breaks' = 0 => breaks = 0
    BY <1>1, <1>2
  <1> QED BY <1>2, <1>5, <1>6, <1>7, <1>8, <1>9, OthersKeep DEF IInv

-----------------------------------------------------------------------------
\* A client makes a request only when nothing of it is in the system.
LEMMA SendStep == ASSUME IInv, NEW c \in Clients, Send(c) PROVE IInv'
  <1>1. TypeOK /\ ClientInv(c) /\ client[c] = "send" /\ req[c] = "send" /\ num[c] \in Nat
    BY DEF IInv, Send, TypeOK
  <1>2. /\ outbox[c] = <<>> /\ inbox[c] = <<>> /\ Working(c) = <<>>
        /\ replies[c] = <<>> /\ arrived[c] = <<>>
    BY <1>1, Alone DEF ClientInv
  <1> PICK m : m = [num |-> num[c] + 1, text |-> Msg[c], peer |-> TRUE]
    OBVIOUS
  <1>3. m \in RequestType
    BY <1>1 DEF RequestType
  <1>4. /\ Append(outbox[c], m) = <<m>> /\ <<m>> \in Seq(RequestType) /\ Len(<<m>>) = 1
        /\ <<m>> # <<>> /\ DOMAIN <<m>> = {1} /\ <<m>>[1] = m
    BY <1>2, <1>3, QueueOfOne
  <1>5. /\ outbox' = [outbox EXCEPT ![c] = <<m>>]
        /\ client' = [client EXCEPT ![c] = "wait"] /\ req' = [req EXCEPT ![c] = "recv"]
        /\ UNCHANGED <<inbox, replies, arrived, num, sock, got, server, rep, cur, executed,
                       crashes, breaks>>
    BY <1>4 DEF Send, Request, serverVars, faultVars
  <1>6. TypeOK'
    BY <1>1, <1>4, <1>5 DEF TypeOK, Limit
  <1>7. ServerPlaces'
    BY <1>5 DEF IInv, ServerPlaces
  <1>8. /\ outbox'[c] = <<m>> /\ inbox'[c] = <<>> /\ Working(c)' = <<>>
        /\ replies'[c] = <<>> /\ arrived'[c] = <<>> /\ req'[c] = "recv" /\ client'[c] = "wait"
    BY <1>1, <1>2, <1>5 DEF TypeOK, Working
  <1>9. ClientInv(c)'
    <2>1. InSystem(c)' = 1
      BY <1>4, <1>8 DEF InSystem
    <2>2. sock[c] = "open"
      BY <1>1 DEF ClientInv, ClientPlaces
    <2>3. ClientPlaces(c)' /\ OneMessage(c)' /\ NothingLost(c)'
      BY <1>1, <1>5, <1>8, <2>1, <2>2 DEF ClientInv, ClientPlaces, OneMessage, NothingLost, Limit
    <2>4. RequestIsLast(c)'
      BY <1>4, <1>5, <1>8 DEF RequestIsLast
    <2>5. RepliesMatch(c)' /\ ExecutedOnce(c)'
      BY <1>1, <1>5, <1>8 DEF ClientInv, RepliesMatch, ExecutedOnce
    <2> QED BY <2>3, <2>4, <2>5 DEF ClientInv
  <1>10. \A d \in Clients \ {c} :
           UNCHANGED <<inbox[d], outbox[d], Working(d), replies[d], arrived[d],
                       client[d], num[d], req[d], sock[d], got[d], executed[d]>>
    BY <1>1, <1>5 DEF Working, TypeOK
  <1> QED BY <1>5, <1>6, <1>7, <1>9, <1>10, OthersKeep DEF IInv

\* A client that has got its reply has nothing in the system, wherever it goes on.
LEMMA RecvStep ==
  ASSUME IInv, NEW c \in Clients, Recv(c),
         NEW p \in {"send", "sleep", "done"}, NEW z \in {"open", "lingering", "closed"},
         client' = [client EXCEPT ![c] = p], sock' = [sock EXCEPT ![c] = z],
         p = "send" => num[c] + 1 < Limit(c) /\ z = "open",
         p = "sleep" => Kind[c] = "block" /\ z = "open"
  PROVE  IInv'
  <1>1. /\ TypeOK /\ ClientInv(c) /\ client[c] = "wait" /\ req[c] = "recv" /\ arrived[c] # <<>>
        /\ num[c] \in Nat /\ arrived[c] \in Seq(ReplyType)
    BY DEF IInv, Recv, TypeOK
  <1>2. /\ Len(arrived[c]) = 1 /\ outbox[c] = <<>> /\ inbox[c] = <<>>
        /\ Working(c) = <<>> /\ replies[c] = <<>>
    BY <1>1, Alone DEF ClientInv
  <1> PICK m : m = Head(arrived[c])
    OBVIOUS
  <1>3. m \in ReplyType /\ m = arrived[c][1] /\ 1 \in DOMAIN arrived[c] /\ Tail(arrived[c]) = <<>>
    BY <1>1, <1>2, ShortQueue
  <1>4. /\ got' = [got EXCEPT ![c] = m] /\ arrived' = [arrived EXCEPT ![c] = <<>>]
        /\ num' = [num EXCEPT ![c] = num[c] + 1] /\ req' = [req EXCEPT ![c] = "send"]
        /\ UNCHANGED <<inbox, outbox, replies, server, rep, cur, executed, crashes, breaks>>
    BY <1>1, <1>3 DEF Recv, serverVars, faultVars, TypeOK
  <1>5. num[c] < Limit(c) /\ Limit(c) \in Nat
    BY <1>1, ServerAssumption DEF ClientInv, ClientPlaces, Limit
  <1>6. TypeOK'
    <2>1. num' \in [Clients -> Nat] /\ \A d \in Clients : num'[d] <= Limit(d)
      BY <1>1, <1>4, <1>5 DEF TypeOK
    <2>2. \A d \in Clients : Limit(d)' = Limit(d)
      BY DEF Limit
    <2>3. /\ arrived' \in [Clients -> Seq(ReplyType)] /\ got' \in [Clients -> ReplyType \cup {NoReply}]
          /\ client' \in [Clients -> {"send", "wait", "sleep", "closing", "done"}]
          /\ sock' \in [Clients -> {"open", "lingering", "closed"}]
          /\ req' \in [Clients -> {"send", "recv"}]
      BY <1>1, <1>3, <1>4 DEF TypeOK
    <2> QED BY <1>1, <1>4, <2>1, <2>2, <2>3 DEF TypeOK
  <1>7. ServerPlaces'
    BY <1>4 DEF IInv, ServerPlaces
  <1>8. /\ outbox'[c] = <<>> /\ inbox'[c] = <<>> /\ Working(c)' = <<>>
        /\ replies'[c] = <<>> /\ arrived'[c] = <<>>
        /\ req'[c] = "send" /\ client'[c] = p /\ sock'[c] = z /\ num'[c] = num[c] + 1 /\ got'[c] = m
    BY <1>1, <1>2, <1>4 DEF TypeOK, Working
  <1>9. ClientInv(c)'
    <2>1. InSystem(c)' = 0
      BY <1>8 DEF InSystem
    <2>2. m = [num |-> num[c] + 1, text |-> Answer(Msg[c])] /\ executed[c] = num[c] + 1
      BY <1>1, <1>3 DEF ClientInv, RepliesMatch, ExecutedOnce
    <2>3. ClientPlaces(c)'
      BY <1>8 DEF ClientPlaces, Limit
    <2>4. OneMessage(c)' /\ NothingLost(c)'
      BY <1>8, <2>1 DEF OneMessage, NothingLost
    <2>5. RequestIsLast(c)' /\ RepliesMatch(c)' /\ ExecutedOnce(c)'
      BY <1>1, <1>4, <1>8, <2>2 DEF RequestIsLast, RepliesMatch, ExecutedOnce
    <2> QED BY <2>3, <2>4, <2>5 DEF ClientInv
  <1>10. \A d \in Clients \ {c} :
           UNCHANGED <<inbox[d], outbox[d], Working(d), replies[d], arrived[d],
                       client[d], num[d], req[d], sock[d], got[d], executed[d]>>
    BY <1>1, <1>4 DEF Working, TypeOK
  <1> QED BY <1>4, <1>6, <1>7, <1>9, <1>10, OthersKeep DEF IInv

\* The loops go on, or end, after a reply.
LEMMA RecvSteps ==
  ASSUME IInv, NEW c \in Clients, NoBlockRecv(c) \/ BlockRecv(c) \/ OnceRecv(c)
  PROVE  IInv'
  <1>1. TypeOK /\ ClientInv(c) /\ sock \in [Clients -> {"open", "lingering", "closed"}]
    BY DEF IInv, TypeOK
  <1>2. Recv(c) /\ client[c] = "wait" /\ sock[c] = "open"
    BY <1>1 DEF NoBlockRecv, BlockRecv, OnceRecv, Recv, ClientInv, ClientPlaces
  <1>3. CASE NoBlockRecv(c)
    <2>1. CASE num[c] + 1 < MaxRequests
      <3>1. /\ client' = [client EXCEPT ![c] = "send"] /\ sock' = [sock EXCEPT ![c] = "open"]
            /\ num[c] + 1 < Limit(c)
        BY <1>1, <1>2, <1>3, <2>1 DEF NoBlockRecv, NextIteration, Limit
      <3> QED BY <1>2, <3>1, RecvStep
    <2>2. CASE ~(num[c] + 1 < MaxRequests)
      <3>1. client' = [client EXCEPT ![c] = "done"] /\ sock' = [sock EXCEPT ![c] = "closed"]
        BY <1>3, <2>2 DEF NoBlockRecv, NextIteration
      <3> QED BY <1>2, <3>1, RecvStep
    <2> QED BY <2>1, <2>2
  <1>4. CASE BlockRecv(c)
    <2>1. client' = [client EXCEPT ![c] = "sleep"] /\ sock' = [sock EXCEPT ![c] = "open"] /\ Kind[c] = "block"
      BY <1>1, <1>2, <1>4 DEF BlockRecv
    <2> QED BY <1>2, <2>1, RecvStep
  <1>5. CASE OnceRecv(c)
    <2>1. client' = [client EXCEPT ![c] = "done"] /\ sock' = [sock EXCEPT ![c] = "closed"]
      BY <1>5 DEF OnceRecv
    <2> QED BY <1>2, <2>1, RecvStep
  <1> QED BY <1>3, <1>4, <1>5

\* Nothing of a client that sleeps is in the system.
LEMMA BlockWakeStep == ASSUME IInv, NEW c \in Clients, BlockWake(c) PROVE IInv'
  <1>1. /\ TypeOK /\ ClientInv(c) /\ client[c] = "sleep" /\ req[c] = "send" /\ Kind[c] = "block"
        /\ sock[c] = "open"
    BY DEF IInv, BlockWake, ClientInv, ClientPlaces
  <1>2. UNCHANGED <<num, req, got, inbox, outbox, replies, arrived, server, rep, cur, executed,
                    crashes, breaks>>
    BY DEF BlockWake, netVars, serverVars, faultVars
  <1>3. \/ /\ client' = [client EXCEPT ![c] = "send"] /\ sock' = [sock EXCEPT ![c] = "open"]
           /\ num[c] < MaxRequests
        \/ client' = [client EXCEPT ![c] = "done"] /\ sock' = [sock EXCEPT ![c] = "closed"]
    BY <1>1 DEF BlockWake, NextIteration, TypeOK
  <1>4. TypeOK'
    BY <1>1, <1>2, <1>3 DEF TypeOK, Limit
  <1>5. ServerPlaces'
    BY <1>2 DEF IInv, ServerPlaces
  <1>6. ClientInv(c)'
    <2>1. Working(c)' = Working(c) /\ InSystem(c)' = InSystem(c)
      BY <1>2 DEF Working, InSystem
    <2>2. \/ client'[c] = "send" /\ sock'[c] = "open" /\ num[c] < Limit(c)
          \/ client'[c] = "done" /\ sock'[c] = "closed"
      BY <1>1, <1>3 DEF TypeOK, Limit
    <2>3. ClientPlaces(c)' /\ NothingLost(c)'
      BY <1>1, <1>2, <2>2 DEF ClientPlaces, NothingLost, Limit
    <2>4. OneMessage(c)' /\ RequestIsLast(c)' /\ RepliesMatch(c)' /\ ExecutedOnce(c)'
      BY <1>1, <1>2, <2>1 DEF ClientInv, OneMessage, RequestIsLast, RepliesMatch, ExecutedOnce
    <2> QED BY <2>3, <2>4 DEF ClientInv
  <1>7. \A d \in Clients \ {c} :
           UNCHANGED <<inbox[d], outbox[d], Working(d), replies[d], arrived[d],
                       client[d], num[d], req[d], sock[d], got[d], executed[d]>>
    BY <1>1, <1>2, <1>3 DEF Working, TypeOK
  <1> QED BY <1>2, <1>4, <1>5, <1>6, <1>7, OthersKeep DEF IInv

\* A client that gives up leaves at most its request behind.
LEMMA TimeoutStep == ASSUME IInv, NEW c \in Clients, Timeout(c) PROVE IInv'
  <1>1. TypeOK /\ ClientInv(c) /\ client[c] = "wait" /\ req[c] = "recv"
    BY DEF IInv, Timeout, ClientInv, ClientPlaces
  <1>2. /\ sock' = [sock EXCEPT ![c] = "lingering"] /\ client' = [client EXCEPT ![c] = "closing"]
        /\ replies' = [replies EXCEPT ![c] = <<>>]
        /\ UNCHANGED <<inbox, outbox, arrived, num, req, got, server, rep, cur, executed,
                       crashes, breaks>>
    BY DEF Timeout, serverVars, faultVars
  <1>3. TypeOK'
    BY <1>1, <1>2 DEF TypeOK, Limit
  <1>4. ServerPlaces'
    BY <1>2 DEF IInv, ServerPlaces
  <1>5. ClientInv(c)'
    <2>1. Working(c)' = Working(c) /\ replies'[c] = <<>> /\ client'[c] = "closing" /\ req'[c] = "recv"
      BY <1>1, <1>2 DEF Working, TypeOK
    <2>2. ClientPlaces(c)' /\ NothingLost(c)'
      BY <1>1, <1>2, <2>1 DEF ClientInv, ClientPlaces, NothingLost, Limit
    <2>3. RequestIsLast(c)' /\ RepliesMatch(c)' /\ ExecutedOnce(c)'
      BY <1>1, <1>2, <2>1 DEF ClientInv, RequestIsLast, RepliesMatch, ExecutedOnce
    <2>4. OneMessage(c)'
      <3> DEFINE o == Len(outbox[c])  i == Len(inbox[c])  w == Len(Working(c))
                 r == Len(replies[c]) a == Len(arrived[c])
      <3>1. o \in Nat /\ i \in Nat /\ w \in Nat /\ r \in Nat /\ a \in Nat
        <4>1. /\ outbox[c] \in Seq(RequestType) /\ inbox[c] \in Seq(RequestType)
              /\ Working(c) \in Seq(RequestType)
              /\ replies[c] \in Seq(ReplyType) /\ arrived[c] \in Seq(ReplyType)
          BY <1>1, WorkingType DEF TypeOK
        <4> QED BY <4>1
      <3>2. InSystem(c)' = o + i + w + 0 + a
        BY <1>2, <2>1 DEF InSystem
      <3>3. InSystem(c) = o + i + w + r + a
        BY DEF InSystem
      <3>4. InSystem(c) <= 1
        BY <1>1 DEF ClientInv, OneMessage
      <3> HIDE DEF o, i, w, r, a
      <3>5. InSystem(c)' <= 1
        BY <3>1, <3>2, <3>3, <3>4
      <3> QED BY <2>1, <3>5 DEF OneMessage
    <2> QED BY <2>2, <2>3, <2>4 DEF ClientInv
  <1>6. \A d \in Clients \ {c} :
           UNCHANGED <<inbox[d], outbox[d], Working(d), replies[d], arrived[d],
                       client[d], num[d], req[d], sock[d], got[d], executed[d]>>
    BY <1>1, <1>2 DEF Working, TypeOK
  <1> QED BY <1>2, <1>3, <1>4, <1>5, <1>6, OthersKeep DEF IInv

\* What the socket still holds is discarded.
LEMMA LingerEndsStep == ASSUME IInv, NEW c \in Clients, LingerEnds(c) PROVE IInv'
  <1>1. TypeOK /\ ClientInv(c) /\ client[c] = "closing" /\ req[c] = "recv"
    BY DEF IInv, LingerEnds, ClientInv, ClientPlaces
  <1>2. /\ sock' = [sock EXCEPT ![c] = "closed"] /\ client' = [client EXCEPT ![c] = "done"]
        /\ outbox' = [outbox EXCEPT ![c] = <<>>]
        /\ UNCHANGED <<inbox, replies, arrived, num, req, got, server, rep, cur, executed,
                       crashes, breaks>>
    BY DEF LingerEnds, serverVars, faultVars
  <1>3. TypeOK'
    BY <1>1, <1>2 DEF TypeOK, Limit
  <1>4. ServerPlaces'
    BY <1>2 DEF IInv, ServerPlaces
  <1>5. ClientInv(c)'
    <2>1. Working(c)' = Working(c) /\ outbox'[c] = <<>> /\ client'[c] = "done" /\ req'[c] = "recv"
      BY <1>1, <1>2 DEF Working, TypeOK
    <2>2. ClientPlaces(c)' /\ NothingLost(c)'
      BY <1>1, <1>2, <2>1 DEF ClientInv, ClientPlaces, NothingLost, Limit
    <2>3. RequestIsLast(c)' /\ RepliesMatch(c)' /\ ExecutedOnce(c)'
      BY <1>1, <1>2, <2>1 DEF ClientInv, RequestIsLast, RepliesMatch, ExecutedOnce
    <2>4. OneMessage(c)'
      <3> DEFINE o == Len(outbox[c])  i == Len(inbox[c])  w == Len(Working(c))
                 r == Len(replies[c]) a == Len(arrived[c])
      <3>1. o \in Nat /\ i \in Nat /\ w \in Nat /\ r \in Nat /\ a \in Nat
        <4>1. /\ outbox[c] \in Seq(RequestType) /\ inbox[c] \in Seq(RequestType)
              /\ Working(c) \in Seq(RequestType)
              /\ replies[c] \in Seq(ReplyType) /\ arrived[c] \in Seq(ReplyType)
          BY <1>1, WorkingType DEF TypeOK
        <4> QED BY <4>1
      <3>2. InSystem(c)' = 0 + i + w + r + a
        BY <1>2, <2>1 DEF InSystem
      <3>3. InSystem(c) = o + i + w + r + a
        BY DEF InSystem
      <3>4. InSystem(c) <= 1
        BY <1>1 DEF ClientInv, OneMessage
      <3> HIDE DEF o, i, w, r, a
      <3>5. InSystem(c)' <= 1
        BY <3>1, <3>2, <3>3, <3>4
      <3> QED BY <2>1, <3>5 DEF OneMessage
    <2> QED BY <2>2, <2>3, <2>4 DEF ClientInv
  <1>6. \A d \in Clients \ {c} :
           UNCHANGED <<inbox[d], outbox[d], Working(d), replies[d], arrived[d],
                       client[d], num[d], req[d], sock[d], got[d], executed[d]>>
    BY <1>1, <1>2 DEF Working, TypeOK
  <1> QED BY <1>2, <1>3, <1>4, <1>5, <1>6, OthersKeep DEF IInv

-----------------------------------------------------------------------------
\* Every step of server, network and clients keeps the invariant.
LEMMA NextIInv == IInv /\ [Next]_vars => IInv'
  <1> SUFFICES ASSUME IInv, [Next]_vars PROVE IInv'
    OBVIOUS
  <1>1. CASE ServerStep \/ ServerCrash
    BY <1>1, ServerBindStep, ServerReadyStep, ServerRecvStep, ServerReplyStep, ServerCrashStep
       DEF ServerStep
  <1>2. ASSUME NEW c \in Clients, Deliver(c) \/ DeliverReply(c) \/ ConnectionBreaks(c) PROVE IInv'
    BY <1>2, DeliverStep, DeliverReplyStep, ConnectionBreaksStep
  <1>3. ASSUME NEW c \in Clients, ClientStep(c) PROVE IInv'
    BY <1>3, SendStep, RecvSteps, BlockWakeStep, TimeoutStep, LingerEndsStep
       DEF ClientStep, NoBlock, Block, Once, NoBlockSend, BlockSend, OnceSend
  <1>4. CASE UNCHANGED vars
    <2>1. UNCHANGED <<server, rep, cur, executed, inbox, outbox, replies, arrived,
                      client, num, req, sock, got, crashes, breaks>>
      BY <1>4 DEF vars, serverVars, netVars, clientVars, faultVars
    <2>2. TypeOK' /\ ServerPlaces'
      BY <2>1 DEF IInv, TypeOK, ServerPlaces, Limit
    <2>3. ASSUME NEW d \in Clients PROVE ClientInv(d)'
      BY <2>1, ClientFrame DEF IInv, Working
    <2> QED BY <2>2, <2>3 DEF IInv
  <1> QED BY <1>1, <1>2, <1>3, <1>4 DEF Next

\* The invariant holds in every state, with any number of clients, requests,
\* crashes and broken connections.
THEOREM Invariance == Spec => []IInv
  BY InitIInv, NextIInv, PTL DEF Spec

\* Type correctness: no client asks for more than its loop allows.
THEOREM TypeCorrect == Spec => []TypeOK
  <1>1. IInv => TypeOK
    BY DEF IInv
  <1> QED BY <1>1, Invariance, PTL

\* No call of the server's REP socket or of a client's REQ socket is out of turn.
THEOREM CallsInOrder == Spec => []SocketCallsInOrder
  <1>1. IInv => SocketCallsInOrder
    BY DEF IInv, ServerPlaces, ClientInv, ClientPlaces, SocketCallsInOrder
  <1> QED BY <1>1, Invariance, PTL

\* A client never has two messages in the system.
THEOREM AtMostOneOutstanding == Spec => []OneOutstanding
  <1>1. IInv => OneOutstanding
    BY DEF IInv, ClientInv, ClientPlaces, OneMessage, OneOutstanding
  <1> QED BY <1>1, Invariance, PTL

\* A reply is the one of the last request, and of the branch of its text.
THEOREM RepliesCorrect == Spec => []ReplyAnswersRequest
  <1>1. IInv => ReplyAnswersRequest
    BY DEF IInv, ClientInv, ReplyAnswersRequest
  <1> QED BY <1>1, Invariance, PTL

\* Without a crash or a broken connection, nothing a client waits for is lost.
THEOREM LossNeedsFailure == Spec => []LostOnlyByFailure
  <1>1. IInv => LostOnlyByFailure
    BY DEF IInv, ClientInv, LostOnlyByFailure
  <1> QED BY <1>1, Invariance, PTL

-----------------------------------------------------------------------------
(* The refinement. Asked and Gone are what Calls substitutes for asked and *)
(* gone; answered is num, and executed is itself.                          *)

Asked == [c \in Clients |-> IF req[c] = "recv" THEN num[c] + 1 ELSE num[c]]
Gone  == {c \in Clients : req[c] = "recv" /\ client[c] # "wait"}

\* What the variables of a client's loop mean to the abstract specification.
LEMMA AskedGone ==
  ASSUME IInv, NEW c \in Clients
  PROVE  /\ num[c] \in Nat /\ executed[c] \in Nat
         /\ req[c] = "recv" => Asked[c] = num[c] + 1
         /\ req[c] = "send" => Asked[c] = num[c] /\ c \notin Gone
         /\ client[c] = "wait" => c \notin Gone
  BY DEF IInv, TypeOK, Asked, Gone

\* A request is an Ask.
LEMMA SendIsAsk == ASSUME IInv, NEW c \in Clients, Send(c) PROVE Calls!Ask(c)
  <1>1. /\ TypeOK /\ req[c] = "send" /\ client[c] = "send"
        /\ client' = [client EXCEPT ![c] = "wait"] /\ req' = [req EXCEPT ![c] = "recv"]
        /\ num' = num /\ executed' = executed
    BY DEF IInv, Send, serverVars
  <1>2. c \notin Gone /\ Asked[c] = num[c]
    BY <1>1, AskedGone
  <1>3. Asked' = [Asked EXCEPT ![c] = Asked[c] + 1]
    BY <1>1 DEF Asked, TypeOK
  <1>4. Gone' = Gone
    BY <1>1 DEF Gone, TypeOK
  <1> QED BY <1>1, <1>2, <1>3, <1>4 DEF Calls!Ask, Asked, Gone

\* The server executes a request that was made and has not been executed.
LEMMA ReplyIsExecute == ASSUME IInv, ServerReply PROVE \E c \in Clients : Calls!Execute(c)
  <1> PICK c : c = cur.from
    OBVIOUS
  <1>1. cur # NoRequest /\ c \in Clients /\ TypeOK /\ ClientInv(c) /\ Working(c) = <<cur.request>>
    BY DEF IInv, ServerPlaces, ServerReply, TypeOK, Working
  <1>2. req[c] = "recv" /\ executed[c] = num[c] /\ cur.request.num = num[c] + 1
    BY <1>1, Alone DEF ClientInv, ExecutedOnce, RequestIsLast
  <1>3. Asked[c] = num[c] + 1 /\ num[c] \in Nat
    BY <1>1, <1>2, AskedGone
  <1>4. executed' = [executed EXCEPT ![c] = Asked[c]] /\ executed[c] < Asked[c]
    BY <1>2, <1>3 DEF ServerReply
  <1>5. Asked' = Asked /\ Gone' = Gone /\ num' = num
    BY DEF ServerReply, clientVars, Asked, Gone
  <1> QED BY <1>1, <1>4, <1>5 DEF Calls!Execute, Asked, Gone

\* A client gets the answer of the request it waits for, which was executed.
LEMMA RecvIsGetAnswer ==
  ASSUME IInv, NEW c \in Clients, Recv(c), NEW p, client' = [client EXCEPT ![c] = p]
  PROVE  Calls!GetAnswer(c)
  <1>1. /\ TypeOK /\ ClientInv(c) /\ req[c] = "recv" /\ client[c] = "wait" /\ arrived[c] # <<>>
        /\ num' = [num EXCEPT ![c] = num[c] + 1] /\ req' = [req EXCEPT ![c] = "send"]
        /\ executed' = executed
    BY DEF IInv, Recv, serverVars
  <1>2. executed[c] = num[c] + 1
    BY <1>1 DEF ClientInv, ExecutedOnce
  <1>3. c \notin Gone /\ Asked[c] = num[c] + 1 /\ num[c] \in Nat
    BY <1>1, AskedGone
  <1>4. Asked' = Asked
    BY <1>1 DEF Asked, TypeOK
  <1>5. Gone' = Gone
    BY <1>1 DEF Gone, TypeOK
  <1>6. num[c] < Asked[c] /\ num' = [num EXCEPT ![c] = Asked[c]]
    BY <1>1, <1>3
  <1> QED BY <1>1, <1>2, <1>3, <1>4, <1>5, <1>6 DEF Calls!GetAnswer, Asked, Gone

\* A client that times out gives up.
LEMMA TimeoutIsGiveUp == ASSUME IInv, NEW c \in Clients, Timeout(c) PROVE Calls!GiveUp(c)
  <1>1. /\ TypeOK /\ req[c] = "recv" /\ client' = [client EXCEPT ![c] = "closing"]
        /\ req' = req /\ num' = num /\ executed' = executed
    BY DEF IInv, Timeout, ClientInv, ClientPlaces, serverVars
  <1>2. Asked[c] = num[c] + 1 /\ num[c] \in Nat
    BY <1>1, AskedGone
  <1>3. Asked' = Asked
    BY <1>1 DEF Asked
  <1>4. Gone' = Gone \cup {c}
    BY <1>1 DEF Gone, TypeOK
  <1>5. num[c] < Asked[c]
    BY <1>2
  <1> QED BY <1>1, <1>3, <1>4, <1>5 DEF Calls!GiveUp, Asked, Gone

\* No other step is visible to the abstract specification.
LEMMA OtherStepsInvisible ==
  ASSUME IInv, NEW c \in Clients,
         \/ ServerBind \/ ServerReady \/ ServerRecv(c) \/ ServerCrash
         \/ Deliver(c) \/ DeliverReply(c) \/ ConnectionBreaks(c)
         \/ BlockWake(c) \/ LingerEnds(c)
  PROVE  UNCHANGED Calls!vars
  <1>1. UNCHANGED <<num, req, executed>>
    BY DEF ServerBind, ServerReady, ServerRecv, ServerCrash, Deliver, DeliverReply, ConnectionBreaks,
           BlockWake, LingerEnds, clientVars, serverVars
  <1>2. Asked' = Asked
    BY <1>1 DEF Asked
  <1>3. Gone' = Gone
    <2>1. CASE client' = client
      BY <1>1, <2>1 DEF Gone
    <2>2. CASE BlockWake(c) \/ LingerEnds(c)
      <3>1. PICK p : p # "wait" /\ client' = [client EXCEPT ![c] = p]
        BY <2>2 DEF BlockWake, LingerEnds, NextIteration
      <3>2. client[c] # "wait" /\ client \in [Clients -> {"send", "wait", "sleep", "closing", "done"}]
        BY <2>2 DEF BlockWake, LingerEnds, IInv, TypeOK
      <3> QED BY <1>1, <3>1, <3>2 DEF Gone
    <2> QED BY <2>1, <2>2 DEF ServerBind, ServerReady, ServerRecv, ServerCrash, Deliver,
                              DeliverReply, ConnectionBreaks, clientVars
  <1> QED BY <1>1, <1>2, <1>3 DEF Calls!vars, Asked, Gone

\* Server, network and clients, crashes and broken connections included,
\* implement AtMostOnceCall: a request is executed at most once, and a client gets
\* the answer of the request it waits for.
THEOREM Refinement == Spec => ImplementsCalls
  <1>1. Init => Calls!Init
    BY DEF Init, Calls!Init
  <1>2. IInv /\ [Next]_vars => [Calls!Next]_(Calls!vars)
    <2> SUFFICES ASSUME IInv, [Next]_vars PROVE [Calls!Next]_(Calls!vars)
      OBVIOUS
    <2>1. CASE ServerReply
      BY <2>1, ReplyIsExecute DEF Calls!Next
    <2>2. ASSUME NEW c \in Clients, Send(c) PROVE Calls!Next
      BY <2>2, SendIsAsk DEF Calls!Next
    <2>3. ASSUME NEW c \in Clients, NoBlockRecv(c) \/ BlockRecv(c) \/ OnceRecv(c) PROVE Calls!Next
      <3>1. Recv(c) /\ \E p : client' = [client EXCEPT ![c] = p]
        BY <2>3 DEF NoBlockRecv, BlockRecv, OnceRecv, NextIteration
      <3> QED BY <3>1, RecvIsGetAnswer DEF Calls!Next
    <2>4. ASSUME NEW c \in Clients, Timeout(c) PROVE Calls!Next
      BY <2>4, TimeoutIsGiveUp DEF Calls!Next
    <2>5. ASSUME NEW c \in Clients,
                 \/ ServerRecv(c) \/ Deliver(c) \/ DeliverReply(c) \/ ConnectionBreaks(c)
                 \/ BlockWake(c) \/ LingerEnds(c)
          PROVE  UNCHANGED Calls!vars
      BY <2>5, OtherStepsInvisible
    <2>6. CASE ServerBind \/ ServerReady \/ ServerCrash \/ UNCHANGED vars
      <3>1. UNCHANGED <<num, req, executed, client>>
        BY <2>6 DEF ServerBind, ServerReady, ServerCrash, vars, serverVars, clientVars
      <3> QED BY <3>1 DEF Calls!vars
    <2> QED BY <2>1, <2>2, <2>3, <2>4, <2>5, <2>6
            DEF Next, ServerStep, ClientStep, NoBlock, Block, Once, NoBlockSend, BlockSend, OnceSend
  <1> QED BY <1>1, <1>2, Invariance, PTL DEF Spec, ImplementsCalls, Calls!Spec
=============================================================================
