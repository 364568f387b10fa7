----------------------------- MODULE RaidServer -----------------------------
(***************************************************************************)
(* The monitor server (main.cpp) and the three kinds of client that ship   *)
(* with it, over ZeroMQ sockets of type REP and REQ:                       *)
(*   "no_block"  no_block_socket (Client.cpp): polls for the reply for one *)
(*               second and gives up;                                      *)
(*   "block"     block_socket (Client.cpp): waits for each reply;          *)
(*   "once"      request_data_from_raid (raid_monitor_server.h): a single  *)
(*               request, waits for the reply.                             *)
(*                                                                         *)
(* libzmq itself is external. What the code relies on is modelled: a       *)
(* message handed to a socket is in the outbox of the sender until the     *)
(* connection is up; messages of one connection stay in order; a REP       *)
(* socket must alternate recv and send, a REQ socket send and recv         *)
(* (anything else throws); a reply to a peer that is gone is dropped; what *)
(* a process had received is lost when it crashes. A message is its        *)
(* number and its text, the text being one of the commands or not.         *)
(***************************************************************************)
EXTENDS Naturals, Sequences

CONSTANTS
  Clients,
  Kind,        \* the kind of each client
  Msg,         \* the text each client sends
  MaxRequests, \* 10 in Client.cpp
  NoRequest,   \* the server holds no request
  NoReply,     \* the client has got no reply
  MaxCrashes,  \* bound: crashes of the server
  MaxBreaks    \* bound: connections that break

ASSUME ServerAssumption ==
  /\ Kind \in [Clients -> {"no_block", "block", "once"}]
  /\ MaxRequests \in Nat \ {0}
  /\ MaxCrashes \in Nat /\ MaxBreaks \in Nat

\* The branches of the server's loop, and what each sends.
Commands == {"RequestBaseInfo", "DisksOverview", "DisksInfo", "DiskIO"}

Answer(text) ==
  CASE text = "RequestBaseInfo" -> "GetInfoByJson"
    [] text = "DisksOverview"   -> "DiskInfoOverview"
    [] text = "DisksInfo"       -> "DisksInfo"
    [] text = "DiskIO"          -> "DisksIO"
    [] OTHER                    -> "invalid request"

\* What a socket carries. peer: whether the connection the request came over is
\* still up.
RequestType == [num : Nat \ {0}, text : {Msg[c] : c \in Clients}, peer : BOOLEAN]
ReplyType   == [num : Nat \ {0}, text : {Answer(Msg[c]) : c \in Clients}]

ASSUME NoRequestAssumption == NoRequest \notin [from : Clients, request : RequestType]

VARIABLES
  server,   \* where the server is
  rep,      \* what its REP socket expects next
  cur,      \* the request it is working on
  inbox,    \* received by the server's socket, per client
  outbox,   \* requests still in the client's socket
  replies,  \* replies on their way to the client
  arrived,  \* replies in the client's socket
  client,   \* where each client is
  num,      \* requests each client has finished, request_num in the code
  req,      \* what the client's REQ socket expects next
  sock,     \* the client's socket: "open", "lingering" or "closed"
  got,      \* the last reply each client got
  executed, \* history: number of the last request executed, per client
  crashes, breaks

serverVars == <<server, rep, cur, executed>>
netVars    == <<inbox, outbox, replies, arrived>>
clientVars == <<client, num, req, sock, got>>
faultVars  == <<crashes, breaks>>
vars       == <<serverVars, netVars, clientVars, faultVars>>

Request(c) == [num |-> num[c] + 1, text |-> Msg[c], peer |-> TRUE]

Init ==
  /\ server = "down" /\ rep = "recv" /\ cur = NoRequest
  /\ inbox = [c \in Clients |-> <<>>]
  /\ outbox = [c \in Clients |-> <<>>]
  /\ replies = [c \in Clients |-> <<>>]
  /\ arrived = [c \in Clients |-> <<>>]
  /\ client = [c \in Clients |-> "send"]
  /\ num = [c \in Clients |-> 0]
  /\ req = [c \in Clients |-> "send"]
  /\ sock = [c \in Clients |-> "open"]
  /\ got = [c \in Clients |-> NoReply]
  /\ executed = [c \in Clients |-> 0]
  /\ crashes = 0 /\ breaks = 0

-----------------------------------------------------------------------------
(* The server.                                                             *)

\* The port is bound before the monitors exist: requests can arrive from now
\* on, and wait.
ServerBind ==
  /\ server = "down"
  /\ server' = "starting" /\ rep' = "recv"
  /\ UNCHANGED <<cur, executed, netVars, clientVars, faultVars>>

\* CreateMonitor and the three calls whose results are logged.
ServerReady ==
  /\ server = "starting"
  /\ server' = "receiving"
  /\ UNCHANGED <<rep, cur, executed, netVars, clientVars, faultVars>>

ServerRecv(c) ==
  /\ server = "receiving" /\ rep = "recv"
  /\ inbox[c] # <<>>
  /\ cur' = [from |-> c, request |-> Head(inbox[c])]
  /\ inbox' = [inbox EXCEPT ![c] = Tail(@)]
  /\ server' = "handling" /\ rep' = "send"
  /\ UNCHANGED <<executed, outbox, replies, arrived, clientVars, faultVars>>

\* Sends a reply to the current request; it is dropped if the peer is gone.
Reply(text) ==
  replies' = IF cur.request.peer /\ sock[cur.from] = "open"
               THEN [replies EXCEPT ![cur.from] =
                       Append(@, [num |-> cur.request.num, text |-> text])]
               ELSE replies

\* A plausible bug: the branch of an unknown text only logs a warning.
ServerReplyNotToInvalid ==
  /\ server = "handling"
  /\ IF cur.request.text \in Commands
       THEN Reply(Answer(cur.request.text)) /\ rep' = "recv"
       ELSE UNCHANGED <<replies, rep>>
  /\ executed' = [executed EXCEPT ![cur.from] = cur.request.num]
  /\ cur' = NoRequest /\ server' = "receiving"
  /\ UNCHANGED <<inbox, outbox, arrived, clientVars, faultVars>>

\* A plausible bug: one of the comparisons with the text is misspelt.
ServerReplyFallThrough ==
  /\ server = "handling" /\ rep = "send"
  /\ Reply(IF cur.request.text = "DiskIO" THEN "invalid request"
                                          ELSE Answer(cur.request.text))
  /\ executed' = [executed EXCEPT ![cur.from] = cur.request.num]
  /\ cur' = NoRequest /\ server' = "receiving" /\ rep' = "recv"
  /\ UNCHANGED <<inbox, outbox, arrived, clientVars, faultVars>>

\* Every branch collects its data and sends one message.
ServerReply ==
  /\ server = "handling" /\ rep = "send"
  /\ Reply(Answer(cur.request.text))
  /\ executed' = [executed EXCEPT ![cur.from] = cur.request.num]
  /\ cur' = NoRequest /\ server' = "receiving" /\ rep' = "recv"
  /\ UNCHANGED <<inbox, outbox, arrived, clientVars, faultVars>>

\* A monitor calls a stdio function on NULL, an exception leaves main or the
\* process is killed. What it had received, and not yet sent out, is lost.
ServerCrash ==
  /\ server # "down"
  /\ crashes < MaxCrashes /\ crashes' = crashes + 1
  /\ server' = "down" /\ cur' = NoRequest
  /\ inbox' = [c \in Clients |-> <<>>]
  /\ replies' = [c \in Clients |-> <<>>]
  /\ UNCHANGED <<rep, executed, outbox, arrived, clientVars, breaks>>

-----------------------------------------------------------------------------
(* The network.                                                            *)

\* The I/O thread of the client's socket, also of one that lingers.
Deliver(c) ==
  /\ server # "down"
  /\ outbox[c] # <<>>
  /\ inbox' = [inbox EXCEPT ![c] = Append(@, Head(outbox[c]))]
  /\ outbox' = [outbox EXCEPT ![c] = Tail(@)]
  /\ UNCHANGED <<replies, arrived, serverVars, clientVars, faultVars>>

DeliverReply(c) ==
  /\ replies[c] # <<>>
  /\ arrived' = [arrived EXCEPT ![c] = Append(@, Head(replies[c]))]
  /\ replies' = [replies EXCEPT ![c] = Tail(@)]
  /\ UNCHANGED <<inbox, outbox, serverVars, clientVars, faultVars>>

\* The connection breaks and is made again by the socket: what was on the way
\* is lost, a request in the server's socket is lost or has nobody to answer to.
ConnectionBreaks(c) ==
  /\ server # "down" /\ sock[c] = "open"
  /\ breaks < MaxBreaks /\ breaks' = breaks + 1
  /\ cur' = IF cur # NoRequest /\ cur.from = c
              THEN [cur EXCEPT !.request.peer = FALSE] ELSE cur
  /\ \E left \in {<<>>, [i \in DOMAIN inbox[c] |-> [inbox[c][i] EXCEPT !.peer = FALSE]]} :
       inbox' = [inbox EXCEPT ![c] = left]
  /\ replies' = [replies EXCEPT ![c] = <<>>]
  /\ UNCHANGED <<server, rep, executed, outbox, arrived, clientVars, crashes>>

-----------------------------------------------------------------------------
(* The clients.                                                            *)

\* The request is handed to the socket, which keeps it until it is connected.
Send(c) ==
  /\ client[c] = "send" /\ req[c] = "send"
  /\ outbox' = [outbox EXCEPT ![c] = Append(@, Request(c))]
  /\ client' = [client EXCEPT ![c] = "wait"]
  /\ req' = [req EXCEPT ![c] = "recv"]
  /\ UNCHANGED <<inbox, replies, arrived, num, sock, got, serverVars, faultVars>>

\* A reply is taken out of the socket.
Recv(c) ==
  /\ client[c] = "wait" /\ req[c] = "recv"
  /\ arrived[c] # <<>>
  /\ got' = [got EXCEPT ![c] = Head(arrived[c])]
  /\ arrived' = [arrived EXCEPT ![c] = Tail(@)]
  /\ num' = [num EXCEPT ![c] = @ + 1]
  /\ req' = [req EXCEPT ![c] = "send"]
  /\ UNCHANGED <<inbox, outbox, replies, serverVars, faultVars>>

\* A plausible bug: the loop is left one iteration too late.
NextIterationOneMore(c, n) ==
  /\ client' = [client EXCEPT ![c] = IF n <= MaxRequests THEN "send" ELSE "done"]
  /\ sock' = [sock EXCEPT ![c] = IF n <= MaxRequests THEN @ ELSE "closed"]

\* The loop condition after n iterations; the end of the function destroys the
\* socket.
NextIteration(c, n) ==
  /\ client' = [client EXCEPT ![c] = IF n < MaxRequests THEN "send" ELSE "done"]
  /\ sock' = [sock EXCEPT ![c] = IF n < MaxRequests THEN @ ELSE "closed"]

NoBlockSend(c) == Kind[c] = "no_block" /\ Send(c)

\* poll reports that the reply is there.
NoBlockRecv(c) ==
  /\ Kind[c] = "no_block"
  /\ Recv(c) /\ NextIteration(c, num[c] + 1)

BlockSend(c) == Kind[c] = "block" /\ Send(c)

BlockRecv(c) ==
  /\ Kind[c] = "block"
  /\ Recv(c)
  /\ client' = [client EXCEPT ![c] = "sleep"] /\ UNCHANGED sock

\* The sleep of one second is over.
BlockWake(c) ==
  /\ client[c] = "sleep"
  /\ NextIteration(c, num[c])
  /\ UNCHANGED <<num, req, got, netVars, serverVars, faultVars>>

OnceSend(c) == Kind[c] = "once" /\ Send(c)

OnceRecv(c) ==
  /\ Kind[c] = "once"
  /\ Recv(c)
  /\ client' = [client EXCEPT ![c] = "done"]
  /\ sock' = [sock EXCEPT ![c] = "closed"]

\* A plausible bug: after the timeout the loop goes on with the same socket.
TimeoutGoesOn(c) ==
  /\ Kind[c] = "no_block" /\ client[c] = "wait"
  /\ arrived[c] = <<>>
  /\ client' = [client EXCEPT ![c] = "send"]
  /\ UNCHANGED <<num, req, sock, got, netVars, serverVars, faultVars>>

\* A plausible bug: after the timeout the request is made again on a new socket.
TimeoutRetries(c) ==
  /\ Kind[c] = "no_block" /\ client[c] = "wait"
  /\ arrived[c] = <<>>
  /\ client' = [client EXCEPT ![c] = "send"]
  /\ req' = [req EXCEPT ![c] = "send"]
  /\ UNCHANGED <<num, sock, got, netVars, serverVars, faultVars>>

\* A plausible bug: the timeout of poll is -1, so it waits for ever.
TimeoutNever(c) == FALSE /\ UNCHANGED vars

\* poll has waited for one second: the socket is closed and the loop is left.
\* A reply on its way comes too late and is dropped.
Timeout(c) ==
  /\ Kind[c] = "no_block" /\ client[c] = "wait"
  /\ arrived[c] = <<>>
  /\ sock' = [sock EXCEPT ![c] = "lingering"]
  /\ client' = [client EXCEPT ![c] = "closing"]
  /\ replies' = [replies EXCEPT ![c] = <<>>]
  /\ UNCHANGED <<inbox, outbox, arrived, num, req, got, serverVars, faultVars>>

\* The destructor of the context waits until the socket has sent what it holds
\* or has lingered for one second; the rest is discarded.
LingerEnds(c) ==
  /\ client[c] = "closing"
  /\ client' = [client EXCEPT ![c] = "done"]
  /\ sock' = [sock EXCEPT ![c] = "closed"]
  /\ outbox' = [outbox EXCEPT ![c] = <<>>]
  /\ UNCHANGED <<inbox, replies, arrived, num, req, got, serverVars, faultVars>>

-----------------------------------------------------------------------------
ServerStep == ServerBind \/ ServerReady \/ (\E c \in Clients : ServerRecv(c))
                \/ ServerReply

NoBlock(c) == NoBlockSend(c) \/ NoBlockRecv(c) \/ Timeout(c) \/ LingerEnds(c)
Block(c)   == BlockSend(c) \/ BlockRecv(c) \/ BlockWake(c)
Once(c)    == OnceSend(c) \/ OnceRecv(c)

ClientStep(c) == NoBlock(c) \/ Block(c) \/ Once(c)

Next ==
  \/ ServerStep \/ ServerCrash
  \/ \E c \in Clients : Deliver(c) \/ DeliverReply(c) \/ ConnectionBreaks(c)
                         \/ ClientStep(c)

Spec == Init /\ [][Next]_vars

(* Only the clients are scheduled fairly: the server may be down or stuck  *)
(* for ever.                                                               *)
ClientFairSpec == Spec /\ \A c \in Clients : WF_vars(ClientStep(c))

(* The server runs and is restarted, the network delivers, and a REP       *)
(* socket takes the requests of its peers in turn, so that none is passed  *)
(* over for ever.                                                          *)
ServerFairness ==
  /\ WF_vars(ServerStep)
  /\ \A c \in Clients : /\ WF_vars(Deliver(c)) /\ WF_vars(DeliverReply(c))
                        /\ SF_vars(ServerRecv(c))

-----------------------------------------------------------------------------
(* Properties.                                                             *)

\* How many requests a client makes.
Limit(c) == IF Kind[c] = "once" THEN 1 ELSE MaxRequests

\* The request of client c the server is working on, if there is one.
Working(c) == IF cur # NoRequest /\ cur.from = c THEN <<cur.request>> ELSE <<>>

\* The messages of client c: its requests, and the replies to them.
InSystem(c) == Len(outbox[c]) + Len(inbox[c]) + Len(Working(c))
                 + Len(replies[c]) + Len(arrived[c])

\* Every variable keeps to its type. Numbers stay within what the client's loop
\* may ask for.
TypeOK ==
  /\ server \in {"down", "starting", "receiving", "handling"}
  /\ rep \in {"recv", "send"}
  /\ cur \in [from : Clients, request : RequestType] \cup {NoRequest}
  /\ inbox \in [Clients -> Seq(RequestType)] /\ outbox \in [Clients -> Seq(RequestType)]
  /\ replies \in [Clients -> Seq(ReplyType)] /\ arrived \in [Clients -> Seq(ReplyType)]
  /\ client \in [Clients -> {"send", "wait", "sleep", "closing", "done"}]
  /\ num \in [Clients -> Nat] /\ executed \in [Clients -> Nat]
  /\ \A c \in Clients : num[c] <= Limit(c) /\ executed[c] <= Limit(c)
  /\ req \in [Clients -> {"send", "recv"}]
  /\ sock \in [Clients -> {"open", "lingering", "closed"}]
  /\ got \in [Clients -> ReplyType \cup {NoReply}]
  /\ crashes \in 0..MaxCrashes /\ breaks \in 0..MaxBreaks

\* No call ever finds its socket in the wrong state (which throws and ends the
\* process): the server receives only after it has answered, a client sends only
\* after it has received.
SocketCallsInOrder ==
  /\ server = "receiving" => rep = "recv"
  /\ server = "handling" => rep = "send"
  /\ \A c \in Clients : client[c] = "send" => req[c] = "send"

\* A client has at most one message in the system: its request, or the reply.
OneOutstanding ==
  \A c \in Clients :
    /\ InSystem(c) <= 1
    /\ client[c] \in {"send", "sleep"} => InSystem(c) = 0

\* A reply, on its way or delivered, is the one of the branch of the client's
\* text, and answers the request the client is waiting for, or has last made.
RepliesMatch(c) ==
  /\ \A q \in {replies[c], arrived[c]} : \A i \in DOMAIN q :
       q[i] = [num |-> num[c] + 1, text |-> Answer(Msg[c])]
  /\ got[c] # NoReply => got[c] = [num |-> num[c], text |-> Answer(Msg[c])]

ReplyAnswersRequest == \A c \in Clients : RepliesMatch(c)

\* A client waits for a message that is nowhere only if the server has crashed
\* or the connection has broken: the programs themselves lose nothing.
NothingLost(c) ==
  crashes = 0 /\ breaks = 0 /\ client[c] = "wait" => InSystem(c) = 1

LostOnlyByFailure == \A c \in Clients : NothingLost(c)

(* The parts of the inductive invariant behind these properties.           *)

\* The server has a request exactly while it handles it; its socket agrees.
ServerPlaces ==
  /\ server \in {"starting", "receiving"} => rep = "recv"
  /\ server = "handling" => rep = "send"
  /\ server = "handling" <=> cur # NoRequest

\* A client's REQ socket follows its loop, which stops at the limit.
ClientPlaces(c) ==
  /\ client[c] \in {"send", "sleep"} => req[c] = "send"
  /\ client[c] \in {"wait", "closing"} => req[c] = "recv"
  /\ client[c] \in {"send", "wait", "sleep"} => sock[c] = "open"
  /\ client[c] = "sleep" => Kind[c] = "block"
  /\ client[c] = "send" \/ req[c] = "recv" => num[c] < Limit(c)

\* There is no message of a client whose socket may send.
OneMessage(c) == InSystem(c) <= 1 /\ (req[c] = "send" => InSystem(c) = 0)

\* Every request in the system is the one its client made last, and has a peer
\* unless a connection broke.
RequestIsLast(c) ==
  \A q \in {outbox[c], inbox[c], Working(c)} : \A i \in DOMAIN q :
    q[i].num = num[c] + 1 /\ q[i].text = Msg[c] /\ (breaks = 0 => q[i].peer)

\* A request in the system has not been executed, a reply's has.
ExecutedOnce(c) ==
  /\ executed[c] \in {num[c], num[c] + 1}
  /\ executed[c] = num[c] + 1 => req[c] = "recv"
  /\ outbox[c] # <<>> \/ inbox[c] # <<>> \/ Working(c) # <<>> => executed[c] = num[c]
  /\ replies[c] # <<>> \/ arrived[c] # <<>> => executed[c] = num[c] + 1

ClientInv(c) ==
  /\ ClientPlaces(c) /\ OneMessage(c) /\ RequestIsLast(c) /\ ExecutedOnce(c)
  /\ RepliesMatch(c) /\ NothingLost(c)

IInv == TypeOK /\ ServerPlaces /\ \A c \in Clients : ClientInv(c)

\* The exchange implements the abstract one: at most one execution per request.
Calls == INSTANCE AtMostOnceCall WITH
           asked    <- [c \in Clients |-> IF req[c] = "recv" THEN num[c] + 1 ELSE num[c]],
           answered <- num,
           gone     <- {c \in Clients : req[c] = "recv" /\ client[c] # "wait"}

\* See Calls: every step of server, network and clients, crashes included, is a
\* step of AtMostOnceCall or changes nothing there.
ImplementsCalls == Calls!Spec

\* no_block_socket returns even if the server is never started, crashes or never
\* answers.
NoBlockReturns ==
  \A c \in Clients : Kind[c] = "no_block" => <>(client[c] = "done")

\* If server and network run and nothing crashes or breaks, every client ends,
\* whether it asked before or after the server was started, and the blocking ones
\* have got all their replies.
AllServed ==
  ServerFairness =>
    \A c \in Clients :
      <>(\/ crashes + breaks > 0
         \/ client[c] = "done" /\ (Kind[c] # "no_block" => num[c] = Limit(c)))
=============================================================================
