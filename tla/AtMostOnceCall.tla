--------------------------- MODULE AtMostOnceCall ---------------------------
(***************************************************************************)
(* What the request/reply exchange of the monitor server promises to its   *)
(* clients, whatever crashes or is lost: a client has one request          *)
(* outstanding at a time, a request is executed at most once and only      *)
(* after it was made, a client gets the answer of the request it is        *)
(* waiting for and only if that was executed, and a client that gave up    *)
(* makes no further request. Nothing is promised about a request whose     *)
(* client gave up: it may still be executed.                               *)
(***************************************************************************)
EXTENDS Naturals

CONSTANTS Clients

VARIABLES
  asked,     \* requests each client has made
  executed,  \* the last of them that the server has executed, 0 if none
  answered,  \* requests each client has got the answer of
  gone       \* clients that gave up waiting

vars == <<asked, executed, answered, gone>>

Init ==
  /\ asked = [c \in Clients |-> 0]
  /\ executed = [c \in Clients |-> 0]
  /\ answered = [c \in Clients |-> 0]
  /\ gone = {}

Ask(c) ==
  /\ c \notin gone
  /\ asked[c] = answered[c]
  /\ asked' = [asked EXCEPT ![c] = @ + 1]
  /\ UNCHANGED <<executed, answered, gone>>

Execute(c) ==
  /\ executed[c] < asked[c]
  /\ executed' = [executed EXCEPT ![c] = asked[c]]
  /\ UNCHANGED <<asked, answered, gone>>

GetAnswer(c) ==
  /\ c \notin gone
  /\ answered[c] < asked[c] /\ executed[c] = asked[c]
  /\ answered' = [answered EXCEPT ![c] = asked[c]]
  /\ UNCHANGED <<asked, executed, gone>>

GiveUp(c) ==
  /\ answered[c] < asked[c]
  /\ gone' = gone \cup {c}
  /\ UNCHANGED <<asked, executed, answered>>

Next == \E c \in Clients : Ask(c) \/ Execute(c) \/ GetAnswer(c) \/ GiveUp(c)

Spec == Init /\ [][Next]_vars
=============================================================================
