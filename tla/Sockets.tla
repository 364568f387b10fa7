------------------------------ MODULE Sockets ------------------------------
(***************************************************************************)
(* The classes of zmq.hpp that own what libzmq gives out: context_t,       *)
(* socket_t and monitor_t, with the reference socket_ref. One thread owns  *)
(* the contexts, another one the sockets and their monitors; I/O threads   *)
(* of libzmq report events. An exception ends all objects of its thread.   *)
(* Objects that do not exist, and those moved from, hold Null.             *)
(***************************************************************************)
EXTENDS Integers, Sequences, FiniteSets

CONSTANTS
  ContextVars, SocketVars, Monitors,  \* context_t, socket_t, monitor_t objects
  Contexts, Handles,                  \* what zmq_ctx_new and zmq_socket return
  Null,        \* ZMQ_NULLPTR
  Nobody,      \* the peer of a monitored socket that none is connected to
  MaxEvents,   \* bound: events that wait for a monitor
  MaxSignals,  \* bound: calls of zmq_ctx_term that signals interrupt in a close
  Lingers      \* how long closed sockets may keep what is unsent, of Lingering

ASSUME SocketsAssumption ==
  /\ Null \notin Handles \cup Contexts
  /\ Nobody \notin Handles \cup {Null}
  /\ SocketVars \cap Monitors = {}

VARIABLES
  ctx,      \* ptr of each context_t
  life,     \* libzmq: "none", "open" or "stopped", of each context
  closing,  \* the context_t that is being closed, and what it is assigned
  sock,     \* _handle and ctxptr of each socket_t
  mon,      \* _socket and _monitor_socket of each monitor_t
  lib,      \* libzmq's sockets: their context, their monitor, what they may receive
  call,     \* the thread of the sockets
  left,     \* history: monitored sockets that init has left for another one
  signals,  \* interrupts of the close so far
  unsent    \* libzmq: what closed sockets have not sent yet: context, and how long

ownerVars == <<ctx, life, closing, signals>>
contextVars == <<ownerVars, unsent>>
socketVars == <<sock, mon, lib, call, left>>
vars == <<contextVars, socketVars>>

\* A time set with sockopt::linger; without it the messages wait until they are sent.
Lingering == {"timed", "forever"}

ASSUME LingersAssumption == Lingers \subseteq Lingering

Closed == [handle |-> Null, ctxptr |-> Null]
Unused == [socket |-> Null, own |-> Closed]
Runs == [at |-> "runs"]
Unwinds == [at |-> "unwinds"]

Init ==
  /\ ctx = [v \in ContextVars |-> Null] /\ life = [k \in Contexts |-> "none"]
  /\ closing = Null /\ signals = 0 /\ unsent = {}
  /\ sock = [s \in SocketVars |-> Closed]
  /\ mon = [m \in Monitors |-> Unused]
  /\ lib = [home  |-> [h \in Handles |-> Null],
            watch |-> [h \in Handles |-> Null],
            inbox |-> [h \in Handles |-> <<>>]]
  /\ call = Runs /\ left = {}

-----------------------------------------------------------------------------
(* libzmq.                                                                 *)

Stopped(k) == k \notin {c \in Contexts : life[c] = "open"}

\* zmq_socket returns one of these.
FreeHandles == {h \in Handles : lib.home[h] = Null}

\* An event is two frames; they become visible together.
Frames(e) == <<[event |-> e], [address |-> e]>>

\* The end of monitoring is an event too.
Stop(z, h) ==
  LET y == IF z.watch[h] \in Handles
             THEN [z EXCEPT !.inbox[z.watch[h]] = @ \o Frames("stopped")]
             ELSE z
  IN  [y EXCEPT !.watch[h] = Null]

\* zmq_socket_monitor(h, NULL, 0), which fails when the context has ended
StopMonitor(z, h) == IF h = Null \/ Stopped(z.home[h]) THEN z ELSE Stop(z, h)

\* zmq_close
Close(z, h) ==
  IF h = Null THEN z
  ELSE LET y == Stop(z, h)
       IN  [home  |-> [y.home EXCEPT ![h] = Null],
            watch |-> [g \in Handles |-> IF y.watch[g] = h THEN Nobody ELSE y.watch[g]],
            inbox |-> [y.inbox EXCEPT ![h] = <<>>]]

\* Bounds: a monitor is in use only while there is one context, as it touches no
\* other, and nothing unsent, which it does not see.
MonitorsIdle == \A m \in Monitors : mon[m] = Unused
OneContext == Cardinality({k \in Contexts : life[k] # "none"}) = 1

\* zmq_close of a socket that may have sent: nothing, or something with a time or
\* without, is left for its context to send. A monitor's own socket sends nothing.
\* Bound: one socket's messages at a time.
LeaveUnsent(h) ==
  \/ UNCHANGED unsent
  \/ h # Null /\ MonitorsIdle /\ unsent = {} /\ \E l \in Lingers : unsent' = {<<lib.home[h], l>>}

\* It is sent, or its time is over.
NoLongerUnsent(k, l) ==
  /\ <<k, l>> \in unsent /\ unsent' = unsent \ {<<k, l>>}
  /\ UNCHANGED <<ownerVars, socketVars>>

\* Something happens to a monitored socket.
LibEvent(h) ==
  /\ lib.watch[h] \in Handles /\ Len(lib.inbox[lib.watch[h]]) < 2 * MaxEvents
  /\ \E e \in {"connected", "closed"} :
       lib' = [lib EXCEPT !.inbox[lib.watch[h]] = @ \o Frames(e)]
  /\ UNCHANGED <<contextVars, sock, mon, call, left>>

-----------------------------------------------------------------------------
(* context_t                                                               *)

NewContext(v) ==
  /\ closing = Null /\ ctx[v] = Null /\ MonitorsIdle
  /\ \E k \in Contexts :
       /\ life[k] = "none" /\ life' = [life EXCEPT ![k] = "open"]
       /\ ctx' = [ctx EXCEPT ![v] = k]
  /\ UNCHANGED <<closing, signals, unsent, socketVars>>

SwapContexts(v, w) ==
  /\ closing = Null /\ ctx' = [ctx EXCEPT ![v] = ctx[w], ![w] = ctx[v]]
  /\ UNCHANGED <<life, closing, signals, unsent, socketVars>>

Shutdown(v) ==
  /\ closing = Null /\ ctx[v] # Null
  /\ life' = [life EXCEPT ![ctx[v]] = "stopped"]
  /\ UNCHANGED <<ctx, closing, signals, unsent, socketVars>>

\* close and the destructor (w = v), or the assignment v = std::move(w) that
\* closes v first: zmq_ctx_term is called, every other call of the context fails
\* from now on. If v holds none, w is moved at once; so does the constructor.
CloseContext(v, w) ==
  /\ closing = Null
  /\ IF ctx[v] = Null
       THEN ctx' = [ctx EXCEPT ![v] = ctx[w], ![w] = Null] /\ UNCHANGED <<life, closing>>
       ELSE /\ closing' = [v |-> v, w |-> w] /\ life' = [life EXCEPT ![ctx[v]] = "stopped"]
            /\ UNCHANGED ctx
  /\ UNCHANGED <<signals, unsent, socketVars>>

\* After zmq_ctx_term: the context_t drops its pointer, and takes the other one.
Dropped ==
  /\ ctx' = [ctx EXCEPT ![closing.w] = Null,
                        ![closing.v] = IF closing.w = closing.v THEN Null ELSE ctx[closing.w]]
  /\ closing' = Null /\ signals' = 0

\* What zmq_ctx_term waits for.
Holding(k) == (\E h \in Handles : lib.home[h] = k) \/ \E l \in Lingering : <<k, l>> \in unsent

\* zmq_ctx_term returns when the last socket of the context is closed, and what the
\* closed ones have left is sent or out of time.
Terminated ==
  /\ closing # Null /\ ~Holding(ctx[closing.v])
  /\ life' = [life EXCEPT ![ctx[closing.v]] = "none"]
  /\ Dropped
  /\ UNCHANGED <<unsent, socketVars>>

\* A plausible bug: an interrupted zmq_ctx_term is not called again.
InterruptedGivesUp ==
  /\ closing # Null /\ signals < MaxSignals
  /\ Dropped
  /\ UNCHANGED <<life, unsent, socketVars>>

\* zmq_ctx_term fails with EINTR: close calls it again.
Interrupted ==
  /\ closing # Null /\ signals < MaxSignals /\ signals' = signals + 1
  /\ UNCHANGED <<ctx, life, closing, unsent, socketVars>>

-----------------------------------------------------------------------------
(* socket_t and socket_ref                                                 *)

Referenced(h) == \E m \in Monitors : mon[m].socket = h

\* Contract: a socket is closed when no socket_ref refers to it (zmq.hpp:2074).
MayClose(s) == sock[s] = Closed \/ ~Referenced(sock[s].handle)

\* s = socket_t(ctx[v], type): the constructor throws if the context has ended or
\* was moved from, and with no handle left; otherwise s is closed, then swapped.
NewSocket(s, v) ==
  /\ call = Runs /\ MayClose(s)
  /\ \/ /\ Stopped(ctx[v]) \/ FreeHandles = {}
        /\ call' = Unwinds /\ UNCHANGED <<sock, lib, left, unsent>>
     \/ /\ ~Stopped(ctx[v])
        /\ \E h \in FreeHandles :
             /\ lib' = Close([lib EXCEPT !.home[h] = ctx[v]], sock[s].handle)
             /\ sock' = [sock EXCEPT ![s] = [handle |-> h, ctxptr |-> ctx[v]]]
        /\ left' = left \ {sock[s].handle} /\ LeaveUnsent(sock[s].handle)
        /\ UNCHANGED call
  /\ UNCHANGED <<ownerVars, mon>>

\* A plausible bug: the assigned-to socket is not closed.
MoveSocketLeaking(s, t) ==
  /\ call = Runs /\ s # t /\ MayClose(s)
  /\ sock' = [sock EXCEPT ![s] = sock[t], ![t] = Closed]
  /\ UNCHANGED <<contextVars, lib, mon, call, left>>

\* The move constructor, and s = std::move(t)
MoveSocket(s, t) ==
  /\ call = Runs /\ s # t /\ MayClose(s)
  /\ lib' = Close(lib, sock[s].handle) /\ left' = left \ {sock[s].handle}
  /\ LeaveUnsent(sock[s].handle)
  /\ sock' = [sock EXCEPT ![s] = sock[t], ![t] = Closed]
  /\ UNCHANGED <<ownerVars, mon, call>>

SwapSockets(s, t) ==
  /\ call = Runs /\ sock' = [sock EXCEPT ![s] = sock[t], ![t] = sock[s]]
  /\ UNCHANGED <<contextVars, lib, mon, call, left>>

\* close and the destructor
CloseSocket(s) ==
  /\ call.at \in {"runs", "unwinds"} /\ sock[s] # Closed /\ MayClose(s)
  /\ lib' = Close(lib, sock[s].handle) /\ left' = left \ {sock[s].handle}
  /\ LeaveUnsent(sock[s].handle)
  /\ sock' = [sock EXCEPT ![s] = Closed]
  /\ UNCHANGED <<ownerVars, mon, call>>

\* bind, unbind, connect, disconnect, set, get, send, recv and poll: each returns,
\* or fails and throws. In an ended context each throws, those that block too.
UseThrows(s) ==
  /\ call = Runs /\ sock[s] # Closed /\ call' = Unwinds
  /\ UNCHANGED <<contextVars, sock, mon, lib, left>>

\* The exception has been handled where no object of the thread is left.
Handled ==
  /\ call = Unwinds /\ \A s \in SocketVars : sock[s] = Closed
  /\ \A m \in Monitors : mon[m] = Unused
  /\ call' = Runs
  /\ UNCHANGED <<contextVars, sock, mon, lib, left>>

-----------------------------------------------------------------------------
(* monitor_t                                                               *)

\* init: the socket is monitored; the object refers to it; a socket of the same
\* context takes the place of the old one; it is connected. Each call may throw.
InitMonitor(m, s) ==
  /\ call = Runs /\ sock[s] # Closed /\ OneContext /\ unsent = {}
  /\ LET h == sock[s].handle
         k == sock[s].ctxptr
         monitored == [Stop(lib, h) EXCEPT !.watch[h] = Nobody]
         was == mon[m].socket
     IN  \/ call' = Unwinds /\ UNCHANGED <<mon, lib, left>>
         \/ /\ ~Stopped(k)
            /\ left' = IF was \notin {Null, h} /\ lib.watch[was] # Null THEN (left \ {h}) \cup {was} ELSE left \ {h}
            /\ \/ /\ mon' = [mon EXCEPT ![m].socket = h]
                  /\ lib' = monitored /\ call' = Unwinds
               \/ \E p \in FreeHandles :
                    LET opened == Close([monitored EXCEPT !.home[p] = k], mon[m].own.handle)
                    IN  /\ mon' = [mon EXCEPT ![m] = [socket |-> h, own |-> [handle |-> p, ctxptr |-> k]]]
                        /\ \/ lib' = opened /\ call' = Unwinds
                           \/ lib' = [opened EXCEPT !.watch[h] = p] /\ UNCHANGED call
  /\ UNCHANGED <<contextVars, sock>>

Abort(m) ==
  /\ call = Runs /\ mon[m].socket # Null
  /\ lib' = StopMonitor(lib, mon[m].socket)
  /\ mon' = [mon EXCEPT ![m].socket = Null]
  /\ UNCHANGED <<contextVars, sock, call, left>>

\* close
CloseMonitor(z, m) == Close(StopMonitor(z, mon[m].socket), mon[m].own.handle)

\* The destructor
DestroyMonitor(m) ==
  /\ call.at \in {"runs", "unwinds"} /\ mon[m] # Unused
  /\ lib' = CloseMonitor(lib, m)
  /\ mon' = [mon EXCEPT ![m] = Unused]
  /\ UNCHANGED <<contextVars, sock, call, left>>

\* A plausible bug: only the socket of the assigned-to monitor is closed.
MoveMonitorLeaving(m, n) ==
  /\ call = Runs /\ m # n
  /\ lib' = Close(lib, mon[m].own.handle)
  /\ mon' = [mon EXCEPT ![m] = mon[n], ![n] = Unused]
  /\ UNCHANGED <<contextVars, sock, call, left>>

\* The move constructor, and m = std::move(n)
MoveMonitor(m, n) ==
  /\ call = Runs /\ m # n
  /\ lib' = CloseMonitor(lib, m)
  /\ mon' = [mon EXCEPT ![m] = mon[n], ![n] = Unused]
  /\ UNCHANGED <<contextVars, sock, call, left>>

\* A plausible bug: the end of monitoring is noticed before the address is read.
ReadEventEarly(m) ==
  /\ call = Runs /\ mon[m].own # Closed /\ ~Stopped(mon[m].own.ctxptr)
  /\ LET p == mon[m].own.handle
     IN  /\ lib.inbox[p] # <<>> /\ lib' = [lib EXCEPT !.inbox[p] = Tail(@)]
         /\ call' = IF Head(lib.inbox[p]) = Frames("stopped")[1]
                      THEN Runs
                      ELSE [at |-> "check", m |-> m, event |-> Head(lib.inbox[p])]
  /\ UNCHANGED <<contextVars, sock, mon, left>>

\* check_event polls, and reads the first frame; monitor calls it for ever. There
\* is nothing to do without an event.
ReadEvent(m) ==
  /\ call = Runs /\ mon[m].own # Closed /\ ~Stopped(mon[m].own.ctxptr)
  /\ LET p == mon[m].own.handle
     IN  /\ lib.inbox[p] # <<>> /\ lib' = [lib EXCEPT !.inbox[p] = Tail(@)]
         /\ call' = [at |-> "check", m |-> m, event |-> Head(lib.inbox[p])]
  /\ UNCHANGED <<contextVars, sock, mon, left>>

\* poll throws whatever zmq_poll fails with, as it does when a signal interrupts
\* it or the context has ended.
PollThrows(m) ==
  /\ call = Runs /\ mon[m].own # Closed /\ call' = Unwinds
  /\ UNCHANGED <<contextVars, sock, mon, lib, left>>

\* check_event reads the second frame and calls on_event_..., except at the end of
\* monitoring. If the context ends between the frames it returns false.
ReadAddress ==
  /\ call.at = "check"
  /\ LET p == mon[call.m].own.handle
         last == call.event = Frames("stopped")[1]
     IN  IF Stopped(mon[call.m].own.ctxptr) THEN call' = Runs /\ UNCHANGED lib
         ELSE /\ lib' = [lib EXCEPT !.inbox[p] = Tail(@)]
              /\ call' = IF last THEN Runs
                         ELSE [at |-> "callback", told |-> <<call.event, Head(lib.inbox[p])>>]
  /\ UNCHANGED <<contextVars, sock, mon, left>>

\* The callback returns, and check_event returns true.
CallbackReturns ==
  /\ call.at = "callback" /\ call' = Runs
  /\ UNCHANGED <<contextVars, sock, mon, lib, left>>

-----------------------------------------------------------------------------
SocketStep ==
  \/ \E s \in SocketVars :
       \/ CloseSocket(s) \/ UseThrows(s)
       \/ \E v \in ContextVars : NewSocket(s, v)
       \/ \E t \in SocketVars : MoveSocket(s, t) \/ SwapSockets(s, t)
       \/ \E m \in Monitors : InitMonitor(m, s)
  \/ \E m \in Monitors :
       \/ Abort(m) \/ DestroyMonitor(m) \/ ReadEvent(m) \/ PollThrows(m)
       \/ \E n \in Monitors : MoveMonitor(m, n)
  \/ ReadAddress \/ CallbackReturns \/ Handled

ContextStep ==
  \/ \E v \in ContextVars : NewContext(v) \/ Shutdown(v)
  \/ \E v, w \in ContextVars : CloseContext(v, w) \/ SwapContexts(v, w)
  \/ Terminated \/ Interrupted

Next ==
  \/ SocketStep \/ ContextStep
  \/ \E h \in Handles : LibEvent(h)
  \/ \E k \in Contexts, l \in Lingering : NoLongerUnsent(k, l)

\* A call in an ended context returns with an error, those that wait too.
FailsInEndedContext ==
  \/ \E s \in SocketVars : UseThrows(s) /\ Stopped(sock[s].ctxptr)
  \/ \E m \in Monitors : PollThrows(m) /\ Stopped(mon[m].own.ctxptr)

\* The thread uses its sockets, its exceptions unwind it and check_event reads the
\* frame that is there; the time of what lingers passes; zmq_ctx_term returns when
\* it can. That anything is sent is not assumed: its peer may never be there.
Fairness ==
  /\ WF_vars(FailsInEndedContext) /\ WF_vars(call # Runs /\ SocketStep)
  /\ \A k \in Contexts : WF_vars(NoLongerUnsent(k, "timed"))
  /\ WF_vars(Terminated)

Spec == Init /\ [][Next]_vars /\ Fairness

-----------------------------------------------------------------------------
(* Properties.                                                             *)

Owned == [o \in SocketVars \cup Monitors |-> IF o \in SocketVars THEN sock[o] ELSE mon[o].own]

\* Through moves, swaps, assignments and constructors that throw, every open socket
\* belongs to exactly one socket_t, which also knows its context; none is leaked
\* and none is closed twice.
HandlesOwned ==
  /\ \A h \in Handles : lib.home[h] # Null => \E o \in DOMAIN Owned : Owned[o] = [handle |-> h, ctxptr |-> lib.home[h]]
  /\ \A o \in DOMAIN Owned : Owned[o] = Closed \/ lib.home[Owned[o].handle] # Null
  /\ \A o, q \in DOMAIN Owned : Owned[o].handle = Owned[q].handle => o = q \/ Owned[o] = Closed

\* Every context that is not terminated belongs to exactly one context_t, although
\* a signal may interrupt its termination.
ContextsTracked ==
  \A k \in Contexts : Cardinality({v \in ContextVars : ctx[v] = k}) = IF life[k] = "none" THEN 0 ELSE 1

\* Monitoring a socket costs libzmq work for every event; unless the context ends,
\* it goes on only while a monitor_t can stop it. The exception: an init with
\* another socket forgets the one before.
MonitoringHasAnEnd ==
  \A h \in Handles :
    lib.watch[h] # Null => Referenced(h) \/ h \in left \/ Stopped(lib.home[h])

\* A callback gets the address that belongs to its event: whatever ends a
\* check_event, and whoever else monitors the socket, the next one starts at an event.
EventsWhole ==
  /\ call.at = "callback" => call.told \in {Frames(e) : e \in {"connected", "closed"}}
  /\ \A m \in Monitors :
       LET p == mon[m].own.handle
       IN  p # Null /\ ~Stopped(lib.home[p]) /\ lib.inbox[p] # <<>> =>
             DOMAIN Head(lib.inbox[p]) = IF call.at = "check" /\ call.m = m THEN {"address"} ELSE {"event"}

\* close of a context_t returns, whatever the other thread owns: its calls fail,
\* and it closes its sockets. The exception: something is left by a socket without
\* a linger time, and may never be sent. Client.cpp:20 sets one for this reason.
CloseReturns ==
  closing # Null ~> closing = Null \/ <<ctx[closing.v], "forever">> \in unsent


-----------------------------------------------------------------------------
(* The inductive invariant of the proofs (SocketsProofs).                  *)

SocketType == [handle : Handles \cup {Null}, ctxptr : Contexts \cup {Null}]
Events == {"connected", "closed", "stopped"}
EventFrames == [event : Events]
LibType ==
  [home  : [Handles -> Contexts \cup {Null}],
   watch : [Handles -> Handles \cup {Null, Nobody}],
   inbox : [Handles -> Seq(EventFrames \cup [address : Events])]]

\* The objects of the thread of the sockets, and its call.
Places ==
  /\ sock \in [SocketVars -> SocketType]
  /\ mon \in [Monitors -> [socket : Handles \cup {Null}, own : SocketType]]
  /\ left \subseteq Handles
  /\ \/ call \in {Runs, Unwinds}
     \/ call \in [at : {"check"}, m : Monitors, event : EventFrames]
     \/ call \in [at : {"callback"}, told : {Frames(e) : e \in {"connected", "closed"}}]
  /\ call.at = "check" => mon[call.m].own # Closed

\* A context_t holds a context that is not terminated, and no other one does; the
\* one that is being closed is still held.
ContextsHeld ==
  /\ ctx \in [ContextVars -> Contexts \cup {Null}]
  /\ life \in [Contexts -> {"none", "open", "stopped"}]
  /\ \A k \in Contexts : life[k] # "none" <=> \E v \in ContextVars : ctx[v] = k
  /\ \A v, w \in ContextVars : ctx[v] = ctx[w] => v = w \/ ctx[v] = Null
  /\ closing # Null => /\ closing \in [v : ContextVars, w : ContextVars]
                       /\ ctx[closing.v] # Null

\* The objects o, of which ow is what they hold, own the open sockets.
Owns(ow, home) ==
  /\ ow \in [SocketVars \cup Monitors -> SocketType]
  /\ \A h \in Handles : home[h] # Null => \E o \in DOMAIN ow : ow[o].handle = h
  /\ \A o \in DOMAIN ow :
       \/ ow[o] = Closed
       \/ ow[o].handle # Null /\ home[ow[o].handle] # Null /\ ow[o].ctxptr = home[ow[o].handle]
  /\ \A o, q \in DOMAIN ow : ow[o].handle = ow[q].handle => o = q \/ ow[o] = Closed

\* A handle that is not open is not monitored, and nothing waits for it; a monitor
\* that receives events is open.
LibSound(z) ==
  /\ z \in LibType
  /\ \A h \in Handles :
       /\ z.home[h] = Null => z.watch[h] = Null /\ z.inbox[h] = <<>>
       /\ z.watch[h] \in Handles => z.home[z.watch[h]] # Null
       /\ z.home[h] # Null => life[z.home[h]] # "none"

\* Events follow one another, each of two frames.
Whole(frames) ==
  /\ Len(frames) % 2 = 0
  /\ \A i \in 1..Len(frames) :
       i % 2 = 1 => \E e \in Events : <<frames[i], frames[i + 1]>> = Frames(e)

Checking(h) == call.at = "check" /\ mon[call.m].own.handle = h

\* So it is with what waits for h while its context lives; the first frame of the
\* event a check_event is in has been read.
WholeEvents(h) ==
  ~Stopped(lib.home[h]) =>
    IF Checking(h)
      THEN /\ lib.inbox[h] # <<>> /\ Whole(Tail(lib.inbox[h]))
           /\ \E e \in Events : <<call.event, Head(lib.inbox[h])>> = Frames(e)
      ELSE Whole(lib.inbox[h])

IInv ==
  /\ Places /\ ContextsHeld /\ Owns(Owned, lib.home) /\ LibSound(lib)
  /\ MonitoringHasAnEnd
  /\ \A h \in Handles : WholeEvents(h)
=============================================================================
