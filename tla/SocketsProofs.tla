---------------------------- MODULE SocketsProofs ----------------------------
(***************************************************************************)
(* Proofs about the owners of contexts, sockets and monitors, for any      *)
(* numbers of objects, contexts and handles.                               *)
(*                                                                         *)
(* The properties count owners. IInv says instead who owns what, object by *)
(* object: no two own the same handle, and every open handle has an owner, *)
(* which knows its context (Owns, ContextsHeld); libzmq sends events to    *)
(* open handles only, and nothing waits for a closed one (LibSound); the   *)
(* frames that wait are whole events, counted from where a check_event is  *)
(* (WholeEvents).                                                          *)
(***************************************************************************)
EXTENDS Sockets, FiniteSetTheorems, SequenceTheorems, TLAPS

Objects == SocketVars \cup Monitors
Frame == EventFrames \cup [address : Events]

-----------------------------------------------------------------------------
(* Ownership: what closing, opening and swapping do to it.                 *)

\* The handle of one object is closed.
LEMMA OwnsClosed ==
  ASSUME NEW ow, NEW home \in [Handles -> Contexts \cup {Null}], Owns(ow, home),
         NEW o \in Objects, ow[o].handle # Null
  PROVE  Owns([ow EXCEPT ![o] = Closed], [home EXCEPT ![ow[o].handle] = Null])
  <1> DEFINE ow2 == [ow EXCEPT ![o] = Closed]
             home2 == [home EXCEPT ![ow[o].handle] = Null]
  <1>1. /\ ow \in [Objects -> SocketType] /\ Closed \in SocketType /\ Closed.handle = Null
        /\ ow2 \in [Objects -> SocketType] /\ DOMAIN ow = Objects /\ DOMAIN ow2 = Objects
        /\ ow[o].handle \in Handles /\ Null \notin Handles
    BY SocketsAssumption DEF Owns, Closed, SocketType, Objects
  <1>2. ASSUME NEW h \in Handles, home2[h] # Null
        PROVE  \E q \in Objects : ow2[q].handle = h
    <2>1. h # ow[o].handle /\ home[h] # Null
      BY <1>1, <1>2
    <2>2. PICK q \in Objects : ow[q].handle = h
      BY <1>1, <2>1 DEF Owns
    <2> QED BY <1>1, <2>1, <2>2
  <1>3. ASSUME NEW q \in Objects, ow2[q] # Closed
        PROVE  /\ ow2[q].handle # Null /\ home2[ow2[q].handle] # Null
               /\ ow2[q].ctxptr = home2[ow2[q].handle]
    <2>1. q # o /\ ow2[q] = ow[q]
      BY <1>1, <1>3
    <2>2. /\ ow[q].handle # Null /\ home[ow[q].handle] # Null
          /\ ow[q].ctxptr = home[ow[q].handle]
      BY <1>1, <1>3, <2>1 DEF Owns
    <2>3. ow[q].handle # ow[o].handle
      BY <1>1, <1>3, <2>1 DEF Owns
    <2>4. ow[q].handle \in Handles
      BY <1>1, <2>2 DEF SocketType
    <2> QED BY <2>1, <2>2, <2>3, <2>4
  <1>4. ASSUME NEW p \in Objects, NEW q \in Objects, ow2[p].handle = ow2[q].handle, p # q
        PROVE  ow2[p] = Closed
    <2>1. CASE p = o
      BY <1>1, <2>1
    <2>2. CASE p # o /\ q = o
      <3>1. ow[p].handle = Null
        BY <1>1, <1>4, <2>2
      <3> QED BY <1>1, <3>1, <2>2 DEF Owns
    <2>3. CASE p # o /\ q # o
      BY <1>1, <1>4, <2>3 DEF Owns
    <2> QED BY <2>1, <2>2, <2>3
  <1> HIDE DEF ow2, home2
  <1> QED BY <1>1, <1>2, <1>3, <1>4 DEF Owns, Objects, ow2, home2

\* A new handle is given to an object that holds none.
LEMMA OwnsOpened ==
  ASSUME NEW ow, NEW home \in [Handles -> Contexts \cup {Null}], Owns(ow, home),
         NEW o \in Objects, ow[o] = Closed,
         NEW h \in Handles, home[h] = Null, NEW k \in Contexts
  PROVE  Owns([ow EXCEPT ![o] = [handle |-> h, ctxptr |-> k]], [home EXCEPT ![h] = k])
  <1> DEFINE new == [handle |-> h, ctxptr |-> k]
             ow2 == [ow EXCEPT ![o] = new]
             home2 == [home EXCEPT ![h] = k]
  <1>1. /\ ow \in [Objects -> SocketType] /\ new \in SocketType /\ new.handle = h /\ new.ctxptr = k
        /\ ow2 \in [Objects -> SocketType] /\ DOMAIN ow = Objects /\ DOMAIN ow2 = Objects
        /\ h # Null /\ k # Null /\ Closed.handle = Null
    BY SocketsAssumption DEF Owns, Closed, SocketType, Objects
  <1>2. \A q \in Objects : ow[q].handle # h
    BY <1>1 DEF Owns
  <1>3. ASSUME NEW g \in Handles, home2[g] # Null
        PROVE  \E q \in Objects : ow2[q].handle = g
    <2>1. CASE g = h
      BY <1>1, <2>1
    <2>2. CASE g # h
      <3>1. PICK q \in Objects : ow[q].handle = g
        BY <1>1, <1>3, <2>2 DEF Owns
      <3> QED BY <1>1, <3>1, SocketsAssumption
    <2> QED BY <2>1, <2>2
  <1>4. ASSUME NEW q \in Objects, ow2[q] # Closed
        PROVE  /\ ow2[q].handle # Null /\ home2[ow2[q].handle] # Null
               /\ ow2[q].ctxptr = home2[ow2[q].handle]
    <2>1. CASE q = o
      BY <1>1, <2>1
    <2>2. CASE q # o
      <3>1. ow2[q] = ow[q]
        BY <1>1, <2>2
      <3>2. /\ ow[q].handle # Null /\ home[ow[q].handle] # Null
            /\ ow[q].ctxptr = home[ow[q].handle]
        BY <1>1, <1>4, <3>1 DEF Owns
      <3>3. ow[q].handle \in Handles /\ ow[q].handle # h
        BY <1>1, <1>2, <3>2 DEF SocketType
      <3> QED BY <3>1, <3>2, <3>3
    <2> QED BY <2>1, <2>2
  <1>5. ASSUME NEW p \in Objects, NEW q \in Objects, ow2[p].handle = ow2[q].handle, p # q
        PROVE  ow2[p] = Closed
    BY <1>1, <1>2, <1>5 DEF Owns
  <1> HIDE DEF ow2, home2
  <1> QED BY <1>1, <1>3, <1>4, <1>5 DEF Owns, Objects, ow2, home2

\* Two objects exchange what they hold.
LEMMA OwnsSwapped ==
  ASSUME NEW ow, NEW home, Owns(ow, home), NEW o \in Objects, NEW q \in Objects
  PROVE  Owns([ow EXCEPT ![o] = ow[q], ![q] = ow[o]], home)
  <1> DEFINE ow2 == [ow EXCEPT ![o] = ow[q], ![q] = ow[o]]
  <1>1. /\ ow \in [Objects -> SocketType] /\ DOMAIN ow = Objects /\ DOMAIN ow2 = Objects
        /\ ow2 \in [Objects -> SocketType]
    BY DEF Owns, Objects
  <1>2. \A p \in Objects : ow2[p] = IF p = q THEN ow[o] ELSE IF p = o THEN ow[q] ELSE ow[p]
    BY <1>1
  <1> HIDE DEF ow2
  <1>3. ASSUME NEW h \in Handles, home[h] # Null
        PROVE  \E p \in Objects : ow2[p].handle = h
    <2>1. PICK p \in Objects : ow[p].handle = h
      BY <1>1, <1>3 DEF Owns
    <2> QED BY <2>1, <1>2
  <1>4. ASSUME NEW p \in Objects, NEW r \in Objects, ow2[p].handle = ow2[r].handle, p # r
        PROVE  ow2[p] = Closed
    BY <1>1, <1>2, <1>4 DEF Owns
  <1>5. ASSUME NEW p \in Objects, ow2[p] # Closed
        PROVE  /\ ow2[p].handle # Null /\ home[ow2[p].handle] # Null
               /\ ow2[p].ctxptr = home[ow2[p].handle]
    BY <1>1, <1>2, <1>5 DEF Owns
  <1>6. Owns(ow2, home)
    BY <1>1, <1>3, <1>4, <1>5 DEF Owns, Objects
  <1> QED BY <1>6 DEF ow2

-----------------------------------------------------------------------------
(* Sequences of events.                                                    *)

\* Where nothing waits, no event is cut.
LEMMA WholeEmpty == Whole(<<>>)
  BY DEF Whole

\* The frames of one more event keep events whole.
LEMMA WholeAppended ==
  ASSUME NEW q \in Seq(Frame), Whole(q), NEW e \in Events
  PROVE  Whole(q \o Frames(e)) /\ q \o Frames(e) \in Seq(Frame)
  <1> DEFINE f == Frames(e)
             n == Len(q)
  <1>1. f \in Seq(Frame) /\ Len(f) = 2 /\ f[1] = [event |-> e] /\ f[2] = [address |-> e]
    BY DEF Frames, Frame, EventFrames
  <1>2. f = <<f[1], f[2]>>
    BY DEF Frames
  <1> HIDE DEF f
  <1>3. q \o f \in Seq(Frame) /\ Len(q \o f) = n + 2
    <2>1. q \o f \in Seq(Frame) /\ Len(q \o f) = Len(q) + Len(f)
      BY <1>1, ConcatProperties, Zenon
    <2> QED BY <2>1, <1>1
  <1>6. \A i \in 1..n : (q \o f)[i] = q[i]
    BY <1>1
  <1>7. (q \o f)[n + 1] = f[1] /\ (q \o f)[n + 2] = f[2]
    <2>1. \A i \in 1..(n + 2) : (q \o f)[i] = IF i <= n THEN q[i] ELSE f[i - n]
      BY <1>1, ConcatProperties
    <2>2. n \in Nat
      OBVIOUS
    <2> HIDE DEF n
    <2>3. /\ n + 1 \in 1..(n + 2) /\ ~(n + 1 <= n) /\ (n + 1) - n = 1
          /\ n + 2 \in 1..(n + 2) /\ ~(n + 2 <= n) /\ (n + 2) - n = 2
      BY <2>2
    <2> QED BY <2>1, <2>3, Zenon
  <1>8. n \in Nat /\ n % 2 = 0
    BY DEF Whole
  <1> HIDE DEF n
  <1>4. ASSUME NEW i \in 1..(n + 2), i % 2 = 1
        PROVE  \E g \in Events : <<(q \o f)[i], (q \o f)[i + 1]>> = Frames(g)
    <2>1. CASE i <= n
      <3>1. i + 1 <= n
        BY <1>8, <1>4, <2>1
      <3>2. (q \o f)[i] = q[i] /\ (q \o f)[i + 1] = q[i + 1]
        <4>1. i \in 1..n /\ i + 1 \in 1..n
          BY <1>8, <1>4, <2>1, <3>1
        <4> QED BY <4>1, <1>6
      <3> QED BY <1>8, <1>4, <2>1, <3>2 DEF Whole, n
    <2>2. CASE ~(i <= n)
      <3>1. i = n + 1 /\ i + 1 = n + 2
        BY <1>8, <1>4, <2>2
      <3>2. <<(q \o f)[i], (q \o f)[i + 1]>> = f
        BY <1>2, <1>7, <3>1
      <3> QED BY <3>2 DEF f
    <2> QED BY <2>1, <2>2
  <1>5. Whole(q \o f)
    <2>1. (n + 2) % 2 = 0
      BY <1>8
    <2> QED BY <1>3, <1>4, <2>1 DEF Whole
  <1> QED BY <1>3, <1>5 DEF f

\* The first frame of whole events is an event; its address follows, then whole
\* events again.
LEMMA WholeSplit ==
  ASSUME NEW q \in Seq(Frame), Whole(q), q # <<>>
  PROVE  /\ Head(q) \in EventFrames /\ Tail(q) \in Seq(Frame) /\ Tail(q) # <<>>
         /\ \E e \in Events : <<Head(q), Head(Tail(q))>> = Frames(e)
         /\ Tail(Tail(q)) \in Seq(Frame) /\ Whole(Tail(Tail(q)))
  <1> DEFINE n == Len(q)
             t == Tail(q)
             u == Tail(t)
  <1>1. n \in Nat /\ n > 0 /\ n % 2 = 0
    BY DEF Whole
  <1>2. n >= 2
    BY <1>1
  <1>3. /\ t \in Seq(Frame) /\ Len(t) = n - 1 /\ \A i \in 1..(n - 1) : t[i] = q[i + 1]
        /\ Head(q) = q[1]
    OBVIOUS
  <1>4. t # <<>> /\ Head(t) = q[2]
    <2>1. t[1] = q[1 + 1]
      BY <1>1, <1>2, <1>3
    <2>2. Len(t) # 0 /\ t \in Seq(Frame)
      BY <1>1, <1>2, <1>3
    <2> HIDE DEF t
    <2> QED BY <2>1, <2>2
  <1>5. /\ u \in Seq(Frame) /\ Len(u) = n - 2 /\ \A i \in 1..(n - 2) : u[i] = t[i + 1]
    BY <1>2, <1>3, <1>4
  <1>6. \A i \in 1..(n - 2) : u[i] = q[i + 2]
    <2> HIDE DEF u, t, n
    <2> QED BY <1>1, <1>3, <1>5
  <1>7. \E e \in Events : <<Head(q), Head(t)>> = Frames(e)
    <2>1. \E e \in Events : <<q[1], q[1 + 1]>> = Frames(e)
      BY <1>1 DEF Whole
    <2> QED BY <2>1, <1>3, <1>4
  <1>8. Head(q) \in EventFrames
    BY <1>7 DEF Frames, EventFrames
  <1> HIDE DEF u, t
  <1>9. Whole(u)
    <2>1. (n - 2) % 2 = 0
      BY <1>1
    <2>2. ASSUME NEW i \in 1..(n - 2), i % 2 = 1
          PROVE  \E e \in Events : <<u[i], u[i + 1]>> = Frames(e)
      <3>1. i + 1 <= n - 2
        BY <1>1, <2>1, <2>2
      <3>2. i + 2 \in 1..n /\ (i + 2) % 2 = 1 /\ (i + 1) + 2 = (i + 2) + 1
        BY <1>1, <2>2
      <3>3. u[i] = q[i + 2] /\ u[i + 1] = q[(i + 2) + 1]
        BY <1>6, <2>2, <3>1, <3>2
      <3> QED BY <3>2, <3>3 DEF Whole
    <2> QED BY <1>5, <2>1, <2>2 DEF Whole
  <1> QED BY <1>3, <1>4, <1>5, <1>7, <1>8, <1>9 DEF u, t

-----------------------------------------------------------------------------
(* libzmq: what its calls do to the sockets it has given out.              *)

\* Between two calls of check_event.
WholeAll(z) == \A h \in Handles : ~Stopped(z.home[h]) => Whole(z.inbox[h])

Sound(z) == LibSound(z) /\ WholeAll(z)

\* zmq_socket: a free handle gets a context that is not terminated.
LEMMA OpenSound ==
  ASSUME NEW z, Sound(z), NEW h \in Handles, z.home[h] = Null,
         NEW k \in Contexts, life[k] # "none"
  PROVE  Sound([z EXCEPT !.home[h] = k])
  <1> DEFINE y == [z EXCEPT !.home[h] = k]
  <1>1. /\ z \in LibType /\ y \in LibType /\ y.watch = z.watch /\ y.inbox = z.inbox
        /\ y.home = [z.home EXCEPT ![h] = k] /\ k # Null
    BY SocketsAssumption DEF Sound, LibSound, LibType
  <1> HIDE DEF y
  <1>2. LibSound(y)
    BY <1>1 DEF Sound, LibSound, LibType
  <1>3. ASSUME NEW g \in Handles, ~Stopped(y.home[g]) PROVE Whole(y.inbox[g])
    <2>1. CASE g = h
      <3>1. y.inbox[g] = <<>>
        BY <1>1, <2>1 DEF Sound, LibSound
      <3> QED BY <3>1, WholeEmpty
    <2>2. CASE g # h
      BY <1>1, <1>3, <2>2 DEF Sound, WholeAll, LibType
    <2> QED BY <2>1, <2>2
  <1> QED BY <1>2, <1>3 DEF Sound, WholeAll, y

\* zmq_socket_monitor and the connection of a monitor: an open socket gets an
\* open peer, or none.
LEMMA WatchSound ==
  ASSUME NEW z, Sound(z), NEW h \in Handles, z.home[h] # Null,
         NEW p \in Handles \cup {Nobody}, p \in Handles => z.home[p] # Null
  PROVE  Sound([z EXCEPT !.watch[h] = p])
  <1> DEFINE y == [z EXCEPT !.watch[h] = p]
  <1>1. /\ z \in LibType /\ y \in LibType /\ y.home = z.home /\ y.inbox = z.inbox
        /\ y.watch = [z.watch EXCEPT ![h] = p]
    BY DEF Sound, LibSound, LibType
  <1> HIDE DEF y
  <1>2. LibSound(y)
    BY <1>1 DEF Sound, LibSound, LibType
  <1>3. WholeAll(y)
    BY <1>1 DEF Sound, WholeAll
  <1> QED BY <1>2, <1>3 DEF Sound, y

\* The end of monitoring adds an event to what waits for the peer.
LEMMA StopSound ==
  ASSUME NEW z, Sound(z), NEW h \in Handles
  PROVE  /\ Sound(Stop(z, h))
         /\ Stop(z, h).home = z.home
         /\ Stop(z, h).watch = [z.watch EXCEPT ![h] = Null]
  <1>1. CASE z.watch[h] \in Handles
    <2> PICK p \in Handles : p = z.watch[h]
      BY <1>1
    <2> DEFINE y == Stop(z, h)
    <2>1. /\ z \in LibType /\ y.home = z.home /\ y.watch = [z.watch EXCEPT ![h] = Null]
          /\ y.inbox = [z.inbox EXCEPT ![p] = @ \o Frames("stopped")]
      BY <1>1 DEF Sound, LibSound, LibType, Stop
    <2>2. Frames("stopped") \in Seq(Frame)
      BY DEF Frames, Frame, EventFrames, Events
    <2>3. z.inbox[p] \o Frames("stopped") \in Seq(Frame)
      BY <2>1, <2>2 DEF LibType, Frame
    <2>4. y \in LibType
      <3> PICK x : x = [z EXCEPT !.inbox[p] = @ \o Frames("stopped")]
        OBVIOUS
      <3>1. x \in LibType
        BY <2>1, <2>3 DEF LibType, Frame
      <3>2. y = [x EXCEPT !.watch[h] = Null]
        BY <1>1 DEF Stop
      <3> HIDE DEF y
      <3> QED BY <3>1, <3>2 DEF LibType
    <2> HIDE DEF y
    <2>5. z.home[p] # Null
      BY <1>1 DEF Sound, LibSound
    <2>6. LibSound(y)
      BY <2>1, <2>4, <2>5, SocketsAssumption DEF Sound, LibSound, LibType
    <2>7. ASSUME NEW g \in Handles, ~Stopped(y.home[g]) PROVE Whole(y.inbox[g])
      <3>1. Whole(z.inbox[g]) /\ z.inbox[g] \in Seq(Frame)
        BY <2>1, <2>7 DEF Sound, WholeAll, LibType, Frame
      <3>2. Whole(z.inbox[g] \o Frames("stopped"))
        BY <3>1, WholeAppended DEF Events
      <3> QED BY <2>1, <3>1, <3>2 DEF LibType
    <2> QED BY <2>1, <2>6, <2>7 DEF Sound, WholeAll, y
  <1>2. CASE z.watch[h] \notin Handles
    <2> DEFINE y == Stop(z, h)
    <2>1. /\ z \in LibType /\ y \in LibType /\ y.home = z.home /\ y.inbox = z.inbox
          /\ y.watch = [z.watch EXCEPT ![h] = Null]
      BY <1>2 DEF Sound, LibSound, LibType, Stop
    <2> HIDE DEF y
    <2>2. LibSound(y)
      BY <2>1, SocketsAssumption DEF Sound, LibSound, LibType
    <2>3. WholeAll(y)
      BY <2>1 DEF Sound, WholeAll
    <2> QED BY <2>1, <2>2, <2>3 DEF Sound, y
  <1> QED BY <1>1, <1>2

\* zmq_close: the handle is free, and nobody is monitored any longer for it.
LEMMA CloseSound ==
  ASSUME NEW z, Sound(z), NEW h \in Handles
  PROVE  /\ Sound(Close(z, h))
         /\ Close(z, h).home = [z.home EXCEPT ![h] = Null]
         /\ \A g \in Handles : Close(z, h).watch[g] # Null => g # h /\ z.watch[g] # Null
  <1> PICK y : y = Stop(z, h)
    OBVIOUS
  <1>1. Sound(y) /\ y.home = z.home /\ y.watch = [z.watch EXCEPT ![h] = Null]
    BY StopSound
  <1> PICK x : x = Close(z, h)
    OBVIOUS
  <1>2. x = [home  |-> [y.home EXCEPT ![h] = Null],
             watch |-> [g \in Handles |-> IF y.watch[g] = h THEN Nobody ELSE y.watch[g]],
             inbox |-> [y.inbox EXCEPT ![h] = <<>>]]
    BY SocketsAssumption DEF Close
  <1>3. y \in LibType /\ z \in LibType
    BY <1>1 DEF Sound, LibSound
  <1>4. x \in LibType
    <2>1. [y.home EXCEPT ![h] = Null] \in [Handles -> Contexts \cup {Null}]
      BY <1>3 DEF LibType
    <2>2. [g \in Handles |-> IF y.watch[g] = h THEN Nobody ELSE y.watch[g]]
            \in [Handles -> Handles \cup {Null, Nobody}]
      BY <1>3 DEF LibType
    <2>3. [y.inbox EXCEPT ![h] = <<>>] \in [Handles -> Seq(Frame)]
      BY <1>3 DEF LibType, Frame
    <2> QED BY <1>2, <2>1, <2>2, <2>3 DEF LibType, Frame
  <1>5. x.home = [z.home EXCEPT ![h] = Null]
    BY <1>1, <1>2
  <1>6. \A g \in Handles : /\ x.home[g] = IF g = h THEN Null ELSE y.home[g]
                           /\ x.watch[g] = IF y.watch[g] = h THEN Nobody ELSE y.watch[g]
                           /\ x.inbox[g] = IF g = h THEN <<>> ELSE y.inbox[g]
                           /\ y.watch[g] = IF g = h THEN Null ELSE z.watch[g]
    BY <1>1, <1>2, <1>3 DEF LibType
  <1>7. \A g \in Handles : x.watch[g] # Null => g # h /\ z.watch[g] # Null
    BY <1>6, SocketsAssumption
  <1>8. ASSUME NEW g \in Handles
        PROVE  /\ x.home[g] = Null => x.watch[g] = Null /\ x.inbox[g] = <<>>
               /\ x.watch[g] \in Handles => x.home[x.watch[g]] # Null
               /\ x.home[g] # Null => life[x.home[g]] # "none"
    BY <1>1, <1>6, SocketsAssumption DEF Sound, LibSound
  <1>9. WholeAll(x)
    <2> SUFFICES ASSUME NEW g \in Handles, ~Stopped(x.home[g]) PROVE Whole(x.inbox[g])
      BY DEF WholeAll
    <2>1. CASE g = h
      BY <1>6, <2>1, WholeEmpty
    <2>2. CASE g # h
      BY <1>1, <1>6, <2>2 DEF Sound, WholeAll
    <2> QED BY <2>1, <2>2
  <1> QED BY <1>4, <1>5, <1>7, <1>8, <1>9 DEF Sound, LibSound

-----------------------------------------------------------------------------
(* The destructors and the assignments of C++ close a handle, or nothing   *)
(* when the object holds Null.                                             *)

Freed(home, h) == [g \in Handles |-> IF g = h THEN Null ELSE home[g]]

\* close of an object that may hold no handle.
LEMMA OwnsReleased ==
  ASSUME NEW ow, NEW home \in [Handles -> Contexts \cup {Null}], Owns(ow, home),
         NEW o \in Objects
  PROVE  Owns([ow EXCEPT ![o] = Closed], Freed(home, ow[o].handle))
  <1>1. CASE ow[o].handle = Null
    <2>1. Freed(home, ow[o].handle) = home
      BY <1>1, SocketsAssumption DEF Freed
    <2>2. ow[o] = Closed
      BY <1>1 DEF Owns, Objects
    <2>3. [ow EXCEPT ![o] = Closed] = ow
      BY <2>2 DEF Owns
    <2> QED BY <2>1, <2>3
  <1>2. CASE ow[o].handle # Null
    <2>1. Freed(home, ow[o].handle) = [home EXCEPT ![ow[o].handle] = Null]
      BY <1>2 DEF Freed
    <2>2. Owns([ow EXCEPT ![o] = Closed], [home EXCEPT ![ow[o].handle] = Null])
      BY <1>2, OwnsClosed
    <2> QED BY <2>1, <2>2
  <1> QED BY <1>1, <1>2

\* zmq_close of a handle, or nothing.
LEMMA CloseAny ==
  ASSUME NEW z, Sound(z), NEW h \in Handles \cup {Null}
  PROVE  /\ Sound(Close(z, h))
         /\ Close(z, h).home = Freed(z.home, h)
         /\ \A g \in Handles : Close(z, h).watch[g] # Null => g # h /\ z.watch[g] # Null
  <1>1. z.home \in [Handles -> Contexts \cup {Null}]
    BY DEF Sound, LibSound, LibType
  <1>2. CASE h = Null
    BY <1>1, <1>2, SocketsAssumption DEF Close, Freed
  <1>3. CASE h \in Handles
    <2>1. Freed(z.home, h) = [z.home EXCEPT ![h] = Null]
      BY <1>1, <1>3 DEF Freed
    <2> QED BY <1>3, <2>1, CloseSound
  <1> QED BY <1>2, <1>3

\* The assignment of a new socket: p is opened, then the handle g the object has
\* held is closed.
Replaced(y, p, k, g) == Close([y EXCEPT !.home[p] = k], g)

\* Such an assignment frees g and opens p, and starts no monitoring.
LEMMA ReplaceSound ==
  ASSUME NEW y, Sound(y), NEW p \in Handles, y.home[p] = Null,
         NEW k \in Contexts, life[k] # "none", NEW g \in Handles \cup {Null}, g # p
  PROVE  /\ Sound(Replaced(y, p, k, g))
         /\ Replaced(y, p, k, g).home = [Freed(y.home, g) EXCEPT ![p] = k]
         /\ \A x \in Handles : Replaced(y, p, k, g).watch[x] # Null => x # g /\ y.watch[x] # Null
  <1>1. y \in LibType
    BY DEF Sound, LibSound
  <1> PICK z : z = [y EXCEPT !.home[p] = k]
    OBVIOUS
  <1>2. Sound(z)
    BY OpenSound
  <1>3. z.home = [y.home EXCEPT ![p] = k] /\ z.watch = y.watch
    BY <1>1 DEF LibType
  <1>4. /\ Sound(Close(z, g)) /\ Close(z, g).home = Freed(z.home, g)
        /\ \A x \in Handles : Close(z, g).watch[x] # Null => x # g /\ z.watch[x] # Null
    BY <1>2, CloseAny
  <1>5. Freed(z.home, g) = [Freed(y.home, g) EXCEPT ![p] = k]
    <2>1. y.home \in [Handles -> Contexts \cup {Null}]
      BY <1>1 DEF LibType
    <2>2. \A x \in Handles : z.home[x] = IF x = p THEN k ELSE y.home[x]
      BY <1>3, <2>1
    <2>3. \A x \in Handles : Freed(z.home, g)[x] = [Freed(y.home, g) EXCEPT ![p] = k][x]
      BY <2>2 DEF Freed
    <2> QED BY <2>3 DEF Freed
  <1>6. Replaced(y, p, k, g) = Close(z, g)
    BY DEF Replaced
  <1> QED BY <1>3, <1>4, <1>5, <1>6

\* abort of a monitor that may refer to no socket: afterwards the socket is not
\* monitored, or its context has ended.
LEMMA StopAny ==
  ASSUME NEW z, Sound(z), NEW h \in Handles \cup {Null}
  PROVE  /\ Sound(StopMonitor(z, h))
         /\ StopMonitor(z, h).home = z.home
         /\ \A g \in Handles : StopMonitor(z, h).watch[g] # Null =>
              z.watch[g] # Null /\ (g # h \/ Stopped(z.home[g]))
  <1>1. CASE h = Null \/ Stopped(z.home[h])
    BY <1>1, SocketsAssumption DEF StopMonitor
  <1>2. CASE ~(h = Null \/ Stopped(z.home[h]))
    <2>1. h \in Handles /\ StopMonitor(z, h) = Stop(z, h)
      BY <1>2 DEF StopMonitor
    <2>2. z.watch \in [Handles -> Handles \cup {Null, Nobody}]
      BY DEF Sound, LibSound, LibType
    <2>3. /\ Sound(Stop(z, h)) /\ Stop(z, h).home = z.home
          /\ Stop(z, h).watch = [z.watch EXCEPT ![h] = Null]
      BY <2>1, StopSound
    <2>4. \A g \in Handles : Stop(z, h).watch[g] = IF g = h THEN Null ELSE z.watch[g]
      BY <2>1, <2>2, <2>3
    <2> QED BY <2>1, <2>3, <2>4
  <1> QED BY <1>1, <1>2

-----------------------------------------------------------------------------
(* What a step may change.                                                 *)

\* A step of the thread of the contexts: an open context of an open socket ends at
\* most, it is not terminated, and no ended one comes back to life.
LEMMA ContextFrame ==
  ASSUME IInv, UNCHANGED socketVars, ContextsHeld',
         \A k \in Contexts, h \in Handles : lib.home[h] = k =>
            life'[k] # "none" /\ (life'[k] = "open" => life[k] = "open")
  PROVE  IInv'
  <1>1. /\ lib \in LibType /\ lib' = lib /\ mon' = mon /\ sock' = sock /\ call' = call
        /\ left' = left
    BY DEF IInv, LibSound, socketVars
  <1>2. \A h \in Handles : Stopped(lib.home[h]) => Stopped(lib.home[h])'
    BY <1>1 DEF Stopped, LibType
  <1>3. Places'
    BY <1>1 DEF IInv, Places
  <1>4. Owns(Owned, lib.home)'
    <2>1. Owned' = Owned
      BY <1>1 DEF Owned
    <2> QED BY <1>1, <2>1 DEF IInv, Owns
  <1>5. LibSound(lib)'
    BY <1>1, SocketsAssumption DEF IInv, LibSound, LibType
  <1>6. MonitoringHasAnEnd'
    BY <1>1, <1>2 DEF IInv, MonitoringHasAnEnd, Referenced
  <1>7. \A h \in Handles : WholeEvents(h)'
    BY <1>1, <1>2 DEF IInv, WholeEvents, Checking
  <1> QED BY <1>3, <1>4, <1>5, <1>6, <1>7 DEF IInv

\* While no check_event is between its frames, whole events wait everywhere.
LEMMA SoundBetweenCalls ==
  ASSUME IInv, call.at # "check"
  PROVE  Sound(lib)
  BY DEF IInv, Sound, WholeAll, WholeEvents, Checking

\* A step of the thread of the sockets that ends between two calls of check_event.
LEMMA SocketFrame ==
  ASSUME IInv, UNCHANGED ownerVars, Places', Owns(Owned', lib'.home), Sound(lib'),
         MonitoringHasAnEnd', call'.at # "check"
  PROVE  IInv'
  <1>1. ctx' = ctx /\ life' = life /\ closing' = closing
    BY DEF ownerVars
  <1>2. ContextsHeld'
    BY <1>1 DEF IInv, ContextsHeld
  <1>3. \A k : Stopped(k)' <=> Stopped(k)
    BY <1>1 DEF Stopped
  <1>4. LibSound(lib)' /\ Owns(Owned, lib.home)'
    BY <1>1 DEF Sound, LibSound, Owns
  <1>5. \A h \in Handles : WholeEvents(h)'
    BY <1>3 DEF Sound, WholeAll, WholeEvents, Checking
  <1> QED BY <1>2, <1>4, <1>5 DEF IInv

\* After a step, a socket that is monitored is referenced, or it was monitored
\* before and has not lost what ends its monitoring.
LEMMA MonitoringFrame ==
  ASSUME IInv, UNCHANGED ownerVars,
         \A h \in Handles : lib'.watch[h] # Null =>
           \/ Referenced(h)'
           \/ /\ lib.watch[h] # Null /\ lib'.home[h] = lib.home[h]
              /\ h \in left' \/ Stopped(lib.home[h]) \/ (~Referenced(h) /\ h \notin left)
  PROVE  MonitoringHasAnEnd'
  <1>1. \A k : Stopped(k)' <=> Stopped(k)
    BY DEF Stopped, ownerVars
  <1> QED BY <1>1 DEF IInv, MonitoringHasAnEnd

-----------------------------------------------------------------------------
(* The thread of the contexts.                                             *)

\* NewContext, SwapContexts, Shutdown, CloseContext, Terminated, Interrupted
LEMMA ContextStepIInv ==
  ASSUME IInv, ContextStep
  PROVE  IInv'
  <1>1. /\ ctx \in [ContextVars -> Contexts \cup {Null}]
        /\ life \in [Contexts -> {"none", "open", "stopped"}]
        /\ \A k \in Contexts : life[k] # "none" <=> \E v \in ContextVars : ctx[v] = k
        /\ \A v, w \in ContextVars : ctx[v] = ctx[w] => v = w \/ ctx[v] = Null
        /\ closing # Null => closing \in [v : ContextVars, w : ContextVars] /\ ctx[closing.v] # Null
    BY DEF IInv, ContextsHeld
  <1>2. \A h \in Handles, k \in Contexts : lib.home[h] = k => life[k] # "none"
    BY SocketsAssumption DEF IInv, LibSound
  <1>3. UNCHANGED socketVars
    BY DEF ContextStep, NewContext, Shutdown, CloseContext, SwapContexts, Terminated, Interrupted
  <1>4. ASSUME NEW v \in ContextVars, NewContext(v) PROVE IInv'
    <2>1. PICK k \in Contexts : /\ life[k] = "none" /\ life' = [life EXCEPT ![k] = "open"]
                                /\ ctx' = [ctx EXCEPT ![v] = k]
      BY <1>4 DEF NewContext
    <2>2. ctx[v] = Null /\ closing = Null /\ closing' = Null
      BY <1>4 DEF NewContext
    <2>3. ContextsHeld'
      BY <1>1, <2>1, <2>2, SocketsAssumption DEF ContextsHeld
    <2>4. \A c \in Contexts, h \in Handles : lib.home[h] = c =>
            life'[c] # "none" /\ (life'[c] = "open" => life[c] = "open")
      BY <1>1, <1>2, <2>1
    <2> QED BY <1>3, <2>3, <2>4, ContextFrame
  <1>5. ASSUME NEW v \in ContextVars, Shutdown(v) PROVE IInv'
    <2>1. /\ life' = [life EXCEPT ![ctx[v]] = "stopped"] /\ ctx' = ctx
          /\ closing' = closing /\ closing = Null /\ ctx[v] \in Contexts
      BY <1>1, <1>5 DEF Shutdown
    <2>2. ContextsHeld'
      BY <1>1, <2>1 DEF ContextsHeld
    <2>3. \A c \in Contexts, h \in Handles : lib.home[h] = c =>
            life'[c] # "none" /\ (life'[c] = "open" => life[c] = "open")
      BY <1>1, <1>2, <2>1
    <2> QED BY <1>3, <2>2, <2>3, ContextFrame
  <1>6. ASSUME NEW v \in ContextVars, NEW w \in ContextVars, SwapContexts(v, w) PROVE IInv'
    <2>1. /\ ctx' = [ctx EXCEPT ![v] = ctx[w], ![w] = ctx[v]] /\ life' = life
          /\ closing' = closing /\ closing = Null
      BY <1>6 DEF SwapContexts
    <2>2. \A u \in ContextVars : ctx'[u] = IF u = w THEN ctx[v] ELSE IF u = v THEN ctx[w] ELSE ctx[u]
      BY <1>1, <2>1
    <2>3. ctx' \in [ContextVars -> Contexts \cup {Null}]
      BY <1>1, <2>1
    <2>4. \A k \in Contexts : (\E u \in ContextVars : ctx'[u] = k) <=> \E u \in ContextVars : ctx[u] = k
      BY <2>2
    <2>5. \A u, x \in ContextVars : ctx'[u] = ctx'[x] => u = x \/ ctx'[u] = Null
      BY <1>1, <2>2
    <2>6. ContextsHeld'
      BY <1>1, <2>1, <2>3, <2>4, <2>5 DEF ContextsHeld
    <2> QED BY <1>2, <1>3, <2>1, <2>6, ContextFrame
  <1>7. ASSUME NEW v \in ContextVars, NEW w \in ContextVars, CloseContext(v, w) PROVE IInv'
    <2>1. CASE ctx[v] = Null
      <3>1. /\ ctx' = [ctx EXCEPT ![v] = ctx[w], ![w] = Null] /\ life' = life
            /\ closing' = closing /\ closing = Null
        BY <1>7, <2>1 DEF CloseContext
      <3>2. \A u \in ContextVars : ctx'[u] = IF u = w THEN Null ELSE IF u = v THEN ctx[w] ELSE ctx[u]
        BY <1>1, <3>1
      <3>3. ctx' \in [ContextVars -> Contexts \cup {Null}]
        BY <1>1, <3>1
      <3>4. \A k \in Contexts : (\E u \in ContextVars : ctx'[u] = k) <=> \E u \in ContextVars : ctx[u] = k
        BY <2>1, <3>2, SocketsAssumption
      <3>5. \A u, x \in ContextVars : ctx'[u] = ctx'[x] => u = x \/ ctx'[u] = Null
        BY <1>1, <3>2
      <3>6. ContextsHeld'
        BY <1>1, <3>1, <3>3, <3>4, <3>5 DEF ContextsHeld
      <3> QED BY <1>2, <1>3, <3>1, <3>6, ContextFrame
    <2>2. CASE ctx[v] # Null
      <3>1. /\ life' = [life EXCEPT ![ctx[v]] = "stopped"] /\ ctx' = ctx
            /\ closing' = [v |-> v, w |-> w] /\ ctx[v] \in Contexts
        BY <1>1, <1>7, <2>2 DEF CloseContext
      <3>2. ContextsHeld'
        BY <1>1, <2>2, <3>1 DEF ContextsHeld
      <3>3. \A c \in Contexts, h \in Handles : lib.home[h] = c =>
              life'[c] # "none" /\ (life'[c] = "open" => life[c] = "open")
        BY <1>1, <1>2, <3>1
      <3> QED BY <1>3, <3>2, <3>3, ContextFrame
    <2> QED BY <2>1, <2>2
  <1>8. CASE Terminated
    <2> PICK v \in ContextVars, w \in ContextVars : v = closing.v /\ w = closing.w
      BY <1>1, <1>8 DEF Terminated
    <2>1. /\ ctx' = [ctx EXCEPT ![w] = Null, ![v] = IF w = v THEN Null ELSE ctx[w]]
          /\ closing' = Null /\ life' = [life EXCEPT ![ctx[v]] = "none"]
          /\ ctx[v] \in Contexts /\ \A h \in Handles : lib.home[h] # ctx[v]
      BY <1>1, <1>8 DEF Terminated, Dropped, Holding
    <2>2. \A u \in ContextVars : ctx'[u] = IF u = v THEN (IF w = v THEN Null ELSE ctx[w])
                                          ELSE IF u = w THEN Null ELSE ctx[u]
      BY <1>1, <2>1
    <2>3. ctx' \in [ContextVars -> Contexts \cup {Null}]
      BY <1>1, <2>1
    <2>4. \A k \in Contexts : (\E u \in ContextVars : ctx'[u] = k)
                                <=> k # ctx[v] /\ \E u \in ContextVars : ctx[u] = k
      BY <1>1, <2>1, <2>2, SocketsAssumption
    <2>5. \A u, x \in ContextVars : ctx'[u] = ctx'[x] => u = x \/ ctx'[u] = Null
      BY <1>1, <2>2
    <2>6. ContextsHeld'
      BY <1>1, <2>1, <2>3, <2>4, <2>5 DEF ContextsHeld
    <2>7. \A c \in Contexts, h \in Handles : lib.home[h] = c =>
            life'[c] # "none" /\ (life'[c] = "open" => life[c] = "open")
      BY <1>1, <1>2, <2>1
    <2> QED BY <1>3, <2>6, <2>7, ContextFrame
  <1>9. CASE Interrupted
    <2>1. ContextsHeld'
      BY <1>9 DEF IInv, ContextsHeld, Interrupted
    <2> QED BY <1>2, <1>3, <1>9, <2>1, ContextFrame DEF Interrupted
  <1> QED BY <1>4, <1>5, <1>6, <1>7, <1>8, <1>9 DEF ContextStep

-----------------------------------------------------------------------------
(* socket_t                                                                *)

\* What a socket_t and a monitor_t hold.
LEMMA Holds ==
  ASSUME IInv
  PROVE  /\ Owned \in [Objects -> SocketType]
         /\ lib \in LibType /\ lib.home \in [Handles -> Contexts \cup {Null}]
         /\ lib.watch \in [Handles -> Handles \cup {Null, Nobody}]
         /\ \A s \in SocketVars :
              /\ Owned[s] = sock[s] /\ sock[s].handle \in Handles \cup {Null}
              /\ sock[s] # Closed => /\ sock[s].handle \in Handles
                                     /\ lib.home[sock[s].handle] = sock[s].ctxptr
                                     /\ sock[s].ctxptr \in Contexts
         /\ \A m \in Monitors :
              /\ Owned[m] = mon[m].own /\ mon[m].own.handle \in Handles \cup {Null}
              /\ mon[m].socket \in Handles \cup {Null}
              /\ mon[m].own # Closed => /\ mon[m].own.handle \in Handles
                                        /\ lib.home[mon[m].own.handle] = mon[m].own.ctxptr
                                        /\ mon[m].own.ctxptr \in Contexts
         /\ Closed \in SocketType /\ Closed.handle = Null
  <1>1. /\ Owned \in [Objects -> SocketType] /\ DOMAIN Owned = Objects
        /\ \A o \in Objects :
             \/ Owned[o] = Closed
             \/ /\ Owned[o].handle # Null /\ lib.home[Owned[o].handle] # Null
                /\ Owned[o].ctxptr = lib.home[Owned[o].handle]
    BY DEF IInv, Owns, Objects
  <1>2. /\ lib \in LibType /\ lib.home \in [Handles -> Contexts \cup {Null}]
        /\ lib.watch \in [Handles -> Handles \cup {Null, Nobody}]
    BY DEF IInv, LibSound, LibType
  <1>3. \A s \in SocketVars : s \in Objects /\ Owned[s] = sock[s]
    BY DEF Owned, Objects
  <1>4. \A m \in Monitors : m \in Objects /\ Owned[m] = mon[m].own
    BY SocketsAssumption DEF Owned, Objects
  <1>5. \A o \in Objects : Owned[o].handle \in Handles \cup {Null}
    BY <1>1 DEF SocketType
  <1>6. \A o \in Objects : Owned[o] # Closed =>
          /\ Owned[o].handle \in Handles /\ lib.home[Owned[o].handle] = Owned[o].ctxptr
          /\ Owned[o].ctxptr \in Contexts
    BY <1>1, <1>2, <1>5
  <1>7. \A m \in Monitors : mon[m].socket \in Handles \cup {Null}
    BY DEF IInv, Places
  <1>8. Closed \in SocketType /\ Closed.handle = Null
    BY DEF Closed, SocketType
  <1>9. \A s \in SocketVars :
          /\ Owned[s] = sock[s] /\ sock[s].handle \in Handles \cup {Null}
          /\ sock[s] # Closed => /\ sock[s].handle \in Handles
                                 /\ lib.home[sock[s].handle] = sock[s].ctxptr
                                 /\ sock[s].ctxptr \in Contexts
    BY <1>3, <1>5, <1>6
  <1>10. \A m \in Monitors :
          /\ Owned[m] = mon[m].own /\ mon[m].own.handle \in Handles \cup {Null}
          /\ mon[m].own # Closed => /\ mon[m].own.handle \in Handles
                                    /\ lib.home[mon[m].own.handle] = mon[m].own.ctxptr
                                    /\ mon[m].own.ctxptr \in Contexts
    BY <1>4, <1>5, <1>6
  <1> QED BY <1>1, <1>2, <1>7, <1>8, <1>9, <1>10

\* What an object holds may be closed.
LEMMA HoldsReleased ==
  ASSUME IInv, NEW o \in Objects
  PROVE  /\ Owns([Owned EXCEPT ![o] = Closed], Freed(lib.home, Owned[o].handle))
         /\ [Owned EXCEPT ![o] = Closed][o] = Closed
  <1>1. Owns(Owned, lib.home) /\ lib.home \in [Handles -> Contexts \cup {Null}]
    BY Holds DEF IInv
  <1>2. Owned \in [Objects -> SocketType]
    BY Holds
  <1> QED BY <1>1, <1>2, OwnsReleased

\* A call of the thread ends, or throws, and has changed nothing.
LEMMA OnlyCall ==
  ASSUME IInv, Sound(lib), UNCHANGED <<ownerVars, sock, mon, lib, left>>,
         \/ call' \in {Runs, Unwinds}
         \/ call' \in [at : {"callback"}, told : {Frames(e) : e \in {"connected", "closed"}}]
  PROVE  IInv'
  <1>1. Owned' = Owned
    BY DEF Owned
  <1>2. call'.at # "check"
    BY DEF Runs, Unwinds
  <1>3. Places'
    BY <1>2 DEF IInv, Places
  <1>4. MonitoringHasAnEnd'
    BY DEF IInv, MonitoringHasAnEnd, Referenced, Stopped, ownerVars
  <1> QED BY <1>1, <1>2, <1>3, <1>4, SocketFrame DEF IInv

\* close and the destructor of a socket_t
LEMMA CloseSocketStep ==
  ASSUME IInv, NEW s \in SocketVars, CloseSocket(s)
  PROVE  IInv'
  <1> PICK g : g = sock[s].handle
    OBVIOUS
  <1>1. /\ lib' = Close(lib, g) /\ left' = left \ {g} /\ sock' = [sock EXCEPT ![s] = Closed]
        /\ UNCHANGED <<ownerVars, mon, call>> /\ call.at # "check"
    BY DEF CloseSocket
  <1>2. g \in Handles \cup {Null} /\ Sound(lib)
    BY <1>1, Holds, SoundBetweenCalls
  <1>3. /\ Sound(lib') /\ lib'.home = Freed(lib.home, g)
        /\ \A h \in Handles : lib'.watch[h] # Null => h # g /\ lib.watch[h] # Null
    BY <1>1, <1>2, CloseAny
  <1>4. Owned' = [Owned EXCEPT ![s] = Closed]
    BY <1>1, SocketsAssumption DEF IInv, Places, Owned
  <1>5. Owns(Owned', lib'.home)
    <2>1. s \in Objects /\ g = Owned[s].handle
      BY Holds DEF Objects
    <2> QED BY <1>3, <1>4, <2>1, HoldsReleased
  <1>6. Places'
    BY <1>1, Holds DEF IInv, Places
  <1>7. MonitoringHasAnEnd'
    BY <1>1, <1>3, MonitoringFrame DEF Referenced, Freed
  <1> QED BY <1>1, <1>3, <1>5, <1>6, <1>7, SocketFrame

\* The move constructor and the move assignment of a socket_t
LEMMA MoveSocketStep ==
  ASSUME IInv, NEW s \in SocketVars, NEW t \in SocketVars, MoveSocket(s, t)
  PROVE  IInv'
  <1> PICK g : g = sock[s].handle
    OBVIOUS
  <1>1. /\ lib' = Close(lib, g) /\ left' = left \ {g} /\ s # t
        /\ sock' = [sock EXCEPT ![s] = sock[t], ![t] = Closed]
        /\ UNCHANGED <<ownerVars, mon, call>> /\ call.at # "check"
    BY DEF MoveSocket, Runs
  <1>2. g \in Handles \cup {Null} /\ Sound(lib)
    BY <1>1, Holds, SoundBetweenCalls
  <1>3. /\ Sound(lib') /\ lib'.home = Freed(lib.home, g)
        /\ \A h \in Handles : lib'.watch[h] # Null => h # g /\ lib.watch[h] # Null
    BY <1>1, <1>2, CloseAny
  <1> PICK ow : ow = [Owned EXCEPT ![s] = Closed]
    OBVIOUS
  <1>4. Owned' = [ow EXCEPT ![s] = ow[t], ![t] = ow[s]]
    BY <1>1, SocketsAssumption DEF IInv, Places, Owned
  <1>5. Owns(ow, lib'.home)
    <2>1. s \in Objects /\ g = Owned[s].handle
      BY Holds DEF Objects
    <2> QED BY <1>3, <2>1, HoldsReleased
  <1>6. Owns(Owned', lib'.home)
    BY <1>4, <1>5, OwnsSwapped DEF Objects
  <1>7. Places'
    BY <1>1, Holds DEF IInv, Places
  <1>8. MonitoringHasAnEnd'
    BY <1>1, <1>3, MonitoringFrame DEF Referenced, Freed
  <1> QED BY <1>1, <1>3, <1>6, <1>7, <1>8, SocketFrame

\* swap of two socket_t
LEMMA SwapSocketsStep ==
  ASSUME IInv, NEW s \in SocketVars, NEW t \in SocketVars, SwapSockets(s, t)
  PROVE  IInv'
  <1>1. /\ sock' = [sock EXCEPT ![s] = sock[t], ![t] = sock[s]]
        /\ UNCHANGED <<ownerVars, lib, mon, call, left>> /\ call.at # "check"
    BY DEF SwapSockets, Runs, contextVars
  <1>2. Sound(lib)
    BY <1>1, SoundBetweenCalls
  <1>3. Owned' = [Owned EXCEPT ![s] = Owned[t], ![t] = Owned[s]]
    BY <1>1, SocketsAssumption DEF IInv, Places, Owned
  <1>4. Owns(Owned', lib'.home)
    BY <1>1, <1>3, OwnsSwapped DEF IInv, Objects
  <1>5. Places'
    BY <1>1 DEF IInv, Places
  <1>6. MonitoringHasAnEnd'
    BY <1>1 DEF IInv, MonitoringHasAnEnd, Referenced, Stopped, ownerVars
  <1> QED BY <1>1, <1>2, <1>4, <1>5, <1>6, SocketFrame

\* The constructor of a socket_t and the assignment of the new one
LEMMA NewSocketStep ==
  ASSUME IInv, NEW s \in SocketVars, NEW v \in ContextVars, NewSocket(s, v)
  PROVE  IInv'
  <1>1. call.at # "check" /\ UNCHANGED <<ownerVars, mon>>
    BY DEF NewSocket, Runs
  <1>2. Sound(lib)
    BY <1>1, SoundBetweenCalls
  <1>3. CASE call' = Unwinds /\ UNCHANGED <<sock, lib, left, unsent>>
    BY <1>1, <1>2, <1>3, OnlyCall
  <1>4. CASE /\ ~Stopped(ctx[v])
             /\ \E h \in FreeHandles :
                  /\ lib' = Close([lib EXCEPT !.home[h] = ctx[v]], sock[s].handle)
                  /\ sock' = [sock EXCEPT ![s] = [handle |-> h, ctxptr |-> ctx[v]]]
             /\ left' = left \ {sock[s].handle}
             /\ UNCHANGED call
    <2> PICK g : g = sock[s].handle
      OBVIOUS
    <2> PICK k \in Contexts : k = ctx[v] /\ life[k] = "open"
      BY <1>4 DEF Stopped
    <2>1. PICK h \in Handles : /\ lib.home[h] = Null
                               /\ lib' = Close([lib EXCEPT !.home[h] = k], g)
                               /\ sock' = [sock EXCEPT ![s] = [handle |-> h, ctxptr |-> k]]
      BY <1>4 DEF FreeHandles
    <2>2. g \in Handles \cup {Null} /\ h # g
      <3>1. CASE sock[s] = Closed
        BY <3>1, Holds, SocketsAssumption
      <3>2. CASE sock[s] # Closed
        BY <2>1, <3>2, Holds, SocketsAssumption
      <3> QED BY <3>1, <3>2
    <2>3. /\ Sound(lib') /\ lib'.home = [Freed(lib.home, g) EXCEPT ![h] = k]
          /\ \A x \in Handles : lib'.watch[x] # Null => x # g /\ lib.watch[x] # Null
      <3>1. lib' = Replaced(lib, h, k, g)
        BY <2>1 DEF Replaced
      <3>2. life[k] # "none" /\ lib.home[h] = Null /\ g # h
        BY <2>1, <2>2
      <3> QED BY <1>2, <2>2, <3>1, <3>2, ReplaceSound
    <2>5. Freed(lib.home, g)[h] = Null
      BY <2>1 DEF Freed
    <2> PICK ow : ow = [Owned EXCEPT ![s] = Closed]
      OBVIOUS
    <2>6. Owned' = [ow EXCEPT ![s] = [handle |-> h, ctxptr |-> k]]
      BY <1>1, <2>1, SocketsAssumption DEF IInv, Places, Owned
    <2>7. Owns(ow, Freed(lib.home, g)) /\ ow[s] = Closed
      <3>1. s \in Objects /\ g = Owned[s].handle
        BY Holds DEF Objects
      <3> QED BY <3>1, HoldsReleased
    <2>8. Freed(lib.home, g) \in [Handles -> Contexts \cup {Null}]
      BY Holds DEF Freed
    <2>9. Owns(Owned', lib'.home)
      <3>1. s \in Objects
        BY DEF Objects
      <3>2. Owns([ow EXCEPT ![s] = [handle |-> h, ctxptr |-> k]], [Freed(lib.home, g) EXCEPT ![h] = k])
        BY <2>5, <2>7, <2>8, <3>1, OwnsOpened
      <3> QED BY <2>3, <2>6, <3>2
    <2>10. Places'
      <3>1. [handle |-> h, ctxptr |-> k] \in SocketType
        BY DEF SocketType
      <3> QED BY <1>1, <1>4, <2>1, <3>1 DEF IInv, Places
    <2>11. MonitoringHasAnEnd'
      <3>1. \A x \in Handles : lib.watch[x] # Null => x # h
        BY <2>1 DEF IInv, LibSound
      <3>2. \A x \in Handles : x # h /\ x # g => lib'.home[x] = lib.home[x]
        BY <2>2, <2>3, Holds DEF Freed
      <3> QED BY <1>1, <1>4, <2>3, <3>1, <3>2, MonitoringFrame DEF Referenced
    <2> QED BY <1>1, <1>4, <2>3, <2>9, <2>10, <2>11, SocketFrame
  <1> QED BY <1>3, <1>4 DEF NewSocket

-----------------------------------------------------------------------------
(* monitor_t                                                               *)

\* Every reference of another monitor_t stays.
LEMMA OtherReferences ==
  ASSUME IInv, NEW m \in Monitors, \A n \in Monitors \ {m} : mon'[n] = mon[n],
         NEW h, Referenced(h), mon[m].socket # h
  PROVE  Referenced(h)'
  <1>1. PICK n \in Monitors : mon[n].socket = h
    BY DEF Referenced
  <1>2. n # m /\ mon'[n].socket = h
    BY <1>1
  <1> QED BY <1>2 DEF Referenced

\* abort of a monitor_t
LEMMA AbortStep ==
  ASSUME IInv, NEW m \in Monitors, Abort(m)
  PROVE  IInv'
  <1> PICK h : h = mon[m].socket
    OBVIOUS
  <1>1. /\ lib' = StopMonitor(lib, h) /\ mon' = [mon EXCEPT ![m].socket = Null]
        /\ UNCHANGED <<ownerVars, sock, call, left>> /\ call.at # "check"
    BY DEF Abort, Runs, contextVars
  <1>2. h \in Handles \cup {Null} /\ Sound(lib)
    BY <1>1, Holds, SoundBetweenCalls
  <1>3. /\ Sound(lib') /\ lib'.home = lib.home
        /\ \A g \in Handles : lib'.watch[g] # Null =>
             lib.watch[g] # Null /\ (g # h \/ Stopped(lib.home[g]))
    BY <1>1, <1>2, StopAny
  <1>4. /\ mon' \in [Monitors -> [socket : Handles \cup {Null}, own : SocketType]]
        /\ \A n \in Monitors : mon'[n].own = mon[n].own
    BY <1>1 DEF IInv, Places
  <1>5. Owned' = Owned
    BY <1>1, <1>4 DEF Owned
  <1>6. Places'
    BY <1>1, <1>4 DEF IInv, Places
  <1>7. MonitoringHasAnEnd'
    <2>1. \A n \in Monitors \ {m} : mon'[n] = mon[n]
      BY <1>1 DEF IInv, Places
    <2>2. \A g : Referenced(g) /\ g # h => Referenced(g)'
      BY <2>1, OtherReferences
    <2> QED BY <1>1, <1>3, <2>2, MonitoringFrame
  <1> QED BY <1>1, <1>3, <1>5, <1>6, <1>7, SocketFrame DEF IInv

\* close of a monitor_t: monitoring ends and the own socket is closed.
LEMMA CloseMonitorEffect ==
  ASSUME IInv, Sound(lib), NEW m \in Monitors
  PROVE  /\ Sound(CloseMonitor(lib, m))
         /\ CloseMonitor(lib, m).home = Freed(lib.home, mon[m].own.handle)
         /\ \A g \in Handles : CloseMonitor(lib, m).watch[g] # Null =>
              /\ lib.watch[g] # Null /\ g # mon[m].own.handle
              /\ g # mon[m].socket \/ Stopped(lib.home[g])
  <1> PICK y : y = StopMonitor(lib, mon[m].socket)
    OBVIOUS
  <1>1. mon[m].socket \in Handles \cup {Null} /\ mon[m].own.handle \in Handles \cup {Null}
    BY Holds
  <1>2. /\ Sound(y) /\ y.home = lib.home
        /\ \A g \in Handles : y.watch[g] # Null =>
             lib.watch[g] # Null /\ (g # mon[m].socket \/ Stopped(lib.home[g]))
    BY <1>1, StopAny
  <1>3. CloseMonitor(lib, m) = Close(y, mon[m].own.handle)
    BY DEF CloseMonitor
  <1>4. /\ Sound(Close(y, mon[m].own.handle))
        /\ Close(y, mon[m].own.handle).home = Freed(y.home, mon[m].own.handle)
        /\ \A g \in Handles : Close(y, mon[m].own.handle).watch[g] # Null =>
             g # mon[m].own.handle /\ y.watch[g] # Null
    <2>1. Sound(y)
      BY <1>2
    <2> QED BY <1>1, <2>1, CloseAny
  <1> QED BY <1>2, <1>3, <1>4

\* The destructor of a monitor_t
LEMMA DestroyMonitorStep ==
  ASSUME IInv, NEW m \in Monitors, DestroyMonitor(m)
  PROVE  IInv'
  <1> PICK h, p : h = mon[m].socket /\ p = mon[m].own.handle
    OBVIOUS
  <1>1. /\ lib' = CloseMonitor(lib, m) /\ mon' = [mon EXCEPT ![m] = Unused]
        /\ UNCHANGED <<ownerVars, sock, call, left>> /\ call.at # "check"
    BY DEF DestroyMonitor, contextVars
  <1>2. Sound(lib)
    BY <1>1, SoundBetweenCalls
  <1>3. /\ Sound(lib') /\ lib'.home = Freed(lib.home, p)
        /\ \A g \in Handles : lib'.watch[g] # Null =>
             lib.watch[g] # Null /\ g # p /\ (g # h \/ Stopped(lib.home[g]))
    BY <1>1, <1>2, CloseMonitorEffect
  <1>4. Unused \in [socket : Handles \cup {Null}, own : SocketType] /\ Unused.own = Closed
    BY Holds DEF Unused
  <1>5. mon' \in [Monitors -> [socket : Handles \cup {Null}, own : SocketType]]
    BY <1>1, <1>4 DEF IInv, Places
  <1>6. Owned' = [Owned EXCEPT ![m] = Closed]
    BY <1>1, <1>4, SocketsAssumption DEF IInv, Places, Owned
  <1>7. Owns(Owned', lib'.home)
    <2>1. m \in Objects /\ p = Owned[m].handle
      BY Holds DEF Objects
    <2> QED BY <1>3, <1>6, <2>1, HoldsReleased
  <1>8. Places'
    BY <1>1, <1>5 DEF IInv, Places
  <1>9. MonitoringHasAnEnd'
    <2>1. \A n \in Monitors \ {m} : mon'[n] = mon[n]
      BY <1>1 DEF IInv, Places
    <2>2. \A g : Referenced(g) /\ g # h => Referenced(g)'
      BY <2>1, OtherReferences
    <2>3. \A g \in Handles : g # p => lib'.home[g] = lib.home[g]
      BY <1>3 DEF Freed
    <2> QED BY <1>1, <1>3, <2>2, <2>3, MonitoringFrame
  <1> QED BY <1>1, <1>3, <1>7, <1>8, <1>9, SocketFrame

\* The move constructor and the move assignment of a monitor_t
LEMMA MoveMonitorStep ==
  ASSUME IInv, NEW m \in Monitors, NEW n \in Monitors, MoveMonitor(m, n)
  PROVE  IInv'
  <1> PICK h, p : h = mon[m].socket /\ p = mon[m].own.handle
    OBVIOUS
  <1>1. /\ lib' = CloseMonitor(lib, m) /\ m # n
        /\ mon' = [mon EXCEPT ![m] = mon[n], ![n] = Unused]
        /\ UNCHANGED <<ownerVars, sock, call, left>> /\ call.at # "check"
    BY DEF MoveMonitor, Runs, contextVars
  <1>2. Sound(lib)
    BY <1>1, SoundBetweenCalls
  <1>3. /\ Sound(lib') /\ lib'.home = Freed(lib.home, p)
        /\ \A g \in Handles : lib'.watch[g] # Null =>
             lib.watch[g] # Null /\ g # p /\ (g # h \/ Stopped(lib.home[g]))
    BY <1>1, <1>2, CloseMonitorEffect
  <1>4. Unused \in [socket : Handles \cup {Null}, own : SocketType] /\ Unused.own = Closed
    BY Holds DEF Unused
  <1>5. mon' \in [Monitors -> [socket : Handles \cup {Null}, own : SocketType]]
    BY <1>1, <1>4 DEF IInv, Places
  <1> PICK ow : ow = [Owned EXCEPT ![m] = Closed]
    OBVIOUS
  <1>6. Owned' = [ow EXCEPT ![m] = ow[n], ![n] = ow[m]]
    BY <1>1, <1>4, SocketsAssumption DEF IInv, Places, Owned
  <1>7. m \in Objects /\ n \in Objects /\ p = Owned[m].handle
    BY Holds DEF Objects
  <1>8. Owns(ow, lib'.home)
    BY <1>3, <1>7, HoldsReleased
  <1>9. Owns(Owned', lib'.home)
    BY <1>6, <1>7, <1>8, OwnsSwapped
  <1>10. Places'
    BY <1>1, <1>5 DEF IInv, Places
  <1>11. MonitoringHasAnEnd'
    <2>1. /\ \A x \in Monitors \ {m, n} : mon'[x] = mon[x]
          /\ mon'[m] = mon[n]
      BY <1>1 DEF IInv, Places
    <2>2. \A g : Referenced(g) /\ g # h => Referenced(g)'
      BY <2>1 DEF Referenced
    <2>3. \A g \in Handles : g # p => lib'.home[g] = lib.home[g]
      BY <1>3 DEF Freed
    <2> QED BY <1>1, <1>3, <2>2, <2>3, MonitoringFrame
  <1> QED BY <1>1, <1>3, <1>9, <1>10, <1>11, SocketFrame

\* init of a monitor_t, with each of its calls throwing or not
LEMMA InitMonitorStep ==
  ASSUME IInv, NEW m \in Monitors, NEW s \in SocketVars, InitMonitor(m, s)
  PROVE  IInv'
  <1>1. /\ call.at # "check" /\ UNCHANGED <<ownerVars, sock>> /\ sock[s] # Closed
        /\ Sound(lib)
    <2>1. call.at # "check" /\ UNCHANGED <<ownerVars, sock>> /\ sock[s] # Closed
      BY DEF InitMonitor, Runs, contextVars
    <2> QED BY <2>1, SoundBetweenCalls
  <1> PICK h, k, g, was : h = sock[s].handle /\ k = sock[s].ctxptr /\ g = mon[m].own.handle
                          /\ was = mon[m].socket
    OBVIOUS
  <1>2. /\ h \in Handles /\ k \in Contexts /\ lib.home[h] = k /\ k # Null
        /\ g \in Handles \cup {Null} /\ was \in Handles \cup {Null}
    BY <1>1, Holds, SocketsAssumption
  <1>8. PICK y : y = [Stop(lib, h) EXCEPT !.watch[h] = Nobody]
    OBVIOUS
  <1>3. CASE call' = Unwinds /\ UNCHANGED <<mon, lib, left>>
    BY <1>1, <1>3, OnlyCall
  <1>4. Sound(y) /\ y.home = lib.home /\ \A x \in Handles \ {h} : y.watch[x] = lib.watch[x]
    <2> PICK z : z = Stop(lib, h)
      OBVIOUS
    <2>1. Sound(z) /\ z.home = lib.home /\ z.watch = [lib.watch EXCEPT ![h] = Null]
      BY <1>1, <1>2, StopSound
    <2>2. Sound([z EXCEPT !.watch[h] = Nobody])
      <3>1. Sound(z) /\ z.home[h] # Null /\ Nobody \notin Handles
        BY <1>2, <2>1, SocketsAssumption
      <3> QED BY <1>2, <3>1, WatchSound
    <2>3. z \in LibType
      BY <2>1 DEF Sound, LibSound
    <2>4. y.home = z.home /\ y.watch = [z.watch EXCEPT ![h] = Nobody]
      BY <1>8, <2>3 DEF LibType
    <2>5. lib.watch \in [Handles -> Handles \cup {Null, Nobody}]
      BY Holds
    <2> QED BY <1>8, <2>1, <2>2, <2>4, <2>5
  <1>5. ASSUME left' = IF was \notin {Null, h} /\ lib.watch[was] # Null
                         THEN (left \ {h}) \cup {was} ELSE left \ {h},
               mon'[m].socket = h, \A n \in Monitors \ {m} : mon'[n] = mon[n],
               \A x \in Handles \ {h} : lib'.watch[x] # Null =>
                 lib.watch[x] # Null /\ lib'.home[x] = lib.home[x]
        PROVE  MonitoringHasAnEnd'
    <2>1. Referenced(h)'
      BY <1>5 DEF Referenced
    <2>2. \A x : Referenced(x) /\ x # was => Referenced(x)'
      BY <1>5, OtherReferences
    <2>3. ASSUME NEW x \in Handles, x # h, lib'.watch[x] # Null, ~Referenced(x)'
          PROVE  /\ lib.watch[x] # Null /\ lib'.home[x] = lib.home[x]
                 /\ x \in left' \/ Stopped(lib.home[x]) \/ (~Referenced(x) /\ x \notin left)
      <3>1. lib.watch[x] # Null /\ lib'.home[x] = lib.home[x]
        BY <1>5, <2>3
      <3>2. x = was => x \in left'
        BY <1>5, <2>3, <3>1, SocketsAssumption
      <3>3. x \in left => x \in left'
        BY <1>5, <2>3
      <3> QED BY <2>2, <2>3, <3>1, <3>2, <3>3
    <2> QED BY <1>1, <2>1, <2>3, MonitoringFrame
  <1>6. CASE /\ mon' = [mon EXCEPT ![m].socket = h] /\ lib' = y /\ call' = Unwinds
             /\ left' = IF was \notin {Null, h} /\ lib.watch[was] # Null
                          THEN (left \ {h}) \cup {was} ELSE left \ {h}
    <2>1. /\ mon' \in [Monitors -> [socket : Handles \cup {Null}, own : SocketType]]
          /\ \A n \in Monitors : mon'[n].own = mon[n].own
          /\ \A n \in Monitors \ {m} : mon'[n] = mon[n]
          /\ mon'[m].socket = h
      BY <1>2, <1>6 DEF IInv, Places
    <2>2. Owned' = Owned
      BY <1>1, <2>1 DEF Owned
    <2>3. Places'
      BY <1>1, <1>2, <1>6, <2>1 DEF IInv, Places, Unwinds
    <2>4. MonitoringHasAnEnd'
      BY <1>4, <1>5, <1>6, <2>1
    <2> QED BY <1>1, <1>4, <1>6, <2>2, <2>3, <2>4, SocketFrame DEF IInv, Unwinds
  <1>7. ASSUME NEW p \in FreeHandles, ~Stopped(k),
               mon' = [mon EXCEPT ![m] = [socket |-> h, own |-> [handle |-> p, ctxptr |-> k]]],
               left' = IF was \notin {Null, h} /\ lib.watch[was] # Null
                         THEN (left \ {h}) \cup {was} ELSE left \ {h},
               LET opened == Close([y EXCEPT !.home[p] = k], g)
               IN  \/ lib' = opened /\ call' = Unwinds
                   \/ lib' = [opened EXCEPT !.watch[h] = p] /\ UNCHANGED call
        PROVE  IInv'
    <2>1. p \in Handles /\ lib.home[p] = Null /\ life[k] = "open" /\ h # p /\ p # Null
      BY <1>2, <1>7, SocketsAssumption DEF FreeHandles, Stopped
    <2>2. g # p /\ g # h
      <3>1. g # p
        BY <2>1, Holds, SocketsAssumption
      <3>2. g # h
        <4>1. s \in Objects /\ m \in Objects /\ s # m /\ Owned[s] = sock[s] /\ Owned[m] = mon[m].own
          BY Holds, SocketsAssumption DEF Objects
        <4>2. DOMAIN Owned = Objects
          BY DEF Owned, Objects
        <4> QED BY <1>1, <4>1, <4>2 DEF IInv, Owns
      <3> QED BY <3>1, <3>2
    <2>0. PICK w : w = Replaced(y, p, k, g)
      OBVIOUS
    <2>3. y.home[p] = Null /\ life[k] # "none" /\ y.home = lib.home
      BY <1>4, <2>1
    <2>4. /\ Sound(w) /\ w.home = [Freed(y.home, g) EXCEPT ![p] = k]
          /\ \A x \in Handles : w.watch[x] # Null => x # g /\ y.watch[x] # Null
      <3>1. /\ Sound(y) /\ p \in Handles /\ y.home[p] = Null /\ k \in Contexts
            /\ life[k] # "none" /\ g \in Handles \cup {Null} /\ g # p
        BY <1>2, <1>4, <2>1, <2>2, <2>3
      <3> QED BY <2>0, <3>1, ReplaceSound
    <2>5. /\ w.home = [Freed(lib.home, g) EXCEPT ![p] = k] /\ Freed(lib.home, g)[p] = Null
          /\ Freed(lib.home, g) \in [Handles -> Contexts \cup {Null}]
      <3>1. lib.home \in [Handles -> Contexts \cup {Null}]
        BY Holds
      <3>2. Freed(lib.home, g) \in [Handles -> Contexts \cup {Null}]
        BY <3>1 DEF Freed
      <3>3. Freed(lib.home, g)[p] = Null
        BY <2>1 DEF Freed
      <3> QED BY <2>3, <2>4, <3>2, <3>3
    <2>6. \A x \in Handles : x # g /\ x # p => w.home[x] = lib.home[x]
      BY <2>5 DEF Freed
    <2>7. w.home[h] # Null /\ w.home[p] # Null
      <3>1. w.home[h] = lib.home[h]
        BY <1>2, <2>1, <2>2, <2>6
      <3>2. w.home[p] = k
        BY <2>1, <2>5
      <3> QED BY <1>2, <3>1, <3>2
    <2>8. /\ Sound(lib') /\ lib'.home = w.home
          /\ \A x \in Handles \ {h} : lib'.watch[x] = w.watch[x]
      <3>1. CASE lib' = w
        BY <3>1, <2>4
      <3>2. CASE lib' = [w EXCEPT !.watch[h] = p]
        <4>1. Sound(w) /\ w \in LibType
          BY <2>4 DEF Sound, LibSound
        <4>2. Sound(lib')
          BY <1>2, <2>1, <2>7, <3>2, <4>1, WatchSound
        <4> QED BY <3>2, <4>1, <4>2 DEF LibType
      <3>3. w = Close([y EXCEPT !.home[p] = k], g)
        BY <2>0 DEF Replaced
      <3> QED BY <1>7, <3>1, <3>2, <3>3
    <2> PICK ow : ow = [Owned EXCEPT ![m] = Closed]
      OBVIOUS
    <2>9. Owned' = [ow EXCEPT ![m] = [handle |-> p, ctxptr |-> k]]
      BY <1>1, <1>7, SocketsAssumption DEF IInv, Places, Owned
    <2>10. Owns(Owned', lib'.home)
      <3>1. m \in Objects /\ g = Owned[m].handle
        BY Holds DEF Objects
      <3>2. Owns(ow, Freed(lib.home, g)) /\ ow[m] = Closed
        BY <3>1, HoldsReleased
      <3>3. Owns([ow EXCEPT ![m] = [handle |-> p, ctxptr |-> k]], [Freed(lib.home, g) EXCEPT ![p] = k])
        BY <1>2, <2>1, <2>5, <3>1, <3>2, OwnsOpened
      <3> QED BY <2>5, <2>8, <2>9, <3>3
    <2>11. /\ mon' \in [Monitors -> [socket : Handles \cup {Null}, own : SocketType]]
           /\ \A n \in Monitors \ {m} : mon'[n] = mon[n]
           /\ mon'[m].socket = h
      <3>1. [socket |-> h, own |-> [handle |-> p, ctxptr |-> k]]
              \in [socket : Handles \cup {Null}, own : SocketType]
        BY <1>2, <2>1 DEF SocketType
      <3> QED BY <1>7, <3>1 DEF IInv, Places
    <2>12. call' \in {call, Unwinds} /\ call'.at # "check"
      BY <1>1, <1>7 DEF Unwinds
    <2>13. Places'
      BY <1>1, <1>2, <1>7, <2>11, <2>12 DEF IInv, Places
    <2>14. MonitoringHasAnEnd'
      <3>1. \A x \in Handles : lib.watch[x] # Null => x # p
        BY <2>1 DEF IInv, LibSound
      <3>2. \A x \in Handles \ {h} : lib'.watch[x] # Null =>
              lib.watch[x] # Null /\ lib'.home[x] = lib.home[x]
        <4> SUFFICES ASSUME NEW x \in Handles \ {h}, lib'.watch[x] # Null
                     PROVE  lib.watch[x] # Null /\ lib'.home[x] = lib.home[x]
          OBVIOUS
        <4>1. w.watch[x] # Null
          BY <2>8
        <4>2. x # g /\ y.watch[x] # Null
          BY <2>4, <4>1
        <4>3. lib.watch[x] # Null
          BY <1>4, <4>2
        <4> QED BY <2>6, <2>8, <3>1, <4>2, <4>3
      <3> QED BY <1>5, <1>7, <2>11, <3>2
    <2> QED BY <1>1, <2>8, <2>10, <2>12, <2>13, <2>14, SocketFrame
  <1> QED BY <1>3, <1>6, <1>7, <1>8 DEF InitMonitor

-----------------------------------------------------------------------------
(* Events.                                                                 *)

\* A step that changes only what waits for the open handle p.
LEMMA InboxSound ==
  ASSUME IInv, NEW p \in Handles, lib.home[p] # Null, NEW q \in Seq(Frame),
         lib' = [lib EXCEPT !.inbox[p] = q], UNCHANGED life
  PROVE  /\ LibSound(lib)' /\ lib'.home = lib.home /\ lib'.watch = lib.watch
         /\ lib'.inbox[p] = q /\ \A h \in Handles \ {p} : lib'.inbox[h] = lib.inbox[h]
  <1>1. lib \in LibType /\ lib.inbox \in [Handles -> Seq(Frame)]
    BY DEF IInv, LibSound, LibType, Frame
  <1>2. /\ lib' \in LibType /\ lib'.home = lib.home /\ lib'.watch = lib.watch
        /\ lib'.inbox = [lib.inbox EXCEPT ![p] = q]
    BY <1>1 DEF LibType, Frame
  <1>3. lib'.inbox[p] = q /\ \A h \in Handles \ {p} : lib'.inbox[h] = lib.inbox[h]
    BY <1>1, <1>2
  <1>4. LibSound(lib)'
    BY <1>2, <1>3 DEF IInv, LibSound
  <1> QED BY <1>2, <1>3, <1>4

\* What does not touch the objects keeps their ownership and the monitoring.
LEMMA InboxFrame ==
  ASSUME IInv, UNCHANGED <<ownerVars, sock, mon, left>>,
         lib'.home = lib.home, lib'.watch = lib.watch
  PROVE  ContextsHeld' /\ Owns(Owned, lib.home)' /\ MonitoringHasAnEnd' /\ Owned' = Owned
  <1>1. Owned' = Owned
    BY DEF Owned
  <1>2. Owns(Owned, lib.home)'
    BY <1>1 DEF IInv, Owns
  <1>3. ContextsHeld'
    BY DEF IInv, ContextsHeld, ownerVars
  <1>4. MonitoringHasAnEnd'
    BY DEF IInv, MonitoringHasAnEnd, Referenced, Stopped, ownerVars
  <1> QED BY <1>1, <1>2, <1>3, <1>4

\* check_event reads the first frame of an event.
LEMMA ReadEventStep ==
  ASSUME IInv, NEW m \in Monitors, ReadEvent(m)
  PROVE  IInv'
  <1>1. PICK p : p = mon[m].own.handle
    OBVIOUS
  <1>2. PICK q : q = lib.inbox[p]
    OBVIOUS
  <1>3. /\ call = Runs /\ mon[m].own # Closed /\ ~Stopped(mon[m].own.ctxptr) /\ q # <<>>
        /\ lib' = [lib EXCEPT !.inbox[p] = Tail(@)]
        /\ call' = [at |-> "check", m |-> m, event |-> Head(q)]
        /\ UNCHANGED <<ownerVars, sock, mon, left>>
    BY <1>1, <1>2 DEF ReadEvent, contextVars
  <1>4. p \in Handles /\ lib.home[p] = mon[m].own.ctxptr /\ lib.home[p] # Null
    BY <1>1, <1>3, Holds, SocketsAssumption
  <1>5. q \in Seq(Frame)
    BY <1>2, <1>4 DEF IInv, LibSound, LibType, Frame
  <1>6. WholeAll(lib)
    BY <1>3, SoundBetweenCalls DEF Runs, Sound
  <1>7. Whole(q)
    BY <1>2, <1>3, <1>4, <1>6 DEF WholeAll
  <1>8. /\ Head(q) \in EventFrames /\ Tail(q) \in Seq(Frame) /\ Tail(q) # <<>>
        /\ \E e \in Events : <<Head(q), Head(Tail(q))>> = Frames(e)
        /\ Whole(Tail(Tail(q)))
    BY <1>3, <1>5, <1>7, WholeSplit
  <1>9. lib' = [lib EXCEPT !.inbox[p] = Tail(q)]
    BY <1>2, <1>3
  <1>10. /\ LibSound(lib)' /\ lib'.home = lib.home /\ lib'.watch = lib.watch
         /\ lib'.inbox[p] = Tail(q) /\ \A h \in Handles \ {p} : lib'.inbox[h] = lib.inbox[h]
    BY <1>3, <1>4, <1>8, <1>9, InboxSound DEF ownerVars
  <1>11. ContextsHeld' /\ Owns(Owned, lib.home)' /\ MonitoringHasAnEnd'
    BY <1>3, <1>10, InboxFrame
  <1>12. Places'
    BY <1>3, <1>8 DEF IInv, Places
  <1>13. ASSUME NEW h \in Handles PROVE WholeEvents(h)'
    <2>1. Checking(h)' <=> h = p
      BY <1>1, <1>3 DEF Checking
    <2>2. Stopped(lib.home[h])' <=> Stopped(lib.home[h])
      BY <1>3, <1>10 DEF Stopped, ownerVars
    <2>3. CASE h = p
      BY <1>3, <1>8, <1>10, <2>1, <2>3 DEF WholeEvents
    <2>4. CASE h # p
      BY <1>6, <1>10, <2>1, <2>2, <2>4 DEF WholeEvents, WholeAll
    <2> QED BY <2>3, <2>4
  <1> QED BY <1>10, <1>11, <1>12, <1>13 DEF IInv

\* check_event reads the second frame, or finds that the context has ended.
LEMMA ReadAddressStep ==
  ASSUME IInv, ReadAddress
  PROVE  IInv'
  <1>1. PICK m : m = call.m
    OBVIOUS
  <1>2. call.at = "check" /\ m \in Monitors /\ call.event \in EventFrames /\ mon[m].own # Closed
    BY <1>1 DEF IInv, Places, ReadAddress, Runs, Unwinds
  <1>3. PICK p : p = mon[m].own.handle
    OBVIOUS
  <1>4. p \in Handles /\ lib.home[p] = mon[m].own.ctxptr /\ lib.home[p] # Null
    BY <1>2, <1>3, Holds, SocketsAssumption
  <1>5. \A h \in Handles : Checking(h) <=> h = p
    BY <1>1, <1>2, <1>3 DEF Checking
  <1>6. \A h \in Handles \ {p} : ~Stopped(lib.home[h]) => Whole(lib.inbox[h])
    BY <1>5 DEF IInv, WholeEvents
  <1>7. UNCHANGED <<ownerVars, sock, mon, left>>
    BY DEF ReadAddress, contextVars
  <1>8. CASE Stopped(mon[m].own.ctxptr)
    <2>1. call' = Runs /\ UNCHANGED lib
      BY <1>1, <1>8 DEF ReadAddress
    <2>2. Sound(lib)
      BY <1>4, <1>6, <1>8 DEF IInv, Sound, WholeAll
    <2> QED BY <1>7, <2>1, <2>2, OnlyCall
  <1>9. CASE ~Stopped(mon[m].own.ctxptr)
    <2>1. PICK q : q = lib.inbox[p]
      OBVIOUS
    <2>2. /\ lib' = [lib EXCEPT !.inbox[p] = Tail(q)]
          /\ call' = IF call.event = Frames("stopped")[1] THEN Runs
                     ELSE [at |-> "callback", told |-> <<call.event, Head(q)>>]
      BY <1>1, <1>3, <1>9, <2>1 DEF ReadAddress
    <2>3. /\ q # <<>> /\ Whole(Tail(q))
          /\ \E e \in Events : <<call.event, Head(q)>> = Frames(e)
      BY <1>4, <1>5, <1>9, <2>1 DEF IInv, WholeEvents
    <2>4. q \in Seq(Frame)
      BY <1>4, <2>1 DEF IInv, LibSound, LibType, Frame
    <2>5. Tail(q) \in Seq(Frame)
      BY <2>3, <2>4
    <2>6. /\ LibSound(lib)' /\ lib'.home = lib.home /\ lib'.watch = lib.watch
          /\ lib'.inbox[p] = Tail(q) /\ \A h \in Handles \ {p} : lib'.inbox[h] = lib.inbox[h]
      BY <1>4, <1>7, <2>2, <2>5, InboxSound DEF ownerVars
    <2>7. /\ ContextsHeld' /\ Owns(Owned, lib.home)' /\ MonitoringHasAnEnd' /\ Owned' = Owned
      BY <1>7, <2>6, InboxFrame
    <2>8. Sound(lib')
      <3>1. WholeAll(lib')
        BY <1>6, <2>3, <2>6 DEF WholeAll
      <3>2. LibSound(lib')
        BY <1>7, <2>6 DEF LibSound, ownerVars
      <3> QED BY <3>1, <3>2 DEF Sound
    <2>9. \/ call' = Runs
          \/ call' \in [at : {"callback"}, told : {Frames(e) : e \in {"connected", "closed"}}]
      <3>1. PICK e \in Events : <<call.event, Head(q)>> = Frames(e)
        BY <2>3
      <3>2. call.event = Frames(e)[1]
        BY <3>1 DEF Frames
      <3>3. CASE e = "stopped"
        BY <2>2, <3>2, <3>3
      <3>4. CASE e # "stopped"
        <4>1. e \in {"connected", "closed"}
          BY <3>4 DEF Events
        <4>2. call.event # Frames("stopped")[1]
          BY <3>2, <3>4 DEF Frames
        <4> QED BY <2>2, <3>1, <4>1, <4>2
      <3> QED BY <3>3, <3>4
    <2>10. call'.at # "check"
      BY <2>9 DEF Runs
    <2>11. Places'
      BY <1>7, <2>9, <2>10 DEF IInv, Places
    <2>12. Owns(Owned', lib'.home)
      BY <2>6, <2>7 DEF IInv
    <2> QED BY <1>7, <2>7, <2>8, <2>10, <2>11, <2>12, SocketFrame
  <1> QED BY <1>8, <1>9

\* libzmq reports an event, also while a check_event is between its frames.
LEMMA LibEventStep ==
  ASSUME IInv, NEW h \in Handles, LibEvent(h)
  PROVE  IInv'
  <1>1. PICK w \in Handles : w = lib.watch[h]
    BY DEF LibEvent
  <1>2. PICK q : q = lib.inbox[w]
    OBVIOUS
  <1>3. PICK e \in Events : lib' = [lib EXCEPT !.inbox[w] = q \o Frames(e)]
    BY <1>1, <1>2 DEF LibEvent, Events
  <1>4. UNCHANGED <<ownerVars, sock, mon, call, left>>
    BY DEF LibEvent, contextVars
  <1>5. lib.home[w] # Null
    BY <1>1 DEF IInv, LibSound
  <1>6. q \in Seq(Frame)
    BY <1>2 DEF IInv, LibSound, LibType, Frame
  <1>7. Frames(e) \in Seq(Frame)
    BY DEF Frames, Frame, EventFrames
  <1>8. q \o Frames(e) \in Seq(Frame)
    BY <1>6, <1>7, ConcatProperties
  <1>9. /\ LibSound(lib)' /\ lib'.home = lib.home /\ lib'.watch = lib.watch
        /\ lib'.inbox[w] = q \o Frames(e) /\ \A g \in Handles \ {w} : lib'.inbox[g] = lib.inbox[g]
    BY <1>3, <1>4, <1>5, <1>8, InboxSound DEF ownerVars
  <1>10. ContextsHeld' /\ Owns(Owned, lib.home)' /\ MonitoringHasAnEnd'
    BY <1>4, <1>9, InboxFrame
  <1>11. Places'
    BY <1>4 DEF IInv, Places
  <1>12. ASSUME NEW g \in Handles PROVE WholeEvents(g)'
    <2>1. /\ Checking(g)' <=> Checking(g)
          /\ Stopped(lib.home[g])' <=> Stopped(lib.home[g])
      BY <1>4, <1>9 DEF Checking, Stopped, ownerVars
    <2>2. WholeEvents(g)
      BY DEF IInv
    <2>3. CASE g # w
      BY <1>4, <1>9, <2>1, <2>2, <2>3 DEF WholeEvents
    <2>4. CASE g = w /\ ~Stopped(lib.home[g]) /\ Checking(g)
      <3>1. /\ q # <<>> /\ Whole(Tail(q))
            /\ \E d \in Events : <<call.event, Head(q)>> = Frames(d)
        BY <1>2, <2>2, <2>4 DEF WholeEvents
      <3>2. Tail(q) \in Seq(Frame)
        BY <1>6, <3>1
      <3>3. Whole(Tail(q) \o Frames(e))
        BY <3>1, <3>2, WholeAppended
      <3>4. /\ q \o Frames(e) # <<>> /\ Head(q \o Frames(e)) = Head(q)
            /\ Tail(q \o Frames(e)) = Tail(q) \o Frames(e)
        BY <1>6, <1>7, <3>1
      <3> QED BY <1>4, <1>9, <2>1, <2>4, <3>1, <3>3, <3>4 DEF WholeEvents
    <2>5. CASE g = w /\ ~Stopped(lib.home[g]) /\ ~Checking(g)
      <3>1. Whole(q)
        BY <1>2, <2>2, <2>5 DEF WholeEvents
      <3>2. Whole(q \o Frames(e))
        BY <1>6, <3>1, WholeAppended
      <3> QED BY <1>9, <2>1, <2>5, <3>2 DEF WholeEvents
    <2>6. CASE Stopped(lib.home[g])
      BY <2>1, <2>6 DEF WholeEvents
    <2> QED BY <2>3, <2>4, <2>5, <2>6
  <1> QED BY <1>9, <1>10, <1>11, <1>12 DEF IInv

-----------------------------------------------------------------------------
(* The invariant.                                                          *)

\* Before the first constructor.
LEMMA InitIInv == Init => IInv
  <1> SUFFICES ASSUME Init PROVE IInv
    OBVIOUS
  <1>1. Closed \in SocketType
    BY DEF Closed, SocketType
  <1>2. Places
    BY <1>1 DEF Init, Places, Unused, Runs
  <1>3. ContextsHeld
    BY SocketsAssumption DEF Init, ContextsHeld
  <1>4. lib \in LibType
    BY DEF Init, LibType
  <1>5. LibSound(lib)
    BY <1>4, SocketsAssumption DEF Init, LibSound
  <1>6. Owned \in [Objects -> SocketType] /\ \A o \in Objects : Owned[o] = Closed
    BY <1>1, SocketsAssumption DEF Init, Owned, Objects, Unused
  <1>7. Owns(Owned, lib.home)
    BY <1>6 DEF Init, Owns, Objects
  <1>8. MonitoringHasAnEnd
    BY DEF Init, MonitoringHasAnEnd
  <1>9. \A h \in Handles : WholeEvents(h)
    BY WholeEmpty DEF Init, WholeEvents, Checking, Runs
  <1> QED BY <1>2, <1>3, <1>5, <1>7, <1>8, <1>9 DEF IInv

\* Every step of either thread, and of libzmq, keeps the invariant.
LEMMA NextIInv == IInv /\ [Next]_vars => IInv'
  <1> SUFFICES ASSUME IInv, [Next]_vars PROVE IInv'
    OBVIOUS
  <1>1. CASE SocketStep
    <2>1. ASSUME NEW s \in SocketVars, CloseSocket(s) PROVE IInv'
      BY <2>1, CloseSocketStep
    <2>2. ASSUME NEW s \in SocketVars, UseThrows(s) PROVE IInv'
      BY <2>2, SoundBetweenCalls, OnlyCall DEF UseThrows, Runs, contextVars
    <2>3. ASSUME NEW s \in SocketVars, NEW v \in ContextVars, NewSocket(s, v) PROVE IInv'
      BY <2>3, NewSocketStep
    <2>4. ASSUME NEW s \in SocketVars, NEW t \in SocketVars, MoveSocket(s, t) PROVE IInv'
      BY <2>4, MoveSocketStep
    <2>5. ASSUME NEW s \in SocketVars, NEW t \in SocketVars, SwapSockets(s, t) PROVE IInv'
      BY <2>5, SwapSocketsStep
    <2>6. ASSUME NEW s \in SocketVars, NEW m \in Monitors, InitMonitor(m, s) PROVE IInv'
      BY <2>6, InitMonitorStep
    <2>7. ASSUME NEW m \in Monitors, Abort(m) PROVE IInv'
      BY <2>7, AbortStep
    <2>8. ASSUME NEW m \in Monitors, DestroyMonitor(m) PROVE IInv'
      BY <2>8, DestroyMonitorStep
    <2>9. ASSUME NEW m \in Monitors, ReadEvent(m) PROVE IInv'
      BY <2>9, ReadEventStep
    <2>10. ASSUME NEW m \in Monitors, PollThrows(m) PROVE IInv'
      BY <2>10, SoundBetweenCalls, OnlyCall DEF PollThrows, Runs, contextVars
    <2>11. ASSUME NEW m \in Monitors, NEW n \in Monitors, MoveMonitor(m, n) PROVE IInv'
      BY <2>11, MoveMonitorStep
    <2>12. CASE ReadAddress
      BY <2>12, ReadAddressStep
    <2>13. CASE CallbackReturns
      BY <2>13, SoundBetweenCalls, OnlyCall DEF CallbackReturns, contextVars
    <2>14. CASE Handled
      BY <2>14, SoundBetweenCalls, OnlyCall DEF Handled, Unwinds, contextVars
    <2> QED BY <1>1, <2>1, <2>2, <2>3, <2>4, <2>5, <2>6, <2>7, <2>8, <2>9, <2>10, <2>11,
               <2>12, <2>13, <2>14 DEF SocketStep
  <1>2. CASE ContextStep
    BY <1>2, ContextStepIInv
  <1>3. ASSUME NEW h \in Handles, LibEvent(h) PROVE IInv'
    BY <1>3, LibEventStep
  <1>4. CASE UNCHANGED vars
    <2>1. ContextsHeld'
      BY <1>4 DEF IInv, ContextsHeld, vars, contextVars, ownerVars
    <2>2. UNCHANGED socketVars /\ UNCHANGED life
      BY <1>4 DEF vars, contextVars, ownerVars
    <2>3. \A k \in Contexts, h \in Handles : lib.home[h] = k => life[k] # "none"
      BY SocketsAssumption DEF IInv, LibSound
    <2> QED BY <2>1, <2>2, <2>3, ContextFrame
  <1>5. ASSUME NEW k \in Contexts, NEW l \in Lingering, NoLongerUnsent(k, l) PROVE IInv'
    <2>1. UNCHANGED socketVars /\ UNCHANGED ownerVars
      BY <1>5 DEF NoLongerUnsent
    <2>2. ContextsHeld'
      BY <2>1 DEF IInv, ContextsHeld, ownerVars
    <2>3. \A c \in Contexts, h \in Handles : lib.home[h] = c => life[c] # "none"
      BY SocketsAssumption DEF IInv, LibSound
    <2> QED BY <2>1, <2>2, <2>3, ContextFrame DEF ownerVars
  <1> QED BY <1>1, <1>2, <1>3, <1>4, <1>5 DEF Next

-----------------------------------------------------------------------------
\* The inductive invariant holds for any numbers of objects, contexts and handles.
THEOREM Invariance == Spec => []IInv
  BY InitIInv, NextIInv, PTL DEF Spec

\* No sequence of constructors, moves, swaps, assignments, exceptions and
\* destructors of socket_t and monitor_t leaks a socket of libzmq, closes one
\* twice or lets two objects own it.
THEOREM SocketsOwned == Spec => []HandlesOwned
  <1>1. IInv => HandlesOwned
    <2> SUFFICES ASSUME IInv PROVE HandlesOwned
      OBVIOUS
    <2>1. Owned \in [Objects -> SocketType] /\ DOMAIN Owned = Objects /\ Null \notin Handles
      BY Holds, SocketsAssumption
    <2>2. ASSUME NEW h \in Handles, lib.home[h] # Null
          PROVE  \E o \in DOMAIN Owned : Owned[o] = [handle |-> h, ctxptr |-> lib.home[h]]
      <3>1. PICK o \in Objects : Owned[o].handle = h
        BY <2>1, <2>2 DEF IInv, Owns
      <3>2. Owned[o] # Closed
        BY <3>1, <2>1 DEF Closed
      <3>3. Owned[o].ctxptr = lib.home[h]
        BY <2>1, <3>1, <3>2 DEF IInv, Owns
      <3>4. Owned[o] = [handle |-> h, ctxptr |-> lib.home[h]]
        BY <2>1, <3>1, <3>3 DEF SocketType
      <3> QED BY <2>1, <3>4
    <2> QED BY <2>2 DEF HandlesOwned, IInv, Owns
  <1> QED BY <1>1, Invariance, PTL

\* Whatever close, move assignment, swap and shutdown of context_t do, and however
\* often a signal interrupts zmq_ctx_term, a context that is not terminated is
\* held by exactly one context_t, and no context_t holds one that is.
THEOREM ContextsOwned == Spec => []ContextsTracked
  <1>1. IInv => ContextsTracked
    <2> SUFFICES ASSUME IInv, NEW k \in Contexts
                 PROVE  Cardinality({v \in ContextVars : ctx[v] = k}) = IF life[k] = "none" THEN 0 ELSE 1
      BY DEF ContextsTracked
    <2>1. k # Null
      BY SocketsAssumption
    <2>2. CASE life[k] = "none"
      <3>1. {v \in ContextVars : ctx[v] = k} = {}
        BY <2>2 DEF IInv, ContextsHeld
      <3> QED BY <2>2, <3>1, FS_EmptySet
    <2>3. CASE life[k] # "none"
      <3>1. PICK v \in ContextVars : ctx[v] = k
        BY <2>3 DEF IInv, ContextsHeld
      <3>2. {u \in ContextVars : ctx[u] = k} = {v}
        BY <2>1, <3>1 DEF IInv, ContextsHeld
      <3> QED BY <2>3, <3>2, FS_Singleton
    <2> QED BY <2>2, <2>3
  <1> QED BY <1>1, Invariance, PTL

\* A monitored socket has a monitor_t that can stop the monitoring, was left by
\* an init with another socket, or its context has ended.
THEOREM MonitoringEnds == Spec => []MonitoringHasAnEnd
  <1>1. IInv => MonitoringHasAnEnd
    BY DEF IInv
  <1> QED BY <1>1, Invariance, PTL

\* Every callback of a monitor_t gets an event with its own address, for any
\* number of events that wait.
THEOREM EventsStayWhole == Spec => []EventsWhole
  <1>1. IInv => EventsWhole
    <2> SUFFICES ASSUME IInv PROVE EventsWhole
      OBVIOUS
    <2>1. call.at = "callback" => call.told \in {Frames(e) : e \in {"connected", "closed"}}
      BY DEF IInv, Places, Runs, Unwinds
    <2>2. ASSUME NEW m \in Monitors, NEW p, p = mon[m].own.handle,
                 p # Null, ~Stopped(lib.home[p]), lib.inbox[p] # <<>>
          PROVE  DOMAIN Head(lib.inbox[p]) =
                   IF call.at = "check" /\ call.m = m THEN {"address"} ELSE {"event"}
      <3>1. p \in Handles /\ lib.inbox[p] \in Seq(Frame) /\ WholeEvents(p)
        <4>1. p \in Handles
          BY <2>2, Holds
        <4> QED BY <4>1 DEF IInv, LibSound, LibType, Frame
      <3>2. Checking(p) <=> call.at = "check" /\ call.m = m
        <4>1. ASSUME call.at = "check", mon[call.m].own.handle = p PROVE call.m = m
          <5>1. PICK n \in Monitors : n = call.m
            BY <4>1 DEF IInv, Places, Runs, Unwinds
          <5>2. n \in Objects /\ m \in Objects /\ Owned[n].handle = Owned[m].handle /\ Owned[n].handle # Null
            BY <2>2, <4>1, <5>1, Holds DEF Objects
          <5>3. DOMAIN Owned = Objects /\ Owned[n] # Closed
            BY <5>2, Holds
          <5> QED BY <5>1, <5>2, <5>3 DEF IInv, Owns
        <4> QED BY <2>2, <4>1 DEF Checking
      <3>3. CASE Checking(p)
        <4>1. PICK e \in Events : <<call.event, Head(lib.inbox[p])>> = Frames(e)
          BY <2>2, <3>1, <3>3 DEF WholeEvents
        <4>2. Head(lib.inbox[p]) = [address |-> e]
          BY <4>1 DEF Frames
        <4> QED BY <3>2, <3>3, <4>2
      <3>4. CASE ~Checking(p)
        <4>1. Whole(lib.inbox[p])
          BY <2>2, <3>1, <3>4 DEF WholeEvents
        <4>2. Head(lib.inbox[p]) \in EventFrames
          BY <2>2, <3>1, <4>1, WholeSplit
        <4>3. DOMAIN Head(lib.inbox[p]) = {"event"}
          BY <4>2 DEF EventFrames
        <4> QED BY <3>2, <3>4, <4>3
      <3> QED BY <3>3, <3>4
    <2> QED BY <2>1, <2>2 DEF EventsWhole
  <1> QED BY <1>1, Invariance, PTL
=============================================================================
