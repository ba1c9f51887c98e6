---------------------------- MODULE ServerProofs ----------------------------
(***************************************************************************)
(* Theorems about the server process: first DispatchOutbox, for every      *)
(* number of frames and connections, every size of the buffer and every    *)
(* set of faults; then Migrations, for every number of containers, of      *)
(* crashes and of edits, on either database.                               *)
(***************************************************************************)
EXTENDS Server, SequenceTheorems, TLAPS

LEMMA Numbers ==
  /\ Frames \subseteq 0..MaxFrames /\ Conns \subseteq 0..MaxConns
  /\ 0 \notin Frames /\ 0 \notin Conns
  /\ \A x \in 0..MaxConns : x # 0 => x \in Conns
  /\ \A f \in Frames : f \in Nat
BY BoundAssumption DEF Frames, Conns

-----------------------------------------------------------------------------
(* Type correctness.                                                       *)

(* A connection with another state of its handler, of the daemon or of its *)
(* queue is a connection.                                                  *)
LEMMA ConnType ==
  ASSUME NEW k \in Conn
  PROVE  /\ \A st \in HandlerState : [k EXCEPT !.st = st] \in Conn
         /\ \A client \in Client : [k EXCEPT !.client = client] \in Conn
         /\ \A st \in HandlerState, client \in Client :
              [k EXCEPT !.st = st, !.client = client] \in Conn
         /\ \A st \in HandlerState, pump \in BOOLEAN, client \in Client :
              [k EXCEPT !.st = st, !.pump = pump, !.client = client] \in Conn
         /\ \A q \in Queue, pump \in BOOLEAN :
              [k EXCEPT !.queue = q, !.pump = pump] \in Conn
         /\ \A q \in Queue, seen \in SUBSET EventIds :
              [k EXCEPT !.seen = seen, !.queue = q] \in Conn
BY DEF Conn

(* A frame with another row, or taken one more time, is a frame.           *)
LEMMA FrameType ==
  ASSUME NEW x \in Frame
  PROVE  /\ \A row \in RowState : [x EXCEPT !.row = row] \in Frame
         /\ \A kind \in AllKinds, of \in 0..MaxFrames, row \in RowState :
              [x EXCEPT !.kind = kind, !.of = of, !.row = row] \in Frame
         /\ \A got \in 0..2 : [x EXCEPT !.got = got] \in Frame
         /\ [x EXCEPT !.old = TRUE] \in Frame
BY DEF Frame

(* Typed when the dispatcher sends a frame as well as when a loop does.    *)
LEMMA SentType ==
  ASSUME conn \in [Conns -> Conn], NEW c \in Conns, NEW f \in Frames,
         NEW id \in EventIds
  PROVE  Sent(c, f, id) \in [Conns -> Conn]
<1> DEFINE q == IF Len(conn[c].queue) < SendBuf THEN Append(conn[c].queue, f)
                ELSE conn[c].queue
           seen == conn[c].seen \cup {id}
<1>1. conn[c].queue \in Queue
  BY DEF Conn
<1>2. q \in Queue
  BY <1>1, BoundAssumption DEF Queue
<1>3. seen \in SUBSET EventIds
  BY DEF Conn
<1>4. Sent(c, f, id) \in {conn, [conn EXCEPT ![c].seen = seen, ![c].queue = q]}
  BY DEF Sent
<1> HIDE DEF q, seen
<1>5. [conn[c] EXCEPT !.seen = seen, !.queue = q] \in Conn
  BY <1>2, <1>3, ConnType
<1> QED BY <1>4, <1>5

LEMMA EventType ==
  ASSUME frame \in [Frames -> Frame], NEW f \in Frames
  PROVE  Event(f) \in EventIds
BY Numbers DEF Event, EventIds, Frame, AllKinds

LEMMA DeadType == DeadConn \in Conn /\ NoConn \in Conn
<1>1. <<>> \in Queue
  BY BoundAssumption DEF Queue
<1>2. {} \in SUBSET EventIds
  OBVIOUS
<1>3. NoConn \in Conn
  BY <1>1, <1>2 DEF NoConn, Conn, Client, HandlerState
<1>4. DeadConn \in Conn
  BY <1>3, ConnType DEF DeadConn, Client, HandlerState
<1> QED BY <1>3, <1>4

LEMMA RestingType == Resting \in Loop
BY BoundAssumption DEF Resting, Loop

LEMMA TypeInit == Init => TypeOK
<1>1. Unsent \in Frame
  BY BoundAssumption DEF Unsent, Frame, RowState
<1> QED BY <1>1, DeadType, RestingType, BoundAssumption DEF Init, TypeOK

LEMMA TypeDispatch ==
  ASSUME TypeOK, NEW kind \in Kinds, Dispatch(kind)
  PROVE  TypeOK'
<1> USE DEF TypeOK
<1>1. PICK f \in NextFrame, of \in Aims(kind) :
        Write(f, kind, of) \/ Send(f, kind, of)
  BY DEF Dispatch
<1>2. /\ f \in Frames /\ f \in 0..MaxFrames
      /\ of \in 0..MaxFrames /\ kind \in AllKinds
  BY Numbers, BoundAssumption, KindAssumption DEF NextFrame, Aims
<1>3. CASE Write(f, kind, of)
  <2>1. frame' \in [Frames -> Frame]
    BY <1>2, <1>3, FrameType DEF Write, RowState
  <2> QED BY <1>3, <2>1 DEF Write
<1>4. CASE Send(f, kind, of)
  <2>1. frame' \in [Frames -> Frame]
    BY <1>2, <1>4, FrameType DEF Send, RowState
  <2>2. (IF kind = "trigger" THEN <<kind, f>> ELSE <<kind, of>>) \in EventIds
    BY <1>2 DEF EventIds
  <2>3. slot \in Conns
    BY <1>4, Numbers DEF Send
  <2> QED BY <1>2, <1>4, <2>1, <2>2, <2>3, SentType DEF Send
<1> QED BY <1>1, <1>3, <1>4

LEMMA TypeLoop ==
  ASSUME TypeOK, SweepBegins \/ DeliverRow \/ SweepEnds \/ DrainEnds
  PROVE  TypeOK'
<1> USE DEF TypeOK
<1>1. CASE SweepBegins
  <2>1. loop' \in Loop
    BY <1>1, BoundAssumption DEF SweepBegins, Loop, Pending
  <2> QED BY <1>1, <2>1 DEF SweepBegins
<1>2. CASE DeliverRow
  <2>1. PICK f \in Oldest(loop.todo) :
          /\ IF Target = 0 THEN UNCHANGED <<frame, conn>>
             ELSE conn' = Sent(Target, f, Event(f)) /\ frame' = Delivered(f)
          /\ loop' = [loop EXCEPT !.todo = @ \ {f}]
          /\ UNCHANGED slot
    BY <1>2 DEF DeliverRow
  <2>2. f \in Frames
    BY DEF Oldest, Loop
  <2>3. loop' \in Loop
    BY <2>1 DEF Loop
  <2>4. Delivered(f) \in [Frames -> Frame]
    <3>1. (IF frame[f].row = "pending" THEN "delivered" ELSE frame[f].row)
            \in RowState
      BY <2>2 DEF Frame, RowState
    <3> QED BY <2>2, <3>1, FrameType DEF Delivered
  <2>5. Target \in 0..MaxConns
    BY DEF Target, Loop
  <2> QED BY <2>1, <2>2, <2>3, <2>4, <2>5, Numbers, SentType, EventType
<1>3. CASE SweepEnds
  <2>1. \A f \in Frames : [frame[f] EXCEPT !.row = "failed"] \in Frame
    BY FrameType DEF RowState
  <2> QED BY <1>3, <2>1, RestingType DEF SweepEnds
<1>4. CASE DrainEnds
  <2>1. conn' \in [Conns -> Conn]
    BY <1>4, ConnType DEF DrainEnds, HandlerState
  <2> QED BY <1>4, <2>1, RestingType DEF DrainEnds
<1> QED BY <1>1, <1>2, <1>3, <1>4

LEMMA DrainType ==
  ASSUME TypeOK, NEW c \in Conns, Drain(c)
  PROVE  loop' \in Loop
BY Numbers DEF Drain, Loop, Pending, TypeOK

LEMMA TypeConnection ==
  ASSUME TypeOK, NEW c \in Conns,
         \/ Register(c) \/ OldClosed(c) \/ Ack(c) \/ Pump(c) \/ Disconnect(c)
         \/ Connect(c)  \/ PingFails(c) \/ Drop(c) \/ HalfOpen(c)
  PROVE  TypeOK'
<1> USE DEF TypeOK
<1>1. c \in 0..MaxConns /\ 0 \in 0..MaxConns
  BY Numbers, BoundAssumption
<1>2. \A d \in Conns, st \in HandlerState, client \in Client :
        /\ [conn EXCEPT ![d].st = st] \in [Conns -> Conn]
        /\ [conn EXCEPT ![d].client = client] \in [Conns -> Conn]
        /\ [conn EXCEPT ![d].st = st, ![d].client = client] \in [Conns -> Conn]
  BY ConnType
<1>3. Vacated(c) \in 0..MaxConns /\ Ended(c) \in [Conns -> Conn]
  BY <1>1, DeadType DEF Vacated, Ended
<1>4. CASE Register(c)
  <2> DEFINE held == [conn EXCEPT ![c].st = "held"]
  <2>1. held \in [Conns -> Conn]
    BY <1>2 DEF HandlerState, Client
  <2>2. [held EXCEPT ![slot].client = "gone"] \in [Conns -> Conn]
    <3> HIDE DEF held
    <3> QED BY <2>1, ConnType DEF Client
  <2> QED BY <1>1, <1>4, <2>1, <2>2, DrainType DEF Register
<1>5. CASE OldClosed(c)
  BY <1>5, DrainType DEF OldClosed
<1>6. CASE Ack(c)
  <2>1. CASE conn' = Ended(c) /\ slot' = Vacated(c)
    BY <1>3, <1>6, <2>1 DEF Ack
  <2>2. CASE /\ conn' = [conn EXCEPT ![c].st = "served", ![c].pump = TRUE,
                           ![c].client = IF @ = "waiting" THEN "up" ELSE @]
             /\ UNCHANGED slot
    <3> DEFINE client == IF conn[c].client = "waiting" THEN "up"
                         ELSE conn[c].client
    <3>1. client \in Client
      BY DEF Conn, Client
    <3>2. conn' = [conn EXCEPT ![c] = [conn[c] EXCEPT !.st = "served",
                                         !.pump = TRUE, !.client = client]]
      BY <2>2
    <3> HIDE DEF client
    <3>3. [conn[c] EXCEPT !.st = "served", !.pump = TRUE, !.client = client]
            \in Conn
      BY <3>1, ConnType DEF HandlerState
    <3>4. conn' \in [Conns -> Conn]
      BY <3>2, <3>3
    <3>5. UNCHANGED <<frame, slot, loop>>
      BY <1>6, <2>2 DEF Ack
    <3> QED BY <3>4, <3>5
  <2> QED BY <1>6, <2>1, <2>2 DEF Ack
<1>7. CASE Pump(c)
  <2>1. conn[c].queue \in Queue /\ conn[c].queue # <<>>
    BY <1>7 DEF Pump, Conn
  <2>2. Head(conn[c].queue) \in Frames
    BY <2>1, HeadTailProperties DEF Queue
  <2>3. Tail(conn[c].queue) \in Queue
    <3>1. Tail(conn[c].queue) \in Seq(Frames)
      BY <2>1, HeadTailProperties DEF Queue
    <3>2. Len(Tail(conn[c].queue)) <= SendBuf
      BY <2>1, HeadTailProperties, BoundAssumption DEF Queue
    <3> QED BY <3>1, <3>2 DEF Queue
  <2>4. frame' \in [Frames -> Frame]
    <3>1. frame' = [frame EXCEPT ![Head(conn[c].queue)].got =
                      IF conn[c].client = "up" /\ @ < 2 THEN @ + 1 ELSE @]
      BY <1>7 DEF Pump
    <3> QED BY <2>2, <3>1 DEF Frame
  <2>5. conn' \in [Conns -> Conn]
    <3>1. PICK goesOn \in BOOLEAN :
            conn' = [conn EXCEPT ![c].queue = Tail(@), ![c].pump = goesOn]
      BY <1>7 DEF Pump
    <3>2. [conn[c] EXCEPT !.queue = Tail(conn[c].queue), !.pump = goesOn]
            \in Conn
      BY <2>3, ConnType
    <3> QED BY <3>1, <3>2
  <2> QED BY <1>7, <2>4, <2>5 DEF Pump
<1>8. CASE Disconnect(c)
  BY <1>3, <1>8 DEF Disconnect
<1>9. CASE Connect(c)
  BY <1>2, <1>9 DEF Connect, HandlerState, Client
<1>10. CASE PingFails(c) \/ Drop(c) \/ HalfOpen(c)
  <2>1. PICK client \in Client : conn' = [conn EXCEPT ![c].client = client]
    BY <1>10 DEF PingFails, Drop, HalfOpen, Client
  <2>2. conn' \in [Conns -> Conn]
    BY <2>1, ConnType
  <2> QED BY <1>10, <2>2 DEF PingFails, Drop, HalfOpen
<1> QED BY <1>4, <1>5, <1>6, <1>7, <1>8, <1>9, <1>10

LEMMA TypeNext == TypeOK /\ [Next]_vars => TypeOK'
<1> SUFFICES ASSUME TypeOK, [Next]_vars
             PROVE  TypeOK'
  OBVIOUS
<1>1. CASE UNCHANGED vars
  BY <1>1 DEF TypeOK, vars
<1>2. CASE \E kind \in Kinds : Dispatch(kind)
  BY <1>2, TypeDispatch
<1>3. CASE Hub
  BY <1>3, TypeLoop, TypeConnection DEF Hub
<1>4. CASE Daemon
  BY <1>4, TypeConnection DEF Daemon
<1>5. CASE Environment
  <2>1. CASE Restart
    <3>1. conn' \in [Conns -> Conn]
      BY <2>1, DeadType DEF Restart, TypeOK
    <3> QED BY <2>1, <3>1, RestingType, BoundAssumption DEF Restart, TypeOK
  <2>2. CASE \E c \in Conns : Drop(c) \/ HalfOpen(c)
    BY <2>2, TypeConnection
  <2>3. CASE \E f \in Frames : GoesOld(f)
    <3>1. PICK f \in Frames : /\ frame' = [frame EXCEPT ![f].old = TRUE]
                             /\ UNCHANGED <<conn, slot, loop>>
      BY <2>3 DEF GoesOld
    <3>2. [frame[f] EXCEPT !.old = TRUE] \in Frame
      BY DEF TypeOK, Frame
    <3>3. frame' \in [Frames -> Frame]
      BY <3>1, <3>2 DEF TypeOK
    <3> QED BY <3>1, <3>3 DEF TypeOK
  <2> QED BY <1>5, <2>1, <2>2, <2>3 DEF Environment
<1> QED BY <1>1, <1>2, <1>3, <1>4, <1>5 DEF Next

(* Every variable keeps its type, and no connection queues more frames     *)
(* than _SEND_BUF.                                                         *)
THEOREM OutboxTypeCorrect == Spec => []TypeOK
BY TypeInit, TypeNext, PTL DEF Spec

-----------------------------------------------------------------------------
(* Registration.                                                           *)

(* The registered connection is the only one whose handler has entered the *)
(* hub and whose daemon has not gone; what a drain works on is still held. *)
RegInv ==
  /\ \A c \in Conns :
       /\ conn[c].client = "up" => conn[c].st = "served"
       /\ /\ conn[c].st \in {"held", "drained", "served"}
          /\ conn[c].client # "gone"
          => slot = c
  /\ loop.job = "drain" => loop.conn \in Conns /\ conn[loop.conn].st = "held"

(* Sending a frame concerns the queue and the ring only.                   *)
LEMMA SentKeeps ==
  ASSUME conn \in [Conns -> Conn], NEW c \in Conns, NEW f, NEW id,
         NEW d \in Conns
  PROVE  /\ Sent(c, f, id)[d].st = conn[d].st
         /\ Sent(c, f, id)[d].client = conn[d].client
BY DEF Sent, Conn

LEMMA RegKept ==
  ASSUME RegInv, UNCHANGED <<slot, loop>>,
         \A c \in Conns : /\ conn'[c].st = conn[c].st
                          /\ conn'[c].client \in {conn[c].client, "gone"}
  PROVE  RegInv'
BY DEF RegInv

LEMMA RegConnection ==
  ASSUME TypeOK, RegInv, NEW c \in Conns,
         \/ Register(c) \/ OldClosed(c) \/ Ack(c) \/ Pump(c) \/ Disconnect(c)
         \/ Connect(c)  \/ PingFails(c) \/ Drop(c) \/ HalfOpen(c)
  PROVE  RegInv'
<1> USE DEF TypeOK
<1>1. \A d \in Conns : Ended(c)[d] = IF d = c THEN DeadConn ELSE conn[d]
  BY DEF Ended
<1>2. DeadConn.st = "closed" /\ DeadConn.client = "gone"
  BY DEF DeadConn, NoConn
<1>3. CASE Register(c)
  <2>1. \A d \in Conns : d # c => conn'[d].st = conn[d].st
    BY <1>3 DEF Register, Conn
  <2>2. conn'[c].st = "held" /\ slot' = c
    BY <1>3 DEF Register, Conn
  <2>3. \A d \in Conns : /\ conn'[d].client \in {conn[d].client, "gone"}
                         /\ d = slot => conn'[d].client = "gone"
    BY <1>3, Numbers DEF Register, Conn
  <2>4. loop'.job = "drain" => loop'.conn = c
    BY <1>3 DEF Register, Drain, Idle
  <2>5. conn[c].st = "opened"
    BY <1>3 DEF Register
  <2> QED BY <2>1, <2>2, <2>3, <2>4, <2>5 DEF RegInv
<1>4. CASE OldClosed(c)
  BY <1>4 DEF OldClosed, Drain, RegInv
<1>5. CASE Ack(c)
  <2>1. CASE conn' = Ended(c) /\ slot' = Vacated(c)
    BY <1>1, <1>2, <1>5, <2>1 DEF Ack, Vacated, Idle, RegInv
  <2>2. CASE /\ conn[c].client # "gone"
             /\ conn' = [conn EXCEPT ![c].st = "served", ![c].pump = TRUE,
                           ![c].client = IF @ = "waiting" THEN "up" ELSE @]
             /\ UNCHANGED slot
    <3>1. \A d \in Conns : d # c => conn'[d] = conn[d]
      BY <2>2
    <3>2. conn'[c].st = "served" /\ conn'[c].client # "gone"
      BY <2>2 DEF Conn
    <3>3. slot = c
      BY <1>5, <2>2 DEF Ack, RegInv
    <3>4. loop' = loop /\ loop.job # "drain"
      BY <1>5 DEF Ack, Idle
    <3> QED BY <2>2, <3>1, <3>2, <3>3, <3>4 DEF RegInv
  <2> QED BY <1>5, <2>1, <2>2 DEF Ack
<1>6. CASE Pump(c)
  <2>1. PICK goesOn \in BOOLEAN :
          conn' = [conn EXCEPT ![c].queue = Tail(@), ![c].pump = goesOn]
    BY <1>6 DEF Pump
  <2>2. \A d \in Conns : conn'[d].st = conn[d].st /\ conn'[d].client = conn[d].client
    BY <2>1 DEF Conn
  <2> QED BY <1>6, <2>2, RegKept DEF Pump
<1>7. CASE Disconnect(c)
  BY <1>1, <1>2, <1>7 DEF Disconnect, Vacated, Idle, RegInv
<1>8. CASE Connect(c)
  <2>1. conn[c].st = "none"
    BY <1>8 DEF Connect, NextConn
  <2>2. \A d \in Conns : d # c => conn'[d] = conn[d]
    BY <1>8 DEF Connect
  <2>3. conn'[c].st = "opened" /\ conn'[c].client = "waiting"
    BY <1>8 DEF Connect, Conn
  <2> QED BY <1>8, <2>1, <2>2, <2>3 DEF Connect, RegInv
<1>9. CASE PingFails(c) \/ Drop(c)
  <2>1. \A d \in Conns : /\ conn'[d].st = conn[d].st
                         /\ conn'[d].client \in {conn[d].client, "gone"}
    BY <1>9 DEF PingFails, Drop, Conn
  <2> QED BY <1>9, <2>1, RegKept DEF PingFails, Drop
<1>10. CASE HalfOpen(c)
  <2>1. \A d \in Conns : /\ conn'[d].st = conn[d].st
                         /\ d # c => conn'[d].client = conn[d].client
    BY <1>10 DEF HalfOpen, Conn
  <2>2. conn[c].client # "gone" /\ conn'[c].client = "deaf"
    BY <1>10 DEF HalfOpen, Alive, Conn
  <2> QED BY <1>10, <2>1, <2>2 DEF HalfOpen, RegInv
<1> QED BY <1>3, <1>4, <1>5, <1>6, <1>7, <1>8, <1>9, <1>10

LEMMA RegNext == TypeOK /\ RegInv /\ [Next]_vars => RegInv'
<1> SUFFICES ASSUME TypeOK, RegInv, [Next]_vars
             PROVE  RegInv'
  OBVIOUS
<1> USE DEF TypeOK
<1>1. CASE UNCHANGED vars
  BY <1>1 DEF RegInv, vars
<1>2. ASSUME NEW kind \in Kinds, Dispatch(kind)
      PROVE  RegInv'
  <2>1. PICK f \in NextFrame, of \in Aims(kind) :
          Write(f, kind, of) \/ Send(f, kind, of)
    BY <1>2 DEF Dispatch
  <2>2. CASE Write(f, kind, of)
    BY <2>2 DEF Write, RegInv
  <2>3. CASE Send(f, kind, of)
    BY <2>3, SentKeeps, RegKept, Numbers DEF Send
  <2> QED BY <2>1, <2>2, <2>3
<1>3. CASE SweepBegins
  BY <1>3 DEF SweepBegins, RegInv
<1>4. CASE DeliverRow
  <2>1. \A d \in Conns : conn'[d].st = conn[d].st /\ conn'[d].client = conn[d].client
    BY <1>4, SentKeeps, Numbers DEF DeliverRow, Target, Loop
  <2>2. slot' = slot /\ loop'.job = loop.job /\ loop'.conn = loop.conn
    BY <1>4 DEF DeliverRow, Loop
  <2> QED BY <2>1, <2>2 DEF RegInv
<1>5. CASE SweepEnds
  BY <1>5 DEF SweepEnds, Resting, RegInv
<1>6. CASE DrainEnds
  <2>1. \A d \in Conns : /\ conn'[d].client = conn[d].client
                         /\ d # loop.conn => conn'[d].st = conn[d].st
    BY <1>6 DEF DrainEnds, Conn
  <2>2. conn[loop.conn].st = "held" /\ conn'[loop.conn].st = "drained"
    BY <1>6 DEF DrainEnds, RegInv, Conn
  <2> QED BY <1>6, <2>1, <2>2 DEF DrainEnds, Resting, RegInv
<1>7. CASE \E c \in Conns : \/ Register(c) \/ OldClosed(c) \/ Ack(c) \/ Pump(c)
                            \/ Disconnect(c) \/ Connect(c) \/ PingFails(c)
                            \/ Drop(c) \/ HalfOpen(c)
  BY <1>7, RegConnection
<1>8. CASE Restart
  <2>1. \A c \in Conns : conn'[c].st \in {"none", "closed"}
    BY <1>8 DEF Restart, DeadConn, NoConn
  <2>2. \A c \in Conns : conn[c].st = "none" => conn'[c] = conn[c]
    BY <1>8 DEF Restart
  <2>3. \A c \in Conns : conn[c].st # "none" => conn'[c].client = "gone"
    BY <1>8 DEF Restart, DeadConn, NoConn
  <2> QED BY <1>8, <2>1, <2>2, <2>3 DEF Restart, Resting, RegInv
<1>9. CASE \E f \in Frames : GoesOld(f)
  BY <1>9 DEF GoesOld, RegInv
<1> QED BY <1>1, <1>2, <1>3, <1>4, <1>5, <1>6, <1>7, <1>8, <1>9
        DEF Next, Hub, Daemon, Environment

(* WsHub.disconnect's identity check: a daemon that holds its ack is the   *)
(* one the hub would send to, whatever older handlers end meanwhile.       *)
THEOREM RegistrationHolds == Spec => []AckedIsRegistered
<1>1. Init => RegInv
  BY DEF Init, NoConn, Resting, RegInv
<1>2. RegInv => AckedIsRegistered
  BY DEF RegInv, AckedIsRegistered
<1> QED BY <1>1, <1>2, RegNext, OutboxTypeCorrect, PTL DEF Spec

-----------------------------------------------------------------------------
(* DispatchOutbox implements FrameChannel.                                 *)

(* A frame in a queue has been sent and has not arrived yet; it waits in   *)
(* one place of one queue.                                                 *)
InTransit(f) ==
  /\ frame[f].kind # "none"
  /\ frame[f].row \notin {"pending", "failed"}
  /\ frame[f].got = 0

Places(c) == 1..Len(conn[c].queue)

QueueInv ==
  /\ \A c \in Conns : \A i \in Places(c) : InTransit(conn[c].queue[i])
  /\ \A c, d \in Conns : \A i \in Places(c), j \in Places(d) :
       conn[c].queue[i] = conn[d].queue[j] => c = d /\ i = j

(* A frame whose row waits, or was given up, has not arrived.              *)
FrameInv ==
  \A f \in Frames :
    /\ frame[f].kind = "none" => frame[f].row = "none" /\ frame[f].got = 0
    /\ frame[f].row \in {"pending", "failed"} => frame[f].got = 0
    /\ frame[f].got \in {0, 1}

(* A delivery loop works on rows that still wait.                          *)
LoopInv == \A f \in loop.todo : frame[f].row = "pending"

ChannelInv == QueueInv /\ FrameInv /\ LoopInv

-----------------------------------------------------------------------------
(* What the steps do to the queues.                                        *)

LEMMA QueueFacts ==
  ASSUME TypeOK, NEW c \in Conns
  PROVE  /\ conn[c].queue \in Seq(Frames)
         /\ Len(conn[c].queue) \in Nat
         /\ \A i \in Places(c) : conn[c].queue[i] \in Frames
<1>1. conn[c].queue \in Seq(Frames)
  BY DEF TypeOK, Conn, Queue
<1> QED BY <1>1 DEF Places

(* A queue stays or goes with its connection, and no frame in transit is   *)
(* touched.                                                                *)
LEMMA QueuesKept ==
  ASSUME TypeOK, QueueInv,
         \A c \in Conns : conn'[c].queue \in {conn[c].queue, <<>>},
         \A f \in Frames : InTransit(f) => InTransit(f)'
  PROVE  QueueInv'
<1>1. \A c \in Conns : \A i \in Places(c)' :
        i \in Places(c) /\ conn'[c].queue[i] = conn[c].queue[i]
  BY DEF Places
<1>2. \A c \in Conns : \A i \in Places(c)' : InTransit(conn[c].queue[i])'
  <2> SUFFICES ASSUME NEW c \in Conns, NEW i \in Places(c)'
               PROVE  InTransit(conn[c].queue[i])'
    OBVIOUS
  <2>1. conn[c].queue[i] \in Frames /\ InTransit(conn[c].queue[i])
    BY <1>1, QueueFacts DEF QueueInv
  <2>2. PICK g \in Frames : g = conn[c].queue[i]
    BY <2>1
  <2>3. InTransit(g)'
    BY <2>1, <2>2
  <2> QED BY <1>1, <2>2, <2>3 DEF InTransit
<1>3. \A c, d \in Conns : \A i \in Places(c)', j \in Places(d)' :
        conn'[c].queue[i] = conn'[d].queue[j] => c = d /\ i = j
  BY <1>1 DEF QueueInv
<1> QED BY <1>2, <1>3 DEF QueueInv

(* A frame that was not in transit is sent.                                *)
LEMMA QueueSent ==
  ASSUME TypeOK, QueueInv,
         NEW c \in Conns, NEW f \in Frames, NEW id,
         conn' = Sent(c, f, id),
         ~InTransit(f), InTransit(f)',
         \A g \in Frames : g # f => frame'[g] = frame[g]
  PROVE  QueueInv'
<1>0. \A d \in Conns : d # c => conn'[d] = conn[d]
  BY DEF Sent, TypeOK
<1>1. CASE conn'[c].queue = conn[c].queue
  <2>1. \A d \in Conns : conn'[d].queue = conn[d].queue
    BY <1>0, <1>1
  <2>2. \A g \in Frames : InTransit(g) => InTransit(g)'
    BY DEF InTransit
  <2> QED BY <2>1, <2>2, QueuesKept
<1>2. CASE conn'[c].queue = Append(conn[c].queue, f)
  <2> DEFINE n == Len(conn[c].queue)
  <2>1. \A d \in Conns : d # c => conn'[d].queue = conn[d].queue
    BY <1>0
  <2>2. /\ n \in Nat /\ Len(conn'[c].queue) = n + 1
        /\ conn'[c].queue[n + 1] = f
        /\ \A i \in Places(c) : conn'[c].queue[i] = conn[c].queue[i]
    BY <1>2, QueueFacts, AppendProperties DEF Places
  <2>3. \A d \in Conns : \A i \in Places(d) :
          conn[d].queue[i] \in Frames /\ conn[d].queue[i] # f
    BY QueueFacts DEF QueueInv
  <2>4. \A d \in Conns : \A i \in Places(d)' :
          \/ i \in Places(d) /\ conn'[d].queue[i] = conn[d].queue[i]
          \/ d = c /\ i = n + 1 /\ conn'[d].queue[i] = f
    <3>1. Places(c)' = Places(c) \cup {n + 1}
      BY <2>2 DEF Places
    <3>2. \A d \in Conns : d # c => Places(d)' = Places(d)
      BY <2>1 DEF Places
    <3> HIDE DEF n
    <3> QED BY <2>1, <2>2, <3>1, <3>2
  <2>5. \A d \in Conns : \A i \in Places(d)' : InTransit(conn[d].queue[i])'
    BY <2>3, <2>4 DEF QueueInv, InTransit
  <2> HIDE DEF n
  <2> QED BY <2>3, <2>4, <2>5 DEF QueueInv
<1> QED BY <1>1, <1>2, QueueFacts DEF Sent, TypeOK, Conn

(* The first frame of a queue leaves it.                                   *)
LEMMA QueuePumped ==
  ASSUME TypeOK, QueueInv, NEW c \in Conns, conn[c].queue # <<>>,
         conn'[c].queue = Tail(conn[c].queue),
         \A d \in Conns : d # c => conn'[d].queue = conn[d].queue,
         \A g \in Frames : g # Head(conn[c].queue) => frame'[g] = frame[g]
  PROVE  QueueInv'
<1>1. /\ Len(conn[c].queue) \in Nat \ {0} /\ 1 \in Places(c)
      /\ Head(conn[c].queue) = conn[c].queue[1]
      /\ Len(Tail(conn[c].queue)) = Len(conn[c].queue) - 1
      /\ \A i \in 1..Len(Tail(conn[c].queue)) :
           Tail(conn[c].queue)[i] = conn[c].queue[i + 1]
  BY QueueFacts, HeadTailProperties DEF Places
<1> DEFINE from(d, i) == IF d = c THEN i + 1 ELSE i
<1>2. \A d \in Conns : \A i \in Places(d)' :
        /\ i \in Nat /\ from(d, i) \in Places(d)
        /\ conn'[d].queue[i] = conn[d].queue[from(d, i)]
        /\ d = c => from(d, i) # 1
  <2>1. ASSUME NEW i \in Places(c)'
        PROVE  i \in Nat \ {0} /\ i + 1 \in Places(c)
               /\ conn'[c].queue[i] = conn[c].queue[i + 1]
    <3> DEFINE n == Len(conn[c].queue)
               tail == Tail(conn[c].queue)
    <3>1. i \in 1..Len(tail) /\ conn'[c].queue = tail
      BY DEF Places
    <3>2. n \in Nat \ {0} /\ Len(tail) = n - 1
      BY <1>1
    <3>3. tail[i] = conn[c].queue[i + 1]
      BY <1>1, <3>1
    <3> HIDE DEF n, tail
    <3>4. i \in Nat \ {0} /\ i + 1 \in 1..n
      BY <3>1, <3>2
    <3>5. i + 1 \in Places(c)
      BY <3>4 DEF Places, n
    <3>6. conn'[c].queue[i] = conn[c].queue[i + 1]
      BY <3>1, <3>3
    <3> QED BY <3>4, <3>5, <3>6
  <2>2. ASSUME NEW d \in Conns, d # c, NEW i \in Places(d)'
        PROVE  i \in Nat /\ i \in Places(d) /\ conn'[d].queue[i] = conn[d].queue[i]
    BY <2>2 DEF Places
  <2>3. SUFFICES ASSUME NEW d \in Conns, NEW i \in Places(d)'
                 PROVE  /\ i \in Nat /\ from(d, i) \in Places(d)
                        /\ conn'[d].queue[i] = conn[d].queue[from(d, i)]
                        /\ d = c => from(d, i) # 1
    OBVIOUS
  <2>4. CASE d = c
    <3>1. i \in Places(c)'
      BY <2>4 DEF Places
    <3>2. /\ i \in Nat \ {0} /\ i + 1 \in Places(c)
          /\ conn'[c].queue[i] = conn[c].queue[i + 1]
      BY <2>1, <3>1
    <3>3. from(d, i) = i + 1 /\ i + 1 # 1
      BY <2>4, <3>2
    <3> HIDE DEF from
    <3> QED BY <2>4, <3>2, <3>3
  <2>5. CASE d # c
    BY <2>2, <2>5
  <2> QED BY <2>4, <2>5
<1>3. \A d \in Conns : \A i \in Places(d)' :
        /\ conn[d].queue[from(d, i)] \in Frames
        /\ conn[d].queue[from(d, i)] # Head(conn[c].queue)
  BY <1>1, <1>2, QueueFacts DEF QueueInv
<1>4. \A d \in Conns : \A i \in Places(d)' : InTransit(conn[d].queue[i])'
  BY <1>2, <1>3 DEF QueueInv, InTransit
<1>5. \A d, e \in Conns : \A i \in Places(d)', j \in Places(e)' :
        conn'[d].queue[i] = conn'[e].queue[j] => d = e /\ i = j
  <2>1. SUFFICES ASSUME NEW d \in Conns, NEW e \in Conns,
                        NEW i \in Places(d)', NEW j \in Places(e)',
                        conn'[d].queue[i] = conn'[e].queue[j]
                 PROVE  d = e /\ i = j
    OBVIOUS
  <2>2. d = e /\ from(d, i) = from(e, j)
    BY <1>2, <2>1 DEF QueueInv
  <2> QED BY <1>2, <2>2
<1> QED BY <1>4, <1>5 DEF QueueInv

-----------------------------------------------------------------------------
(* What the steps do to the fates.                                         *)
Fates == [f \in Frames |-> Fate(f)]

Moves == Channel!Next \/ Fates' = Fates

(* A row may change as long as it does not become failed.                  *)
LEMMA FatesKept ==
  ASSUME \A f \in Frames :
           /\ frame'[f].kind = frame[f].kind
           /\ frame'[f].got = frame[f].got
           /\ frame'[f].row = "failed" <=> frame[f].row = "failed"
  PROVE  Fates' = Fates
BY DEF Fates, Fate

LEMMA FateBecomes ==
  ASSUME NEW f \in Frames, NEW from, NEW to,
         \A g \in Frames : g # f => frame'[g] = frame[g],
         Fate(f) = from, Fate(f)' = to
  PROVE  Channel!Becomes(f, from, to)
<1>1. \A g \in Frames : g # f => Fate(g)' = Fate(g)
  BY DEF Fate
<1> QED BY <1>1 DEF Channel!Becomes

(* A step that writes to no row.                                           *)
LEMMA QuietStep ==
  ASSUME TypeOK, ChannelInv, UNCHANGED frame,
         \A c \in Conns : conn'[c].queue \in {conn[c].queue, <<>>},
         loop'.todo \subseteq loop.todo \cup Pending
  PROVE  ChannelInv' /\ Moves
<1>1. QueueInv'
  <2>1. \A f \in Frames : InTransit(f) => InTransit(f)'
    BY DEF InTransit
  <2> QED BY <2>1, QueuesKept DEF ChannelInv
<1>2. FrameInv'
  BY DEF ChannelInv, FrameInv
<1>3. LoopInv'
  BY DEF ChannelInv, LoopInv, Pending
<1>4. Fates' = Fates
  BY FatesKept
<1> QED BY <1>1, <1>2, <1>3, <1>4 DEF ChannelInv, Moves

LEMMA DispatchStep ==
  ASSUME TypeOK, ChannelInv, NEW kind \in Kinds, Dispatch(kind)
  PROVE  ChannelInv' /\ Moves
<1> USE DEF ChannelInv
<1>1. PICK f \in NextFrame, of \in Aims(kind) :
        Write(f, kind, of) \/ Send(f, kind, of)
  BY DEF Dispatch
<1>2. f \in Frames /\ frame[f].kind = "none"
  BY DEF NextFrame
<1>3. /\ \A g \in Frames : g # f => frame'[g] = frame[g]
      /\ frame'[f].kind = kind /\ kind # "none"
      /\ frame'[f].got = frame[f].got
      /\ frame'[f].row \in {"pending", "delivered", "none"}
  <2>1. kind # "none"
    BY KindAssumption DEF AllKinds
  <2>2. frame[f] \in Frame
    BY <1>2 DEF TypeOK
  <2>3. CASE Write(f, kind, of)
    BY <1>2, <2>1, <2>2, <2>3 DEF Write, TypeOK, Frame
  <2>4. CASE Send(f, kind, of)
    BY <1>2, <2>1, <2>2, <2>4 DEF Send, TypeOK, Frame
  <2> QED BY <1>1, <2>3, <2>4
<1>4. frame[f].row = "none" /\ frame[f].got = 0
  BY <1>2 DEF FrameInv
<1>5. FrameInv'
  BY <1>3, <1>4 DEF FrameInv
<1>6. LoopInv'
  <2>1. loop' = loop /\ f \notin loop.todo
    BY <1>1, <1>4 DEF Write, Send, LoopInv
  <2> QED BY <1>3, <2>1 DEF LoopInv, TypeOK, Loop
<1>7. QueueInv'
  <2>1. CASE Write(f, kind, of)
    <3>1. \A g \in Frames : InTransit(g) => InTransit(g)'
      BY <1>2, <1>3 DEF InTransit
    <3> QED BY <2>1, <3>1, QueuesKept DEF Write
  <2>2. CASE Send(f, kind, of)
    <3>1. frame'[f].row # "pending"
      BY <1>2, <2>2 DEF Send, TypeOK, Frame
    <3>2. ~InTransit(f) /\ InTransit(f)'
      BY <1>2, <1>3, <1>4, <3>1 DEF InTransit
    <3>3. slot \in Conns
      BY <2>2, Numbers DEF Send, TypeOK
    <3> QED BY <1>2, <1>3, <2>2, <3>2, <3>3, QueueSent DEF Send
  <2> QED BY <1>1, <2>1, <2>2
<1>8. Fate(f) = "unsent" /\ Fate(f)' = "due"
  BY <1>2, <1>3, <1>4 DEF Fate
<1>9. Channel!Send(f)
  BY <1>2, <1>3, <1>8, FateBecomes DEF Channel!Send
<1> QED BY <1>2, <1>5, <1>6, <1>7, <1>9 DEF Moves, Channel!Next

LEMMA DeliverStep ==
  ASSUME TypeOK, ChannelInv, DeliverRow
  PROVE  ChannelInv' /\ Moves
<1> USE DEF ChannelInv
<1>1. PICK f \in Oldest(loop.todo) :
        /\ IF Target = 0 THEN UNCHANGED <<frame, conn>>
           ELSE conn' = Sent(Target, f, Event(f)) /\ frame' = Delivered(f)
        /\ loop' = [loop EXCEPT !.todo = @ \ {f}]
        /\ UNCHANGED slot
  BY DEF DeliverRow
<1>2. f \in loop.todo /\ f \in Frames
  BY DEF Oldest, TypeOK, Loop
<1>3. loop'.todo = loop.todo \ {f} /\ loop.todo \subseteq Frames
  BY <1>1 DEF TypeOK, Loop
<1>4. CASE Target = 0
  BY <1>1, <1>3, <1>4, QuietStep
<1>5. CASE Target # 0
  <2>1. conn' = Sent(Target, f, Event(f)) /\ frame' = Delivered(f)
    BY <1>1, <1>5
  <2>2. Target \in Conns
    BY <1>5, Numbers DEF Target, TypeOK, Loop
  <2>3. /\ frame[f].row = "pending" /\ frame[f].kind # "none"
        /\ frame[f].got = 0
    BY <1>2 DEF LoopInv, FrameInv
  <2>4. /\ \A g \in Frames : g # f => frame'[g] = frame[g]
        /\ frame'[f].row = "delivered" /\ frame'[f].kind = frame[f].kind
        /\ frame'[f].got = frame[f].got
    BY <1>2, <2>1, <2>3 DEF Delivered, TypeOK, Frame
  <2>5. ~InTransit(f) /\ InTransit(f)'
    BY <2>3, <2>4 DEF InTransit
  <2>6. QueueInv'
    BY <1>2, <2>1, <2>2, <2>4, <2>5, QueueSent
  <2>7. FrameInv'
    BY <2>3, <2>4 DEF FrameInv
  <2>8. LoopInv'
    BY <1>3, <2>4 DEF LoopInv
  <2>9. Fates' = Fates
    BY <2>3, <2>4, FatesKept
  <2> QED BY <2>6, <2>7, <2>8, <2>9 DEF Moves
<1> QED BY <1>4, <1>5

(* The expiry gives up rows that wait: none of them is in a queue.         *)
LEMMA ExpireStep ==
  ASSUME TypeOK, ChannelInv, SweepEnds
  PROVE  ChannelInv' /\ Moves
<1> USE DEF ChannelInv
<1>1. /\ \A f \in Expirable : /\ frame'[f].row = "failed"
                              /\ frame'[f].kind = frame[f].kind
                              /\ frame'[f].got = frame[f].got
      /\ \A f \in Frames : f \notin Expirable => frame'[f] = frame[f]
  BY DEF SweepEnds, Expirable, Pending, TypeOK, Frame
<1>2. \A f \in Expirable : /\ f \in Frames /\ frame[f].row = "pending"
                           /\ frame[f].kind # "none" /\ frame[f].got = 0
  BY DEF Expirable, Pending, FrameInv
<1>3. QueueInv'
  <2>1. \A f \in Frames : InTransit(f) => InTransit(f)'
    BY <1>1, <1>2 DEF InTransit
  <2> QED BY <2>1, QueuesKept DEF SweepEnds
<1>4. FrameInv'
  BY <1>1, <1>2 DEF FrameInv
<1>5. LoopInv'
  BY DEF SweepEnds, Resting, LoopInv
<1>6. \A f \in Expirable : Fate(f) = "due" /\ Fate(f)' = "dropped"
  BY <1>1, <1>2 DEF Fate
<1>7. \A f \in Frames : f \notin Expirable => Fate(f)' = Fate(f)
  BY <1>1 DEF Fate
<1>8. Expirable \in SUBSET Frames
  BY <1>2
<1>9. Channel!GiveUp(Expirable)
  BY <1>6, <1>7, <1>8 DEF Channel!GiveUp
<1> QED BY <1>3, <1>4, <1>5, <1>8, <1>9 DEF Moves, Channel!Next

(* The pump takes a frame off its queue, and it arrives or is lost.        *)
LEMMA PumpStep ==
  ASSUME TypeOK, ChannelInv, NEW c \in Conns, Pump(c)
  PROVE  ChannelInv' /\ Moves
<1> USE DEF ChannelInv
<1>1. PICK goesOn \in BOOLEAN :
        conn' = [conn EXCEPT ![c].queue = Tail(@), ![c].pump = goesOn]
  BY DEF Pump
<1>2. Head(conn[c].queue) \in Frames /\ InTransit(Head(conn[c].queue))
  BY QueueFacts, HeadTailProperties DEF Pump, QueueInv, Places
<1>3. PICK f \in Frames : f = Head(conn[c].queue)
  BY <1>2
<1>4. /\ conn[c].queue # <<>> /\ loop' = loop /\ InTransit(f)
      /\ frame' = [frame EXCEPT ![f].got = IF conn[c].client = "up" /\ @ < 2
                                          THEN @ + 1 ELSE @]
  BY <1>2, <1>3 DEF Pump
<1>5. /\ \A g \in Frames : g # f => frame'[g] = frame[g]
      /\ frame'[f].row = frame[f].row /\ frame'[f].kind = frame[f].kind
      /\ frame'[f].got \in {0, 1}
  BY <1>4 DEF TypeOK, Frame, InTransit
<1>6. QueueInv'
  <2>1. /\ conn'[c].queue = Tail(conn[c].queue)
        /\ \A d \in Conns : d # c => conn'[d].queue = conn[d].queue
    BY <1>1 DEF TypeOK, Conn
  <2> QED BY <1>3, <1>4, <1>5, <2>1, QueuePumped
<1>7. FrameInv'
  BY <1>4, <1>5 DEF FrameInv, InTransit
<1>8. LoopInv'
  BY <1>4, <1>5 DEF LoopInv, TypeOK, Loop
<1>9. CASE frame'[f].got = 0
  <2>1. Fates' = Fates
    BY <1>4, <1>5, <1>9, FatesKept DEF InTransit
  <2> QED BY <1>6, <1>7, <1>8, <2>1 DEF Moves
<1>10. CASE frame'[f].got = 1
  <2>1. Fate(f) = "due" /\ Fate(f)' = "arrived"
    BY <1>4, <1>5, <1>10 DEF Fate, InTransit
  <2>2. Channel!Arrive(f)
    BY <1>5, <2>1, FateBecomes DEF Channel!Arrive
  <2> QED BY <1>6, <1>7, <1>8, <2>2 DEF Moves, Channel!Next
<1> QED BY <1>5, <1>9, <1>10

(* Connections come and go; their queues go with them.                     *)
LEMMA ConnectionStep ==
  ASSUME TypeOK, ChannelInv, NEW c \in Conns,
         \/ Register(c) \/ OldClosed(c) \/ Ack(c) \/ Disconnect(c)
         \/ Connect(c)  \/ PingFails(c) \/ Drop(c) \/ HalfOpen(c)
  PROVE  ChannelInv' /\ Moves
<1>1. UNCHANGED frame
  BY DEF Register, OldClosed, Ack, Disconnect, Connect, PingFails, Drop, HalfOpen
<1>2. loop'.todo \subseteq loop.todo \cup Pending
  BY DEF Register, OldClosed, Ack, Disconnect, Connect, PingFails, Drop,
         HalfOpen, Drain
<1>3. \A d \in Conns : Ended(c)[d].queue \in {conn[d].queue, <<>>}
  BY DEF Ended, DeadConn, NoConn, TypeOK
<1>4. \A d \in Conns : conn'[d].queue \in {conn[d].queue, <<>>}
  <2>1. CASE Ack(c) \/ Disconnect(c)
    BY <1>3, <2>1 DEF Ack, Disconnect, TypeOK, Conn
  <2>2. CASE Register(c)
    <3>1. CASE slot = 0
      <4>1. conn' = [conn EXCEPT ![c].st = "held"]
        BY <2>2, <3>1 DEF Register
      <4> QED BY <4>1 DEF TypeOK, Conn
    <3>2. CASE slot # 0
      <4>1. conn' = [conn EXCEPT ![c].st = "held", ![slot].client = "gone"]
        BY <2>2, <3>2 DEF Register
      <4>2. slot \in Conns
        BY <3>2, Numbers DEF TypeOK
      <4> QED BY <4>1, <4>2 DEF TypeOK, Conn
    <3> QED BY <3>1, <3>2
  <2>3. CASE OldClosed(c)
    BY <2>3 DEF OldClosed
  <2>4. CASE Connect(c)
    <3>1. conn' = [conn EXCEPT ![c].st = "opened", ![c].client = "waiting"]
      BY <2>4 DEF Connect
    <3> QED BY <3>1 DEF TypeOK, Conn
  <2>5. CASE PingFails(c) \/ Drop(c) \/ HalfOpen(c)
    <3>1. PICK client \in Client : conn' = [conn EXCEPT ![c].client = client]
      BY <2>5 DEF PingFails, Drop, HalfOpen, Client
    <3> QED BY <3>1 DEF TypeOK, Conn
  <2> QED BY <2>1, <2>2, <2>3, <2>4, <2>5
<1> QED BY <1>1, <1>2, <1>4, QuietStep

LEMMA ChannelStep == TypeOK /\ ChannelInv /\ [Next]_vars => ChannelInv' /\ Moves
<1> SUFFICES ASSUME TypeOK, ChannelInv, [Next]_vars
             PROVE  ChannelInv' /\ Moves
  OBVIOUS
<1>1. CASE UNCHANGED vars
  BY <1>1, QuietStep DEF vars
<1>2. CASE \E kind \in Kinds : Dispatch(kind)
  BY <1>2, DispatchStep
<1>3. CASE DeliverRow \/ SweepEnds \/ \E c \in Conns : Pump(c)
  BY <1>3, DeliverStep, ExpireStep, PumpStep
<1>4. CASE SweepBegins
  BY <1>4, QuietStep DEF SweepBegins
<1>5. CASE DrainEnds
  BY <1>5, QuietStep DEF DrainEnds, Resting, TypeOK, Conn
<1>6. CASE \E c \in Conns : \/ Register(c) \/ OldClosed(c) \/ Ack(c)
                            \/ Disconnect(c) \/ Connect(c) \/ PingFails(c)
                            \/ Drop(c) \/ HalfOpen(c)
  BY <1>6, ConnectionStep
<1>7. CASE Restart
  <2>1. \A c \in Conns : conn'[c].queue \in {conn[c].queue, <<>>}
    BY <1>7 DEF Restart, DeadConn, NoConn
  <2> QED BY <1>7, <2>1, QuietStep DEF Restart, Resting
<1>8. CASE \E f \in Frames : GoesOld(f)
  <2>1. \A f \in Frames : /\ frame'[f].kind = frame[f].kind
                          /\ frame'[f].row = frame[f].row
                          /\ frame'[f].got = frame[f].got
    BY <1>8 DEF GoesOld, TypeOK, Frame
  <2>2. QueueInv'
    <3>1. \A f \in Frames : InTransit(f) => InTransit(f)'
      BY <2>1 DEF InTransit
    <3> QED BY <1>8, <3>1, QueuesKept DEF GoesOld, ChannelInv
  <2>3. FrameInv' /\ LoopInv'
    BY <1>8, <2>1 DEF GoesOld, ChannelInv, FrameInv, LoopInv, TypeOK, Loop
  <2>4. Fates' = Fates
    BY <2>1, FatesKept
  <2> QED BY <2>2, <2>3, <2>4 DEF ChannelInv, Moves
<1> QED BY <1>1, <1>2, <1>3, <1>4, <1>5, <1>6, <1>7, <1>8
        DEF Next, Hub, Daemon, Environment

(* The outbox and the hub are the channel the backend relies on: nothing   *)
(* arrives unsent, twice, or after its row was failed, however sweeps,     *)
(* drains, reconnects and restarts interleave.                             *)
THEOREM OutboxIsChannel == Spec => ImplementsChannel
<1>1. Init => ChannelInv /\ Channel!Init
  <2> SUFFICES ASSUME Init
               PROVE  ChannelInv /\ Channel!Init
    OBVIOUS
  <2>1. /\ \A f \in Frames : frame[f] = Unsent
        /\ \A c \in Conns : Len(conn[c].queue) = 0
        /\ loop.todo = {}
    BY DEF Init, NoConn, Resting
  <2>2. \A f \in Frames : Fate(f) = "unsent"
    BY <2>1 DEF Fate, Unsent
  <2> QED BY <2>1, <2>2 DEF ChannelInv, QueueInv, Places, FrameInv, LoopInv,
                            Unsent, Channel!Init
<1>2. Moves => [Channel!Next]_Fates
  BY DEF Moves
<1>3. Spec => []ChannelInv /\ [][Channel!Next]_Fates
  BY <1>1, <1>2, ChannelStep, OutboxTypeCorrect, PTL DEF Spec
<1> QED BY <1>1, <1>3, PTL DEF Spec, ImplementsChannel, Channel!Spec, Fates

-----------------------------------------------------------------------------
(* Migrations: in which order the sections of a start run.                 *)

SectionNames ==
  {"activities", "profiles", "merge", "rbac", "projects", "repos", "tasks", "attachments",
   "rebuild_attachments", "agents", "runs", "rebuild_agents", "org", "org_backfill", "enforce",
   "rls", "seed"}

(* u is s and then t; v is s, then t, then s again.                        *)
Joined(u, s, t) ==
  /\ Len(u) = Len(s) + Len(t)
  /\ \A i \in 1..(Len(s) + Len(t)) : u[i] = IF i <= Len(s) THEN s[i] ELSE t[i - Len(s)]

RunTwice(v, s, t) ==
  /\ Len(v) = 33
  /\ \A i \in 1..33 : v[i] = IF i <= 16 THEN s[i] ELSE IF i = 17 THEN t[1] ELSE s[i - 17]

LEMMA JoinedSeqs ==
  ASSUME NEW S, NEW s \in Seq(S), NEW t \in Seq(S)
  PROVE  s \o t \in Seq(S) /\ Joined(s \o t, s, t)
BY ConcatProperties, Zenon DEF Joined

LEMMA JoinedTwice ==
  ASSUME NEW s, NEW t, NEW u, NEW v, Len(s) = 16, Len(t) = 1, Joined(u, s, t), Joined(v, u, s)
  PROVE  RunTwice(v, s, t)
<1>1. Len(u) = 17 /\ \A i \in 1..17 : u[i] = IF i <= 16 THEN s[i] ELSE t[i - 16]
  BY DEF Joined
<1>2. Len(v) = 33 /\ \A i \in 1..33 : v[i] = IF i <= 17 THEN u[i] ELSE s[i - 17]
  BY <1>1 DEF Joined
<1> QED
  BY <1>1, <1>2 DEF RunTwice

LEMMA StepsRunTwice == RunTwice(Migrations!Steps, Migrations!Migration, <<"seed">>)
<1> DEFINE s == Migrations!Migration
           t == <<"seed">>
<1>1. s \in Seq(SectionNames) /\ Len(s) = 16
  BY DEF Migrations!Migration, SectionNames
<1>2. t \in Seq(SectionNames) /\ Len(t) = 1
  BY DEF SectionNames
<1>3. Migrations!Steps = s \o t \o s
  BY DEF Migrations!Steps
<1> HIDE DEF s, t
<1>4. s \o t \in Seq(SectionNames) /\ Joined(s \o t, s, t)
  BY <1>1, <1>2, JoinedSeqs, Zenon
<1>5. Joined(s \o t \o s, s \o t, s)
  BY <1>1, <1>4, JoinedSeqs, Zenon
<1>6. RunTwice(s \o t \o s, s, t)
  BY <1>1, <1>2, <1>4, <1>5, JoinedTwice, Zenon
<1> QED
  BY <1>3, <1>6, Zenon DEF s, t

LEMMA SectionOrder ==
  /\ Len(Migrations!Steps) = 33
  /\ \A i \in 1..16 : /\ Migrations!Steps[i] = Migrations!Migration[i]
                      /\ Migrations!Steps[i + 17] = Migrations!Migration[i]
  /\ Migrations!Steps[17] = "seed"
<1> DEFINE v == Migrations!Steps
           s == Migrations!Migration
<1>1. RunTwice(v, s, <<"seed">>)
  BY StepsRunTwice
<1> HIDE DEF v, s
<1>2. Len(v) = 33 /\ \A i \in 1..16 : v[i] = s[i] /\ v[i + 17] = s[i]
  BY <1>1 DEF RunTwice
<1>3. v[17] = "seed"
  BY <1>1 DEF RunTwice
<1> QED
  BY <1>2, <1>3 DEF v, s

LEMMA SectionAt ==
  LET s == Migrations!Migration IN
  /\ /\ s[1] = "activities" /\ s[2] = "profiles" /\ s[3] = "merge" /\ s[4] = "rbac"
     /\ s[5] = "projects" /\ s[6] = "repos" /\ s[7] = "tasks" /\ s[8] = "attachments"
  /\ /\ s[9] = "rebuild_attachments" /\ s[10] = "agents" /\ s[11] = "runs"
     /\ s[12] = "rebuild_agents" /\ s[13] = "org" /\ s[14] = "org_backfill"
     /\ s[15] = "enforce" /\ s[16] = "rls"
BY DEF Migrations!Migration

(* A section comes after the one it needs.                                 *)
LEMMA SectionsNamed ==
  ASSUME NEW k \in 1..33
  PROVE  /\ Migrations!Steps[k] \in SectionNames
         /\ Migrations!Steps[k] = "rbac" => \E i \in 1..(k - 1) : Migrations!Steps[i] = "merge"
         /\ Migrations!Steps[k] = "rebuild_attachments"
              => \E i \in 1..(k - 1) : Migrations!Steps[i] = "attachments"
         /\ Migrations!Steps[k] = "rebuild_agents"
              => \E i \in 1..(k - 1) : Migrations!Steps[i] = "agents"
<1> DEFINE v == Migrations!Steps
           s == Migrations!Migration
<1> HIDE DEF v, s
<1>1. (\A i \in 1..16 : v[i] = s[i] /\ v[i + 17] = s[i]) /\ v[17] = "seed"
  BY SectionOrder DEF v, s
<1>2. /\ s[1] = "activities" /\ s[2] = "profiles" /\ s[3] = "merge" /\ s[4] = "rbac"
      /\ s[5] = "projects" /\ s[6] = "repos" /\ s[7] = "tasks" /\ s[8] = "attachments"
  BY SectionAt DEF s
<1>2b. /\ s[9] = "rebuild_attachments" /\ s[10] = "agents" /\ s[11] = "runs"
       /\ s[12] = "rebuild_agents" /\ s[13] = "org" /\ s[14] = "org_backfill"
       /\ s[15] = "enforce" /\ s[16] = "rls"
  BY SectionAt DEF s
<1>3. v[3] = "merge" /\ v[8] = "attachments" /\ v[10] = "agents"
  <2>1. s[10] = "agents"
    BY <1>2b
  <2> QED
    BY <1>1, <1>2, <2>1
<1>4. \A i \in 1..16 : /\ s[i] \in SectionNames
                       /\ s[i] = "rbac" => i > 3
                       /\ s[i] = "rebuild_attachments" => i > 8
                       /\ s[i] = "rebuild_agents" => i > 10
  <2>1. \A i \in 1..8 : /\ s[i] \in SectionNames /\ (s[i] = "rbac" => i > 3)
                        /\ s[i] # "rebuild_attachments" /\ s[i] # "rebuild_agents"
    BY <1>2 DEF SectionNames
  <2>2. \A i \in 9..16 : /\ s[i] \in SectionNames
                         /\ (s[i] = "rebuild_attachments" => i > 8)
                         /\ (s[i] = "rebuild_agents" => i > 10)
    BY <1>2b DEF SectionNames
  <2> QED
    BY <2>1, <2>2
<1>5. PICK i \in 1..16 : (v[k] = s[i] /\ (k = i \/ k = i + 17)) \/ k = 17
  <2>1. CASE k <= 17
    BY <1>1, <2>1
  <2>2. CASE k > 17
    <3>1. k - 17 \in 1..16 /\ k = (k - 17) + 17
      BY <2>2
    <3> QED
      BY <1>1, <3>1
  <2> QED
    BY <2>1, <2>2
<1>6. /\ v[k] \in SectionNames /\ (v[k] = "rbac" => k > 3)
      /\ (v[k] = "rebuild_attachments" => k > 8) /\ (v[k] = "rebuild_agents" => k > 10)
  BY <1>1, <1>4, <1>5 DEF SectionNames
<1>7. /\ k > 3 => 3 \in 1..(k - 1)
      /\ k > 8 => 8 \in 1..(k - 1)
      /\ k > 10 => 10 \in 1..(k - 1)
  OBVIOUS
<1> QED
  BY <1>3, <1>6, <1>7 DEF v

LEMMA SectionsAll ==
  ASSUME NEW n \in SectionNames
  PROVE  \E i \in 1..33 : Migrations!Steps[i] = n
<1> DEFINE v == Migrations!Steps
           s == Migrations!Migration
<1> HIDE DEF v, s
<1>1. (\A i \in 1..16 : v[i] = s[i]) /\ v[17] = "seed"
  BY SectionOrder DEF v, s
<1>2. /\ s[1] = "activities" /\ s[2] = "profiles" /\ s[3] = "merge" /\ s[4] = "rbac"
      /\ s[5] = "projects" /\ s[6] = "repos" /\ s[7] = "tasks" /\ s[8] = "attachments"
  BY SectionAt DEF s
<1>2b. /\ s[9] = "rebuild_attachments" /\ s[10] = "agents" /\ s[11] = "runs"
       /\ s[12] = "rebuild_agents" /\ s[13] = "org" /\ s[14] = "org_backfill"
       /\ s[15] = "enforce" /\ s[16] = "rls"
  BY SectionAt DEF s
<1>3. n = "seed" \/ \E i \in 1..16 : s[i] = n
  <2>1. n \in {"activities", "profiles", "merge", "rbac", "projects", "repos", "tasks",
               "attachments"} => \E i \in 1..16 : s[i] = n
    BY <1>2
  <2>2. n \in {"rebuild_attachments", "agents", "runs", "rebuild_agents", "org",
               "org_backfill", "enforce", "rls"} => \E i \in 1..16 : s[i] = n
    BY <1>2b
  <2> QED
    BY <2>1, <2>2 DEF SectionNames
<1>4. \E i \in 1..33 : v[i] = n
  BY <1>1, <1>3
<1> QED
  BY <1>4 DEF v

-----------------------------------------------------------------------------
(* What a section leaves behind, and what no later step undoes.            *)

RebuildNames == {"rebuild_attachments", "rebuild_agents"}

Done(n, d) ==
  /\ n \in Migrations!ColumnSections => n \in d.columns
  /\ n \in RebuildNames => Migrations!Rebuilt(n) \notin d.strict
  /\ n = "merge" => d.owner = "profile"
  /\ n = "rbac" /\ dialect = "postgresql" => ~d.roleId
  /\ n = "projects" => d.completed = "filled" /\ d.kind # "absent"
  /\ n = "org_backfill" => d.org = "filled"
  /\ n = "enforce" /\ dialect = "postgresql" => d.enforced
  /\ n = "rls" /\ dialect = "postgresql" => d.rls
  /\ n = "seed" => d.seeded

(* From d on the database has become e.                                    *)
KeptButColumns(d, e) ==
  /\ e.strict \subseteq d.strict
  /\ d.owner = "profile" => e.owner = "profile"
  /\ ~d.roleId => ~e.roleId
  /\ d.completed = "filled" => e.completed = "filled"
  /\ d.kind # "absent" => e.kind # "absent"
  /\ d.org = "filled" => e.org = "filled"
  /\ d.enforced => e.enforced
  /\ d.rls => e.rls
  /\ d.seeded => e.seeded

KeptAll(d, e) == d.columns \subseteq e.columns /\ KeptButColumns(d, e)

LEMMA DoneKept ==
  ASSUME NEW n, NEW d, NEW e, KeptAll(d, e), Done(n, d)
  PROVE  Done(n, e)
BY DEF Done, KeptAll, KeptButColumns

LEMMA KeptOn ==
  ASSUME NEW c, NEW d, NEW e, KeptButColumns(c, d), KeptButColumns(d, e)
  PROVE  KeptButColumns(c, e)
BY DEF KeptButColumns

(* A database with other columns, another owner, and so on, is a database. *)
LEMMA DatabaseType ==
  ASSUME NEW d \in Migrations!Database
  PROVE  /\ \A x \in SUBSET Migrations!ColumnSections : [d EXCEPT !.columns = x] \in Migrations!Database
         /\ \A x \in {"agent", "profile"} : [d EXCEPT !.owner = x] \in Migrations!Database
         /\ \A x \in SUBSET {"admin", "member"}, y \in BOOLEAN :
              [d EXCEPT !.roles = x, !.roleId = y] \in Migrations!Database
         /\ \A x \in {"absent", "empty", "sandbox", "git"} : [d EXCEPT !.kind = x] \in Migrations!Database
         /\ \A x \in {"absent", "empty", "sandbox", "git"}, y \in {"absent", "filled"} :
              [d EXCEPT !.kind = x, !.completed = y] \in Migrations!Database
         /\ \A x \in SUBSET {"primary", "own"} : [d EXCEPT !.repos = x] \in Migrations!Database
         /\ \A x \in SUBSET Migrations!Tables : [d EXCEPT !.strict = x] \in Migrations!Database
         /\ \A x, y \in SUBSET Migrations!Tables, z \in SUBSET Migrations!ColumnSections :
              [d EXCEPT !.strict = x, !.aside = y, !.columns = z] \in Migrations!Database
         /\ \A x \in {"absent", "empty", "filled"} : [d EXCEPT !.org = x] \in Migrations!Database
         /\ [d EXCEPT !.enforced = TRUE] \in Migrations!Database
         /\ [d EXCEPT !.rls = TRUE] \in Migrations!Database
         /\ [d EXCEPT !.granted = TRUE] \in Migrations!Database
         /\ [d EXCEPT !.granted = FALSE] \in Migrations!Database
         /\ [d EXCEPT !.seeded = TRUE] \in Migrations!Database
         /\ \A x \in SUBSET {"admin", "member"} : [d EXCEPT !.roles = x] \in Migrations!Database
<1> USE DEF Migrations!Database
<1>1. \A x \in SUBSET Migrations!ColumnSections : [d EXCEPT !.columns = x] \in Migrations!Database
  OBVIOUS
<1>2. \A x \in {"agent", "profile"} : [d EXCEPT !.owner = x] \in Migrations!Database
  OBVIOUS
<1>3. \A x \in SUBSET {"admin", "member"}, y \in BOOLEAN :
        [d EXCEPT !.roles = x, !.roleId = y] \in Migrations!Database
  OBVIOUS
<1>4. \A x \in {"absent", "empty", "sandbox", "git"} : [d EXCEPT !.kind = x] \in Migrations!Database
  OBVIOUS
<1>5. \A x \in {"absent", "empty", "sandbox", "git"}, y \in {"absent", "filled"} :
        [d EXCEPT !.kind = x, !.completed = y] \in Migrations!Database
  OBVIOUS
<1>6. \A x \in SUBSET {"primary", "own"} : [d EXCEPT !.repos = x] \in Migrations!Database
  OBVIOUS
<1>7. \A x \in SUBSET Migrations!Tables : [d EXCEPT !.strict = x] \in Migrations!Database
  OBVIOUS
<1>8. \A x, y \in SUBSET Migrations!Tables, z \in SUBSET Migrations!ColumnSections :
        [d EXCEPT !.strict = x, !.aside = y, !.columns = z] \in Migrations!Database
  OBVIOUS
<1>9. \A x \in {"absent", "empty", "filled"} : [d EXCEPT !.org = x] \in Migrations!Database
  OBVIOUS
<1>10. /\ [d EXCEPT !.enforced = TRUE] \in Migrations!Database
       /\ [d EXCEPT !.rls = TRUE] \in Migrations!Database
  OBVIOUS
<1>11. /\ [d EXCEPT !.granted = TRUE] \in Migrations!Database
       /\ [d EXCEPT !.granted = FALSE] \in Migrations!Database
  OBVIOUS
<1>12. [d EXCEPT !.seeded = TRUE] \in Migrations!Database
  OBVIOUS
<1>13. \A x \in SUBSET {"admin", "member"} : [d EXCEPT !.roles = x] \in Migrations!Database
  OBVIOUS
<1> HIDE DEF Migrations!Database
<1> QED
  BY <1>1, <1>2, <1>3, <1>4, <1>5, <1>6, <1>7, <1>8, <1>9, <1>10, <1>11, <1>12, <1>13

(* What a section may write.                                               *)
LEMMA SectionTyped ==
  ASSUME NEW n \in SectionNames,
         NEW d \in Migrations!Database, NEW s \in Migrations!Database
  PROVE  Migrations!Section(n, d, s) \in Migrations!Database
<1>0. /\ d.columns \subseteq Migrations!ColumnSections /\ d.repos \subseteq {"primary", "own"}
      /\ d.roles \subseteq {"admin", "member"} /\ d.strict \subseteq Migrations!Tables
      /\ d.kind \in {"absent", "empty", "sandbox", "git"}
  BY DEF Migrations!Database
<1> USE DEF Migrations!Section
<1>1. CASE n \in {"activities", "profiles", "tasks", "attachments", "agents", "runs"}
  <2>1. \A m \in {"activities", "profiles", "tasks", "attachments", "agents", "runs"} :
          Migrations!EnsureColumns(m, d) \in Migrations!Database
    BY <1>0, DatabaseType DEF Migrations!EnsureColumns, Migrations!ColumnSections
  <2> QED
    BY <1>1, <2>1
       DEF Migrations!ActivityColumns, Migrations!ProfileColumns, Migrations!TaskColumns,
           Migrations!AttachmentColumns, Migrations!AgentColumns, Migrations!RunColumns
<1>2. CASE n = "merge"
  BY <1>2, DatabaseType DEF Migrations!MergeAgents
<1>3. CASE n = "rbac"
  <2>1. \A b \in BOOLEAN : [d EXCEPT !.roles = d.roles \cup {"admin"}, !.roleId = b] \in Migrations!Database
    BY <1>0, DatabaseType
  <2>2. PICK b \in BOOLEAN : b = (dialect # "postgresql")
    OBVIOUS
  <2> QED
    BY <1>3, <2>1, <2>2 DEF Migrations!MigrateRoles
<1>4. CASE n = "projects"
  <2>1. PICK x : x = Migrations!BackfillKind(Migrations!StampKind(d, s), d)
    OBVIOUS
  <2>2. x \in {"absent", "empty", "sandbox", "git"}
    BY <1>0, <2>1 DEF Migrations!BackfillKind, Migrations!StampKind
  <2> QED
    BY <1>4, <2>1, <2>2, DatabaseType DEF Migrations!Projects
<1>5. CASE n = "repos"
  BY <1>0, <1>5, DatabaseType DEF Migrations!BackfillRepo
<1>6. CASE n \in RebuildNames
  BY <1>0, <1>6, DatabaseType DEF RebuildNames, Migrations!DropNotNull
<1>7. CASE n \in {"org", "org_backfill"}
  BY <1>7, DatabaseType DEF Migrations!OrgColumn, Migrations!OrgBackfill
<1>8. CASE n \in {"enforce", "rls"}
  BY <1>8, DatabaseType DEF Migrations!EnforceOrg, Migrations!ApplyRls
<1>9. CASE n = "seed"
  BY <1>9, DatabaseType DEF Migrations!SeedAdmin, Migrations!SeedDefaults
<1> QED
  BY <1>1, <1>2, <1>3, <1>4, <1>5, <1>6, <1>7, <1>8, <1>9 DEF SectionNames, RebuildNames

LEMMA SectionKeeps ==
  ASSUME NEW n \in SectionNames,
         NEW d \in Migrations!Database, NEW s \in Migrations!Database,
         n = "rbac" /\ s.roleId => d.roleId
  PROVE  KeptAll(d, Migrations!Section(n, d, s))
<1> USE DEF Migrations!Section, Migrations!Database, KeptAll, KeptButColumns
<1>1. CASE n \in {"activities", "profiles", "tasks", "attachments", "agents", "runs"}
  <2>1. PICK x : x = d.columns \cup {n}
    OBVIOUS
  <2>2. Migrations!Section(n, d, s) = Migrations!EnsureColumns(n, d)
    BY <1>1 DEF Migrations!ActivityColumns, Migrations!ProfileColumns, Migrations!TaskColumns,
                Migrations!AttachmentColumns, Migrations!AgentColumns, Migrations!RunColumns
  <2>3. Migrations!Section(n, d, s) = [d EXCEPT !.columns = x] /\ d.columns \subseteq x
    BY <2>1, <2>2 DEF Migrations!EnsureColumns
  <2> HIDE DEF Migrations!Section
  <2> QED
    BY <2>3
<1>2. CASE n = "merge"
  BY <1>2 DEF Migrations!MergeAgents
<1>3. CASE n = "rbac"
  BY <1>3 DEF Migrations!MigrateRoles
<1>4. CASE n = "projects"
  <2>1. PICK x : x = Migrations!BackfillKind(Migrations!StampKind(d, s), d)
    OBVIOUS
  <2>2. d.kind # "absent" => x # "absent"
    BY <2>1 DEF Migrations!BackfillKind, Migrations!StampKind
  <2>3. Migrations!Section(n, d, s) = [d EXCEPT !.kind = x, !.completed = "filled"]
    BY <1>4, <2>1 DEF Migrations!Projects
  <2> HIDE DEF Migrations!Section
  <2> QED
    BY <2>2, <2>3
<1>5. CASE n = "repos"
  BY <1>5 DEF Migrations!BackfillRepo
<1>6. CASE n \in RebuildNames
  <2>1. PICK x : \E t : x = d.strict \ {t} /\ Migrations!Section(n, d, s) = [d EXCEPT !.strict = x]
    BY <1>6 DEF RebuildNames, Migrations!DropNotNull
  <2> HIDE DEF Migrations!Section
  <2> QED
    BY <2>1
<1>7. CASE n \in {"org", "org_backfill"}
  <2>1. \/ Migrations!Section(n, d, s) = d
        \/ d.org = "absent" /\ Migrations!Section(n, d, s) = [d EXCEPT !.org = "empty"]
        \/ Migrations!Section(n, d, s) = [d EXCEPT !.org = "filled"]
    BY <1>7 DEF Migrations!OrgColumn, Migrations!OrgBackfill
  <2> HIDE DEF Migrations!Section
  <2> QED
    BY <2>1
<1>8. CASE n \in {"enforce", "rls", "seed"}
  <2>1. \/ Migrations!Section(n, d, s) = d
        \/ Migrations!Section(n, d, s) = [d EXCEPT !.enforced = TRUE]
        \/ Migrations!Section(n, d, s) = [d EXCEPT !.rls = TRUE]
        \/ Migrations!Section(n, d, s) = [[d EXCEPT !.granted = TRUE] EXCEPT !.seeded = TRUE]
    BY <1>8
       DEF Migrations!EnforceOrg, Migrations!ApplyRls, Migrations!SeedAdmin, Migrations!SeedDefaults
  <2> HIDE DEF Migrations!Section
  <2>2. CASE Migrations!Section(n, d, s) = [d EXCEPT !.enforced = TRUE]
    BY <2>2
  <2>3. CASE Migrations!Section(n, d, s) = [d EXCEPT !.rls = TRUE]
    BY <2>3
  <2>4. CASE Migrations!Section(n, d, s) = [[d EXCEPT !.granted = TRUE] EXCEPT !.seeded = TRUE]
    BY <2>4
  <2>5. CASE Migrations!Section(n, d, s) = d
    BY <2>5
  <2> QED
    BY <2>1, <2>2, <2>3, <2>4, <2>5
<1> QED
  BY <1>1, <1>2, <1>3, <1>4, <1>5, <1>6, <1>7, <1>8 DEF SectionNames, RebuildNames

LEMMA SectionDone ==
  ASSUME NEW n \in SectionNames,
         NEW d \in Migrations!Database, NEW s \in Migrations!Database,
         n = "merge" /\ ~Migrations!Merges(s) => d.owner = "profile",
         n = "rbac" /\ ~s.roleId => ~d.roleId,
         n = "projects" /\ s.kind # "absent" => d.kind # "absent"
  PROVE  Done(n, Migrations!Section(n, d, s))
<1> USE DEF Migrations!Section, Migrations!Database, Done
<1>1. CASE n \in {"activities", "profiles", "tasks", "attachments", "agents", "runs"}
  BY <1>1 DEF Migrations!ActivityColumns, Migrations!ProfileColumns, Migrations!TaskColumns,
              Migrations!AttachmentColumns, Migrations!AgentColumns, Migrations!RunColumns,
              Migrations!EnsureColumns, Migrations!ColumnSections, RebuildNames
<1>2. CASE n = "merge"
  BY <1>2 DEF Migrations!MergeAgents, Migrations!ColumnSections, RebuildNames
<1>3. CASE n = "rbac"
  BY <1>3 DEF Migrations!MigrateRoles, Migrations!ColumnSections, RebuildNames
<1>4. CASE n = "projects"
  <2>1. PICK x : x = Migrations!BackfillKind(Migrations!StampKind(d, s), d)
    OBVIOUS
  <2>2. x # "absent"
    BY <1>4, <2>1 DEF Migrations!BackfillKind, Migrations!StampKind
  <2>3. Migrations!Section(n, d, s) = [d EXCEPT !.kind = x, !.completed = "filled"]
    BY <1>4, <2>1 DEF Migrations!Projects
  <2>4. n \notin Migrations!ColumnSections /\ n \notin RebuildNames
    BY <1>4 DEF Migrations!ColumnSections, RebuildNames
  <2> HIDE DEF Migrations!Section
  <2> QED
    BY <1>4, <2>2, <2>3, <2>4
<1>5. CASE n \in {"repos", "org"}
  BY <1>5 DEF Migrations!ColumnSections, RebuildNames
<1>6. CASE n \in RebuildNames
  BY <1>6 DEF RebuildNames, Migrations!DropNotNull, Migrations!Rebuilt, Migrations!ColumnSections
<1>7. CASE n = "org_backfill"
  BY <1>7 DEF Migrations!OrgBackfill, Migrations!ColumnSections, RebuildNames
<1>8. CASE n \in {"enforce", "rls", "seed"}
  BY <1>8 DEF Migrations!EnforceOrg, Migrations!ApplyRls, Migrations!SeedAdmin,
              Migrations!SeedDefaults, Migrations!ColumnSections, RebuildNames
<1> QED
  BY <1>1, <1>2, <1>3, <1>4, <1>5, <1>6, <1>7, <1>8 DEF SectionNames, RebuildNames

(* Where the kind of workspace is left open, it was.                       *)
LEMMA SectionKind ==
  ASSUME NEW n \in SectionNames,
         NEW d \in Migrations!Database, NEW s \in Migrations!Database,
         Migrations!Section(n, d, s).kind = "empty"
  PROVE  d.kind = "empty" /\ (n = "projects" => s.kind # "absent")
<1> USE DEF Migrations!Section, Migrations!Database
<1>1. CASE n \in {"activities", "profiles", "tasks", "attachments", "agents", "runs"}
  BY <1>1 DEF Migrations!ActivityColumns, Migrations!ProfileColumns, Migrations!TaskColumns,
              Migrations!AttachmentColumns, Migrations!AgentColumns, Migrations!RunColumns,
              Migrations!EnsureColumns
<1>2. CASE n \in {"merge", "rbac", "repos"}
  BY <1>2 DEF Migrations!MergeAgents, Migrations!MigrateRoles, Migrations!BackfillRepo
<1>3. CASE n = "projects"
  BY <1>3 DEF Migrations!Projects, Migrations!BackfillKind, Migrations!StampKind
<1>4. CASE n \in RebuildNames
  BY <1>4 DEF RebuildNames, Migrations!DropNotNull
<1>5. CASE n \in {"org", "org_backfill", "enforce", "rls", "seed"}
  BY <1>5 DEF Migrations!OrgColumn, Migrations!OrgBackfill, Migrations!EnforceOrg,
              Migrations!ApplyRls, Migrations!SeedAdmin, Migrations!SeedDefaults
<1> QED
  BY <1>1, <1>2, <1>3, <1>4, <1>5 DEF SectionNames, RebuildNames

(* The agents are merged before the roles go.                              *)
LEMMA SectionRoles ==
  ASSUME NEW n \in SectionNames,
         NEW d \in Migrations!Database, NEW s \in Migrations!Database,
         n = "rbac" \/ ~d.roleId => d.owner = "profile",
         ~Migrations!Section(n, d, s).roleId
  PROVE  Migrations!Section(n, d, s).owner = "profile"
<1> USE DEF Migrations!Section, Migrations!Database
<1>1. CASE n \in {"activities", "profiles", "tasks", "attachments", "agents", "runs"}
  BY <1>1 DEF Migrations!ActivityColumns, Migrations!ProfileColumns, Migrations!TaskColumns,
              Migrations!AttachmentColumns, Migrations!AgentColumns, Migrations!RunColumns,
              Migrations!EnsureColumns
<1>2. CASE n \in {"merge", "rbac", "repos"}
  BY <1>2 DEF Migrations!MergeAgents, Migrations!MigrateRoles, Migrations!BackfillRepo
<1>3. CASE n = "projects"
  BY <1>3 DEF Migrations!Projects
<1>4. CASE n \in RebuildNames
  BY <1>4 DEF RebuildNames, Migrations!DropNotNull
<1>5. CASE n \in {"org", "org_backfill", "enforce", "rls", "seed"}
  BY <1>5 DEF Migrations!OrgColumn, Migrations!OrgBackfill, Migrations!EnforceOrg,
              Migrations!ApplyRls, Migrations!SeedAdmin, Migrations!SeedDefaults
<1> QED
  BY <1>1, <1>2, <1>3, <1>4, <1>5 DEF SectionNames, RebuildNames

-----------------------------------------------------------------------------
(* A backend on its way through the sections.                              *)

Past(k) == {Migrations!Steps[i] : i \in 1..(k.step - 1)}

(* It is at a table that SQLite has to rebuild.                            *)
Rebuilding(k) ==
  /\ dialect = "sqlite" /\ Migrations!Steps[k.step] \in RebuildNames
  /\ Migrations!Rebuilt(Migrations!Steps[k.step]) \in Head(k.seen).strict

(* The sections it has passed are done; what it has read is of the past.   *)
Fits(k, d) ==
  /\ k.half \/ k.seen # <<>> => k.step \in 1..33
  /\ k.half => /\ dialect = "sqlite" /\ k.seen # <<>>
               /\ \/ /\ Migrations!Steps[k.step] = "projects"
                     /\ Head(k.seen).kind = "absent" /\ d.kind # "absent"
                  \/ Rebuilding(k)
  /\ \A n \in Past(k) :
       \/ Done(n, d)
       \/ k.half /\ Rebuilding(k) /\ n = Migrations!Rebuilt(Migrations!Steps[k.step])
  /\ k.seen # <<>> =>
       LET s == Head(k.seen) IN
       /\ Past(k) \cap Migrations!ColumnSections \subseteq s.columns
       /\ ~s.roleId => s.owner = "profile"
       /\ KeptButColumns(s, d)

LEMMA FitsKept ==
  ASSUME NEW k, NEW d, NEW e, Fits(k, d), KeptAll(d, e)
  PROVE  Fits(k, e)
<1>1. KeptButColumns(d, e) /\ (d.kind # "absent" => e.kind # "absent")
  BY DEF KeptAll, KeptButColumns
<1> QED
  BY <1>1, DoneKept, KeptOn DEF Fits

LEMMA PastOf ==
  ASSUME NEW k \in Migrations!Boot
  PROVE  /\ k.step \in 0..34 /\ k.half \in BOOLEAN /\ k.seen \in Seq(Migrations!Database)
         /\ k.step <= 1 => Past(k) = {}
         /\ k.step \in 1..33 => /\ Migrations!Steps[k.step] \in SectionNames
                                /\ Migrations!Steps[k.step] = "rbac" => "merge" \in Past(k)
                                /\ Migrations!Steps[k.step] = "rebuild_attachments"
                                     => "attachments" \in Past(k)
                                /\ Migrations!Steps[k.step] = "rebuild_agents" => "agents" \in Past(k)
         /\ k.seen # <<>> => Head(k.seen) \in Migrations!Database
<1>1. k.step \in 0..34 /\ k.half \in BOOLEAN /\ k.seen \in Seq(Migrations!Database)
  BY SectionOrder DEF Migrations!Boot
<1>2. k.step <= 1 => Past(k) = {}
  <2>1. PICK j \in 0..34 : j = k.step
    BY <1>1
  <2>2. j <= 1 => 1..(j - 1) = {}
    OBVIOUS
  <2> QED
    BY <2>1, <2>2 DEF Past
<1>3. k.step \in 1..33 => /\ Migrations!Steps[k.step] \in SectionNames
                          /\ Migrations!Steps[k.step] = "rbac" => "merge" \in Past(k)
                          /\ Migrations!Steps[k.step] = "rebuild_attachments"
                               => "attachments" \in Past(k)
                          /\ Migrations!Steps[k.step] = "rebuild_agents" => "agents" \in Past(k)
  BY SectionsNamed DEF Past
<1>4. k.seen # <<>> => Head(k.seen) \in Migrations!Database
  BY <1>1
<1> QED
  BY <1>1, <1>2, <1>3, <1>4

LEMMA FitsFirst ==
  ASSUME NEW k, NEW d, k.step \in 0..1, k.seen = <<>>, ~k.half
  PROVE  Fits(k, d)
<1>1. 1..(k.step - 1) = {}
  OBVIOUS
<1> QED
  BY <1>1 DEF Fits, Past

LEMMA FitsLook ==
  ASSUME NEW k \in Migrations!Boot, NEW d \in Migrations!Database, Fits(k, d),
         k.step \in 1..33, k.seen = <<>>, ~d.roleId => d.owner = "profile"
  PROVE  Fits([k EXCEPT !.seen = <<d>>], d)
<1>1. PICK q : q = [k EXCEPT !.seen = <<d>>]
  OBVIOUS
<1>2. q.step = k.step /\ q.seen = <<d>> /\ q.half = k.half
  BY <1>1 DEF Migrations!Boot
<1>3. ~k.half /\ \A n \in Past(k) : Done(n, d)
  BY DEF Fits
<1>4. Past(q) = Past(k)
  BY <1>2 DEF Past
<1>5. \A n \in Past(k) : n \in Migrations!ColumnSections => n \in d.columns
  BY <1>3 DEF Done
<1>6. KeptButColumns(d, d)
  BY DEF KeptButColumns
<1>7. Head(q.seen) = d
  BY <1>2
<1> QED
  BY <1>1, <1>2, <1>3, <1>4, <1>5, <1>6, <1>7 DEF Fits

LEMMA FitsPassed ==
  ASSUME NEW k \in Migrations!Boot, NEW d, NEW e, Fits(k, d), k.step \in 1..33,
         ~(k.half /\ Rebuilding(k)), KeptAll(d, e), Done(Migrations!Steps[k.step], e)
  PROVE  Fits([step |-> k.step + 1, seen |-> <<>>, half |-> FALSE], e)
<1>1. PICK q : q = [step |-> k.step + 1, seen |-> <<>>, half |-> FALSE]
  OBVIOUS
<1>2. \A n \in Past(k) : Done(n, e)
  BY DoneKept DEF Fits
<1>3. \A n \in Past(q) : n \in Past(k) \/ n = Migrations!Steps[k.step]
  <2>1. PICK j \in 1..33 : j = k.step
    OBVIOUS
  <2>2. q.step = j + 1
    BY <1>1, <2>1
  <2>3. \A i \in 1..(j + 1 - 1) : i \in 1..(j - 1) \/ i = j
    OBVIOUS
  <2> QED
    BY <2>1, <2>2, <2>3 DEF Past
<1> QED
  BY <1>1, <1>2, <1>3 DEF Fits

(* The table that a half rebuild has set aside is among the sections       *)
(* passed, so its columns were read, and the copy cannot succeed.          *)
LEMMA RebuildFails ==
  ASSUME NEW k \in Migrations!Boot, NEW d, Fits(k, d), k.step \in 1..33, k.seen # <<>>,
         NEW t, t = Migrations!Rebuilt(Migrations!Steps[k.step]),
         Migrations!Steps[k.step] \in RebuildNames
  PROVE  /\ t \in Migrations!ColumnSections /\ t \in Past(k)
         /\ ~Migrations!CopiesRows(t, Head(k.seen))
<1>1. t \in Past(k) /\ t \in Migrations!ColumnSections
  BY PastOf DEF RebuildNames, Migrations!Rebuilt, Migrations!ColumnSections
<1>2. t \in Head(k.seen).columns
  BY <1>1 DEF Fits
<1> QED
  BY <1>1, <1>2 DEF Migrations!CopiesRows, Migrations!RebuiltColumns

LEMMA FitsSetAside ==
  ASSUME NEW k \in Migrations!Boot, NEW d \in Migrations!Database, Fits(k, d),
         k.step \in 1..33, k.seen # <<>>, ~k.half, Rebuilding(k),
         NEW e, e = Migrations!RenameTable(Migrations!Rebuilt(Migrations!Steps[k.step]), d)
  PROVE  /\ e \in Migrations!Database /\ KeptButColumns(d, e)
         /\ Fits([k EXCEPT !.half = TRUE], e)
<1>1. PICK t : t = Migrations!Rebuilt(Migrations!Steps[k.step])
  OBVIOUS
<1>2. t \in Migrations!Tables
  BY <1>1 DEF Migrations!Rebuilt, Migrations!Tables
<1>3. e = [d EXCEPT !.strict = d.strict \ {t}, !.aside = d.aside \cup {t}, !.columns = d.columns \ {t}]
  BY <1>1 DEF Migrations!RenameTable
<1>4. e \in Migrations!Database
  <2>1. PICK x \in SUBSET Migrations!Tables, y \in SUBSET Migrations!Tables,
             z \in SUBSET Migrations!ColumnSections :
          x = d.strict \ {t} /\ y = d.aside \cup {t} /\ z = d.columns \ {t}
    BY <1>2 DEF Migrations!Database
  <2>2. [d EXCEPT !.strict = x, !.aside = y, !.columns = z] \in Migrations!Database
    BY DatabaseType
  <2> QED
    BY <1>3, <2>1, <2>2
<1>5. KeptButColumns(d, e) /\ e.columns = d.columns \ {t}
  BY <1>3 DEF KeptButColumns, Migrations!Database
<1>6. \A n \in Past(k) : n # t => Done(n, e)
  <2>1. \A n \in Past(k) : Done(n, d)
    BY DEF Fits
  <2> QED
    BY <1>5, <2>1 DEF Done, KeptButColumns
<1>7. PICK q : q = [k EXCEPT !.half = TRUE]
  OBVIOUS
<1>8. q.step = k.step /\ q.seen = k.seen /\ q.half = TRUE
  BY <1>7 DEF Migrations!Boot
<1>9. Past(q) = Past(k) /\ Rebuilding(q)
  BY <1>8 DEF Past, Rebuilding
<1>10. KeptButColumns(Head(k.seen), d)
  BY DEF Fits
<1>11. KeptButColumns(Head(k.seen), e)
  BY <1>5, <1>10, KeptOn
<1>12. Fits(q, e)
  BY <1>1, <1>6, <1>8, <1>9, <1>11 DEF Fits, Rebuilding
<1> QED
  BY <1>4, <1>5, <1>7, <1>12

LEMMA FitsAlter ==
  ASSUME NEW k \in Migrations!Boot, NEW d \in Migrations!Database, Fits(k, d),
         k.step \in 1..33, k.seen # <<>>, ~k.half, dialect = "sqlite",
         Migrations!Steps[k.step] = "projects", Head(k.seen).kind = "absent",
         NEW e, e = [d EXCEPT !.kind = "empty"]
  PROVE  /\ e \in Migrations!Database /\ KeptAll(d, e)
         /\ Fits([k EXCEPT !.half = TRUE], e)
<1>1. e \in Migrations!Database
  BY DatabaseType
<1>2. KeptAll(d, e) /\ e.kind = "empty"
  BY DEF KeptAll, KeptButColumns, Migrations!Database
<1>3. PICK q : q = [k EXCEPT !.half = TRUE]
  OBVIOUS
<1>4. q.step = k.step /\ q.seen = k.seen /\ q.half = TRUE
  BY <1>3 DEF Migrations!Boot
<1>5. Past(q) = Past(k)
  BY <1>4 DEF Past
<1>6. Fits(k, e)
  BY <1>2, FitsKept
<1>7. Fits(q, e)
  BY <1>2, <1>4, <1>5, <1>6 DEF Fits
<1> QED
  BY <1>1, <1>2, <1>3, <1>7

-----------------------------------------------------------------------------
(* All backends fit; SQLite has one; the roles go after the merge; and a   *)
(* kind of workspace is left open where a crash has left it, or is about   *)
(* to be filled.                                                           *)
MigrationsInv ==
  /\ dialect \in {"sqlite", "postgresql"} /\ db \in Migrations!Database
  /\ boot \in [Boots -> Migrations!Boot] /\ crashes \in Nat
  /\ \A b \in Boots : Fits(boot[b], db)
  /\ dialect = "sqlite" =>
       \A b, c \in Boots : boot[b] # Migrations!Down /\ boot[c] # Migrations!Down => b = c
  /\ ~db.roleId => db.owner = "profile"
  /\ db.kind = "empty" =>
       /\ dialect = "sqlite"
       /\ \/ crashes > 0
          \/ \E b \in Boots : boot[b].half /\ Migrations!Steps[boot[b].step] = "projects"

LEMMA FitsStable ==
  ASSUME NEW k, NEW d, dialect' = dialect
  PROVE  Fits(k, d)' <=> Fits(k, d)
BY DEF Fits, Rebuilding, Done, Past

LEMMA DownType == Migrations!Down \in Migrations!Boot /\ ~Migrations!Down.half
<1>1. <<>> \in Seq(Migrations!Database) /\ 0 \in 0..34
  OBVIOUS
<1> QED
  BY <1>1, SectionOrder DEF Migrations!Down, Migrations!Boot

LEMMA DownIsDown ==
  /\ Migrations!Down.step = 0 /\ Migrations!Down.seen = <<>> /\ ~Migrations!Down.half
  /\ \A d : Fits(Migrations!Down, d)
<1>1. Migrations!Down.step = 0 /\ Migrations!Down.seen = <<>> /\ ~Migrations!Down.half
  BY DEF Migrations!Down
<1> QED
  BY <1>1, FitsFirst

(* A step of one backend.                                                  *)
LEMMA BootMoves ==
  ASSUME MigrationsInv, NEW b \in Boots, NEW k \in Migrations!Boot, NEW d \in Migrations!Database,
         boot' = [boot EXCEPT ![b] = k], db' = d, dialect' = dialect, crashes' \in Nat,
         Fits(k, d),
         KeptAll(db, d) \/ (dialect = "sqlite" /\ boot[b] # Migrations!Down),
         dialect = "sqlite" /\ k # Migrations!Down =>
           \A c \in Boots : c # b => boot[c] = Migrations!Down,
         ~d.roleId => d.owner = "profile",
         d.kind = "empty" =>
           dialect = "sqlite" /\ (crashes' > 0 \/ (k.half /\ Migrations!Steps[k.step] = "projects"))
  PROVE  MigrationsInv'
<1>1. boot'[b] = k /\ \A c \in Boots : c # b => boot'[c] = boot[c]
  BY DEF MigrationsInv
<1>2. \A c \in Boots : Fits(boot'[c], d)
  <2> SUFFICES ASSUME NEW c \in Boots, c # b PROVE Fits(boot[c], d)
    BY <1>1
  <2>1. CASE KeptAll(db, d)
    BY <2>1, FitsKept DEF MigrationsInv
  <2>2. CASE dialect = "sqlite" /\ boot[b] # Migrations!Down
    <3>1. boot[c] = Migrations!Down
      BY <2>2 DEF MigrationsInv
    <3> QED
      BY <3>1, DownIsDown
  <2> QED
    BY <2>1, <2>2
<1>3. \A c \in Boots : Fits(boot[c], db)'
  <2> SUFFICES ASSUME NEW c \in Boots PROVE Fits(boot[c], db)'
    OBVIOUS
  <2>1. PICK q : q = boot'[c]
    OBVIOUS
  <2>2. Fits(q, d)'
    BY <1>2, <2>1, FitsStable
  <2> QED
    BY <2>1, <2>2 DEF Fits, Rebuilding, Done, Past
<1>4. dialect = "sqlite" =>
        \A a, c \in Boots : boot'[a] # Migrations!Down /\ boot'[c] # Migrations!Down => a = c
  BY <1>1 DEF MigrationsInv
<1> QED
  BY <1>1, <1>3, <1>4 DEF MigrationsInv

LEMMA MigrationsInit == Migrations!MigrationAssumption /\ Migrations!Init => MigrationsInv
<1> SUFFICES ASSUME Migrations!MigrationAssumption, Migrations!Init PROVE MigrationsInv
  OBVIOUS
<1>1. db \in Migrations!Database /\ ~(db.kind = "empty") /\ (~db.roleId => db.owner = "profile")
  <2>1. CASE db = Migrations!Legacy
    <3>1. db \in Migrations!Database
      BY <2>1, Zenon DEF Migrations!Legacy, Migrations!Database, Migrations!ColumnSections, Migrations!Tables
    <3> QED
      BY <2>1, <3>1 DEF Migrations!Legacy
  <2>2. CASE db = Migrations!Fresh
    <3>1. db \in Migrations!Database
      BY <2>2, Zenon DEF Migrations!Fresh, Migrations!Database, Migrations!ColumnSections, Migrations!Tables
    <3> QED
      BY <2>2, <3>1 DEF Migrations!Fresh
  <2> QED
    BY <2>1, <2>2 DEF Migrations!Init
<1>2. \A b \in Boots : boot[b] = Migrations!Down
  BY DEF Migrations!Init
<1>3. \A b \in Boots : Fits(boot[b], db)
  BY <1>2, DownIsDown
<1> QED
  BY <1>1, <1>2, <1>3, DownType DEF Migrations!Init, MigrationsInv, Migrations!MigrationAssumption

LEMMA KeptSame == \A d : KeptAll(d, d)
BY DEF KeptAll, KeptButColumns

LEMMA ServingSteps ==
  ASSUME MigrationsInv, NEW b \in Boots
  PROVE  /\ boot[b] \in Migrations!Boot
         /\ Migrations!Busy(b) <=> boot[b].step \in 1..33
         /\ Migrations!Serving(b) <=> boot[b].step = 34
BY SectionOrder DEF MigrationsInv, Migrations!Busy, Migrations!Serving

LEMMA StartMoves ==
  ASSUME MigrationsInv, NEW b \in Boots, Migrations!Start(b)
  PROVE  MigrationsInv'
<1>1. PICK k : k = [Migrations!Down EXCEPT !.step = 1]
  OBVIOUS
<1>2. boot' = [boot EXCEPT ![b] = k] /\ UNCHANGED <<dialect, db, crashes>>
  BY <1>1 DEF Migrations!Start
<1>3. k \in Migrations!Boot /\ ~k.half
  <2>1. 1 \in 0..(Len(Migrations!Steps) + 1)
    BY SectionOrder
  <2> QED
    BY <1>1, <2>1, DownType DEF Migrations!Boot
<1>4. Fits(k, db)
  <2>1. k.step = 1 /\ k.seen = <<>>
    BY <1>1, DownType, DownIsDown DEF Migrations!Boot
  <2> QED
    BY <1>3, <2>1, FitsFirst
<1>5. \A c \in Boots : boot[c].half => c # b
  BY DownType DEF Migrations!Start
<1>6. dialect = "sqlite" => \A c \in Boots : boot[c] = Migrations!Down
  BY DEF Migrations!Start
<1>7. db.kind = "empty" => dialect = "sqlite" /\ crashes > 0
  BY <1>6, DownType DEF MigrationsInv
<1> QED
  BY <1>2, <1>3, <1>4, <1>6, <1>7, KeptSame, BootMoves DEF MigrationsInv

(* A backend that is half through a section is the one on SQLite.          *)
LEMMA OneOpen ==
  ASSUME MigrationsInv, NEW b \in Boots, boot[b] # Migrations!Down, db.kind = "empty"
  PROVE  /\ dialect = "sqlite"
         /\ crashes > 0 \/ (boot[b].half /\ Migrations!Steps[boot[b].step] = "projects")
BY DownType DEF MigrationsInv

LEMMA LookMoves ==
  ASSUME MigrationsInv, NEW b \in Boots, Migrations!Look(b)
  PROVE  MigrationsInv'
<1>1. PICK k : k = [boot[b] EXCEPT !.seen = <<db>>]
  OBVIOUS
<1>2. /\ boot' = [boot EXCEPT ![b] = k] /\ UNCHANGED <<dialect, db, crashes>>
      /\ boot[b].step \in 1..33 /\ boot[b].seen = <<>> /\ boot[b] \in Migrations!Boot
  BY <1>1, ServingSteps DEF Migrations!Look, MigrationsInv
<1>3. boot[b] # Migrations!Down
  <2>1. 0 \notin 1..33
    OBVIOUS
  <2> QED
    BY <1>2, <2>1, DownIsDown, Zenon
<1>4. k \in Migrations!Boot
  <2>1. <<db>> \in Seq(Migrations!Database)
    BY DEF MigrationsInv
  <2> QED
    BY <1>1, <1>2, <2>1 DEF Migrations!Boot
<1>5. Fits(k, db) /\ ~boot[b].half
  <2>1. /\ Fits(boot[b], db) /\ db \in Migrations!Database
        /\ ~db.roleId => db.owner = "profile"
    BY DEF MigrationsInv
  <2>2. ~boot[b].half
    BY <1>2, <2>1 DEF Fits
  <2> QED
    BY <1>1, <1>2, <2>1, <2>2, FitsLook
<1>6. db.kind = "empty" => dialect = "sqlite" /\ crashes > 0
  BY <1>3, <1>5, OneOpen
<1> QED
  BY <1>2, <1>3, <1>4, <1>5, <1>6, KeptSame, BootMoves DEF MigrationsInv

(* A start that fails leaves the database as it is.                        *)
LEMMA FailMoves ==
  ASSUME MigrationsInv, NEW b \in Boots, boot[b] # Migrations!Down,
         boot' = [boot EXCEPT ![b] = Migrations!Down], UNCHANGED <<dialect, db>>,
         crashes' \in Nat, crashes' >= crashes,
         crashes' > 0 \/ ~boot[b].half \/ Migrations!Steps[boot[b].step] # "projects"
  PROVE  MigrationsInv'
<1>1. Fits(Migrations!Down, db)
  BY DownIsDown
<1>2. db.kind = "empty" => dialect = "sqlite" /\ crashes' > 0
  BY OneOpen DEF MigrationsInv
<1> QED
  BY <1>1, <1>2, DownType, KeptSame, BootMoves DEF MigrationsInv

LEMMA PassedType ==
  ASSUME MigrationsInv, NEW b \in Boots, boot[b].step \in 1..33
  PROVE  /\ Migrations!Passed(b) \in Migrations!Boot
         /\ Migrations!Passed(b) = [step |-> boot[b].step + 1, seen |-> <<>>, half |-> FALSE]
         /\ ~Migrations!Passed(b).half
<1>1. boot[b].step + 1 \in 0..(Len(Migrations!Steps) + 1) /\ <<>> \in Seq(Migrations!Database)
  BY SectionOrder
<1> QED
  BY <1>1 DEF Migrations!Passed, Migrations!Boot

LEMMA ActMoves ==
  ASSUME MigrationsInv, NEW b \in Boots, Migrations!Act(b)
  PROVE  MigrationsInv'
<1>1. PICK k \in Migrations!Boot : k = boot[b]
  BY DEF MigrationsInv
<1>2. PICK n \in SectionNames : n = Migrations!Steps[k.step]
  BY <1>1, PastOf, ServingSteps DEF Migrations!Act
<1>3. PICK s \in Migrations!Database : s = Head(k.seen)
  BY <1>1, PastOf DEF Migrations!Act
<1>4. /\ k.step \in 1..33 /\ k.seen # <<>> /\ k # Migrations!Down
      /\ ~Rebuilding(k)
      /\ dialect = "sqlite" /\ n = "projects" => s.kind # "absent" \/ k.half
      /\ \/ /\ ~k.half /\ boot' = [boot EXCEPT ![b] = Migrations!Down] /\ UNCHANGED db
         \/ /\ ~Migrations!Collides(n, db, s) \/ k.half
            /\ boot' = [boot EXCEPT ![b] = Migrations!Passed(b)]
            /\ db' = Migrations!Section(n, db, s)
      /\ UNCHANGED <<dialect, crashes>>
  BY <1>1, <1>2, <1>3, ServingSteps, DownIsDown
     DEF Migrations!Act, Migrations!Now, Migrations!Read, Migrations!Rebuilds, Rebuilding, RebuildNames
<1>5. Fits(k, db) /\ db \in Migrations!Database
  BY <1>1 DEF MigrationsInv
<1>6. CASE ~k.half /\ boot' = [boot EXCEPT ![b] = Migrations!Down] /\ UNCHANGED db
  <2>1. boot[b] # Migrations!Down /\ ~boot[b].half
    BY <1>1, <1>4, <1>6
  <2>2. crashes' \in Nat /\ crashes' >= crashes
    BY <1>4 DEF MigrationsInv
  <2>3. boot' = [boot EXCEPT ![b] = Migrations!Down] /\ UNCHANGED <<dialect, db>>
    BY <1>4, <1>6
  <2> QED
    BY <2>1, <2>2, <2>3, FailMoves
<1>7. ASSUME ~Migrations!Collides(n, db, s) \/ k.half,
             boot' = [boot EXCEPT ![b] = Migrations!Passed(b)],
             db' = Migrations!Section(n, db, s)
      PROVE  MigrationsInv'
  <2>1. /\ k.half => n = "projects" /\ s.kind = "absent" /\ db.kind # "absent"
        /\ KeptButColumns(s, db)
        /\ ~s.roleId => s.owner = "profile"
    BY <1>2, <1>3, <1>4, <1>5 DEF Fits
  <2>2. n = "rbac" /\ s.roleId => db.roleId
    BY <1>7, <2>1 DEF Migrations!Collides
  <2>3. n = "merge" /\ ~Migrations!Merges(s) => db.owner = "profile"
    BY <1>3, <2>1 DEF Migrations!Merges, KeptButColumns, Migrations!Database
  <2>4. /\ n = "rbac" /\ ~s.roleId => ~db.roleId
        /\ n = "projects" /\ s.kind # "absent" => db.kind # "absent"
    BY <2>1 DEF KeptButColumns
  <2>5. PICK d \in Migrations!Database : d = Migrations!Section(n, db, s)
    BY <1>5, SectionTyped
  <2>6. KeptAll(db, d) /\ Done(n, d)
    BY <1>5, <2>2, <2>3, <2>4, <2>5, SectionKeeps, SectionDone
  <2>7. PICK q \in Migrations!Boot :
          /\ q = Migrations!Passed(b) /\ ~q.half
          /\ q = [step |-> k.step + 1, seen |-> <<>>, half |-> FALSE]
    BY <1>1, <1>4, PassedType
  <2>8. Fits(q, d)
    BY <1>2, <1>4, <1>5, <2>6, <2>7, FitsPassed
  <2>9. n = "rbac" \/ ~db.roleId => db.owner = "profile"
    <3>1. ~db.roleId => db.owner = "profile"
      BY DEF MigrationsInv
    <3>2. n = "rbac" => "merge" \in Past(k)
      BY <1>2, <1>4, PastOf
    <3>3. "merge" \in Past(k) => Done("merge", db)
      BY <1>4, <1>5 DEF Fits
    <3> QED
      BY <3>1, <3>2, <3>3 DEF Done
  <2>10. ~d.roleId => d.owner = "profile"
    BY <1>5, <2>5, <2>9, SectionRoles
  <2>11. d.kind = "empty" => dialect = "sqlite" /\ crashes' > 0
    <3> SUFFICES ASSUME d.kind = "empty" PROVE dialect = "sqlite" /\ crashes > 0
      BY <1>4
    <3>1. db.kind = "empty" /\ (n = "projects" => s.kind # "absent")
      BY <1>5, <2>5, SectionKind
    <3>2. ~(k.half /\ n = "projects")
      BY <2>1, <3>1
    <3> QED
      BY <1>1, <1>2, <1>4, <3>1, <3>2, OneOpen
  <2>12. dialect = "sqlite" => \A c \in Boots : c # b => boot[c] = Migrations!Down
    BY <1>1, <1>4 DEF MigrationsInv
  <2>13. boot' = [boot EXCEPT ![b] = q] /\ db' = d /\ dialect' = dialect /\ crashes' \in Nat
    BY <1>4, <1>7, <2>5, <2>7 DEF MigrationsInv
  <2> QED
    BY <2>6, <2>8, <2>10, <2>11, <2>12, <2>13, BootMoves
<1> QED
  BY <1>4, <1>6, <1>7

LEMMA HalfMoves ==
  ASSUME MigrationsInv, NEW b \in Boots, Migrations!AlterFirst(b) \/ Migrations!SetAside(b)
  PROVE  MigrationsInv'
<1>1. PICK k \in Migrations!Boot : k = boot[b]
  BY DEF MigrationsInv
<1>2. PICK q : q = [k EXCEPT !.half = TRUE]
  OBVIOUS
<1>3. /\ k.step \in 1..33 /\ k.seen # <<>> /\ k # Migrations!Down /\ ~k.half
      /\ boot' = [boot EXCEPT ![b] = q] /\ UNCHANGED <<dialect, crashes>> /\ dialect = "sqlite"
  BY <1>1, <1>2, ServingSteps, DownIsDown
     DEF Migrations!AlterFirst, Migrations!SetAside, Migrations!Rebuilds
<1>4. q \in Migrations!Boot /\ q.half /\ q.step = k.step
  BY <1>2 DEF Migrations!Boot
<1>5. Fits(k, db) /\ db \in Migrations!Database
  BY <1>1 DEF MigrationsInv
<1>6. \A c \in Boots : c # b => boot[c] = Migrations!Down
  BY <1>1, <1>3 DEF MigrationsInv
<1>7. CASE Migrations!AlterFirst(b)
  <2>1. PICK d : d = [db EXCEPT !.kind = "empty"]
    OBVIOUS
  <2>2. /\ Migrations!Steps[k.step] = "projects" /\ Head(k.seen).kind = "absent" /\ db' = d
    BY <1>1, <1>7, <2>1 DEF Migrations!AlterFirst, Migrations!Now, Migrations!Read
  <2>3. d \in Migrations!Database /\ KeptAll(db, d) /\ Fits(q, d)
    BY <1>2, <1>3, <1>5, <2>1, <2>2, FitsAlter
  <2>4. ~d.roleId => d.owner = "profile"
    BY <2>1, <2>3 DEF MigrationsInv, Migrations!Database
  <2> QED
    BY <1>1, <1>3, <1>4, <1>6, <2>2, <2>3, <2>4, BootMoves DEF MigrationsInv
<1>8. CASE Migrations!SetAside(b)
  <2>1. PICK d : d = Migrations!RenameTable(Migrations!Rebuilt(Migrations!Steps[k.step]), db)
    OBVIOUS
  <2>2. Rebuilding(k) /\ db' = d
    BY <1>1, <1>8, <2>1
       DEF Migrations!SetAside, Migrations!Now, Migrations!Read, Migrations!Rebuilds, Rebuilding, RebuildNames
  <2>3. d \in Migrations!Database /\ KeptButColumns(db, d) /\ Fits(q, d)
    BY <1>2, <1>3, <1>5, <2>1, <2>2, FitsSetAside
  <2>4. d.roleId = db.roleId /\ d.owner = db.owner /\ d.kind = db.kind
    BY <1>5, <2>1 DEF Migrations!RenameTable, Migrations!Database
  <2>5. d.kind = "empty" => crashes' > 0
    BY <1>1, <1>3, <2>4, OneOpen
  <2> QED
    BY <1>1, <1>3, <1>4, <1>6, <2>2, <2>3, <2>4, <2>5, BootMoves DEF MigrationsInv
<1> QED
  BY <1>7, <1>8

LEMMA CopyMoves ==
  ASSUME MigrationsInv, NEW b \in Boots, Migrations!CopyBack(b)
  PROVE  MigrationsInv'
<1>1. PICK k \in Migrations!Boot : k = boot[b]
  BY DEF MigrationsInv
<1>2. Fits(k, db) /\ k.step \in 1..33 /\ k.half
  BY <1>1, ServingSteps DEF Migrations!CopyBack, MigrationsInv
<1>3. k.seen # <<>> /\ Migrations!Steps[k.step] \in RebuildNames
  BY <1>1, <1>2 DEF Fits, Migrations!CopyBack, Migrations!Rebuilds, Migrations!Now, RebuildNames
<1>4. ~Migrations!CopiesRows(Migrations!Rebuilt(Migrations!Steps[k.step]), Head(k.seen))
  BY <1>2, <1>3, RebuildFails
<1>5. boot' = [boot EXCEPT ![b] = Migrations!Down] /\ UNCHANGED <<dialect, db, crashes>>
  BY <1>1, <1>4 DEF Migrations!CopyBack, Migrations!Now, Migrations!Read
<1>6. boot[b] # Migrations!Down /\ Migrations!Steps[boot[b].step] # "projects"
  BY <1>1, <1>2, <1>3, DownIsDown DEF RebuildNames
<1>7. crashes' \in Nat /\ crashes' >= crashes
  BY <1>5 DEF MigrationsInv
<1> QED
  BY <1>5, <1>6, <1>7, FailMoves

LEMMA CrashMoves ==
  ASSUME MigrationsInv, NEW b \in Boots, Migrations!Crash(b)
  PROVE  MigrationsInv'
<1>1. /\ boot[b] # Migrations!Down /\ boot' = [boot EXCEPT ![b] = Migrations!Down]
      /\ UNCHANGED <<dialect, db>> /\ crashes' = crashes + 1
  BY DEF Migrations!Crash
<1>2. crashes' \in Nat /\ crashes' >= crashes /\ crashes' > 0
  BY <1>1 DEF MigrationsInv
<1> QED
  BY <1>1, <1>2, FailMoves

(* What people do changes nothing that the migrations are about.           *)
LEMMA EditMoves ==
  ASSUME MigrationsInv,
         Migrations!Demote \/ Migrations!AttachRepo \/ Migrations!DetachRepo \/ Migrations!Revoke
  PROVE  MigrationsInv'
<1>1. UNCHANGED <<dialect, boot, crashes>>
  BY DEF Migrations!Demote, Migrations!AttachRepo, Migrations!DetachRepo, Migrations!Revoke, Migrations!Edit
<1>2. db.repos \subseteq {"primary", "own"}
  BY DEF MigrationsInv, Migrations!Database
<1>3. PICK x \in SUBSET {"admin", "member"}, y \in SUBSET {"primary", "own"} :
        db' \in {[db EXCEPT !.roles = x], [db EXCEPT !.repos = y], [db EXCEPT !.granted = FALSE]}
  <2>1. CASE Migrations!Demote
    BY <2>1 DEF Migrations!Demote, Migrations!Edit
  <2>2. CASE Migrations!AttachRepo
    BY <1>2, <2>2 DEF Migrations!AttachRepo, Migrations!Edit
  <2>3. CASE Migrations!DetachRepo
    BY <2>3 DEF Migrations!DetachRepo, Migrations!Edit
  <2>4. CASE Migrations!Revoke
    BY <2>4 DEF Migrations!Revoke, Migrations!Edit
  <2> QED
    BY <2>1, <2>2, <2>3, <2>4
<1>4. PICK d \in Migrations!Database : d = db'
  BY <1>3, DatabaseType DEF MigrationsInv
<1>5. /\ d.roleId = db.roleId /\ d.owner = db.owner /\ d.kind = db.kind /\ d.columns = db.columns
      /\ d.strict = db.strict /\ d.completed = db.completed /\ d.org = db.org
      /\ d.enforced = db.enforced /\ d.rls = db.rls /\ d.seeded = db.seeded
  BY <1>3, <1>4 DEF MigrationsInv, Migrations!Database
<1>6. KeptAll(db, d)
  BY <1>5 DEF KeptAll, KeptButColumns
<1>7. \A b \in Boots : Fits(boot[b], d)
  BY <1>6, FitsKept DEF MigrationsInv
<1>8. \A b \in Boots : Fits(boot[b], db)'
  <2> SUFFICES ASSUME NEW b \in Boots PROVE Fits(boot[b], db)'
    OBVIOUS
  <2>1. PICK q : q = boot'[b]
    OBVIOUS
  <2>2. Fits(q, d)'
    BY <1>1, <1>7, <2>1, FitsStable
  <2> QED
    BY <1>4, <2>1, <2>2 DEF Fits, Rebuilding, Done, Past
<1> QED
  BY <1>1, <1>4, <1>5, <1>8 DEF MigrationsInv

LEMMA MigrationsStep ==
  ASSUME MigrationsInv, [Migrations!Next]_Migrations!vars
  PROVE  MigrationsInv'
<1>1. CASE UNCHANGED Migrations!vars
  <2>1. UNCHANGED <<dialect, db, boot, crashes>>
    BY <1>1 DEF Migrations!vars
  <2>2. PICK d \in Migrations!Database : d = db
    BY DEF MigrationsInv
  <2>3. \A b \in Boots : Fits(boot[b], db)'
    <3> SUFFICES ASSUME NEW b \in Boots PROVE Fits(boot[b], db)'
      OBVIOUS
    <3>1. PICK q : q = boot'[b]
      OBVIOUS
    <3>2. Fits(q, d)'
      BY <2>1, <2>2, <3>1, FitsStable DEF MigrationsInv
    <3> QED
      BY <2>1, <2>2, <3>1, <3>2 DEF Fits, Rebuilding, Done, Past
  <2> QED
    BY <2>1, <2>3 DEF MigrationsInv
<1>2. CASE Migrations!Next
  BY <1>2, StartMoves, LookMoves, ActMoves, HalfMoves, CopyMoves, CrashMoves, EditMoves
     DEF Migrations!Next
<1> QED
  BY <1>1, <1>2

(* A backend that serves has passed every section.                         *)
LEMMA AllDone ==
  ASSUME MigrationsInv, NEW b \in Boots, Migrations!Serving(b), NEW n \in SectionNames
  PROVE  Done(n, db)
<1>1. PICK k \in Migrations!Boot : k = boot[b]
  BY DEF MigrationsInv
<1>2. Fits(k, db) /\ k.step = 34
  BY <1>1, ServingSteps DEF MigrationsInv
<1>3. ~k.half
  <2>1. 34 \notin 1..33
    OBVIOUS
  <2> QED
    BY <1>2, <2>1 DEF Fits
<1>4. n \in Past(k)
  <2>1. PICK i \in 1..33 : Migrations!Steps[i] = n
    BY SectionsAll
  <2>2. k.step - 1 = 33
    BY <1>2
  <2> QED
    BY <2>1, <2>2 DEF Past
<1> QED
  BY <1>2, <1>3, <1>4 DEF Fits

LEMMA MigratedWhenServed == MigrationsInv => Migrations!ServedIsMigrated
<1> SUFFICES ASSUME MigrationsInv, NEW b \in Boots, Migrations!Serving(b)
             PROVE  /\ db.columns = Migrations!ColumnSections /\ db.strict = {}
                    /\ db.owner = "profile" /\ db.completed = "filled" /\ db.org = "filled" /\ db.seeded
                    /\ dialect = "postgresql" => db.enforced /\ db.rls /\ ~db.roleId
                    /\ \/ db.kind \in {"sandbox", "git"}
                       \/ dialect = "sqlite" /\ crashes > 0 /\ db.kind = "empty"
  BY DEF Migrations!ServedIsMigrated
<1>1. \A n \in SectionNames : Done(n, db)
  BY AllDone
<1>2. db \in Migrations!Database
  BY DEF MigrationsInv
<1>3. db.columns = Migrations!ColumnSections
  <2>1. Migrations!ColumnSections \subseteq SectionNames
    BY DEF Migrations!ColumnSections, SectionNames
  <2> QED
    BY <1>1, <1>2, <2>1 DEF Done, Migrations!Database
<1>4. db.strict = {}
  <2>1. "attachments" \notin db.strict
    BY <1>1 DEF Done, RebuildNames, SectionNames, Migrations!Rebuilt
  <2>2. "agents" \notin db.strict
    BY <1>1 DEF Done, RebuildNames, SectionNames, Migrations!Rebuilt
  <2> QED
    BY <1>2, <2>1, <2>2 DEF Migrations!Database, Migrations!Tables
<1>5. /\ db.owner = "profile" /\ db.completed = "filled" /\ db.org = "filled" /\ db.seeded
      /\ db.kind # "absent"
      /\ dialect = "postgresql" => db.enforced /\ db.rls /\ ~db.roleId
  <2>1. {"merge", "projects", "org_backfill", "seed", "enforce", "rls", "rbac"} \subseteq SectionNames
    BY DEF SectionNames
  <2> QED
    BY <1>1, <2>1 DEF Done
<1>6. db.kind = "empty" => dialect = "sqlite" /\ crashes > 0
  <2>1. boot[b].step = 34 /\ Fits(boot[b], db)
    BY ServingSteps DEF MigrationsInv
  <2>2. ~boot[b].half /\ boot[b] # Migrations!Down
    <3>1. 34 \notin 1..33 /\ 34 # 0
      OBVIOUS
    <3> QED
      BY <2>1, <3>1, DownIsDown DEF Fits
  <2> QED
    BY <2>2, OneOpen
<1> QED
  BY <1>2, <1>3, <1>4, <1>5, <1>6 DEF Migrations!Database

(* However the containers of a deployment start, crash, collide and start  *)
(* again, on either database, and whatever people do meanwhile: a backend  *)
(* that serves finds the schema complete and its rows filled in.           *)
THEOREM ServersFindTheirSchema == ServerSpec => []ServedIsMigrated
<1>1. ServerInit => MigrationsInv
  BY MigrationsInit, ServerAssumption DEF ServerInit
<1>2. MigrationsInv /\ [ServerNext]_<<outboxVars, migrationVars, part>> => MigrationsInv'
  BY MigrationsStep DEF ServerNext, migrationVars, Migrations!vars
<1>3. MigrationsInv => ServedIsMigrated
  BY MigratedWhenServed DEF ServedIsMigrated
<1> QED
  BY <1>1, <1>2, <1>3, PTL DEF ServerSpec
=============================================================================
