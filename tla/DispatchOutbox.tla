--------------------------- MODULE DispatchOutbox ---------------------------
(***************************************************************************)
(* How a frame travels from the backend to the daemon of ONE runtime       *)
(* (forge/dispatch_outbox.py, forge/ws_dispatch.py).                       *)
(*                                                                         *)
(* A frame is written to the dispatch_intents table and sent through the   *)
(* hub of the process that holds the daemon's socket.  Another process     *)
(* (the MCP service) has an empty hub and only writes the row; a periodic  *)
(* sweep of the first process, or the daemon's next registration, sends    *)
(* it.  Sending means appending to the connection's bounded queue, from    *)
(* which a pump writes to the socket.                                      *)
(*                                                                         *)
(* The hub's coroutines share one event loop and are interrupted only      *)
(* where they really wait: a step here is what runs between two waits.     *)
(* The delivery loops do not wait, but write to the database row by row    *)
(* while other processes do, so each row is a step of `loop`.              *)
(*                                                                         *)
(* The database always answers here; frames carry no content.  The dedup   *)
(* ring holds 128 ids, more than any instance sends: it is a set.          *)
(***************************************************************************)
EXTENDS Naturals, Sequences

CONSTANTS
  MaxFrames,   \* bound: frames ever dispatched
  MaxConns,    \* bound: connections the daemon ever opens
  SendBuf,     \* _SEND_BUF
  Kinds,       \* the kinds of frame this instance dispatches
  Faults       \* the faults this instance suffers

ASSUME BoundAssumption == /\ MaxFrames \in Nat \ {0}
                          /\ MaxConns \in Nat \ {0}
                          /\ SendBuf \in Nat \ {0}

AllKinds  == {"trigger", "integrate", "cancel", "pause"}
AllFaults == {"drop", "half", "restart"}

ASSUME KindAssumption == Kinds \subseteq AllKinds

Frames == 1..MaxFrames   \* in the order of dispatch, which is created_at's
Conns  == 1..MaxConns

VARIABLES
  frame,   \* frame[f]: its row in dispatch_intents, and its fate
  conn,    \* conn[c]: the c-th connection the daemon opens
  slot,    \* hub._conns[daemon_id]: the registered connection, 0 if none
  loop     \* the delivery loop the event loop is in

vars == <<frame, conn, slot, loop>>

-----------------------------------------------------------------------------
RowState == {"none", "pending", "delivered", "failed"}

Frame == [kind : AllKinds \cup {"none"},
          of   : 0..MaxFrames,   \* the trigger a cancel or pause aims at
          row  : RowState,
          old  : BOOLEAN,        \* created_at before the TTL's cutoff
          got  : 0..2]           \* times it reached the daemon (history)

(* A daemon waits for the ack, then serves; on a half-open connection it   *)
(* sits in front of a socket from which nothing arrives any more.          *)
Client == {"none", "waiting", "up", "deaf", "gone"}

(* How far handle_daemon_ws is: its socket accepted; its connection in the *)
(* hub; the outbox drained; the ack sent.                                  *)
HandlerState == {"none", "opened", "held", "drained", "served", "closed"}

(* asyncio.Queue(maxsize=_SEND_BUF).                                       *)
Queue    == {q \in Seq(Frames) : Len(q) <= SendBuf}
EventIds == (AllKinds \cup {"none"}) \X (0..MaxFrames)

Conn == [st     : HandlerState,
         client : Client,        \* the daemon's side
         pump   : BOOLEAN,       \* the write_pump task runs
         queue  : Queue,
         seen   : SUBSET EventIds]

Loop == [job  : {"idle", "drain", "sweep"},
         conn : 0..MaxConns,
         todo : SUBSET Frames]

Unsent  == [kind |-> "none", of |-> 0, row |-> "none", old |-> FALSE, got |-> 0]
NoConn  == [st |-> "none", client |-> "none", pump |-> FALSE, queue |-> <<>>,
            seen |-> {}]
DeadConn == [NoConn EXCEPT !.st = "closed", !.client = "gone"]
Resting == [job |-> "idle", conn |-> 0, todo |-> {}]

Idle == loop.job = "idle"

(* The event id: the trace of a trigger, "integrate-<task>" (one task),    *)
(* "cancel-<trace>", "pause-<trace>".                                      *)
Event(f) == IF frame[f].kind = "trigger" THEN <<"trigger", f>>
            ELSE <<frame[f].kind, frame[f].of>>

Pending   == {f \in Frames : frame[f].row = "pending"}
Oldest(S) == {f \in S : \A g \in S : f <= g}
NextFrame == {f \in Frames : /\ frame[f].kind = "none"
                             /\ \A g \in Frames : frame[g].kind = "none" => f <= g}
NextConn  == {c \in Conns : /\ conn[c].st = "none"
                            /\ \A d \in Conns : conn[d].st = "none" => c <= d}

-----------------------------------------------------------------------------

(* DaemonConnection.send: an id in the ring is skipped, a full queue drops *)
(* the frame with a warning.                                               *)
Sent(c, f, id) ==
  IF id \in conn[c].seen THEN conn
  ELSE [conn EXCEPT ![c].seen = @ \cup {id},
                    ![c].queue = IF Len(@) < SendBuf THEN Append(@, f) ELSE @]

(* Mutant of Delivered: the row is left pending.                           *)
LeftPending(f) == frame

(* mark_delivered: only a pending row.                                     *)
Delivered(f) ==
  [frame EXCEPT ![f].row = IF @ = "pending" THEN "delivered" ELSE @]

-----------------------------------------------------------------------------
(* Dispatching a frame.                                                    *)

(* In a process without the socket, or with no daemon registered: the row  *)
(* is all there is.  A pause leaves none.                                  *)
Write(f, kind, of) ==
  /\ frame' = [frame EXCEPT ![f].kind = kind, ![f].of = of,
                            ![f].row = IF kind = "pause" THEN "none"
                                       ELSE "pending"]
  /\ UNCHANGED <<conn, slot, loop>>

(* In the process that holds it: a trigger or an integrate writes its row, *)
(* is sent and marked; a cancel or a pause is sent without a row.          *)
Send(f, kind, of) ==
  /\ Idle /\ slot # 0
  /\ frame' = [frame EXCEPT ![f].kind = kind, ![f].of = of,
                            ![f].row = IF kind \in {"trigger", "integrate"}
                                       THEN "delivered" ELSE "none"]
  /\ conn' = Sent(slot, f, IF kind = "trigger" THEN <<kind, f>>
                           ELSE <<kind, of>>)
  /\ UNCHANGED <<slot, loop>>

Aims(kind) == IF kind \in {"cancel", "pause"}
              THEN {g \in Frames : frame[g].kind = "trigger"} ELSE {0}

Dispatch(kind) ==
  \E f \in NextFrame, of \in Aims(kind) : Write(f, kind, of) \/ Send(f, kind, of)

-----------------------------------------------------------------------------
(* The delivery loops.                                                     *)

(* deliver_pending collects the rows within the TTL.                       *)
SweepBegins ==
  /\ Idle /\ Pending # {}
  /\ loop' = [job |-> "sweep", conn |-> 0,
              todo |-> {f \in Pending : ~frame[f].old}]
  /\ UNCHANGED <<frame, conn, slot>>

(* One row of the loop: sent and marked; skipped by the sweep while no     *)
(* daemon is registered.                                                   *)
Target == IF loop.job = "drain" THEN loop.conn ELSE slot

DeliverRow ==
  \E f \in Oldest(loop.todo) :
    /\ IF Target = 0 THEN UNCHANGED <<frame, conn>>
       ELSE conn' = Sent(Target, f, Event(f)) /\ frame' = Delivered(f)
    /\ loop' = [loop EXCEPT !.todo = @ \ {f}]
    /\ UNCHANGED slot

(* Mutant of Expirable: only triggers expire.                              *)
ExpirableTriggers == {f \in Pending : frame[f].old /\ frame[f].kind = "trigger"}

(* _expire_stale fails what is past the TTL in one UPDATE and tells the    *)
(* runs of the triggers among it (mark_dispatch_dropped).                  *)
Expirable == {f \in Pending : frame[f].old}

SweepEnds ==
  /\ loop.job = "sweep" /\ loop.todo = {}
  /\ frame' = [f \in Frames |-> IF f \in Expirable
                                THEN [frame[f] EXCEPT !.row = "failed"]
                                ELSE frame[f]]
  /\ loop' = Resting
  /\ UNCHANGED <<conn, slot>>

(* connect: _deliver_pending sends every pending row, whatever its age.    *)
Drain(c) == loop' = [job |-> "drain", conn |-> c, todo |-> Pending]

DrainEnds ==
  /\ loop.job = "drain" /\ loop.todo = {}
  /\ conn' = [conn EXCEPT ![loop.conn].st = "drained"]
  /\ loop' = Resting
  /\ UNCHANGED <<frame, slot>>

-----------------------------------------------------------------------------
(* A connection, from the daemon's connect to the end of its handler.      *)

(* The daemon has no connection left and opens one; it sends its identity. *)
Connect(c) ==
  /\ \A d \in Conns : conn[d].client \in {"none", "gone"}
  /\ c \in NextConn
  /\ conn' = [conn EXCEPT ![c].st = "opened", ![c].client = "waiting"]
  /\ UNCHANGED <<frame, slot, loop>>

(* hub.connect takes the slot.  With no older connection it drains the     *)
(* outbox at once; else it waits for the older socket to close.            *)
Register(c) ==
  /\ Idle /\ conn[c].st = "opened"
  /\ slot' = c
  /\ IF slot = 0
     THEN Drain(c) /\ conn' = [conn EXCEPT ![c].st = "held"]
     ELSE /\ conn' = [conn EXCEPT ![c].st = "held", ![slot].client = "gone"]
          /\ UNCHANGED loop
  /\ UNCHANGED frame

OldClosed(c) ==
  /\ Idle /\ conn[c].st = "held"
  /\ Drain(c)
  /\ UNCHANGED <<frame, conn, slot>>

(* Mutant of Vacated: whoever disconnects empties the slot.                *)
VacatedBlindly(c) == 0

(* hub.disconnect(expected=conn): a replaced connection leaves the slot.   *)
Vacated(c) == IF slot = c THEN 0 ELSE slot

(* Its queue and its dedup ring go with it.                                *)
Ended(c) == [conn EXCEPT ![c] = DeadConn]

(* The "registered" ack is the first frame; then the pump starts.          *)
Ack(c) ==
  /\ Idle /\ conn[c].st = "drained"
  /\ IF conn[c].client = "gone"
     THEN conn' = Ended(c) /\ slot' = Vacated(c)
     ELSE /\ conn' = [conn EXCEPT ![c].st = "served", ![c].pump = TRUE,
                                  ![c].client = IF @ = "waiting" THEN "up" ELSE @]
          /\ UNCHANGED slot
  /\ UNCHANGED <<frame, loop>>

(* write_pump: a frame written to a socket that is gone is lost, and the   *)
(* pump may notice and stop.                                               *)
Pump(c) ==
  /\ Idle /\ conn[c].pump /\ conn[c].queue # <<>>
  /\ LET f == Head(conn[c].queue) IN
     frame' = [frame EXCEPT ![f].got = IF conn[c].client = "up" /\ @ < 2
                                       THEN @ + 1 ELSE @]
  /\ \E goesOn \in IF conn[c].client = "gone" THEN BOOLEAN ELSE {TRUE} :
       conn' = [conn EXCEPT ![c].queue = Tail(@), ![c].pump = goesOn]
  /\ UNCHANGED <<slot, loop>>

(* The handler sees the socket closed, or misses the heartbeat.            *)
Disconnect(c) ==
  /\ Idle /\ conn[c].st = "served"
  /\ conn[c].client \in {"gone", "deaf"}
  /\ conn' = Ended(c)
  /\ slot' = Vacated(c)
  /\ UNCHANGED <<frame, loop>>

-----------------------------------------------------------------------------
(* Faults and the passing of time.                                         *)
Alive(c) == conn[c].client \in {"waiting", "up"}

(* The connection breaks, or the daemon gives up waiting for the ack ...   *)
Drop(c) ==
  /\ "drop" \in Faults
  /\ Alive(c)
  /\ conn' = [conn EXCEPT ![c].client = "gone"]
  /\ UNCHANGED <<frame, slot, loop>>

(* ... or becomes half-open, which the daemon's own pings find out.        *)
HalfOpen(c) ==
  /\ "half" \in Faults
  /\ Alive(c)
  /\ conn' = [conn EXCEPT ![c].client = "deaf"]
  /\ UNCHANGED <<frame, slot, loop>>

PingFails(c) ==
  /\ conn[c].client = "deaf"
  /\ conn' = [conn EXCEPT ![c].client = "gone"]
  /\ UNCHANGED <<frame, slot, loop>>

(* The process that holds the sockets restarts: the hub is empty again.    *)
(* (With no daemon registered it has nothing to lose but a sweep.)         *)
Restart ==
  /\ "restart" \in Faults
  /\ slot # 0
  /\ conn' = [c \in Conns |-> IF conn[c].st = "none" THEN conn[c]
                              ELSE DeadConn]
  /\ slot' = 0
  /\ loop' = Resting
  /\ UNCHANGED frame

(* DISPATCH_REDELIVER_TTL_S passes over a pending row.                     *)
GoesOld(f) ==
  /\ f \in Pending /\ ~frame[f].old
  /\ frame' = [frame EXCEPT ![f].old = TRUE]
  /\ UNCHANGED <<conn, slot, loop>>

-----------------------------------------------------------------------------
Init ==
  /\ frame = [f \in Frames |-> Unsent]
  /\ conn = [c \in Conns |-> NoConn]
  /\ slot = 0
  /\ loop = Resting

Hub == \/ SweepBegins \/ DeliverRow \/ SweepEnds \/ DrainEnds
       \/ \E c \in Conns : \/ Register(c) \/ OldClosed(c) \/ Ack(c)
                           \/ Pump(c)     \/ Disconnect(c)

Daemon == \E c \in Conns : Connect(c) \/ PingFails(c)

Environment == \/ Restart
               \/ \E c \in Conns : Drop(c) \/ HalfOpen(c)
               \/ \E f \in Frames : GoesOld(f)

Next == \/ \E kind \in Kinds : Dispatch(kind)
        \/ Hub \/ Daemon \/ Environment

Spec == Init /\ [][Next]_vars

(* The event loop runs on, the sweep fires every few seconds, the daemon   *)
(* pings and reconnects, time passes.  Nobody owes a dispatch or a fault.  *)
(* That the hub as a whole goes on is enough: all it does between two      *)
(* faults ends.                                                            *)
Fairness ==
  /\ WF_vars(Hub)
  /\ WF_vars(Daemon)
  /\ \A f \in Frames : WF_vars(GoesOld(f))

FairSpec == Spec /\ Fairness

-----------------------------------------------------------------------------
(* Every variable keeps its type; a connection never holds more frames     *)
(* than _SEND_BUF, however the loops and the dispatchers alternate.        *)
TypeOK ==
  /\ frame \in [Frames -> Frame]
  /\ conn \in [Conns -> Conn]
  /\ slot \in 0..MaxConns
  /\ loop \in Loop

(* WsHub.disconnect: the handler of a replaced connection never clobbers   *)
(* the registration of the newer one, "the race that made agents appear    *)
(* offline": a daemon that holds its ack can be dispatched to.             *)
AckedIsRegistered ==
  \A c \in Conns : conn[c].client = "up" => slot = c

(* The outbox and the hub are a channel: nothing arrives unsent, twice, or *)
(* after it was given up.                                                  *)
Fate(f) ==
  LET x == frame[f] IN
  CASE x.kind = "none"                       -> "unsent"
    [] x.kind # "none" /\ x.row = "failed"   -> "dropped"
    [] x.row # "failed" /\ x.got > 1         -> "duplicated"
    [] x.row # "failed" /\ x.got = 1         -> "arrived"
    [] OTHER                                 -> "due"

Channel == INSTANCE FrameChannel WITH state <- [f \in Frames |-> Fate(f)]
ImplementsChannel == Channel!Spec

(* No row stays pending: it is sent when a daemon comes, failed when none  *)
(* does.                                                                   *)
PendingSettles ==
  \A f \in Frames : frame[f].row = "pending" ~> frame[f].row # "pending"

(* dispatch_outbox.py: "Delivery is at-least-once": a trigger reaches the  *)
(* daemon, or is failed for everyone to see.                               *)
TriggersArrive ==
  \A f \in Frames :
    frame[f].kind = "trigger" ~> frame[f].got > 0 \/ frame[f].row = "failed"

(* dispatch_integrate: "The row keeps the merge alive until a process with *)
(* the socket delivers it".                                                *)
IntegratesArrive ==
  \A f \in Frames :
    frame[f].kind = "integrate" ~> frame[f].got > 0 \/ frame[f].row = "failed"
=============================================================================
