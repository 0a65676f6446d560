--------------------------- MODULE NotificationHub ---------------------------
(***************************************************************************)
(* Live delivery of notifications: the hub's event loop (ws/hub.go), the   *)
(* send queue and write pump of each client (ws/client.go), the handler    *)
(* that registers a client and replays what is already in the database     *)
(* (WebSocketHandler.Connect), and workers in NotificationService.Send.    *)
(*                                                                         *)
(* register, unregister and outbound are unbuffered: a send and its        *)
(* receipt by the loop are one step, possible only while the loop is at    *)
(* its select.  What a select finds ready together is taken in any order.  *)
(* Sending on a closed channel, or closing it again, panics.               *)
(***************************************************************************)
EXTENDS Integers, Sequences, FiniteSets

CONSTANTS
  Clients,      \* sockets, each asked for once
  Notes,        \* notifications, each sent by one call of Send
  Orders,
  Users,
  OrderOf,      \* the order a client asks for, or a notification is about
  CallerOf,     \* the user whose token a client shows
  Owner,        \* orders.user_id
  SendBuffer,   \* sendBuffer, the capacity of a client's queue
  MayStop,      \* whether the hub is stopped at some time
  Groups        \* a bound: the clients that come are all in one of these groups

ASSUME HubAssumption ==
  /\ OrderOf \in [Clients \cup Notes -> Orders]
  /\ CallerOf \in [Clients -> Users] /\ Owner \in [Orders -> Users]
  /\ Clients \cap Notes = {}
  /\ SendBuffer \in Nat \ {0}
  /\ MayStop \in BOOLEAN
  /\ Groups \subseteq SUBSET Clients

VARIABLES
  hub,       \* the loop: "select", "fanout", "stopped" or "panicked"
  done,      \* whether Stop has closed done
  clients,   \* the clients in the hub's map
  fan,       \* the fan-out in progress: its note, the clients left, delivered
  send,      \* per client: the queue
  closed,    \* clients whose queue is closed
  handler,   \* per client: the step of Connect
  replay,    \* per client: the rows Connect has still to send
  pump,      \* per client: the step of WritePump
  broken,    \* clients whose connection fails every write
  sender,    \* per note: the step of Send
  answer,    \* per note: what Notify's result channel holds, or Notify returned
  row,       \* per note: notifications.status
  queued,    \* history, per client: notes its queue has taken
  overrun    \* history: clients whose queue was full when Connect sent

vars == <<hub, done, clients, fan, send, closed, handler, replay, pump, broken,
          sender, answer, row, queued, overrun>>

hubVars == <<hub, done, clients, fan, closed>>
queueVars == <<send, queued>>
handlerVars == <<handler, replay, overrun>>
pumpVars == <<pump, broken>>
senderVars == <<sender, answer, row>>

NoFan == [note |-> "none", todo |-> {}, delivered |-> FALSE]

TypeOK ==
  /\ hub \in {"select", "fanout", "stopped", "panicked"}
  /\ done \in BOOLEAN
  /\ clients \subseteq Clients
  /\ fan \in [note : Notes \cup {"none"}, todo : SUBSET Clients,
              delivered : BOOLEAN]
  /\ send \in [Clients -> Seq(Notes)]
  /\ \A c \in Clients : Len(send[c]) <= SendBuffer
  /\ closed \subseteq Clients
  /\ handler \in [Clients -> {"idle", "list", "replay", "replayed",
                              "unreplayed", "panicked"}]
  /\ replay \in [Clients -> SUBSET Notes]
  /\ pump \in [Clients -> {"none", "run", "leave", "exit"}]
  /\ broken \subseteq Clients
  /\ sender \in [Notes -> {"create", "notify", "wait", "mark", "end"}]
  /\ answer \in [Notes -> {"none", "yes", "no"}]
  /\ row \in [Notes -> {"none", "pending", "sent", "failed"}]
  /\ queued \in [Clients -> SUBSET Notes]
  /\ overrun \subseteq Clients

Init ==
  /\ hub = "select" /\ done = FALSE /\ clients = {} /\ fan = NoFan /\ closed = {}
  /\ send = [c \in Clients |-> <<>>] /\ queued = [c \in Clients |-> {}]
  /\ handler = [c \in Clients |-> "idle"]
  /\ replay = [c \in Clients |-> {}] /\ overrun = {}
  /\ pump = [c \in Clients |-> "none"] /\ broken = {}
  /\ sender = [n \in Notes |-> "create"]
  /\ answer = [n \in Notes |-> "none"] /\ row = [n \in Notes |-> "none"]

-----------------------------------------------------------------------------
(***************************************************************************)
(* Queues.                                                                 *)
(***************************************************************************)

\* Mutant of HasRoom: one place too many.
HasRoomForOneMore(c) == Len(send[c]) <= SendBuffer

HasRoom(c) == Len(send[c]) < SendBuffer

Put(c, n) ==
  /\ send' = [send EXCEPT ![c] = Append(@, n)]
  /\ queued' = [queued EXCEPT ![c] = @ \cup {n}]

\* Mutant of remove: no membership guard.
removeUnguarded(c, next) ==
  /\ clients' = clients \ {c}
  /\ closed' = closed \cup {c}
  /\ hub' = IF c \in closed THEN "panicked" ELSE next

\* hub.remove; next is where the loop goes on.
remove(c, next) ==
  /\ clients' = clients \ {c}
  /\ closed' = IF c \in clients THEN closed \cup {c} ELSE closed
  /\ hub' = IF c \in clients \cap closed THEN "panicked" ELSE next

-----------------------------------------------------------------------------
(***************************************************************************)
(* WebSocketHandler.Connect.                                               *)
(***************************************************************************)

HandlerTo(c, step) == handler' = [handler EXCEPT ![c] = step]

\* The check of Connect.  Its rejections (no token or none that parses, no such
\* order, not the owner, an error of the query, a failed upgrade) come before
\* anything is changed, and are no steps here.
MayWatch(c) == Owner[OrderOf[c]] = CallerOf[c]
Watchers == {c \in Clients : MayWatch(c)}

InGroup(c) ==
  \E g \in Groups : c \in g /\ {d \in Clients : handler[d] # "idle"} \subseteq g

\* The upgrade, NewClient and hub.Register, then go client.WritePump().
Register(c) ==
  /\ handler[c] = "idle" /\ MayWatch(c)
  /\ InGroup(c)
  /\ \/ hub = "select" /\ clients' = clients \cup {c}
     \/ done /\ UNCHANGED clients
  /\ HandlerTo(c, "list")
  /\ pump' = [pump EXCEPT ![c] = "run"]
  /\ UNCHANGED <<hub, done, fan, closed, queueVars, senderVars, replay, overrun, broken>>

\* Mutant of RowsOf: replay only what no live client took.
RowsUndelivered(o) == {n \in Notes : OrderOf[n] = o /\ row[n] = "failed"}

\* The rows ListByOrder returns.
RowsOf(o) == {n \in Notes : OrderOf[n] = o /\ row[n] # "none"}

ListByOrder(c) ==
  /\ handler[c] = "list"
  /\ replay' = [replay EXCEPT ![c] = RowsOf(OrderOf[c])]
  /\ HandlerTo(c, IF RowsOf(OrderOf[c]) = {} THEN "replayed" ELSE "replay")
  /\ UNCHANGED <<hubVars, queueVars, pumpVars, senderVars, overrun>>

ListError(c) ==
  /\ handler[c] = "list"
  /\ HandlerTo(c, "unreplayed")
  /\ UNCHANGED <<hubVars, queueVars, pumpVars, senderVars, replay, overrun>>

\* client.Send of the next row: queued, dropped if the queue is full, or a panic
\* if the hub has closed it.
Send(c, n) ==
  /\ handler[c] = "replay" /\ n \in replay[c]
  /\ replay' = [replay EXCEPT ![c] = @ \ {n}]
  /\ HandlerTo(c, IF c \in closed THEN "panicked"
                  ELSE IF replay[c] = {n} THEN "replayed" ELSE "replay")
  /\ \/ c \notin closed /\ HasRoom(c) /\ Put(c, n) /\ UNCHANGED overrun
     \/ c \in closed /\ UNCHANGED <<queueVars, overrun>>
     \/ c \notin closed /\ ~HasRoom(c) /\ overrun' = overrun \cup {c} /\ UNCHANGED queueVars
  /\ UNCHANGED <<hubVars, pumpVars, senderVars>>

-----------------------------------------------------------------------------
(***************************************************************************)
(* Client.WritePump.                                                       *)
(***************************************************************************)

PumpTo(c, step) == pump' = [pump EXCEPT ![c] = step]

\* One payload leaves the queue; a failed write ends the pump.
WritePayload(c) ==
  /\ pump[c] = "run" /\ send[c] # <<>>
  /\ send' = [send EXCEPT ![c] = Tail(@)]
  /\ PumpTo(c, IF c \in broken THEN "leave" ELSE "run")
  /\ UNCHANGED <<hubVars, queued, handlerVars, broken, senderVars>>

\* A closed queue is drained before the receive reports it closed.
WriteClose(c) ==
  /\ pump[c] = "run" /\ send[c] = <<>> /\ c \in closed
  /\ PumpTo(c, "leave")
  /\ UNCHANGED <<hubVars, queueVars, handlerVars, broken, senderVars>>

WritePing(c) ==
  /\ pump[c] = "run" /\ c \in broken
  /\ PumpTo(c, "leave")
  /\ UNCHANGED <<hubVars, queueVars, handlerVars, broken, senderVars>>

\* The deferred hub.Unregister and conn.Close.
Unregister(c) ==
  /\ pump[c] = "leave"
  /\ \/ hub = "select" /\ remove(c, "select")
     \/ done /\ UNCHANGED <<clients, closed, hub>>
  /\ PumpTo(c, "exit")
  /\ UNCHANGED <<done, fan, queueVars, handlerVars, broken, senderVars>>

\* The peer goes away.
Break(c) ==
  /\ pump[c] = "run" /\ c \notin broken
  /\ broken' = broken \cup {c}
  /\ UNCHANGED <<hubVars, queueVars, handlerVars, pump, senderVars>>

-----------------------------------------------------------------------------
(***************************************************************************)
(* Hub.Run.                                                                *)
(***************************************************************************)

\* Mutant of TakeOutbound: the fan-out goes to the clients of every order.
TakeOutboundForAll(n) ==
  /\ sender[n] = "notify" /\ hub = "select"
  /\ sender' = [sender EXCEPT ![n] = "wait"]
  /\ hub' = "fanout"
  /\ fan' = [note |-> n, todo |-> clients, delivered |-> FALSE]
  /\ UNCHANGED <<done, clients, closed, queueVars, handlerVars, pumpVars, answer, row>>

\* msg := <-h.outbound, the other half of Notify's first select, and the clients
\* that h.clients has for the order.
TakeOutbound(n) ==
  /\ sender[n] = "notify" /\ hub = "select"
  /\ sender' = [sender EXCEPT ![n] = "wait"]
  /\ hub' = "fanout"
  /\ fan' = [note |-> n, todo |-> {c \in clients : OrderOf[c] = OrderOf[n]},
             delivered |-> FALSE]
  /\ UNCHANGED <<done, clients, closed, queueVars, handlerVars, pumpVars, answer, row>>

\* Mutant of FanOut: the send has no default and waits for room.
FanOutWaits(c) ==
  /\ hub = "fanout" /\ c \in fan.todo
  /\ HasRoom(c)
  /\ Put(c, fan.note)
  /\ fan' = [fan EXCEPT !.todo = @ \ {c}, !.delivered = TRUE]
  /\ UNCHANGED <<hub, done, clients, closed, handlerVars, pumpVars, senderVars>>

\* One client of the fan-out: it takes the payload, or it is dropped.
FanOut(c) ==
  /\ hub = "fanout" /\ c \in fan.todo
  /\ \/ /\ HasRoom(c) \/ c \in closed
        /\ Put(c, fan.note)
        /\ fan' = [fan EXCEPT !.todo = @ \ {c}, !.delivered = TRUE]
        /\ hub' = IF c \in closed THEN "panicked" ELSE "fanout"
        /\ UNCHANGED <<clients, closed>>
     \/ /\ c \notin closed /\ ~HasRoom(c)
        /\ remove(c, "fanout")
        /\ fan' = [fan EXCEPT !.todo = @ \ {c}]
        /\ UNCHANGED queueVars
  /\ UNCHANGED <<done, handlerVars, pumpVars, senderVars>>

\* msg.result <- delivered: never blocks, the channel has room for the answer.
FanOutEnds ==
  /\ hub = "fanout" /\ fan.todo = {}
  /\ answer' = [answer EXCEPT ![fan.note] =
                  IF @ # "none" THEN @ ELSE IF fan.delivered THEN "yes" ELSE "no"]
  /\ hub' = "select"
  /\ fan' = NoFan
  /\ UNCHANGED <<done, clients, closed, queueVars, handlerVars, pumpVars, sender, row>>

\* Mutant of RunStops: the loop returns at once and leaves the queues open.
RunStopsSilently ==
  /\ hub = "select" /\ done
  /\ hub' = "stopped"
  /\ UNCHANGED <<done, clients, fan, closed, queueVars, handlerVars, pumpVars, senderVars>>

\* <-h.done: close every queue and return.
RunStops ==
  /\ hub = "select" /\ done
  /\ hub' = IF clients \cap closed # {} THEN "panicked" ELSE "stopped"
  /\ closed' = closed \cup clients
  /\ clients' = {}
  /\ UNCHANGED <<done, fan, queueVars, handlerVars, pumpVars, senderVars>>

Stop ==
  /\ MayStop /\ ~done
  /\ done' = TRUE
  /\ UNCHANGED <<hub, clients, fan, closed, queueVars, handlerVars, pumpVars, senderVars>>

-----------------------------------------------------------------------------
(***************************************************************************)
(* NotificationService.Send.                                               *)
(***************************************************************************)

SenderTo(n, step) == sender' = [sender EXCEPT ![n] = step]

Create(n) ==
  /\ sender[n] = "create"
  /\ row' = [row EXCEPT ![n] = "pending"]
  /\ SenderTo(n, "notify")
  /\ UNCHANGED <<hubVars, queueVars, handlerVars, pumpVars, answer>>

\* Insert fails: Send gives up, and nobody is told.
CreateError(n) ==
  /\ sender[n] = "create"
  /\ SenderTo(n, "end")
  /\ UNCHANGED <<hubVars, queueVars, handlerVars, pumpVars, answer, row>>

\* Mutant of NotifyStopped: giving up on a stopped hub counts as delivered.
NotifyStoppedDelivered(n) ==
  /\ sender[n] \in {"notify", "wait"} /\ done
  /\ answer' = [answer EXCEPT ![n] = "yes"]
  /\ SenderTo(n, "mark")
  /\ UNCHANGED <<hubVars, queueVars, handlerVars, pumpVars, row>>

\* The hub has stopped: Notify returns false, from either select.
NotifyStopped(n) ==
  /\ sender[n] \in {"notify", "wait"} /\ done
  /\ answer' = [answer EXCEPT ![n] = "no"]
  /\ SenderTo(n, "mark")
  /\ UNCHANGED <<hubVars, queueVars, handlerVars, pumpVars, row>>

NotifyReturns(n) ==
  /\ sender[n] = "wait" /\ answer[n] # "none"
  /\ SenderTo(n, "mark")
  /\ UNCHANGED <<hubVars, queueVars, handlerVars, pumpVars, answer, row>>

Mark(n) ==
  /\ sender[n] = "mark"
  /\ row' = [row EXCEPT ![n] = IF answer[n] = "yes" THEN "sent" ELSE "failed"]
  /\ SenderTo(n, "end")
  /\ UNCHANGED <<hubVars, queueVars, handlerVars, pumpVars, answer>>

MarkError(n) ==
  /\ sender[n] = "mark"
  /\ SenderTo(n, "end")
  /\ UNCHANGED <<hubVars, queueVars, handlerVars, pumpVars, answer, row>>

-----------------------------------------------------------------------------

Replay(c) == ListByOrder(c) \/ ListError(c) \/ \E n \in Notes : Send(c, n)

WritePump(c) == WritePayload(c) \/ WriteClose(c) \/ WritePing(c) \/ Unregister(c)

Run ==
  \/ \E n \in Notes : TakeOutbound(n)
  \/ \E c \in Clients : FanOut(c)
  \/ FanOutEnds
  \/ RunStops

SendNote(n) == NotifyStopped(n) \/ NotifyReturns(n) \/ Mark(n) \/ MarkError(n)

Next ==
  \/ \E c \in Clients : Register(c) \/ Replay(c) \/ WritePump(c) \/ Break(c)
  \/ \E n \in Notes : Create(n) \/ CreateError(n) \/ SendNote(n)
  \/ Run
  \/ Stop

Spec == Init /\ [][Next]_vars

(***************************************************************************)
(* Fairness: the hub, the pumps and the senders go on when they can.  A    *)
(* sender at the hub's select, and a pump there, are served in the end:    *)
(* Go's select picks at random among what is ready.  Connections need not  *)
(* come, break or stop, and nothing depends on how fast a replay is.       *)
(***************************************************************************)
Fairness ==
  /\ WF_vars(Run)
  /\ \A c \in Watchers : WF_vars(WritePump(c)) /\ SF_vars(Unregister(c))
  /\ \A n \in Notes : WF_vars(SendNote(n)) /\ SF_vars(TakeOutbound(n))

LiveSpec == Spec /\ Fairness

-----------------------------------------------------------------------------

\* The hub's goroutine never sends on a queue it has closed and never closes one
\* twice, although a client can be dropped as a slow consumer, unregistered by
\* its pump and closed by Stop (the membership guard of remove): a panic there
\* would end the process.
HubNeverPanics == hub # "panicked"

\* A client whose replay ran and whose queue never overflowed has been given
\* every notification of its order that has been sent by now: one written
\* before its query by the replay, one written later by the hub, because
\* Connect registers before it queries.  This is so while the hub runs: once Stop
\* has closed done, Notify gives up.
NobodyMissesTheOutcome ==
  \A c \in clients, n \in Notes :
    /\ OrderOf[c] = OrderOf[n] /\ ~done
    /\ handler[c] = "replayed" /\ c \notin overrun
    /\ row[n] # "none" /\ sender[n] \in {"mark", "end"}
    => n \in queued[c]

\* A row marked sent was taken by the queue of a client of its order (Notify's
\* report of at least one live client), also when the hub stops meanwhile.
SentWasTaken ==
  \A n \in Notes : row[n] = "sent" =>
    \E c \in Clients : OrderOf[c] = OrderOf[n] /\ n \in queued[c]

\* Notify comes back to the worker that called it: the hub never waits for a
\* client, not for a full queue and not for a pump that waits to unregister.
NotifyAlwaysReturns ==
  \A n \in Notes : sender[n] = "notify" ~> sender[n] \in {"mark", "end"}

\* When the hub stops, the pump of every client it has or had ends: Run closes the
\* queues on its way out and no pump waits for a hub that is gone.  A client
\* whose Register found the hub stopped was never in its map, and is not meant.
PumpsUnwind ==
  done ~> \A c \in clients \cup closed : pump[c] = "exit"

\* What a client is given, by the hub or by the replay, is about the order that
\* it asked for, and its caller owns that order: every way into a queue leads
\* through Connect's check.
GivenToTheOwner ==
  \A c \in Clients : \A n \in queued[c] :
    OrderOf[n] = OrderOf[c] /\ CallerOf[c] = Owner[OrderOf[n]]

\* Replaying to a client queues the payload or drops it, and never fails.
ReplayNeverPanics == \A c \in Clients : handler[c] # "panicked"

=============================================================================
