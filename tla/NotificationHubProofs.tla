------------------------ MODULE NotificationHubProofs ------------------------
(***************************************************************************)
(* Proofs about NotificationHub, for any number of sockets, notifications  *)
(* and orders, and any capacity of the queues.                             *)
(*                                                                         *)
(* The loop owns its map, so a client in the map has an open queue, and    *)
(* while a fan-out is under way everyone it still has to serve is in the   *)
(* map.  A notification that a replayed client has not been given is yet   *)
(* to be replayed, yet to reach the hub, or being fanned out to it.        *)
(***************************************************************************)
EXTENDS NotificationHub, TLAPS

LoopInv ==
  /\ hub # "panicked"
  /\ clients \cap closed = {}
  /\ \A c \in clients \cup closed : handler[c] # "idle"
  /\ \A c \in Clients : handler[c] # "idle" => MayWatch(c)
  /\ hub = "fanout" =>
       /\ fan.note \in Notes /\ fan.todo \subseteq clients
       /\ \A c \in fan.todo : OrderOf[c] = OrderOf[fan.note]
  /\ \A c \in Clients : \A n \in replay[c] : OrderOf[n] = OrderOf[c]

Taken(n) == \E c \in Clients : OrderOf[c] = OrderOf[n] /\ n \in queued[c]

NoteInv ==
  /\ \A n \in Notes : answer[n] = "yes" => Taken(n)
  /\ hub = "fanout" /\ fan.delivered => Taken(fan.note)
  /\ \A n \in Notes : sender[n] \in {"create", "notify"} => answer[n] = "none"
  /\ \A n \in Notes : sender[n] = "create" => row[n] = "none"
  /\ \A n \in Notes : sender[n] \in {"notify", "wait", "mark"} => row[n] # "none"
  /\ hub = "fanout" => sender[fan.note] \notin {"create", "notify"}
  /\ hub = "fanout" /\ ~done => answer[fan.note] = "none"

\* On its way to c: still to be replayed, offered to the hub, or fanned out.
Coming(c, n) ==
  \/ n \in replay[c]
  \/ sender[n] = "notify"
  \/ sender[n] = "wait" /\ hub = "fanout" /\ fan.note = n /\ c \in fan.todo

MissInv ==
  ~done => \A c \in clients \ overrun, n \in Notes :
    OrderOf[c] = OrderOf[n] /\ handler[c] \in {"replay", "replayed"} /\ row[n] # "none"
      => n \in queued[c] \/ Coming(c, n)

ReplayInv == \A c \in Clients : handler[c] = "replayed" => replay[c] = {}

HInv ==
  TypeOK /\ LoopInv /\ GivenToTheOwner /\ NoteInv /\ SentWasTaken /\ MissInv /\ ReplayInv

LEMMA Initially == Init => HInv
<1> SUFFICES ASSUME Init PROVE HInv
  OBVIOUS
<1>1. TypeOK
  <2>1. fan \in [note : Notes \cup {"none"}, todo : SUBSET Clients, delivered : BOOLEAN]
    BY DEF Init, NoFan
  <2>2. send \in [Clients -> Seq(Notes)] /\ \A c \in Clients : Len(send[c]) <= SendBuffer
    BY HubAssumption DEF Init
  <2>3. QED
    BY <2>1, <2>2 DEF Init, TypeOK
<1>2. LoopInv /\ NoteInv
  BY DEF Init, LoopInv, NoteInv, Taken
<1>3. GivenToTheOwner /\ SentWasTaken /\ MissInv /\ ReplayInv
  BY DEF Init, GivenToTheOwner, SentWasTaken, MissInv, ReplayInv
<1>4. QED
  BY <1>1, <1>2, <1>3 DEF HInv

\* Put adds the one note to the one queue's history, and if the queue has room it
\* stays within its capacity.
LEMMA PutTakes ==
  ASSUME TypeOK, NEW c \in Clients, NEW n \in Notes, Put(c, n)
  PROVE  /\ queued' \in [Clients -> SUBSET Notes]
         /\ n \in queued'[c] /\ \A d \in Clients : queued[d] \subseteq queued'[d]
         /\ \A d \in Clients : \A m \in queued'[d] : m \in queued[d] \/ (d = c /\ m = n)
         /\ HasRoom(c) =>
              /\ send' \in [Clients -> Seq(Notes)]
              /\ \A d \in Clients : Len(send'[d]) <= SendBuffer
<1>1. /\ queued \in [Clients -> SUBSET Notes]
      /\ queued' = [queued EXCEPT ![c] = queued[c] \cup {n}]
  BY DEF TypeOK, Put
<1>2. /\ queued' \in [Clients -> SUBSET Notes]
      /\ n \in queued'[c] /\ \A d \in Clients : queued[d] \subseteq queued'[d]
      /\ \A d \in Clients : \A m \in queued'[d] : m \in queued[d] \/ (d = c /\ m = n)
  BY <1>1
<1>3. ASSUME HasRoom(c)
      PROVE  /\ send' \in [Clients -> Seq(Notes)]
             /\ \A d \in Clients : Len(send'[d]) <= SendBuffer
  <2>1. /\ send \in [Clients -> Seq(Notes)] /\ send[c] \in Seq(Notes)
        /\ send' = [send EXCEPT ![c] = Append(send[c], n)]
    BY DEF TypeOK, Put
  <2>2. Append(send[c], n) \in Seq(Notes) /\ Len(Append(send[c], n)) = Len(send[c]) + 1
    BY <2>1
  <2>3. Len(send[c]) + 1 <= SendBuffer
    BY <1>3, <2>1, HubAssumption DEF HasRoom
  <2>4. send' \in [Clients -> Seq(Notes)]
    BY <2>1, <2>2
  <2>5. ASSUME NEW d \in Clients PROVE Len(send'[d]) <= SendBuffer
    BY <2>1, <2>2, <2>3 DEF TypeOK
  <2>6. QED
    BY <2>4, <2>5
<1>4. QED
  BY <1>2, <1>3

\* A step of the fan-out serves a client whose queue is open, so it cannot panic.
LEMMA FanOutServes ==
  ASSUME TypeOK, LoopInv, NEW c \in Clients, FanOut(c)
  PROVE  /\ hub = "fanout" /\ c \in fan.todo /\ c \in clients /\ c \notin closed
         /\ fan.note \in Notes /\ OrderOf[c] = OrderOf[fan.note]
         /\ hub' = "fanout" /\ fan'.note = fan.note /\ fan'.todo = fan.todo \ {c}
         /\ fan' \in [note : Notes \cup {"none"}, todo : SUBSET Clients, delivered : BOOLEAN]
         /\ \/ HasRoom(c) /\ Put(c, fan.note) /\ UNCHANGED <<clients, closed>>
            \/ remove(c, "fanout") /\ fan'.delivered = fan.delivered /\ UNCHANGED <<send, queued>>
<1>1. /\ hub = "fanout" /\ c \in fan.todo /\ c \in clients /\ c \notin closed
      /\ fan.note \in Notes /\ OrderOf[c] = OrderOf[fan.note]
  BY DEF FanOut, LoopInv
<1>2. fan \in [note : Notes \cup {"none"}, todo : SUBSET Clients, delivered : BOOLEAN]
  BY DEF TypeOK
<1>3. CASE /\ HasRoom(c) \/ c \in closed
           /\ Put(c, fan.note)
           /\ fan' = [fan EXCEPT !.todo = fan.todo \ {c}, !.delivered = TRUE]
           /\ hub' = IF c \in closed THEN "panicked" ELSE "fanout"
           /\ UNCHANGED <<clients, closed>>
  <2>1. /\ fan'.note = fan.note /\ fan'.todo = fan.todo \ {c}
        /\ fan' \in [note : Notes \cup {"none"}, todo : SUBSET Clients, delivered : BOOLEAN]
    BY <1>2, <1>3
  <2>2. QED
    BY <1>1, <1>3, <2>1
<1>4. CASE /\ remove(c, "fanout")
           /\ fan' = [fan EXCEPT !.todo = fan.todo \ {c}]
           /\ UNCHANGED queueVars
  <2>1. /\ fan'.note = fan.note /\ fan'.todo = fan.todo \ {c} /\ fan'.delivered = fan.delivered
        /\ fan' \in [note : Notes \cup {"none"}, todo : SUBSET Clients, delivered : BOOLEAN]
    BY <1>2, <1>4
  <2>2. hub' = "fanout" /\ UNCHANGED <<send, queued>>
    BY <1>1, <1>4 DEF remove, queueVars
  <2>3. QED
    BY <1>1, <1>4, <2>1, <2>2
<1>5. QED
  BY <1>3, <1>4 DEF FanOut

\* The loop's own state: only the loop closes a queue, and it takes the client out
\* of its map in the same step.
LEMMA LoopKeeps ==
  TypeOK /\ LoopInv /\ [Next]_vars => LoopInv'
<1> SUFFICES ASSUME TypeOK /\ LoopInv, [Next]_vars PROVE LoopInv'
  OBVIOUS
<1> USE DEF TypeOK, LoopInv, MayWatch, hubVars, queueVars, handlerVars,
            pumpVars, senderVars
<1>1. ASSUME NEW c \in Clients, Register(c)
      PROVE  LoopInv'
  BY <1>1 DEF Register, HandlerTo
<1>2. ASSUME NEW c \in Clients, ListByOrder(c)
      PROVE  LoopInv'
  BY <1>2 DEF ListByOrder, HandlerTo, RowsOf
<1>3. ASSUME NEW c \in Clients, ListError(c)
      PROVE  LoopInv'
  BY <1>3 DEF ListError, HandlerTo
<1>4. ASSUME NEW c \in Clients, NEW n \in Notes, Send(c, n)
      PROVE  LoopInv'
  BY <1>4 DEF Send, HandlerTo, Put, HasRoom
<1>5. ASSUME NEW c \in Clients, WritePayload(c)
      PROVE  LoopInv'
  BY <1>5 DEF WritePayload, PumpTo
<1>6. ASSUME NEW c \in Clients, WriteClose(c) \/ WritePing(c) \/ Break(c)
      PROVE  LoopInv'
  BY <1>6 DEF WriteClose, PumpTo, WritePing, Break
<1>7. ASSUME NEW c \in Clients, Unregister(c)
      PROVE  LoopInv'
  BY <1>7 DEF Unregister, PumpTo, remove
<1>8. ASSUME NEW n \in Notes, TakeOutbound(n)
      PROVE  LoopInv'
  BY <1>8 DEF TakeOutbound
<1>9. ASSUME NEW c \in Clients, FanOut(c)
      PROVE  LoopInv'
  <2>1. fan'.todo \subseteq clients' /\ clients' \cap closed' = {}
        /\ clients' \cup closed' \subseteq clients \cup closed
    BY <1>9, FanOutServes DEF remove
  <2>2. UNCHANGED <<handler, replay>>
    BY <1>9 DEF FanOut
  <2>3. QED
    BY <1>9, <2>1, <2>2, FanOutServes
<1>10. ASSUME FanOutEnds
      PROVE  LoopInv'
  BY <1>10 DEF FanOutEnds, NoFan
<1>11. ASSUME RunStops \/ Stop
      PROVE  LoopInv'
  BY <1>11 DEF RunStops, Stop
<1>12. ASSUME NEW n \in Notes, Create(n)
      PROVE  LoopInv'
  BY <1>12 DEF Create, SenderTo
<1>13. ASSUME NEW n \in Notes, CreateError(n)
      PROVE  LoopInv'
  BY <1>13 DEF CreateError, SenderTo
<1>14. ASSUME NEW n \in Notes, NotifyStopped(n)
      PROVE  LoopInv'
  BY <1>14 DEF NotifyStopped, SenderTo
<1>15. ASSUME NEW n \in Notes, NotifyReturns(n)
      PROVE  LoopInv'
  BY <1>15 DEF NotifyReturns, SenderTo
<1>16. ASSUME NEW n \in Notes, Mark(n)
      PROVE  LoopInv'
  BY <1>16 DEF Mark, SenderTo
<1>17. ASSUME NEW n \in Notes, MarkError(n)
      PROVE  LoopInv'
  BY <1>17 DEF MarkError, SenderTo
<1>18. CASE UNCHANGED vars
  BY <1>18 DEF vars
<1>19. QED
  BY <1>1, <1>2, <1>3, <1>4, <1>5, <1>6, <1>7, <1>8, <1>9, <1>10, <1>11, <1>12,
     <1>13, <1>14, <1>15, <1>16, <1>17, <1>18
     DEF Next, Replay, WritePump, SendNote, Run

\* Only the queues and the fan-out need LoopInv here: a fan-out never panics.
LEMMA TypesKeep ==
  TypeOK /\ LoopInv /\ [Next]_vars => TypeOK'
<1> SUFFICES ASSUME TypeOK /\ LoopInv, [Next]_vars PROVE TypeOK'
  OBVIOUS
<1> USE DEF TypeOK, LoopInv, hubVars, queueVars, handlerVars, pumpVars,
            senderVars
<1>1. ASSUME NEW c \in Clients, Register(c)
      PROVE  TypeOK'
  BY <1>1 DEF Register, HandlerTo
<1>2. ASSUME NEW c \in Clients, ListByOrder(c)
      PROVE  TypeOK'
  BY <1>2 DEF ListByOrder, HandlerTo, RowsOf
<1>3. ASSUME NEW c \in Clients, ListError(c)
      PROVE  TypeOK'
  BY <1>3 DEF ListError, HandlerTo
<1>4. ASSUME NEW c \in Clients, NEW n \in Notes, Send(c, n)
      PROVE  TypeOK'
  <2>1. /\ send' \in [Clients -> Seq(Notes)] /\ queued' \in [Clients -> SUBSET Notes]
        /\ \A d \in Clients : Len(send'[d]) <= SendBuffer
    BY <1>4, PutTakes DEF Send
  <2>2. QED
    BY <1>4, <2>1 DEF Send, HandlerTo
<1>5. ASSUME NEW c \in Clients, WritePayload(c)
      PROVE  TypeOK'
  <2>1. send[c] \in Seq(Notes) /\ send[c] # <<>>
    BY <1>5 DEF WritePayload
  <2>2. Tail(send[c]) \in Seq(Notes) /\ Len(Tail(send[c])) = Len(send[c]) - 1
    BY <2>1
  <2>3. send' = [send EXCEPT ![c] = Tail(send[c])]
    BY <1>5 DEF WritePayload
  <2>4. send' \in [Clients -> Seq(Notes)]
    BY <2>2, <2>3
  <2>5. ASSUME NEW d \in Clients PROVE Len(send'[d]) <= SendBuffer
    <3>1. Len(send[d]) <= SendBuffer /\ Len(send[d]) \in Nat
      OBVIOUS
    <3>2. CASE d = c
      BY <3>1, <3>2, <2>2, <2>3, HubAssumption
    <3>3. CASE d # c
      BY <3>1, <3>3, <2>3
    <3>4. QED
      BY <3>2, <3>3
  <2>6. QED
    BY <1>5, <2>4, <2>5 DEF WritePayload, PumpTo
<1>6. ASSUME NEW c \in Clients, WriteClose(c) \/ WritePing(c) \/ Break(c)
      PROVE  TypeOK'
  BY <1>6 DEF WriteClose, PumpTo, WritePing, Break
<1>7. ASSUME NEW c \in Clients, Unregister(c)
      PROVE  TypeOK'
  BY <1>7 DEF Unregister, PumpTo, remove
<1>8. ASSUME NEW n \in Notes, TakeOutbound(n)
      PROVE  TypeOK'
  BY <1>8 DEF TakeOutbound
<1>9. ASSUME NEW c \in Clients, FanOut(c)
      PROVE  TypeOK'
  <2>1. /\ send' \in [Clients -> Seq(Notes)] /\ queued' \in [Clients -> SUBSET Notes]
        /\ \A d \in Clients : Len(send'[d]) <= SendBuffer
    BY <1>9, FanOutServes, PutTakes
  <2>2. clients' \subseteq Clients /\ closed' \subseteq Clients
    BY <1>9, FanOutServes DEF remove
  <2>3. QED
    BY <1>9, <2>1, <2>2, FanOutServes DEF FanOut
<1>10. ASSUME FanOutEnds
      PROVE  TypeOK'
  BY <1>10 DEF FanOutEnds, NoFan
<1>11. ASSUME RunStops \/ Stop
      PROVE  TypeOK'
  BY <1>11 DEF RunStops, Stop
<1>12. ASSUME NEW n \in Notes, Create(n)
      PROVE  TypeOK'
  BY <1>12 DEF Create, SenderTo
<1>13. ASSUME NEW n \in Notes, CreateError(n)
      PROVE  TypeOK'
  BY <1>13 DEF CreateError, SenderTo
<1>14. ASSUME NEW n \in Notes, NotifyStopped(n)
      PROVE  TypeOK'
  BY <1>14 DEF NotifyStopped, SenderTo
<1>15. ASSUME NEW n \in Notes, NotifyReturns(n)
      PROVE  TypeOK'
  BY <1>15 DEF NotifyReturns, SenderTo
<1>16. ASSUME NEW n \in Notes, Mark(n)
      PROVE  TypeOK'
  BY <1>16 DEF Mark, SenderTo
<1>17. ASSUME NEW n \in Notes, MarkError(n)
      PROVE  TypeOK'
  BY <1>17 DEF MarkError, SenderTo
<1>18. CASE UNCHANGED vars
  BY <1>18 DEF vars
<1>19. QED
  BY <1>1, <1>2, <1>3, <1>4, <1>5, <1>6, <1>7, <1>8, <1>9, <1>10, <1>11, <1>12,
     <1>13, <1>14, <1>15, <1>16, <1>17, <1>18
     DEF Next, Replay, WritePump, SendNote, Run

\* A queue takes a note from the fan-out or from the replay, and both are about the
\* order of a client that passed Connect's check.
LEMMA OwnerKeeps ==
  TypeOK /\ LoopInv /\ GivenToTheOwner /\ [Next]_vars => GivenToTheOwner'
<1> SUFFICES ASSUME TypeOK /\ LoopInv /\ GivenToTheOwner, [Next]_vars PROVE GivenToTheOwner'
  OBVIOUS
<1> USE DEF TypeOK, LoopInv, GivenToTheOwner, MayWatch, hubVars, queueVars,
            handlerVars, pumpVars, senderVars
<1>1. ASSUME NEW c \in Clients, Register(c)
      PROVE  GivenToTheOwner'
  BY <1>1 DEF Register, HandlerTo
<1>2. ASSUME NEW c \in Clients, ListByOrder(c)
      PROVE  GivenToTheOwner'
  BY <1>2 DEF ListByOrder, HandlerTo, RowsOf
<1>3. ASSUME NEW c \in Clients, ListError(c)
      PROVE  GivenToTheOwner'
  BY <1>3 DEF ListError, HandlerTo
<1>4. ASSUME NEW c \in Clients, NEW n \in Notes, Send(c, n)
      PROVE  GivenToTheOwner'
  <2>1. OrderOf[n] = OrderOf[c] /\ CallerOf[c] = Owner[OrderOf[n]]
    BY <1>4 DEF Send
  <2>2. CASE Put(c, n)
    BY <2>1, <2>2, PutTakes
  <2>3. CASE UNCHANGED queued
    BY <2>3
  <2>4. QED
    BY <1>4, <2>2, <2>3 DEF Send
<1>5. ASSUME NEW c \in Clients, WritePayload(c)
      PROVE  GivenToTheOwner'
  BY <1>5 DEF WritePayload, PumpTo
<1>6. ASSUME NEW c \in Clients, WriteClose(c) \/ WritePing(c) \/ Break(c)
      PROVE  GivenToTheOwner'
  BY <1>6 DEF WriteClose, PumpTo, WritePing, Break
<1>7. ASSUME NEW c \in Clients, Unregister(c)
      PROVE  GivenToTheOwner'
  BY <1>7 DEF Unregister, PumpTo, remove
<1>8. ASSUME NEW n \in Notes, TakeOutbound(n)
      PROVE  GivenToTheOwner'
  BY <1>8 DEF TakeOutbound
<1>9. ASSUME NEW c \in Clients, FanOut(c)
      PROVE  GivenToTheOwner'
  <2>1. /\ OrderOf[fan.note] = OrderOf[c] /\ CallerOf[c] = Owner[OrderOf[fan.note]]
        /\ fan.note \in Notes
    BY <1>9, FanOutServes
  <2>2. CASE Put(c, fan.note)
    BY <2>1, <2>2, PutTakes
  <2>3. CASE UNCHANGED queued
    BY <2>3
  <2>4. QED
    BY <1>9, <2>2, <2>3, FanOutServes
<1>10. ASSUME FanOutEnds
      PROVE  GivenToTheOwner'
  BY <1>10 DEF FanOutEnds, NoFan
<1>11. ASSUME RunStops \/ Stop
      PROVE  GivenToTheOwner'
  BY <1>11 DEF RunStops, Stop
<1>12. ASSUME NEW n \in Notes, Create(n)
      PROVE  GivenToTheOwner'
  BY <1>12 DEF Create, SenderTo
<1>13. ASSUME NEW n \in Notes, CreateError(n)
      PROVE  GivenToTheOwner'
  BY <1>13 DEF CreateError, SenderTo
<1>14. ASSUME NEW n \in Notes, NotifyStopped(n)
      PROVE  GivenToTheOwner'
  BY <1>14 DEF NotifyStopped, SenderTo
<1>15. ASSUME NEW n \in Notes, NotifyReturns(n)
      PROVE  GivenToTheOwner'
  BY <1>15 DEF NotifyReturns, SenderTo
<1>16. ASSUME NEW n \in Notes, Mark(n)
      PROVE  GivenToTheOwner'
  BY <1>16 DEF Mark, SenderTo
<1>17. ASSUME NEW n \in Notes, MarkError(n)
      PROVE  GivenToTheOwner'
  BY <1>17 DEF MarkError, SenderTo
<1>18. CASE UNCHANGED vars
  BY <1>18 DEF vars
<1>19. QED
  BY <1>1, <1>2, <1>3, <1>4, <1>5, <1>6, <1>7, <1>8, <1>9, <1>10, <1>11, <1>12,
     <1>13, <1>14, <1>15, <1>16, <1>17, <1>18
     DEF Next, Replay, WritePump, SendNote, Run

\* What Notify reports, and how far Send has come.
LEMMA NoteKeeps ==
  TypeOK /\ LoopInv /\ NoteInv /\ [Next]_vars => NoteInv'
<1> SUFFICES ASSUME TypeOK /\ LoopInv /\ NoteInv, [Next]_vars PROVE NoteInv'
  OBVIOUS
<1> USE DEF TypeOK, LoopInv, NoteInv, Taken, hubVars, queueVars, handlerVars,
            pumpVars, senderVars
<1>1. ASSUME NEW c \in Clients, Register(c)
      PROVE  NoteInv'
  BY <1>1 DEF Register, HandlerTo
<1>2. ASSUME NEW c \in Clients, ListByOrder(c)
      PROVE  NoteInv'
  BY <1>2 DEF ListByOrder, HandlerTo, RowsOf
<1>3. ASSUME NEW c \in Clients, ListError(c)
      PROVE  NoteInv'
  BY <1>3 DEF ListError, HandlerTo
<1>4. ASSUME NEW c \in Clients, NEW n \in Notes, Send(c, n)
      PROVE  NoteInv'
  <2>1. \A d \in Clients : queued[d] \subseteq queued'[d]
    BY <1>4, PutTakes DEF Send
  <2>2. QED
    BY <1>4, <2>1 DEF Send
<1>5. ASSUME NEW c \in Clients, WritePayload(c)
      PROVE  NoteInv'
  BY <1>5 DEF WritePayload, PumpTo
<1>6. ASSUME NEW c \in Clients, WriteClose(c) \/ WritePing(c) \/ Break(c)
      PROVE  NoteInv'
  BY <1>6 DEF WriteClose, PumpTo, WritePing, Break
<1>7. ASSUME NEW c \in Clients, Unregister(c)
      PROVE  NoteInv'
  BY <1>7 DEF Unregister, PumpTo, remove
<1>8. ASSUME NEW n \in Notes, TakeOutbound(n)
      PROVE  NoteInv'
  BY <1>8 DEF TakeOutbound
<1>9. ASSUME NEW c \in Clients, FanOut(c)
      PROVE  NoteInv'
  <2>1. \A d \in Clients : queued[d] \subseteq queued'[d]
    BY <1>9, FanOutServes, PutTakes
  <2>2. fan'.delivered =>
          \E d \in Clients : OrderOf[d] = OrderOf[fan.note] /\ fan.note \in queued'[d]
    BY <1>9, <2>1, FanOutServes, PutTakes
  <2>3. UNCHANGED <<done, answer, row, sender>>
    BY <1>9 DEF FanOut
  <2>4. QED
    BY <1>9, <2>1, <2>2, <2>3, FanOutServes
<1>10. ASSUME FanOutEnds
      PROVE  NoteInv'
  <2>1. /\ fan.note \in Notes /\ hub' = "select" /\ UNCHANGED <<queued, sender, row>>
        /\ fan.delivered => Taken(fan.note)
    BY <1>10 DEF FanOutEnds
  <2>2. \A n \in Notes : answer'[n] # answer[n] => n = fan.note
    BY <1>10 DEF FanOutEnds
  <2>3. answer'[fan.note] = "yes" => answer[fan.note] = "yes" \/ fan.delivered
    BY <1>10, <2>1 DEF FanOutEnds
  <2>4. sender[fan.note] \in {"wait", "mark", "end"}
    BY <1>10 DEF FanOutEnds
  <2>5. QED
    BY <2>1, <2>2, <2>3, <2>4
<1>11. ASSUME RunStops \/ Stop
      PROVE  NoteInv'
  BY <1>11 DEF RunStops, Stop
<1>12. ASSUME NEW n \in Notes, Create(n)
      PROVE  NoteInv'
  BY <1>12 DEF Create, SenderTo
<1>13. ASSUME NEW n \in Notes, CreateError(n)
      PROVE  NoteInv'
  BY <1>13 DEF CreateError, SenderTo
<1>14. ASSUME NEW n \in Notes, NotifyStopped(n)
      PROVE  NoteInv'
  BY <1>14 DEF NotifyStopped, SenderTo
<1>15. ASSUME NEW n \in Notes, NotifyReturns(n)
      PROVE  NoteInv'
  BY <1>15 DEF NotifyReturns, SenderTo
<1>16. ASSUME NEW n \in Notes, Mark(n)
      PROVE  NoteInv'
  BY <1>16 DEF Mark, SenderTo
<1>17. ASSUME NEW n \in Notes, MarkError(n)
      PROVE  NoteInv'
  BY <1>17 DEF MarkError, SenderTo
<1>18. CASE UNCHANGED vars
  BY <1>18 DEF vars
<1>19. QED
  BY <1>1, <1>2, <1>3, <1>4, <1>5, <1>6, <1>7, <1>8, <1>9, <1>10, <1>11, <1>12,
     <1>13, <1>14, <1>15, <1>16, <1>17, <1>18
     DEF Next, Replay, WritePump, SendNote, Run

\* A client in the map loses no note of its order: one that the replay did not see was
\* written after the query, so it finds the client registered.
LEMMA MissKeeps ==
  TypeOK /\ LoopInv /\ NoteInv /\ MissInv /\ [Next]_vars => MissInv'
<1> SUFFICES ASSUME TypeOK /\ LoopInv /\ NoteInv /\ MissInv, [Next]_vars PROVE MissInv'
  OBVIOUS
<1> USE DEF TypeOK, LoopInv, NoteInv, MissInv, Coming, hubVars, queueVars,
            handlerVars, pumpVars, senderVars
<1>1. ASSUME NEW c \in Clients, Register(c)
      PROVE  MissInv'
  BY <1>1 DEF Register, HandlerTo
<1>2. ASSUME NEW c \in Clients, ListByOrder(c)
      PROVE  MissInv'
  BY <1>2 DEF ListByOrder, HandlerTo, RowsOf
<1>3. ASSUME NEW c \in Clients, ListError(c)
      PROVE  MissInv'
  BY <1>3 DEF ListError, HandlerTo
<1>4. ASSUME NEW c \in Clients, NEW n \in Notes, Send(c, n)
      PROVE  MissInv'
  BY <1>4 DEF Send, HandlerTo, Put, HasRoom
<1>5. ASSUME NEW c \in Clients, WritePayload(c)
      PROVE  MissInv'
  BY <1>5 DEF WritePayload, PumpTo
<1>6. ASSUME NEW c \in Clients, WriteClose(c) \/ WritePing(c) \/ Break(c)
      PROVE  MissInv'
  BY <1>6 DEF WriteClose, PumpTo, WritePing, Break
<1>7. ASSUME NEW c \in Clients, Unregister(c)
      PROVE  MissInv'
  BY <1>7 DEF Unregister, PumpTo, remove
<1>8. ASSUME NEW n \in Notes, TakeOutbound(n)
      PROVE  MissInv'
  BY <1>8 DEF TakeOutbound
<1>9. ASSUME NEW c \in Clients, FanOut(c)
      PROVE  MissInv'
  <2>1. UNCHANGED <<done, overrun, handler, replay, row, sender>>
    BY <1>9 DEF FanOut
  <2>2. \A d \in Clients : queued[d] \subseteq queued'[d]
    BY <1>9, FanOutServes, PutTakes
  <2>3. clients' \subseteq clients /\ (c \in clients' => fan.note \in queued'[c])
    BY <1>9, FanOutServes, PutTakes DEF remove
  <2>4. QED
    BY <1>9, <2>1, <2>2, <2>3, FanOutServes
<1>10. ASSUME FanOutEnds
      PROVE  MissInv'
  BY <1>10 DEF FanOutEnds, NoFan
<1>11. ASSUME RunStops \/ Stop
      PROVE  MissInv'
  BY <1>11 DEF RunStops, Stop
<1>12. ASSUME NEW n \in Notes, Create(n)
      PROVE  MissInv'
  BY <1>12 DEF Create, SenderTo
<1>13. ASSUME NEW n \in Notes, CreateError(n)
      PROVE  MissInv'
  BY <1>13 DEF CreateError, SenderTo
<1>14. ASSUME NEW n \in Notes, NotifyStopped(n)
      PROVE  MissInv'
  BY <1>14 DEF NotifyStopped, SenderTo
<1>15. ASSUME NEW n \in Notes, NotifyReturns(n)
      PROVE  MissInv'
  BY <1>15 DEF NotifyReturns, SenderTo
<1>16. ASSUME NEW n \in Notes, Mark(n)
      PROVE  MissInv'
  BY <1>16 DEF Mark, SenderTo
<1>17. ASSUME NEW n \in Notes, MarkError(n)
      PROVE  MissInv'
  BY <1>17 DEF MarkError, SenderTo
<1>18. CASE UNCHANGED vars
  BY <1>18 DEF vars
<1>19. QED
  BY <1>1, <1>2, <1>3, <1>4, <1>5, <1>6, <1>7, <1>8, <1>9, <1>10, <1>11, <1>12,
     <1>13, <1>14, <1>15, <1>16, <1>17, <1>18
     DEF Next, Replay, WritePump, SendNote, Run

\* Rows are marked sent on Notify's word, and a queue's history never shrinks.
LEMMA SentKeeps ==
  TypeOK /\ LoopInv /\ NoteInv /\ SentWasTaken /\ [Next]_vars => SentWasTaken'
<1> SUFFICES ASSUME TypeOK /\ LoopInv /\ NoteInv /\ SentWasTaken, [Next]_vars PROVE SentWasTaken'
  OBVIOUS
<1> USE DEF TypeOK, SentWasTaken, hubVars, queueVars, handlerVars, pumpVars,
            senderVars
<1>1. ASSUME NEW c \in Clients, Register(c)
      PROVE  SentWasTaken'
  BY <1>1 DEF Register, HandlerTo
<1>2. ASSUME NEW c \in Clients, ListByOrder(c)
      PROVE  SentWasTaken'
  BY <1>2 DEF ListByOrder, HandlerTo, RowsOf
<1>3. ASSUME NEW c \in Clients, ListError(c)
      PROVE  SentWasTaken'
  BY <1>3 DEF ListError, HandlerTo
<1>4. ASSUME NEW c \in Clients, NEW n \in Notes, Send(c, n)
      PROVE  SentWasTaken'
  <2>1. \A d \in Clients : queued[d] \subseteq queued'[d]
    BY <1>4, PutTakes DEF Send
  <2>2. QED
    BY <1>4, <2>1 DEF Send
<1>5. ASSUME NEW c \in Clients, WritePayload(c)
      PROVE  SentWasTaken'
  BY <1>5 DEF WritePayload, PumpTo
<1>6. ASSUME NEW c \in Clients, WriteClose(c) \/ WritePing(c) \/ Break(c)
      PROVE  SentWasTaken'
  BY <1>6 DEF WriteClose, PumpTo, WritePing, Break
<1>7. ASSUME NEW c \in Clients, Unregister(c)
      PROVE  SentWasTaken'
  BY <1>7 DEF Unregister, PumpTo, remove
<1>8. ASSUME NEW n \in Notes, TakeOutbound(n)
      PROVE  SentWasTaken'
  BY <1>8 DEF TakeOutbound
<1>9. ASSUME NEW c \in Clients, FanOut(c)
      PROVE  SentWasTaken'
  <2>1. \A d \in Clients : queued[d] \subseteq queued'[d]
    BY <1>9, FanOutServes, PutTakes
  <2>2. QED
    BY <1>9, <2>1 DEF FanOut
<1>10. ASSUME FanOutEnds
      PROVE  SentWasTaken'
  BY <1>10 DEF FanOutEnds, NoFan
<1>11. ASSUME RunStops \/ Stop
      PROVE  SentWasTaken'
  BY <1>11 DEF RunStops, Stop
<1>12. ASSUME NEW n \in Notes, Create(n)
      PROVE  SentWasTaken'
  BY <1>12 DEF Create, SenderTo
<1>13. ASSUME NEW n \in Notes, CreateError(n)
      PROVE  SentWasTaken'
  BY <1>13 DEF CreateError, SenderTo
<1>14. ASSUME NEW n \in Notes, NotifyStopped(n)
      PROVE  SentWasTaken'
  BY <1>14 DEF NotifyStopped, SenderTo
<1>15. ASSUME NEW n \in Notes, NotifyReturns(n)
      PROVE  SentWasTaken'
  BY <1>15 DEF NotifyReturns, SenderTo
<1>16. ASSUME NEW n \in Notes, Mark(n)
      PROVE  SentWasTaken'
  BY <1>16 DEF Mark, SenderTo, NoteInv, Taken
<1>17. ASSUME NEW n \in Notes, MarkError(n)
      PROVE  SentWasTaken'
  BY <1>17 DEF MarkError, SenderTo
<1>18. CASE UNCHANGED vars
  BY <1>18 DEF vars
<1>19. QED
  BY <1>1, <1>2, <1>3, <1>4, <1>5, <1>6, <1>7, <1>8, <1>9, <1>10, <1>11, <1>12,
     <1>13, <1>14, <1>15, <1>16, <1>17, <1>18
     DEF Next, Replay, WritePump, SendNote, Run

\* Connect's replay is over when nothing is left to send.
LEMMA ReplayKeeps == TypeOK /\ ReplayInv /\ [Next]_vars => ReplayInv'
<1> SUFFICES ASSUME TypeOK, ReplayInv, [Next]_vars PROVE ReplayInv'
  OBVIOUS
<1> USE DEF TypeOK, ReplayInv
<1>1. ASSUME NEW c \in Clients, Register(c) PROVE ReplayInv'
  BY <1>1 DEF Register, HandlerTo
<1>2. ASSUME NEW c \in Clients, ListByOrder(c) PROVE ReplayInv'
  BY <1>2 DEF ListByOrder, HandlerTo
<1>3. ASSUME NEW c \in Clients, ListError(c) PROVE ReplayInv'
  BY <1>3 DEF ListError, HandlerTo
<1>4. ASSUME NEW c \in Clients, NEW n \in Notes, Send(c, n) PROVE ReplayInv'
  BY <1>4 DEF Send, HandlerTo
<1>5. CASE UNCHANGED <<handler, replay>>
  BY <1>5
<1>6. QED
  BY <1>1, <1>2, <1>3, <1>4, <1>5
     DEF Next, Replay, WritePump, SendNote, Run, vars, handlerVars, WritePayload, WriteClose,
         WritePing, Unregister, Break, TakeOutbound, FanOut, FanOutEnds, RunStops, Stop,
         Create, CreateError, NotifyStopped, NotifyReturns, Mark, MarkError

-----------------------------------------------------------------------------

\* The inductive invariant of the hub holds in every state.
THEOREM Invariance == Spec => []HInv
<1>1. HInv /\ [Next]_vars => HInv'
  BY LoopKeeps, TypesKeep, OwnerKeeps, NoteKeeps, SentKeeps, MissKeeps, ReplayKeeps DEF HInv
<1>2. QED
  BY <1>1, Initially, PTL DEF Spec

\* Every variable keeps its type, and no queue holds more than sendBuffer payloads.
THEOREM TypeCorrect == Spec => []TypeOK
<1>1. HInv => TypeOK
  BY DEF HInv
<1>2. QED
  BY <1>1, Invariance, PTL

\* Run never sends on a closed queue and closes none twice, however slow consumers,
\* leaving pumps and Stop come together.
THEOREM HubIsPanicFree == Spec => []HubNeverPanics
<1>1. HInv => HubNeverPanics
  BY DEF HInv, LoopInv, HubNeverPanics
<1>2. QED
  BY <1>1, Invariance, PTL

\* A row that Send marks sent was taken by the queue of a client of its order.
THEOREM SentMeansTaken == Spec => []SentWasTaken
<1>1. HInv => SentWasTaken
  BY DEF HInv
<1>2. QED
  BY <1>1, Invariance, PTL

\* Queues hold only notifications of the order asked for, for the order's owner.
THEOREM OwnersOnly == Spec => []GivenToTheOwner
<1>1. HInv => GivenToTheOwner
  BY DEF HInv
<1>2. QED
  BY <1>1, Invariance, PTL

\* A replayed client whose queue never overflowed has been given every notification
\* of its order that Send has finished with: Connect registers before it queries.
THEOREM NothingIsMissed == Spec => []NobodyMissesTheOutcome
<1>1. HInv => NobodyMissesTheOutcome
  BY DEF HInv, TypeOK, MissInv, ReplayInv, Coming, NobodyMissesTheOutcome
<1>2. QED
  BY <1>1, Invariance, PTL

=============================================================================
