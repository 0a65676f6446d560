-------------------------- MODULE FulfillmentProofs --------------------------
(***************************************************************************)
(* Proofs about Fulfillment for any number of orders, processes, workers   *)
(* and crashes, any queue size and any catalogue.                          *)
(***************************************************************************)
EXTENDS Fulfillment, SequenceTheorems, FiniteSetTheorems, TLAPS

-----------------------------------------------------------------------------
(***************************************************************************)
(* Type correctness.                                                       *)
(***************************************************************************)

WorkerStates ==
  [pc : PCs, order : 0..MaxOrders, attempt : Nat, txn : Nat,
   msg : Decided \cup {""}, row : Nat]

\* A worker that is not idle runs some order, and one about to announce it
\* has something to say.
Runs(r) ==
  /\ r \in WorkerStates
  /\ r.pc # "idle" => r.order \in Orders
  /\ r.pc = "notify" => r.msg \in Decided

LEMMA IdleRuns == Runs(Idle)
BY StoreAssumption DEF Runs, WorkerStates, Idle, At, PCs, NoTxn

\* Typing of the worker table, one worker at a time.
LEMMA WorkersRun ==
  TypeOK => wk \in [Workers -> WorkerStates] /\ \A w \in Workers : Runs(wk[w])
BY DEF TypeOK, Runs, WorkerStates

LEMMA BusyRuns ==
  ASSUME TypeOK, NEW w \in Workers, wk[w].pc # "idle"
  PROVE  wk[w] \in WorkerStates /\ wk[w].order \in Orders /\ ProcOf[w] \in Procs
BY PipelineAssumption DEF TypeOK, WorkerStates

LEMMA GotoRuns ==
  ASSUME TypeOK, NEW w \in Workers, NEW r, Runs(r), Goto(w, r)
  PROVE  /\ wk' \in [Workers -> WorkerStates]
         /\ \A v \in Workers : wk'[v].pc # "idle" => wk'[v].order \in Orders
         /\ \A v \in Workers : wk'[v].pc = "notify" => wk'[v].msg \in Decided
BY WorkersRun DEF Runs, Goto

LEMMA EnqueueType ==
  ASSUME TypeOK, NEW p \in Procs, NEW o \in Orders, Enqueue(p, o)
  PROVE  jobs' \in [Procs -> Seq(Orders)]
<1>1. Append(jobs[p], o) \in Seq(Orders)
  BY AppendProperties DEF TypeOK
<1> QED
  BY <1>1 DEF TypeOK, Enqueue

LEMMA CreateOrderTxType ==
  ASSUME StoreTypeOK, NEW o \in Orders, NEW cart \in Carts, CreateOrderTx(o, cart)
  PROVE  StoreTypeOK'
<1>1. cart \in [Products -> Nat]
  BY StoreAssumption
<1>2. inventory' \in [Products -> Nat]
  BY <1>1 DEF CreateOrderTx, StoreTypeOK
<1> QED
  BY <1>1, <1>2 DEF CreateOrderTx, StoreTypeOK, OrderStatuses, PaymentStatuses, NoTxn

LEMMA MarkPaidType ==
  ASSUME StoreTypeOK, NEW o \in Orders, NEW txn \in Nat, MarkPaidAndConfirm(o, txn)
  PROVE  StoreTypeOK'
BY DEF MarkPaidAndConfirm, AdvanceOrder, StoreTypeOK, storeVars,
       OrderStatuses, PaymentStatuses

LEMMA FailCancelType ==
  ASSUME StoreTypeOK, NEW o \in Orders, FailCancelAndRestock(o)
  PROVE  StoreTypeOK'
<1>1. CASE PaymentPending(o)
  <2>1. inventory' \in [Products -> Nat]
    BY <1>1 DEF FailCancelAndRestock, StoreTypeOK
  <2>2. payments' \in [Orders -> [status : PaymentStatuses, txn : Nat]]
    BY <1>1 DEF FailCancelAndRestock, StoreTypeOK, PaymentStatuses
  <2> QED
    BY <1>1, <2>1, <2>2 DEF FailCancelAndRestock, AdvanceOrder, StoreTypeOK,
                      OrderStatuses, PaymentStatuses
<1>2. CASE ~PaymentPending(o)
  BY <1>2 DEF FailCancelAndRestock, StoreTypeOK, storeVars
<1> QED
  BY <1>1, <1>2

LEMMA StaleAreOrders ==
  ASSUME StoreTypeOK, NEW limit PROVE ListStalePending(limit) \subseteq Orders
BY StoreAssumption DEF ListStalePending, StalePending, StoreTypeOK, Orders

\* Marking a row changes no other row, and none at all when there is no such row.
LEMMA MarkRowType ==
  ASSUME NEW rows \in Seq([message : Decided, status : NoteStatuses]),
         NEW i, NEW s \in NoteStatuses
  PROVE  /\ MarkRow(rows, i, s) \in Seq([message : Decided, status : NoteStatuses])
         /\ Len(MarkRow(rows, i, s)) = Len(rows)
         /\ \A k \in 1..Len(rows) : MarkRow(rows, i, s)[k].message = rows[k].message
<1> DEFINE S == [message : Decided, status : NoteStatuses]
           e == [rows[i] EXCEPT !.status = s]
<1>1. CASE i \in 1..Len(rows)
  <2>1. rows[i] \in S
    BY <1>1, ElementOfSeq
  <2>2. e \in S /\ e.message = rows[i].message
    BY <2>1
  <2> HIDE DEF S, e
  <2>3. /\ [rows EXCEPT ![i] = e] \in Seq(S)
        /\ Len([rows EXCEPT ![i] = e]) = Len(rows)
        /\ \A k \in 1..Len(rows) : [rows EXCEPT ![i] = e][k] = IF k = i THEN e ELSE rows[k]
    BY <1>1, <2>2, rows \in Seq(S), ExceptSeq DEF S
  <2>4. MarkRow(rows, i, s) = [rows EXCEPT ![i] = e]
    BY DEF MarkRow, e
  <2> QED
    BY <2>2, <2>3, <2>4 DEF S
<1>2. CASE i \notin 1..Len(rows)
  <2>1. rows \in [1..Len(rows) -> S]
    BY LenProperties
  <2>2. MarkRow(rows, i, s) = rows
    BY <1>2, <2>1 DEF MarkRow
  <2> QED
    BY <2>2
<1> QED
  BY <1>1, <1>2

\* Every step of the pipeline keeps the types.
LEMMA TypeStep ==
  ASSUME TypeOK, [Next]_vars PROVE TypeOK'
<1>1. ASSUME NEW p \in Procs, NEW o \in Orders, NEW cart \in Carts, CreateOrder(p, o, cart)
      PROVE  TypeOK'
  BY <1>1, CreateOrderTxType DEF CreateOrder, TypeOK
<1>2. ASSUME NEW o \in Orders, NEW cart \in Carts, CreateOrderUnacked(o, cart)
      PROVE  TypeOK'
  BY <1>2, CreateOrderTxType DEF CreateOrderUnacked, TypeOK, pipeVars
<1>3. ASSUME NEW p \in Procs, NEW o \in Orders, Process(p, o) PROVE TypeOK'
  BY <1>3, EnqueueType DEF Process, StoreTypeOK, storeVars, TypeOK
<1>4. ASSUME NEW p \in Procs, SweepList(p) PROVE TypeOK'
  BY <1>4, StaleAreOrders DEF SweepList, StoreTypeOK, storeVars, TypeOK
<1>5. ASSUME NEW p \in Procs, NEW o \in Orders, SweepProcess(p, o) PROVE TypeOK'
  BY <1>5, EnqueueType DEF SweepProcess, StoreTypeOK, storeVars, TypeOK
<1>6. ASSUME NEW w \in Workers, Receive(w) PROVE TypeOK'
  <2> DEFINE p == ProcOf[w]
             r == At("load", Head(jobs[p]))
  <2>1. p \in Procs
    BY PipelineAssumption
  <2>2. Head(jobs[p]) \in Orders /\ Tail(jobs[p]) \in Seq(Orders)
    BY <1>6, <2>1, HeadTailProperties DEF Receive, TypeOK
  <2>3. Runs(r)
    BY <2>2, StoreAssumption DEF Runs, WorkerStates, PCs, At, NoTxn, Orders
  <2> QED
    BY <1>6, <2>1, <2>2, <2>3, GotoRuns DEF Receive, WorkerStates, StoreTypeOK, storeVars, TypeOK
<1>7. ASSUME NEW w \in Workers, Load(w) \/ LoadError(w) PROVE TypeOK'
  <2>1. Runs(FirstAttempt(wk[w])) \/ wk[w].pc # "load"
    BY WorkersRun DEF Runs, WorkerStates, FirstAttempt, PCs
  <2> QED
    BY <1>7, <2>1, IdleRuns, GotoRuns
    DEF Load, LoadError, WorkerStates, StoreTypeOK, storeVars, TypeOK
<1>8. ASSUME NEW w \in Workers, ChargeReplayed(w) PROVE TypeOK'
  <2> DEFINE r == [wk[w] EXCEPT !.pc = "confirm", !.txn = charged[ProcOf[w]][wk[w].order]]
  <2>1. Runs(r)
    <3>1. wk[w].pc = "charge"
      BY <1>8 DEF ChargeReplayed
    <3>2. charged[ProcOf[w]][wk[w].order] \in Nat
      BY <3>1, BusyRuns DEF TypeOK
    <3> QED
      BY <3>1, <3>2, BusyRuns DEF Runs, WorkerStates, PCs
  <2> QED
    BY <1>8, <2>1, GotoRuns DEF ChargeReplayed, WorkerStates, StoreTypeOK, storeVars, TypeOK
<1>9. ASSUME NEW w \in Workers, ChargeAccepted(w) PROVE TypeOK'
  <2> DEFINE new == charges[wk[w].order] + 1
             r == [wk[w] EXCEPT !.pc = "confirm", !.txn = new]
  <2>1. wk[w].order \in Orders /\ new \in Nat /\ ProcOf[w] \in Procs
    <3>1. wk[w].pc = "charge"
      BY <1>9 DEF ChargeAccepted
    <3>2. wk[w].order \in Orders /\ ProcOf[w] \in Procs
      BY <3>1, BusyRuns
    <3>3. charges[wk[w].order] \in Nat
      BY <3>2 DEF TypeOK
    <3> QED
      BY <3>2, <3>3
  <2>2. Runs(r)
    BY <2>1, WorkersRun DEF Runs, WorkerStates, PCs
  <2>3. charges' \in [Orders -> Nat] /\ charged' \in [Procs -> [Orders -> Nat]]
    BY <1>9, <2>1 DEF ChargeAccepted, TypeOK
  <2> QED
    BY <1>9, <2>2, <2>3, GotoRuns DEF ChargeAccepted, WorkerStates, StoreTypeOK, storeVars, TypeOK
<1>10. ASSUME NEW w \in Workers, ChargeFailed(w) PROVE TypeOK'
  <2>1. /\ Runs([wk[w] EXCEPT !.attempt = @ + 1])
        /\ Runs([wk[w] EXCEPT !.pc = "cancel"])
    <3>1. wk[w].pc = "charge"
      BY <1>10 DEF ChargeFailed
    <3>2. wk[w] \in WorkerStates /\ wk[w].order \in Orders
      BY <3>1, BusyRuns
    <3>3. wk[w].attempt \in Nat
      BY <3>2 DEF WorkerStates
    <3>4. wk[w].attempt + 1 \in Nat
      BY <3>3
    <3> QED
      BY <3>1, <3>2, <3>4 DEF Runs, WorkerStates, PCs
  <2> QED
    BY <1>10, <2>1, GotoRuns DEF ChargeFailed, WorkerStates, StoreTypeOK, storeVars, TypeOK
<1>11. ASSUME NEW w \in Workers, Decide(w) PROVE TypeOK'
  <2>1. wk[w].order \in Orders /\ wk[w].txn \in Nat
    BY <1>11, BusyRuns
    DEF Decide, MarkPaid, MarkPaidUnacked, FailCancel, FailCancelUnacked, WorkerStates
  <2>2. StoreTypeOK'
    BY <1>11, <2>1, MarkPaidType, FailCancelType
    DEF Decide, MarkPaid, MarkPaidUnacked, FailCancel, FailCancelUnacked, TypeOK
  <2>3. \A m \in Decided : Runs([wk[w] EXCEPT !.pc = "notify", !.msg = m])
    BY <2>1, WorkersRun DEF Runs, WorkerStates, PCs
  <2>4. \E r : Runs(r) /\ Goto(w, r)
    BY <1>11, <2>3, IdleRuns
    DEF Decide, MarkPaid, MarkPaidUnacked, FailCancel, FailCancelUnacked,
        AfterTransition, Decided
  <2> QED
    BY <1>11, <2>2, <2>4, GotoRuns
    DEF Decide, MarkPaid, MarkPaidUnacked, FailCancel, FailCancelUnacked, WorkerStates, TypeOK
<1>12. ASSUME NEW w \in Workers, FinalizeError(w) \/ CreateNoteError(w) PROVE TypeOK'
  BY <1>12, IdleRuns, GotoRuns
  DEF FinalizeError, CreateNoteError, WorkerStates, StoreTypeOK, storeVars, TypeOK
<1>13. ASSUME NEW w \in Workers, CreateNote(w) \/ CreateNoteUnacked(w) PROVE TypeOK'
  <2> DEFINE o == wk[w].order
             n == [message |-> wk[w].msg, status |-> "pending"]
             S == [message : Decided, status : NoteStatuses]
             r == [wk[w] EXCEPT !.pc = "push", !.row = Len(notes[o]) + 1]
  <2>1. /\ o \in Orders /\ wk[w] \in WorkerStates /\ wk[w].msg \in Decided
        /\ notes[o] \in Seq(S)
    BY <1>13, BusyRuns DEF CreateNote, CreateNoteUnacked, TypeOK
  <2>2. n \in S
    BY <2>1 DEF NoteStatuses
  <2>3. Append(notes[o], n) \in Seq(S) /\ Len(notes[o]) + 1 \in Nat
    <3> HIDE DEF n, S
    <3> QED
      BY <2>1, <2>2, AppendProperties, LenProperties
  <2>4. notes' \in [Orders -> Seq(S)]
    BY <1>13, <2>1, <2>3 DEF CreateNote, CreateNoteUnacked, TypeOK
  <2>5. Runs(r)
    BY <2>1, <2>3 DEF Runs, WorkerStates, PCs
  <2>6. \E s : Runs(s) /\ Goto(w, s)
    BY <1>13, <2>5, IdleRuns DEF CreateNote, CreateNoteUnacked
  <2> QED
    BY <1>13, <2>4, <2>6, GotoRuns
    DEF CreateNote, CreateNoteUnacked, WorkerStates, StoreTypeOK, storeVars, TypeOK
<1>14. ASSUME NEW w \in Workers, NEW outcome \in NoteStatuses, PushAndMark(w, outcome)
       PROVE  TypeOK'
  <2> DEFINE o == wk[w].order
             i == wk[w].row
             S == [message : Decided, status : NoteStatuses]
  <2>1. o \in Orders /\ notes[o] \in Seq(S)
    BY <1>14, BusyRuns DEF PushAndMark, TypeOK
  <2>2. notes' = [notes EXCEPT ![o] = MarkRow(notes[o], i, outcome)]
    BY <1>14 DEF PushAndMark
  <2>3. MarkRow(notes[o], i, outcome) \in Seq(S)
    BY <2>1, MarkRowType
  <2>4. notes' \in [Orders -> Seq(S)]
    BY <2>1, <2>2, <2>3 DEF TypeOK
  <2> QED
    BY <1>14, <2>4, IdleRuns, GotoRuns
    DEF PushAndMark, WorkerStates, StoreTypeOK, storeVars, TypeOK
<1>15. ASSUME NEW p \in Procs, Crash(p) PROVE TypeOK'
  <2>1. /\ wk' \in [Workers -> WorkerStates]
        /\ \A v \in Workers : Runs(wk'[v])
    BY <1>15, WorkersRun, IdleRuns DEF Crash, Runs
  <2>2. handoff' \in [Procs -> SUBSET Orders] /\ batch' \in [Procs -> SUBSET Orders]
    BY <1>15 DEF Crash, TypeOK
  <2>3. jobs' \in [Procs -> Seq(Orders)]
    BY <1>15, EmptySeq DEF Crash, TypeOK
  <2>4. charged' \in [Procs -> [Orders -> Nat]]
    BY <1>15 DEF Crash, TypeOK
  <2>5. crashes' \in Nat
    <3>1. crashes \in Nat
      BY DEF TypeOK
    <3>2. crashes' = crashes + 1
      BY <1>15 DEF Crash
    <3> QED
      BY <3>1, <3>2
  <2> QED
    BY <1>15, <2>1, <2>2, <2>3, <2>4, <2>5 DEF Crash, Runs, WorkerStates, StoreTypeOK, storeVars, TypeOK
<1>16. ASSUME ClockTick PROVE TypeOK'
  <2>1. cutoff \in 0..MaxOrders /\ cutoff < MaxOrders /\ cutoff' = cutoff + 1
    BY <1>16 DEF ClockTick, PaymentAges, StoreTypeOK, TypeOK
  <2>2. cutoff' \in 0..MaxOrders
    BY <2>1, StoreAssumption
  <2>3. StoreTypeOK'
    BY <1>16, <2>2 DEF ClockTick, PaymentAges, StoreTypeOK, TypeOK
  <2> QED
    BY <1>16, <2>3 DEF ClockTick, pipeVars, TypeOK
<1>17. CASE UNCHANGED vars
  BY <1>17 DEF vars, storeVars, pipeVars, StoreTypeOK, TypeOK
<1> QED
  BY <1>1, <1>2, <1>3, <1>4, <1>5, <1>6, <1>7, <1>8, <1>9, <1>10, <1>11, <1>12,
     <1>13, <1>14, <1>15, <1>16, <1>17 DEF Next, Api, Fulfill, Decide

LEMMA TypeInit ==
  ASSUME Init PROVE TypeOK
<1>1. StoreTypeOK
  BY StoreAssumption DEF Init, StoreInit, StoreTypeOK, OrderStatuses, PaymentStatuses,
                         NoTxn, EmptyCart
<1>2. \A w \in Workers : Runs(wk[w])
  BY IdleRuns DEF Init
<1> QED
  BY <1>1, <1>2, EmptySeq DEF Init, TypeOK, Runs, WorkerStates

\* The pipeline's variables keep their types: in particular queues and batches
\* hold only orders, and every busy worker runs one.
THEOREM TypeCorrect == Spec => []TypeOK
<1>1. Init => TypeOK
  BY TypeInit
<1>2. TypeOK /\ [Next]_vars => TypeOK'
  BY TypeStep
<1> QED
  BY <1>1, <1>2, PTL DEF Spec

-----------------------------------------------------------------------------
(***************************************************************************)
(* One decision and one announcement per order.  TablesAgree is inductive  *)
(* by itself.  AnnouncedOnceAndTruly is not: it also takes that a worker   *)
(* about to announce is the only one for its order, that nothing has been  *)
(* announced yet, and that its message is the order's status.              *)
(***************************************************************************)

Announcing(w) == wk[w].pc = "notify"

AnnouncersTrue ==
  \A w \in Workers : Announcing(w) =>
    orders[wk[w].order] = wk[w].msg /\ notes[wk[w].order] = <<>>

OneAnnouncer ==
  \A v, w \in Workers :
    v # w /\ Announcing(v) /\ Announcing(w) => wk[v].order # wk[w].order

AInv == TypeOK /\ TablesAgree /\ AnnouncedOnceAndTruly /\ AnnouncersTrue /\ OneAnnouncer

\* What a final transaction does: it decides the order and its payment together
\* and its worker may announce that decision, or it changes nothing.
LEMMA DecideEffect ==
  ASSUME TypeOK, TablesAgree, NEW w \in Workers, Decide(w)
  PROVE  LET o == wk[w].order IN
         \/ /\ PaymentPending(o) /\ orders[o] = "pending"
            /\ \E s \in Decided, t \in Nat :
                 /\ orders' = [orders EXCEPT ![o] = s]
                 /\ payments' = [payments EXCEPT ![o] =
                      [status |-> IF s = "confirmed" THEN "paid" ELSE "failed", txn |-> t]]
                 /\ \/ Goto(w, [wk[w] EXCEPT !.pc = "notify", !.msg = s])
                    \/ Goto(w, Idle)
         \/ ~PaymentPending(o) /\ UNCHANGED storeVars /\ Goto(w, Idle)
<1> DEFINE o == wk[w].order
<1>1. o \in Orders /\ wk[w].txn \in Nat
  BY BusyRuns DEF Decide, MarkPaid, MarkPaidUnacked, FailCancel, FailCancelUnacked, WorkerStates
<1>2. CASE ~PaymentPending(o)
  BY <1>2 DEF Decide, MarkPaid, MarkPaidUnacked, FailCancel, FailCancelUnacked,
              MarkPaidAndConfirm, FailCancelAndRestock, AfterTransition
<1>3. CASE PaymentPending(o)
  <2>1. orders[o] = "pending" /\ payments[o].txn \in Nat
    BY <1>1, <1>3 DEF TablesAgree, PaymentPending, TypeOK, StoreTypeOK
  <2>2. CASE MarkPaid(w) \/ MarkPaidUnacked(w)
    <3>1. /\ orders' = [orders EXCEPT ![o] = "confirmed"]
          /\ payments' = [payments EXCEPT ![o] = [status |-> "paid", txn |-> wk[w].txn]]
      BY <1>3, <2>1, <2>2 DEF MarkPaid, MarkPaidUnacked, MarkPaidAndConfirm, AdvanceOrder
    <3>2. \/ Goto(w, [wk[w] EXCEPT !.pc = "notify", !.msg = "confirmed"])
          \/ Goto(w, Idle)
      BY <1>3, <2>2 DEF MarkPaid, MarkPaidUnacked, AfterTransition
    <3> QED
      BY <1>1, <1>3, <2>1, <3>1, <3>2 DEF Decided
  <2>3. CASE FailCancel(w) \/ FailCancelUnacked(w)
    <3>1. orders' = [orders EXCEPT ![o] = "cancelled"]
      BY <1>3, <2>1, <2>3 DEF FailCancel, FailCancelUnacked, FailCancelAndRestock, AdvanceOrder
    <3>2. payments' = [payments EXCEPT ![o] = [status |-> "failed", txn |-> payments[o].txn]]
      <4>1. payments' = [payments EXCEPT ![o].status = "failed"]
        BY <1>3, <2>3 DEF FailCancel, FailCancelUnacked, FailCancelAndRestock
      <4>2. payments[o] \in [status : PaymentStatuses, txn : Nat]
        BY <1>1 DEF TypeOK, StoreTypeOK
      <4>3. [payments[o] EXCEPT !.status = "failed"]
              = [status |-> "failed", txn |-> payments[o].txn]
        BY <4>2
      <4> QED
        BY <4>1, <4>3
    <3>3. \/ Goto(w, [wk[w] EXCEPT !.pc = "notify", !.msg = "cancelled"])
          \/ Goto(w, Idle)
      BY <1>3, <2>3 DEF FailCancel, FailCancelUnacked, AfterTransition
    <3> QED
      BY <1>1, <1>3, <2>1, <3>1, <3>2, <3>3 DEF Decided
  <2> QED
    BY <2>2, <2>3 DEF Decide
<1> QED
  BY <1>2, <1>3

LEMMA NoteRows ==
  ASSUME TypeOK, NEW o \in Orders
  PROVE  /\ Len(notes[o]) \in Nat /\ DOMAIN notes[o] = 1..Len(notes[o])
         /\ \A i \in 1..Len(notes[o]) : notes[o][i].message \in Decided
         /\ Len(notes[o]) = 0 => notes[o] = <<>>
<1> DEFINE S == [message : Decided, status : NoteStatuses]
<1>1. notes[o] \in Seq(S)
  BY DEF TypeOK
<1>2. \A i \in 1..Len(notes[o]) : notes[o][i] \in S
  BY <1>1, ElementOfSeq
<1>3. Len(notes[o]) \in Nat /\ DOMAIN notes[o] = 1..Len(notes[o])
  <2> HIDE DEF S
  <2> QED
    BY <1>1, LenProperties
<1>4. Len(notes[o]) = 0 => notes[o] = <<>>
  <2> HIDE DEF S
  <2> QED
    BY <1>1, EmptySeq
<1> QED
  BY <1>2, <1>3, <1>4

\* Nobody announces an undecided order, and none of its notifications exists.
LEMMA UndecidedUnannounced ==
  ASSUME AInv, NEW o \in Orders, orders[o] \notin Decided
  PROVE  /\ notes[o] = <<>>
         /\ \A w \in Workers : Announcing(w) => wk[w].order # o
<1>1. notes[o] = <<>>
  <2>1. \A i \in 1..Len(notes[o]) : notes[o][i].message = orders[o]
    BY NoteRows DEF AInv, AnnouncedOnceAndTruly
  <2>2. 1 \notin 1..Len(notes[o])
    BY <2>1, NoteRows DEF AInv
  <2> QED
    BY <2>2, NoteRows DEF AInv
<1>2. ASSUME NEW w \in Workers, Announcing(w) PROVE wk[w].order # o
  BY <1>2 DEF AInv, AnnouncersTrue, Announcing, TypeOK
<1> QED
  BY <1>1, <1>2

\* The status of an order nothing is said about may change.
LEMMA UnannouncedMayChange ==
  ASSUME AInv, NEW o \in Orders, NEW m, notes[o] = <<>>, notes' = notes,
         orders' = [orders EXCEPT ![o] = m]
  PROVE  AnnouncedOnceAndTruly'
<1>1. \A x \in Orders : x # o => orders'[x] = orders[x]
  BY DEF AInv, TypeOK, StoreTypeOK
<1>2. Len(notes[o]) = 0 /\ DOMAIN notes[o] = {}
  BY NoteRows DEF AInv
<1> QED
  BY <1>1, <1>2 DEF AInv, AnnouncedOnceAndTruly

\* Steps that decide nothing and announce nothing.
LEMMA QuietStep ==
  ASSUME AInv, TypeOK', UNCHANGED <<orders, payments, notes>>,
         \A v \in Workers : Announcing(v)' => Announcing(v) /\ wk'[v] = wk[v]
  PROVE  AInv'
BY DEF AInv, TablesAgree, AnnouncedOnceAndTruly, AnnouncersTrue, OneAnnouncer, Announcing

\* A worker moves on to a step other than announcing.
LEMMA QuietGoto ==
  ASSUME TypeOK, NEW w \in Workers, NEW r, r.pc # "notify", Goto(w, r)
  PROVE  \A v \in Workers : Announcing(v)' => Announcing(v) /\ wk'[v] = wk[v]
BY DEF TypeOK, Goto, Announcing

LEMMA AnnounceStep ==
  ASSUME AInv, [Next]_vars PROVE AInv'
<1>0. TypeOK /\ TypeOK'
  BY TypeStep DEF AInv
<1>1. ASSUME NEW o \in Orders, NEW cart \in Carts, CreateOrderTx(o, cart),
             UNCHANGED <<wk, notes>>
      PROVE  AInv'
  <2>1. /\ orders[o] = "none" /\ orders' = [orders EXCEPT ![o] = "pending"]
        /\ payments' = [payments EXCEPT ![o] = [status |-> "pending", txn |-> NoTxn]]
    BY <1>1 DEF CreateOrderTx
  <2>2. TablesAgree'
    BY <1>0, <2>1 DEF AInv, TablesAgree, TypeOK, StoreTypeOK
  <2>3. notes[o] = <<>> /\ \A w \in Workers : Announcing(w) => wk[w].order # o
    BY <2>1, UndecidedUnannounced DEF Decided
  <2>4. AnnouncedOnceAndTruly'
    BY <1>1, <2>1, <2>3, UnannouncedMayChange
  <2>5. AnnouncersTrue'
    <3> SUFFICES ASSUME NEW w \in Workers, Announcing(w)
                 PROVE  orders'[wk[w].order] = wk[w].msg /\ notes[wk[w].order] = <<>>
      BY <1>1 DEF AnnouncersTrue, Announcing
    <3>1. wk[w].order \in Orders /\ wk[w].order # o
      BY <1>0, <2>3, BusyRuns DEF Announcing
    <3> QED
      BY <1>0, <2>1, <3>1 DEF AInv, AnnouncersTrue, TypeOK, StoreTypeOK
  <2>6. OneAnnouncer'
    BY <1>1 DEF AInv, OneAnnouncer, Announcing
  <2> QED
    BY <1>0, <2>2, <2>4, <2>5, <2>6 DEF AInv
<1>2. ASSUME NEW w \in Workers, Decide(w) PROVE AInv'
  <2> DEFINE o == wk[w].order
  <2>0. o \in Orders /\ TablesAgree /\ notes' = notes
    BY <1>0, <1>2, BusyRuns
    DEF AInv, Decide, MarkPaid, MarkPaidUnacked, FailCancel, FailCancelUnacked
  <2>1. CASE ~PaymentPending(o) /\ UNCHANGED storeVars /\ Goto(w, Idle)
    BY <1>0, <2>0, <2>1, QuietGoto, QuietStep DEF storeVars, Idle, At
  <2>2. ASSUME orders[o] = "pending", NEW m \in Decided, NEW t \in Nat,
               orders' = [orders EXCEPT ![o] = m],
               payments' = [payments EXCEPT ![o] =
                 [status |-> IF m = "confirmed" THEN "paid" ELSE "failed", txn |-> t]],
               \/ Goto(w, [wk[w] EXCEPT !.pc = "notify", !.msg = m])
               \/ Goto(w, Idle)
        PROVE  AInv'
    <3>1. notes[o] = <<>> /\ \A v \in Workers : Announcing(v) => wk[v].order # o
      BY <2>0, <2>2, UndecidedUnannounced DEF Decided
    <3>2. TablesAgree'
      BY <1>0, <2>0, <2>2 DEF TablesAgree, TypeOK, StoreTypeOK, Decided
    <3>3. AnnouncedOnceAndTruly'
      BY <2>0, <2>2, <3>1, UnannouncedMayChange
    <3>4. /\ \A v \in Workers : v # w => wk'[v] = wk[v]
          /\ Announcing(w)' => wk'[w].order = o /\ wk'[w].msg = m
      <4>1. wk \in [Workers -> WorkerStates]
        BY <1>0, WorkersRun
      <4>2. CASE Goto(w, Idle)
        BY <4>1, <4>2 DEF Goto, Announcing, Idle, At
      <4>3. CASE Goto(w, [wk[w] EXCEPT !.pc = "notify", !.msg = m])
        <5>1. wk'[w] = [wk[w] EXCEPT !.pc = "notify", !.msg = m]
          BY <4>1, <4>3 DEF Goto
        <5>2. wk[w] \in WorkerStates
          BY <4>1
        <5>3. wk'[w].order = o /\ wk'[w].msg = m
          BY <5>1, <5>2 DEF WorkerStates
        <5> QED
          BY <4>1, <4>3, <5>3 DEF Goto
      <4> QED
        BY <2>2, <4>2, <4>3
    <3>5. AnnouncersTrue'
      <4>1. ASSUME NEW v \in Workers, v # w, Announcing(v)
            PROVE  orders'[wk[v].order] = wk[v].msg /\ notes[wk[v].order] = <<>>
        <5>1. wk[v].order \in Orders /\ wk[v].order # o
          BY <1>0, <3>1, <4>1, BusyRuns DEF Announcing
        <5> QED
          BY <1>0, <2>2, <4>1, <5>1 DEF AInv, AnnouncersTrue, TypeOK, StoreTypeOK
      <4>2. orders'[o] = m
        BY <1>0, <2>0, <2>2 DEF TypeOK, StoreTypeOK
      <4> QED
        BY <2>0, <3>1, <3>4, <4>1, <4>2 DEF AnnouncersTrue, Announcing
    <3>6. OneAnnouncer'
      BY <3>1, <3>4 DEF AInv, OneAnnouncer, Announcing
    <3> QED
      BY <1>0, <3>2, <3>3, <3>5, <3>6 DEF AInv
  <2> QED
    BY <1>0, <1>2, <2>0, <2>1, <2>2, DecideEffect
<1>3. ASSUME NEW w \in Workers, CreateNote(w) \/ CreateNoteUnacked(w) PROVE AInv'
  <2> DEFINE o == wk[w].order
             n == [message |-> wk[w].msg, status |-> "pending"]
  <2>1. /\ Announcing(w) /\ o \in Orders /\ orders[o] = wk[w].msg /\ notes[o] = <<>>
        /\ UNCHANGED <<orders, payments>>
    BY <1>0, <1>3, BusyRuns
    DEF AInv, AnnouncersTrue, Announcing, CreateNote, CreateNoteUnacked, storeVars
  <2>2. notes' = [notes EXCEPT ![o] = <<n>>]
    BY <1>3, <2>1 DEF CreateNote, CreateNoteUnacked
  <2>3. \A v \in Workers : Announcing(v)' => v # w /\ Announcing(v) /\ wk'[v] = wk[v]
    <3> DEFINE r == [wk[w] EXCEPT !.pc = "push", !.row = Len(notes[o]) + 1]
    <3>1. wk \in [Workers -> WorkerStates] /\ wk[w] \in WorkerStates
      BY <1>0, WorkersRun
    <3>2. Idle.pc # "notify" /\ r.pc # "notify"
      BY <3>1 DEF Idle, At, WorkerStates
    <3>3. wk' = [wk EXCEPT ![w] = Idle] \/ wk' = [wk EXCEPT ![w] = r]
      BY <1>3 DEF CreateNote, CreateNoteUnacked, Goto
    <3> HIDE DEF r
    <3> QED
      BY <3>1, <3>2, <3>3 DEF Announcing
  <2>4. AnnouncedOnceAndTruly'
    <3>1. notes'[o] = <<n>> /\ \A x \in Orders : x # o => notes'[x] = notes[x]
      BY <1>0, <2>1, <2>2 DEF TypeOK
    <3>2. Len(<<n>>) <= 1 /\ \A i \in DOMAIN <<n>> : <<n>>[i].message = orders[o]
      BY <2>1
    <3> QED
      BY <2>1, <3>1, <3>2 DEF AInv, AnnouncedOnceAndTruly
  <2>5. AnnouncersTrue'
    <3> SUFFICES ASSUME NEW v \in Workers, Announcing(v)'
                 PROVE  orders[wk[v].order] = wk[v].msg /\ notes'[wk[v].order] = <<>>
      BY <2>1, <2>3 DEF AnnouncersTrue
    <3>1. v # w /\ Announcing(v) /\ wk[v].order \in Orders /\ wk[v].order # o
      BY <1>0, <2>1, <2>3, BusyRuns DEF AInv, OneAnnouncer, Announcing
    <3> QED
      BY <1>0, <2>2, <3>1 DEF AInv, AnnouncersTrue, TypeOK
  <2>6. OneAnnouncer'
    BY <2>3 DEF AInv, OneAnnouncer
  <2>7. TablesAgree'
    BY <2>1 DEF AInv, TablesAgree
  <2> QED
    BY <1>0, <2>4, <2>5, <2>6, <2>7 DEF AInv
<1>4. ASSUME NEW w \in Workers, NEW outcome \in NoteStatuses, PushAndMark(w, outcome)
      PROVE  AInv'
  <2> DEFINE o == wk[w].order
  <2>1. o \in Orders /\ UNCHANGED <<orders, payments>>
    BY <1>0, <1>4, BusyRuns DEF PushAndMark, storeVars
  <2>2. notes' = [notes EXCEPT ![o] = MarkRow(notes[o], wk[w].row, outcome)]
    BY <1>4 DEF PushAndMark
  <2>3. \A v \in Workers : Announcing(v)' => Announcing(v) /\ wk'[v] = wk[v]
    BY <1>0, <1>4, QuietGoto DEF PushAndMark, Idle, At
  <2>4. \A x \in Orders :
          /\ Len(notes'[x]) = Len(notes[x])
          /\ \A i \in 1..Len(notes[x]) : notes'[x][i].message = notes[x][i].message
    <3>1. notes[o] \in Seq([message : Decided, status : NoteStatuses])
      BY <1>0, <2>1 DEF TypeOK
    <3>2. /\ Len(MarkRow(notes[o], wk[w].row, outcome)) = Len(notes[o])
          /\ \A i \in 1..Len(notes[o]) :
               MarkRow(notes[o], wk[w].row, outcome)[i].message = notes[o][i].message
      BY <3>1, MarkRowType
    <3>3. /\ notes'[o] = MarkRow(notes[o], wk[w].row, outcome)
          /\ \A x \in Orders : x # o => notes'[x] = notes[x]
      BY <1>0, <2>1, <2>2 DEF TypeOK
    <3> QED
      BY <3>2, <3>3
  <2>5. \A x \in Orders :
          /\ DOMAIN notes[x] = 1..Len(notes[x]) /\ DOMAIN notes'[x] = 1..Len(notes'[x])
          /\ notes[x] = <<>> => notes'[x] = <<>>
    <3> TAKE x \in Orders
    <3>1. DOMAIN notes[x] = 1..Len(notes[x])
      BY <1>0, NoteRows
    <3>2. notes'[x] \in Seq([message : Decided, status : NoteStatuses])
      BY <1>0 DEF TypeOK
    <3>3. DOMAIN notes'[x] = 1..Len(notes'[x])
      BY <3>2, LenProperties
    <3>4. notes[x] = <<>> => Len(notes'[x]) = 0
      BY <2>4, EmptySeq
    <3>5. notes'[x] # <<>> => Len(notes'[x]) # 0
      BY <3>2, EmptySeq
    <3> QED
      BY <3>1, <3>3, <3>4, <3>5
  <2>6. AnnouncedOnceAndTruly'
    BY <2>1, <2>4, <2>5 DEF AInv, AnnouncedOnceAndTruly
  <2>7. AnnouncersTrue' /\ OneAnnouncer'
    BY <1>0, <2>1, <2>3, <2>5, BusyRuns
    DEF AInv, AnnouncersTrue, OneAnnouncer, Announcing
  <2>8. TablesAgree'
    BY <2>1 DEF AInv, TablesAgree
  <2> QED
    BY <1>0, <2>6, <2>7, <2>8 DEF AInv
<1>5. ASSUME NEW w \in Workers,
             \/ Receive(w) \/ Load(w) \/ LoadError(w)
             \/ ChargeReplayed(w) \/ ChargeAccepted(w) \/ ChargeFailed(w)
             \/ FinalizeError(w) \/ CreateNoteError(w)
      PROVE  AInv'
  <2>1. \E r : r.pc # "notify" /\ Goto(w, r)
    BY <1>0, <1>5, WorkersRun
    DEF Receive, Load, LoadError, ChargeReplayed, ChargeAccepted, ChargeFailed,
        FinalizeError, CreateNoteError, FirstAttempt, Idle, At, WorkerStates
  <2>2. UNCHANGED <<orders, payments, notes>>
    BY <1>5
    DEF Receive, Load, LoadError, ChargeReplayed, ChargeAccepted, ChargeFailed,
        FinalizeError, CreateNoteError, storeVars
  <2> QED
    BY <1>0, <2>1, <2>2, QuietGoto, QuietStep
<1>6. ASSUME NEW p \in Procs, Crash(p) PROVE AInv'
  <2>1. \A v \in Workers : Announcing(v)' => Announcing(v) /\ wk'[v] = wk[v]
    BY <1>6 DEF Crash, Announcing, Idle, At
  <2> QED
    BY <1>0, <1>6, <2>1, QuietStep DEF Crash, storeVars
<1>7. ASSUME UNCHANGED <<orders, payments, notes, wk>> PROVE AInv'
  BY <1>0, <1>7, QuietStep DEF Announcing
<1> QED
  BY <1>1, <1>2, <1>3, <1>4, <1>5, <1>6, <1>7
  DEF Next, Api, Fulfill, Decide, CreateOrder, CreateOrderUnacked, Process, SweepList,
      SweepProcess, ClockTick, PaymentAges, pipeVars, storeVars, vars

LEMMA AInvariant == Spec => []AInv
<1>1. Init => AInv
  <2> SUFFICES ASSUME Init PROVE AInv
    OBVIOUS
  <2>1. TypeOK
    BY TypeInit
  <2>2. \A o \in Orders : Len(notes[o]) = 0 /\ DOMAIN notes[o] = {}
    BY <2>1, NoteRows DEF Init
  <2>3. TablesAgree
    BY DEF Init, StoreInit, TablesAgree
  <2>4. AnnouncedOnceAndTruly
    BY <2>2 DEF AnnouncedOnceAndTruly
  <2>5. \A w \in Workers : ~Announcing(w)
    BY DEF Init, Announcing, Idle, At
  <2> QED
    BY <2>1, <2>3, <2>4, <2>5 DEF AInv, AnnouncersTrue, OneAnnouncer
<1>2. AInv /\ [Next]_vars => AInv'
  BY AnnounceStep
<1> QED
  BY <1>1, <1>2, PTL DEF Spec

\* The payments and the orders table agree in every state, whoever overlaps whom.
THEOREM TablesAlwaysAgree == Spec => []TablesAgree
BY AInvariant, PTL DEF AInv

\* However many workers, sweeps, replicas and crashes touch an order, it gets at
\* most one notification and that one tells its real status.
THEOREM OneTrueAnnouncement == Spec => []AnnouncedOnceAndTruly
BY AInvariant, PTL DEF AInv

\* No step changes a payment that is paid or failed.
THEOREM DecisionsAreFinal == Spec => DecidedIsFinal
<1> DEFINE Final == \A o \in Orders :
                      payments[o].status \in {"paid", "failed"} => payments'[o] = payments[o]
<1>1. AInv /\ [Next]_vars => [Final]_vars
  <2> SUFFICES ASSUME AInv, [Next]_vars PROVE Final
    OBVIOUS
  <2>0. TypeOK /\ TablesAgree
    BY DEF AInv
  <2>1. ASSUME NEW o \in Orders, NEW cart \in Carts, CreateOrderTx(o, cart) PROVE Final
    <3>1. payments[o].status = "none"
      BY <2>0, <2>1 DEF CreateOrderTx, TablesAgree
    <3> QED
      BY <2>0, <2>1, <3>1 DEF CreateOrderTx, TypeOK, StoreTypeOK
  <2>2. ASSUME NEW w \in Workers, Decide(w) PROVE Final
    <3>1. CASE UNCHANGED storeVars
      BY <3>1 DEF storeVars
    <3>2. CASE PaymentPending(wk[w].order) /\ \E r : payments' = [payments EXCEPT ![wk[w].order] = r]
      BY <2>0, <3>2 DEF PaymentPending, TypeOK, StoreTypeOK
    <3> QED
      BY <2>0, <2>2, <3>1, <3>2, DecideEffect
  <2>3. CASE UNCHANGED payments
    BY <2>3
  <2> QED
    BY <2>1, <2>2, <2>3
    DEF Next, Api, Fulfill, Decide, CreateOrder, CreateOrderUnacked, Process, SweepList,
        SweepProcess, Receive, Load, LoadError, ChargeReplayed, ChargeAccepted, ChargeFailed,
        FinalizeError, CreateNote, CreateNoteUnacked, CreateNoteError, PushAndMark, Crash,
        ClockTick, PaymentAges, storeVars, vars
<1> QED
  BY <1>1, AInvariant, PTL DEF Spec, DecidedIsFinal

-----------------------------------------------------------------------------
(***************************************************************************)
(* A paid order was charged.  The strengthening follows the transaction id *)
(* from the gateway's map through the worker to the payment row.           *)
(***************************************************************************)

MapIsBacked == \A p \in Procs, o \in Orders : charged[p][o] <= charges[o]

ConfirmIsBacked ==
  \A w \in Workers : wk[w].pc = "confirm" => wk[w].txn \in 1..charges[wk[w].order]

CInv == AInv /\ MapIsBacked /\ ConfirmIsBacked /\ PaidIsCharged

\* Steps that charge nothing, mark nothing paid and bring no worker to confirm.
LEMMA UnchargedStep ==
  ASSUME CInv, AInv', UNCHANGED <<charges, charged>>,
         \A o \in Orders : payments'[o] = payments[o] \/ payments'[o].status # "paid",
         \A w \in Workers : wk'[w].pc = "confirm" => wk'[w] = wk[w]
  PROVE  CInv'
BY DEF CInv, MapIsBacked, ConfirmIsBacked, PaidIsCharged

LEMMA GotoUnconfirmed ==
  ASSUME TypeOK, NEW w \in Workers, NEW r, r.pc # "confirm", Goto(w, r)
  PROVE  \A v \in Workers : wk'[v].pc = "confirm" => wk'[v] = wk[v]
BY DEF TypeOK, Goto

LEMMA ChargeStep ==
  ASSUME CInv, MaxRetries > 0, [Next]_vars PROVE CInv'
<1>0. TypeOK /\ TablesAgree /\ AInv' /\ TypeOK'
  BY AnnounceStep DEF CInv, AInv
<1>a. /\ charges \in [Orders -> Nat] /\ charged \in [Procs -> [Orders -> Nat]]
      /\ payments \in [Orders -> [status : PaymentStatuses, txn : Nat]]
  BY <1>0 DEF TypeOK, StoreTypeOK
<1>1. ASSUME NEW o \in Orders, NEW cart \in Carts, CreateOrderTx(o, cart),
             UNCHANGED <<wk, charges, charged>>
      PROVE  CInv'
  <2>1. \A x \in Orders : payments'[x] = payments[x] \/ payments'[x].status # "paid"
    BY <1>0, <1>1 DEF CreateOrderTx, TypeOK, StoreTypeOK
  <2> QED
    BY <1>0, <1>1, <2>1, UnchargedStep
<1>2. ASSUME NEW w \in Workers, ChargeReplayed(w) PROVE CInv'
  <2> DEFINE o == wk[w].order
             known == charged[ProcOf[w]][o]
             r == [wk[w] EXCEPT !.pc = "confirm", !.txn = known]
  <2>1. /\ o \in Orders /\ ProcOf[w] \in Procs /\ wk[w] \in WorkerStates
        /\ known # 0 /\ wk' = [wk EXCEPT ![w] = r]
        /\ UNCHANGED <<payments, charges, charged>>
    BY <1>0, <1>2, BusyRuns DEF ChargeReplayed, Goto, storeVars
  <2>2. known \in 1..charges[o]
    <3>1. known \in Nat /\ charges[o] \in Nat /\ known <= charges[o]
      BY <1>a, <2>1 DEF CInv, MapIsBacked
    <3> QED
      BY <2>1, <3>1
  <2>3. r.order = o /\ r.txn = known
    BY <2>1 DEF WorkerStates
  <2>4. ConfirmIsBacked'
    <3> HIDE DEF r, known
    <3> QED
      BY <1>0, <2>1, <2>2, <2>3, WorkersRun DEF CInv, ConfirmIsBacked
  <2> QED
    BY <1>0, <2>1, <2>4 DEF CInv, MapIsBacked, PaidIsCharged
<1>3. ASSUME NEW w \in Workers, ChargeAccepted(w) PROVE CInv'
  <2> DEFINE o == wk[w].order
             new == charges[o] + 1
             r == [wk[w] EXCEPT !.pc = "confirm", !.txn = new]
  <2>1. /\ o \in Orders /\ ProcOf[w] \in Procs /\ wk[w] \in WorkerStates
        /\ wk' = [wk EXCEPT ![w] = r] /\ charges' = [charges EXCEPT ![o] = new]
        /\ charged' = [charged EXCEPT ![ProcOf[w]][o] = new]
        /\ payments' = payments
    BY <1>0, <1>3, BusyRuns DEF ChargeAccepted, Goto, storeVars
  <2>2. \A x \in Orders : charges[x] \in Nat /\ charges'[x] \in Nat /\ charges[x] <= charges'[x]
    BY <1>a, <2>1
  <2>3. charges'[o] = new /\ new \in 1..charges'[o]
    BY <1>a, <2>1
  <2>4. r.order = o /\ r.txn = new
    BY <2>1 DEF WorkerStates
  <2> HIDE DEF new, r
  <2>5. MapIsBacked'
    <3>1. \A p \in Procs, x \in Orders :
            charged'[p][x] = IF p = ProcOf[w] /\ x = o THEN new ELSE charged[p][x]
      BY <1>a, <2>1
    <3>2. \A p \in Procs, x \in Orders : charged[p][x] \in Nat
      BY <1>a
    <3> QED
      BY <2>2, <2>3, <3>1, <3>2 DEF CInv, MapIsBacked
  <2>6. ConfirmIsBacked'
    <3> SUFFICES ASSUME NEW v \in Workers, wk'[v].pc = "confirm"
                 PROVE  wk'[v].txn \in 1..charges'[wk'[v].order]
      BY DEF ConfirmIsBacked
    <3>1. CASE v = w
      BY <1>0, <2>1, <2>3, <2>4, <3>1, WorkersRun
    <3>2. CASE v # w
      <4>1. wk'[v] = wk[v] /\ wk[v].order \in Orders
        BY <1>0, <2>1, <3>2, WorkersRun, BusyRuns
      <4>2. wk[v].txn \in 1..charges[wk[v].order]
        BY <4>1 DEF CInv, ConfirmIsBacked
      <4> QED
        BY <2>2, <4>1, <4>2
    <3> QED
      BY <3>1, <3>2
  <2>7. PaidIsCharged'
    <3>1. \A x \in Orders : 1..charges[x] \subseteq 1..charges'[x]
      BY <2>2
    <3> QED
      BY <2>1, <3>1 DEF CInv, PaidIsCharged
  <2> QED
    BY <1>0, <2>5, <2>6, <2>7 DEF CInv
<1>4. ASSUME NEW w \in Workers, MarkPaid(w) \/ MarkPaidUnacked(w) PROVE CInv'
  <2> DEFINE o == wk[w].order
  <2>1. /\ wk[w].pc = "confirm" /\ o \in Orders /\ UNCHANGED <<charges, charged>>
        /\ MarkPaidAndConfirm(o, wk[w].txn)
    BY <1>0, <1>4, BusyRuns DEF MarkPaid, MarkPaidUnacked
  <2>2. wk[w].txn \in 1..charges[o]
    BY <2>1 DEF CInv, ConfirmIsBacked
  <2>3. PaidIsCharged'
    <3>1. CASE payments' = [payments EXCEPT ![o] = [status |-> "paid", txn |-> wk[w].txn]]
      BY <1>0, <2>1, <2>2, <3>1 DEF CInv, PaidIsCharged, TypeOK, StoreTypeOK
    <3>2. CASE payments' = payments
      BY <2>1, <3>2 DEF CInv, PaidIsCharged
    <3> QED
      BY <2>1, <3>1, <3>2 DEF MarkPaidAndConfirm, storeVars
  <2>4. \E r : r.pc # "confirm" /\ Goto(w, r)
    BY <1>0, <1>4, WorkersRun
    DEF MarkPaid, MarkPaidUnacked, AfterTransition, Idle, At, WorkerStates
  <2>5. ConfirmIsBacked'
    BY <1>0, <2>1, <2>4, GotoUnconfirmed DEF CInv, ConfirmIsBacked
  <2> QED
    BY <1>0, <2>1, <2>3, <2>5 DEF CInv, MapIsBacked
<1>5. ASSUME NEW w \in Workers, FailCancel(w) \/ FailCancelUnacked(w) PROVE CInv'
  <2> DEFINE o == wk[w].order
  <2>1. UNCHANGED <<charges, charged>> /\ FailCancelAndRestock(o) /\ o \in Orders
    BY <1>0, <1>5, BusyRuns DEF FailCancel, FailCancelUnacked
  <2>2. \A x \in Orders : payments'[x] = payments[x] \/ payments'[x].status # "paid"
    BY <1>a, <2>1 DEF FailCancelAndRestock, storeVars
  <2>3. \E r : r.pc # "confirm" /\ Goto(w, r)
    BY <1>0, <1>5, WorkersRun
    DEF FailCancel, FailCancelUnacked, AfterTransition, Idle, At, WorkerStates
  <2> QED
    BY <1>0, <2>1, <2>2, <2>3, GotoUnconfirmed, UnchargedStep
<1>6. ASSUME NEW w \in Workers,
             \/ Receive(w) \/ Load(w) \/ LoadError(w) \/ ChargeFailed(w)
             \/ FinalizeError(w) \/ CreateNote(w) \/ CreateNoteUnacked(w)
             \/ CreateNoteError(w) \/ \E outcome \in NoteStatuses : PushAndMark(w, outcome)
      PROVE  CInv'
  <2>1. UNCHANGED <<payments, charges, charged>>
    BY <1>6 DEF Receive, Load, LoadError, ChargeFailed, FinalizeError, CreateNote,
                CreateNoteUnacked, CreateNoteError, PushAndMark, storeVars
  <2>2. wk[w] \in WorkerStates /\ Idle.pc # "confirm"
    BY <1>0, WorkersRun DEF Idle, At
  <2>3. \E r : r.pc # "confirm" /\ Goto(w, r)
    <3>1. CASE Load(w)
      <4>1. FirstAttempt(wk[w]).pc = "charge"
        <5>1. MaxRetries # 0
          BY PipelineAssumption
        <5>2. FirstAttempt(wk[w]) = [wk[w] EXCEPT !.pc = "charge", !.attempt = 1]
          BY <5>1 DEF FirstAttempt
        <5> QED
          BY <2>2, <5>2 DEF WorkerStates
      <4> QED
        BY <2>2, <3>1, <4>1 DEF Load
    <3>2. CASE ChargeFailed(w)
      BY <2>2, <3>2 DEF ChargeFailed, WorkerStates
    <3>3. CASE CreateNote(w)
      BY <2>2, <3>3 DEF CreateNote, WorkerStates
    <3>4. CASE Receive(w)
      BY <3>4 DEF Receive, At
    <3> QED
      BY <1>6, <2>2, <3>1, <3>2, <3>3, <3>4
      DEF LoadError, FinalizeError, CreateNoteUnacked, CreateNoteError, PushAndMark
  <2> QED
    BY <1>0, <2>1, <2>3, GotoUnconfirmed, UnchargedStep
<1>7. ASSUME NEW p \in Procs, Crash(p) PROVE CInv'
  <2>1. UNCHANGED <<payments, charges>>
    BY <1>7 DEF Crash, storeVars
  <2>2. \A v \in Workers : wk'[v].pc = "confirm" => wk'[v] = wk[v]
    BY <1>7 DEF Crash, Idle, At
  <2>3. MapIsBacked'
    <3>1. \A q \in Procs, o \in Orders :
            charged'[q][o] = IF q = p THEN 0 ELSE charged[q][o]
      BY <1>0, <1>7 DEF Crash, TypeOK
    <3>2. \A o \in Orders : charges[o] \in Nat
      BY <1>0 DEF TypeOK
    <3> QED
      BY <2>1, <3>1, <3>2 DEF CInv, MapIsBacked
  <2> QED
    BY <1>0, <2>1, <2>2, <2>3 DEF CInv, ConfirmIsBacked, PaidIsCharged
<1>8. ASSUME UNCHANGED <<wk, payments, charges, charged>> PROVE CInv'
  BY <1>0, <1>8, UnchargedStep
<1> QED
  BY <1>1, <1>2, <1>3, <1>4, <1>5, <1>6, <1>7, <1>8
  DEF Next, Api, Fulfill, CreateOrder, CreateOrderUnacked, Process, SweepList,
      SweepProcess, ClockTick, PaymentAges, pipeVars, storeVars, vars

\* As long as a charge is attempted at all, no payment is marked paid without a
\* charge the gateway accepted for that very order.
THEOREM PaidWasCharged == MaxRetries > 0 => (Spec => []PaidIsCharged)
<1> SUFFICES ASSUME MaxRetries > 0 PROVE Spec => []PaidIsCharged
  OBVIOUS
<1>1. Init /\ AInv => CInv
  <2> SUFFICES ASSUME Init, AInv PROVE CInv
    OBVIOUS
  <2>1. MapIsBacked
    BY DEF Init, MapIsBacked
  <2>2. ConfirmIsBacked
    BY DEF Init, ConfirmIsBacked, Idle, At
  <2>3. PaidIsCharged
    BY DEF Init, StoreInit, PaidIsCharged
  <2> QED
    BY <2>1, <2>2, <2>3 DEF CInv
<1>2. CInv /\ [Next]_vars => CInv'
  BY ChargeStep
<1>3. CInv => PaidIsCharged
  BY DEF CInv
<1> QED
  BY <1>1, <1>2, <1>3, AInvariant, PTL DEF Spec

-----------------------------------------------------------------------------
(***************************************************************************)
(* The pipeline implements OrderLifecycle: creating an order is Place, the *)
(* final transaction that finds the payment pending is Confirm or Cancel,  *)
(* inserting a notification is Tell, and every other step changes nothing  *)
(* OrderLifecycle can see.                                                 *)
(***************************************************************************)

\* What is told about an order nothing was inserted for, and for one row.
LEMMA ToldOfRows ==
  ASSUME NEW o \in Orders
  PROVE  /\ notes[o] = <<>> => Messages(o) = <<>>
         /\ \A n : notes[o] = <<n>> => Messages(o) = <<n.message>>
BY DEF Messages

LEMMA ImplementsInit == Init => Lifecycle!Init
BY ToldOfRows
DEF Init, StoreInit, Lifecycle!Init, Lifecycle!Orders, Lifecycle!EmptyCart, Orders,
    EmptyCart

\* Steps that change none of the variables OrderLifecycle speaks of.
LEMMA InvisibleStep ==
  ASSUME UNCHANGED <<orders, items, inventory>>,
         \A o \in Orders : Messages(o)' = Messages(o)
  PROVE  UNCHANGED Lifecycle!vars
BY DEF Lifecycle!vars, Orders

LEMMA ImplementsStep ==
  ASSUME AInv, [Next]_vars PROVE [Lifecycle!Next]_(Lifecycle!vars)
<1>0. TypeOK /\ TypeOK' /\ TablesAgree
  BY TypeStep DEF AInv
<1>1. ASSUME NEW o \in Orders, NEW cart \in Carts, CreateOrderTx(o, cart), UNCHANGED notes
      PROVE  Lifecycle!Next
  <2>1. [x \in Orders |-> Messages(x)]' = [x \in Orders |-> Messages(x)]
    BY <1>1 DEF Messages
  <2>2. \A p \in Products : cart[p] <= inventory[p]
    <3>1. cart \in [Products -> Nat] /\ inventory \in [Products -> Nat]
      BY <1>0, StoreAssumption DEF TypeOK, StoreTypeOK
    <3> QED
      BY <1>1, <3>1 DEF CreateOrderTx
  <2>3. Lifecycle!Place(o, cart)
    BY <1>1, <2>1, <2>2 DEF CreateOrderTx, Lifecycle!Place
  <2> QED
    BY <2>3 DEF Lifecycle!Next, Lifecycle!Orders, Orders
<1>2. ASSUME NEW w \in Workers, Decide(w)
      PROVE  Lifecycle!Next \/ UNCHANGED Lifecycle!vars
  <2> DEFINE o == wk[w].order
  <2>1. o \in Orders /\ notes' = notes
    BY <1>0, <1>2, BusyRuns
    DEF Decide, MarkPaid, MarkPaidUnacked, FailCancel, FailCancelUnacked
  <2>2. [x \in Orders |-> Messages(x)]' = [x \in Orders |-> Messages(x)]
    BY <2>1 DEF Messages
  <2>3. CASE ~PaymentPending(o)
    <3>1. UNCHANGED storeVars
      BY <1>2, <2>3 DEF Decide, MarkPaid, MarkPaidUnacked, FailCancel, FailCancelUnacked,
                        MarkPaidAndConfirm, FailCancelAndRestock
    <3> QED
      BY <2>1, <3>1, InvisibleStep DEF storeVars, Messages
  <2>4. CASE PaymentPending(o)
    <3>1. orders[o] = "pending"
      BY <1>0, <2>1, <2>4 DEF TablesAgree, PaymentPending
    <3>2. CASE MarkPaid(w) \/ MarkPaidUnacked(w)
      <4>1. Lifecycle!Confirm(o)
        BY <2>2, <2>4, <3>1, <3>2
        DEF MarkPaid, MarkPaidUnacked, MarkPaidAndConfirm, AdvanceOrder, Lifecycle!Confirm
      <4> QED
        BY <2>1, <4>1 DEF Lifecycle!Next, Lifecycle!Orders, Orders
    <3>3. CASE FailCancel(w) \/ FailCancelUnacked(w)
      <4>1. Lifecycle!Cancel(o)
        BY <2>2, <2>4, <3>1, <3>3
        DEF FailCancel, FailCancelUnacked, FailCancelAndRestock, AdvanceOrder, Lifecycle!Cancel
      <4> QED
        BY <2>1, <4>1 DEF Lifecycle!Next, Lifecycle!Orders, Orders
    <3> QED
      BY <1>2, <3>2, <3>3 DEF Decide
  <2> QED
    BY <2>3, <2>4
<1>3. ASSUME NEW w \in Workers, CreateNote(w) \/ CreateNoteUnacked(w)
      PROVE  Lifecycle!Next
  <2>1. PICK o \in Orders : o = wk[w].order
    BY <1>0, <1>3, BusyRuns DEF CreateNote, CreateNoteUnacked
  <2>2. PICK m \in Decided : m = wk[w].msg
    BY <1>0, <1>3 DEF TypeOK, CreateNote, CreateNoteUnacked
  <2> DEFINE n == [message |-> m, status |-> "pending"]
  <2>3. orders[o] = m /\ notes[o] = <<>>
    BY <1>3, <2>1, <2>2
    DEF AInv, AnnouncersTrue, Announcing, CreateNote, CreateNoteUnacked
  <2>4. notes' = [notes EXCEPT ![o] = <<n>>] /\ UNCHANGED <<orders, items, inventory>>
    BY <1>3, <2>1, <2>2, <2>3 DEF CreateNote, CreateNoteUnacked, storeVars
  <2>5. notes \in [Orders -> Seq([message : Decided, status : NoteStatuses])]
    BY <1>0 DEF TypeOK
  <2>6. Messages(o) = <<>>
    BY <2>3, ToldOfRows
  <2>7. Messages(o)' = <<m>>
    <3>1. notes'[o] = <<n>>
      BY <2>4, <2>5
    <3> QED
      BY <3>1 DEF Messages
  <2>8. ASSUME NEW x \in Orders, x # o PROVE Messages(x)' = Messages(x)
    BY <2>4, <2>5, <2>8 DEF Messages
  <2> DEFINE before == [x \in Orders |-> Messages(x)]
             after  == [x \in Orders |-> Messages(x)']
  <2>9. after = [before EXCEPT ![o] = <<m>>] /\ before[o] = <<>>
    BY <2>6, <2>7, <2>8
  <2>10. Lifecycle!Tell(o)
    BY <2>3, <2>4, <2>9 DEF Lifecycle!Tell, Lifecycle!Terminal, Decided
  <2> QED
    BY <2>10 DEF Lifecycle!Next, Lifecycle!Orders, Orders
<1>4. ASSUME NEW w \in Workers, NEW outcome \in NoteStatuses, PushAndMark(w, outcome)
      PROVE  UNCHANGED Lifecycle!vars
  <2>1. PICK o \in Orders : o = wk[w].order
    BY <1>0, <1>4, BusyRuns DEF PushAndMark
  <2>2. PICK i : i = wk[w].row
    OBVIOUS
  <2>3. notes' = [notes EXCEPT ![o] = MarkRow(notes[o], i, outcome)]
    BY <1>4, <2>1, <2>2 DEF PushAndMark
  <2>4. notes \in [Orders -> Seq([message : Decided, status : NoteStatuses])]
    BY <1>0 DEF TypeOK
  <2> DEFINE S == [message : Decided, status : NoteStatuses]
             marked == MarkRow(notes[o], i, outcome)
  <2>5. notes[o] \in Seq(S) /\ marked \in Seq(S) /\ Len(marked) = Len(notes[o])
    BY <2>4, MarkRowType
  <2>6. DOMAIN marked = 1..Len(notes[o]) /\ DOMAIN notes[o] = 1..Len(notes[o])
    <3> HIDE DEF S, marked
    <3> QED
      BY <2>5, LenProperties
  <2>7. \A k \in 1..Len(notes[o]) : marked[k].message = notes[o][k].message
    BY <2>4, MarkRowType
  <2>8. notes'[o] = marked /\ \A x \in Orders : x # o => notes'[x] = notes[x]
    BY <2>3, <2>4
  <2>9. \A x \in Orders : Messages(x)' = Messages(x)
    <3> HIDE DEF marked
    <3> QED
      BY <2>6, <2>7, <2>8 DEF Messages
  <2> QED
    BY <1>4, <2>9, InvisibleStep DEF PushAndMark, storeVars
<1>5. ASSUME UNCHANGED <<orders, items, inventory, notes>> PROVE UNCHANGED Lifecycle!vars
  BY <1>5, InvisibleStep DEF Messages
<1> QED
  BY <1>1, <1>2, <1>3, <1>4, <1>5
  DEF Next, Api, Fulfill, Decide, CreateOrder, CreateOrderUnacked, Process, SweepList,
      SweepProcess, Receive, Load, LoadError, ChargeReplayed, ChargeAccepted, ChargeFailed,
      FinalizeError, CreateNoteError, Crash, ClockTick, PaymentAges, pipeVars, storeVars, vars

\* The pipeline does nothing to orders, stock and announcements that
\* OrderLifecycle does not allow.
THEOREM PipelineImplementsLifecycle == Spec => ImplementsLifecycle
<1>1. Init => Lifecycle!Init
  BY ImplementsInit
<1>2. AInv /\ [Next]_vars => [Lifecycle!Next]_(Lifecycle!vars)
  BY ImplementsStep
<1> QED
  BY <1>1, <1>2, AInvariant, PTL DEF Spec, ImplementsLifecycle, Lifecycle!Spec

-----------------------------------------------------------------------------
(***************************************************************************)
(* Charges are counted by the gateways that remember them.  A gateway      *)
(* forgets only in a crash, so that the charges of an order beyond the     *)
(* number of gateways that know its key are at most as many as the         *)
(* crashes.                                                                *)
(***************************************************************************)

Knowing(o) == {p \in Procs : charged[p][o] # 0}

GatewayInv == \A o \in Orders : charges[o] <= Cardinality(Knowing(o)) + crashes

LEMMA KnowingIsFinite ==
  ASSUME NEW o
  PROVE  /\ IsFiniteSet(Knowing(o)) /\ Cardinality(Knowing(o)) \in Nat
         /\ Cardinality(Knowing(o)) <= Cardinality(Procs)
BY PipelineAssumption, FS_Subset, FS_CardinalityType DEF Knowing

\* A gateway accepts only what it does not know, and then knows it.
LEMMA AcceptedIsCounted ==
  ASSUME TypeOK, GatewayInv, NEW w \in Workers, ChargeAccepted(w) PROVE GatewayInv'
<1> DEFINE p == ProcOf[w]
<1>0. PICK x \in Orders : x = wk[w].order
  BY BusyRuns DEF ChargeAccepted
<1>1. p \in Procs
  BY PipelineAssumption
<1>2. /\ charges' = [charges EXCEPT ![x] = charges[x] + 1] /\ crashes' = crashes
      /\ charged' = [charged EXCEPT ![p][x] = charges[x] + 1] /\ charged[p][x] = 0
  BY <1>0 DEF ChargeAccepted
<1>3. charges[x] \in Nat /\ charges[x] + 1 # 0 /\ crashes \in Nat
  <2>1. charges[x] \in Nat /\ crashes \in Nat
    BY <1>1 DEF TypeOK
  <2> QED
    BY <2>1
<1>4. Knowing(x)' = Knowing(x) \cup {p} /\ p \notin Knowing(x)
  <2>1. charged'[p][x] # 0 /\ \A q \in Procs : q # p => charged'[q] = charged[q]
    BY <1>1, <1>2, <1>3 DEF TypeOK
  <2> QED
    BY <1>1, <1>2, <2>1 DEF Knowing
<1>5. Cardinality(Knowing(x)') = Cardinality(Knowing(x)) + 1
  BY <1>4, KnowingIsFinite, FS_AddElement
<1>6. \A o \in Orders : o # x => Knowing(o)' = Knowing(o) /\ charges'[o] = charges[o]
  BY <1>1, <1>2 DEF Knowing, TypeOK
<1>7. charges'[x] <= Cardinality(Knowing(x)') + crashes'
  <2>1. charges'[x] = charges[x] + 1 /\ charges[x] <= Cardinality(Knowing(x)) + crashes
    BY <1>1, <1>2 DEF GatewayInv, TypeOK
  <2> QED
    BY <2>1, <1>2, <1>3, <1>5, KnowingIsFinite
<1>8. ASSUME NEW o \in Orders, o # x PROVE charges'[o] <= Cardinality(Knowing(o)') + crashes'
  BY <1>2, <1>6, <1>8 DEF GatewayInv
<1> QED
  BY <1>7, <1>8 DEF GatewayInv

\* A crash makes one gateway forget, and is counted.
LEMMA CrashIsCounted ==
  ASSUME TypeOK, GatewayInv, NEW p \in Procs, Crash(p) PROVE GatewayInv'
<1>1. crashes' = crashes + 1 /\ charges' = charges /\ crashes \in Nat
  BY DEF Crash, TypeOK
<1> SUFFICES ASSUME NEW o \in Orders
             PROVE  charges'[o] <= Cardinality(Knowing(o)') + crashes'
  BY DEF GatewayInv
<1>2. Knowing(o)' = Knowing(o) \ {p}
  BY DEF Crash, Knowing, TypeOK
<1>3. Cardinality(Knowing(o)') >= Cardinality(Knowing(o)) - 1
  BY <1>2, KnowingIsFinite, FS_RemoveElement
<1>4. charges[o] \in Nat /\ charges[o] <= Cardinality(Knowing(o)) + crashes
  BY DEF GatewayInv, TypeOK
<1>5. Cardinality(Knowing(o)') \in Nat
  BY <1>2, KnowingIsFinite, FS_RemoveElement, FS_CardinalityType
<1> QED
  BY <1>1, <1>3, <1>4, <1>5, KnowingIsFinite

\* A gateway accepts one charge per order in its process's life, for any number
\* of processes, workers, sweeps, retries and crashes (fakeGateway.Charge replays
\* a key it knows).
THEOREM OneChargePerGateway == Spec => []ChargedOncePerGateway
<1>1. Init => GatewayInv
  BY KnowingIsFinite DEF Init, GatewayInv
<1>2. TypeOK /\ GatewayInv /\ [Next]_vars => GatewayInv'
  <2> SUFFICES ASSUME TypeOK, GatewayInv, [Next]_vars PROVE GatewayInv'
    OBVIOUS
  <2>1. ASSUME UNCHANGED <<charged, charges, crashes>> PROVE GatewayInv'
    BY <2>1 DEF GatewayInv, Knowing
  <2> QED
    BY <2>1, AcceptedIsCounted, CrashIsCounted
    DEF Next, Api, Fulfill, CreateOrder, CreateOrderUnacked, Process, SweepList,
        SweepProcess, Receive, Load, LoadError, ChargeReplayed, ChargeFailed, MarkPaid,
        MarkPaidUnacked, FailCancel, FailCancelUnacked, FinalizeError, CreateNote,
        CreateNoteUnacked, CreateNoteError, PushAndMark, ClockTick, pipeVars, vars
<1>3. TypeOK /\ GatewayInv => ChargedOncePerGateway
  <2> SUFFICES ASSUME TypeOK, GatewayInv, NEW o \in Orders
               PROVE  charges[o] <= Cardinality(Procs) + crashes
    BY DEF ChargedOncePerGateway
  <2>1. charges[o] \in Nat /\ crashes \in Nat /\ charges[o] <= Cardinality(Knowing(o)) + crashes
    BY DEF GatewayInv, TypeOK
  <2>2. Cardinality(Procs) \in Nat
    BY PipelineAssumption, FS_CardinalityType
  <2> QED
    BY <2>1, <2>2, KnowingIsFinite
<1> QED
  BY <1>1, <1>2, <1>3, TypeCorrect, PTL DEF Spec

-----------------------------------------------------------------------------
(***************************************************************************)
(* Conservation of stock.  Every step is a step of OrderLifecycle, so that *)
(* it is enough to look at the four things OrderLifecycle lets happen.     *)
(* The inductive invariant keeps the ledger of StockConserved monotone:    *)
(* then a step that changes one line of it shifts the running totals from  *)
(* that line on, and no induction over the orders is needed.               *)
(***************************************************************************)

Monotone(acc) == \A i, j \in 0..MaxOrders : i <= j => acc[i] <= acc[j]

Held(o, p) == Lifecycle!Held(o, p)

Ledger(acc, p) ==
  /\ acc \in [0..MaxOrders -> Nat]
  /\ acc[0] = 0 /\ \A o \in Orders : acc[o] = acc[o - 1] + Held(o, p)
  /\ Monotone(acc)
  /\ inventory[p] + acc[MaxOrders] = InitialStock[p]

LedgerInv == \A p \in Products : \E acc : Ledger(acc, p)

\* The ledger after line k has grown by q: every total from k on grows by q.
LEMMA LedgerGrows ==
  ASSUME NEW acc \in [0..MaxOrders -> Nat], MaxOrders \in Nat, Monotone(acc),
         NEW k \in 1..MaxOrders, NEW q \in Nat,
         NEW new, new = [i \in 0..MaxOrders |-> IF i >= k THEN acc[i] + q ELSE acc[i]]
  PROVE  new \in [0..MaxOrders -> Nat] /\ Monotone(new)
BY DEF Monotone

\* The ledger after line k, which was q or more, has shrunk by q.
LEMMA LedgerShrinks ==
  ASSUME NEW acc \in [0..MaxOrders -> Nat], MaxOrders \in Nat, Monotone(acc),
         NEW k \in 1..MaxOrders, NEW q \in Nat, acc[k] = acc[k - 1] + q,
         NEW new, new = [i \in 0..MaxOrders |-> IF i >= k THEN acc[i] - q ELSE acc[i]]
  PROVE  new \in [0..MaxOrders -> Nat] /\ Monotone(new)
<1>1. \A i \in 0..MaxOrders : i >= k => acc[i] >= acc[k]
  BY DEF Monotone
<1>2. acc[k] >= q
  BY k - 1 \in 0..MaxOrders, acc[k - 1] \in Nat, acc[k] \in Nat
<1>3. new \in [0..MaxOrders -> Nat]
  BY <1>1, <1>2
<1>4. ASSUME NEW i \in 0..MaxOrders, NEW j \in 0..MaxOrders, i <= j
      PROVE  new[i] <= new[j]
  <2>1. acc[i] <= acc[j]
    BY <1>4 DEF Monotone
  <2>2. CASE i < k /\ j >= k
    <3>1. acc[i] <= acc[k - 1] /\ acc[k] <= acc[j]
      BY <2>2, k - 1 \in 0..MaxOrders, i <= k - 1 DEF Monotone
    <3> QED
      BY <2>2, <3>1, k - 1 \in 0..MaxOrders, acc[k - 1] \in Nat, acc[k] \in Nat
  <2> QED
    BY <1>4, <2>1, <2>2
<1> QED
  BY <1>3, <1>4 DEF Monotone

\* Placing an order moves its cart from the stock to the order's line.
LEMMA PlaceKeepsLedger ==
  ASSUME StoreTypeOK, LedgerInv,
         NEW o \in Orders, NEW cart \in Carts, Lifecycle!Place(o, cart)
  PROVE  LedgerInv'
<1> SUFFICES ASSUME NEW p \in Products PROVE \E acc : Ledger(acc, p)'
  BY DEF LedgerInv
<1>1. PICK acc : Ledger(acc, p)
  BY DEF LedgerInv
<1>q. PICK q \in Nat : q = cart[p]
  BY StoreAssumption
<1> DEFINE new == [i \in 0..MaxOrders |-> IF i >= o THEN acc[i] + q ELSE acc[i]]
<1>2. q \in Nat /\ MaxOrders \in Nat /\ o \in 1..MaxOrders
  BY StoreAssumption DEF Orders
<1>3. new \in [0..MaxOrders -> Nat] /\ Monotone(new)
  BY <1>1, <1>2, LedgerGrows DEF Ledger
<1>4. /\ Held(o, p) = 0 /\ Held(o, p)' = q
      /\ \A x \in Orders : x # o => Held(x, p)' = Held(x, p)
  BY <1>q DEF Held, Lifecycle!Held, Lifecycle!Place, StoreTypeOK, OrderStatuses
<1>5. new[0] = 0 /\ \A x \in Orders : new[x] = new[x - 1] + Held(x, p)'
  <2>1. acc[0] = 0 /\ new[0] = 0
    BY <1>1, <1>2 DEF Ledger
  <2>2. ASSUME NEW x \in Orders PROVE new[x] = new[x - 1] + Held(x, p)'
    <3>1. x \in 0..MaxOrders /\ x - 1 \in 0..MaxOrders
      BY <1>2 DEF Orders
    <3>2. acc[x] = acc[x - 1] + Held(x, p) /\ acc[x] \in Nat /\ acc[x - 1] \in Nat
      BY <1>1, <3>1 DEF Ledger
    <3>3. Held(x, p) \in Nat
      BY DEF Held, Lifecycle!Held, StoreTypeOK
    <3> QED
      BY <1>2, <1>4, <3>1, <3>2, <3>3 DEF Orders
  <2> QED
    BY <2>1, <2>2
<1>6. inventory'[p] + new[MaxOrders] = InitialStock[p]
  <2>1. inventory'[p] = inventory[p] - q /\ inventory[p] \in Nat
    BY <1>q DEF Lifecycle!Place, StoreTypeOK
  <2>2. new[MaxOrders] = acc[MaxOrders] + q /\ acc[MaxOrders] \in Nat
    BY <1>1, <1>2 DEF Ledger
  <2> QED
    BY <1>1, <1>2, <2>1, <2>2 DEF Ledger
<1>7. Ledger(new, p)'
  BY <1>3, <1>5, <1>6 DEF Ledger, Monotone
<1> QED
  BY <1>7

\* Cancelling an order moves its cart back, once.
LEMMA CancelKeepsLedger ==
  ASSUME StoreTypeOK, LedgerInv, NEW o \in Orders, Lifecycle!Cancel(o)
  PROVE  LedgerInv'
<1> SUFFICES ASSUME NEW p \in Products PROVE \E acc : Ledger(acc, p)'
  BY DEF LedgerInv
<1>1. PICK acc : Ledger(acc, p)
  BY DEF LedgerInv
<1>q. PICK q \in Nat : q = items[o][p]
  BY DEF StoreTypeOK
<1> DEFINE new == [i \in 0..MaxOrders |-> IF i >= o THEN acc[i] - q ELSE acc[i]]
<1>2. q \in Nat /\ MaxOrders \in Nat /\ o \in 1..MaxOrders
  BY StoreAssumption DEF Orders
<1>3. /\ Held(o, p) = q /\ Held(o, p)' = 0
      /\ \A x \in Orders : x # o => Held(x, p)' = Held(x, p)
  BY <1>q DEF Held, Lifecycle!Held, Lifecycle!Cancel, StoreTypeOK, OrderStatuses
<1>4. acc[o] = acc[o - 1] + q
  BY <1>1, <1>3 DEF Ledger
<1>5. new \in [0..MaxOrders -> Nat] /\ Monotone(new)
  BY <1>1, <1>2, <1>4, LedgerShrinks DEF Ledger
<1>6. new[0] = 0 /\ \A x \in Orders : new[x] = new[x - 1] + Held(x, p)'
  <2>1. acc[0] = 0 /\ new[0] = 0
    BY <1>1, <1>2 DEF Ledger
  <2>2. ASSUME NEW x \in Orders PROVE new[x] = new[x - 1] + Held(x, p)'
    <3>1. x \in 0..MaxOrders /\ x - 1 \in 0..MaxOrders
      BY <1>2 DEF Orders
    <3>2. acc[x] = acc[x - 1] + Held(x, p) /\ acc[x] \in Nat /\ acc[x - 1] \in Nat
      BY <1>1, <3>1 DEF Ledger
    <3>3. Held(x, p) \in Nat
      BY DEF Held, Lifecycle!Held, StoreTypeOK
    <3> QED
      BY <1>2, <1>3, <3>1, <3>2, <3>3 DEF Orders
  <2> QED
    BY <2>1, <2>2
<1>7. inventory'[p] + new[MaxOrders] = InitialStock[p]
  <2>1. inventory'[p] = inventory[p] + q /\ inventory[p] \in Nat
    BY <1>q DEF Lifecycle!Cancel, StoreTypeOK
  <2>2. new[MaxOrders] = acc[MaxOrders] - q /\ acc[MaxOrders] \in Nat
    BY <1>1, <1>2 DEF Ledger
  <2> QED
    BY <1>1, <1>2, <2>1, <2>2 DEF Ledger
<1>8. Ledger(new, p)'
  BY <1>5, <1>6, <1>7 DEF Ledger, Monotone
<1> QED
  BY <1>8

\* Steps that leave what every order holds, and the stock, alone.
LEMMA SameHoldingsKeepLedger ==
  ASSUME LedgerInv, UNCHANGED inventory,
         \A x \in Orders, p \in Products : Held(x, p)' = Held(x, p)
  PROVE  LedgerInv'
BY DEF LedgerInv, Ledger, Monotone

LEMMA LedgerStep ==
  ASSUME StoreTypeOK, LedgerInv, [Lifecycle!Next]_(Lifecycle!vars) PROVE LedgerInv'
<1>1. ASSUME NEW o \in Orders, NEW cart \in Carts, Lifecycle!Place(o, cart) PROVE LedgerInv'
  BY <1>1, PlaceKeepsLedger
<1>2. ASSUME NEW o \in Orders, Lifecycle!Confirm(o) PROVE LedgerInv'
  <2>1. \A x \in Orders, p \in Products : Held(x, p)' = Held(x, p)
    BY <1>2 DEF Held, Lifecycle!Held, Lifecycle!Confirm, StoreTypeOK
  <2> QED
    BY <1>2, <2>1, SameHoldingsKeepLedger DEF Lifecycle!Confirm
<1>3. ASSUME NEW o \in Orders, Lifecycle!Cancel(o) PROVE LedgerInv'
  BY <1>3, CancelKeepsLedger
<1>4. ASSUME NEW o \in Orders, Lifecycle!Tell(o) PROVE LedgerInv'
  BY <1>4, SameHoldingsKeepLedger DEF Held, Lifecycle!Held, Lifecycle!Tell
<1>5. CASE UNCHANGED Lifecycle!vars
  BY <1>5, SameHoldingsKeepLedger DEF Held, Lifecycle!Held, Lifecycle!vars
<1> QED
  BY <1>1, <1>2, <1>3, <1>4, <1>5 DEF Lifecycle!Next, Lifecycle!Orders, Orders

\* Before the first order every line of the ledger is zero.
LEMMA LedgerInit ==
  ASSUME Init PROVE LedgerInv
<1>1. ASSUME NEW p \in Products
      PROVE  Ledger([i \in 0..MaxOrders |-> 0], p)
  BY StoreAssumption
  DEF Init, StoreInit, Ledger, Monotone, Held, Lifecycle!Held, Orders
<1> QED
  BY <1>1 DEF LedgerInv

\* The ledger's totals are bounded by the initial stock.
LEMMA LedgerConserves ==
  ASSUME StoreTypeOK, LedgerInv PROVE StockConserved
<1> SUFFICES ASSUME NEW p \in Products
             PROVE  \E acc \in [0..MaxOrders -> 0..InitialStock[p]] :
                      /\ Lifecycle!RunningTotal(acc, p)
                      /\ inventory[p] + acc[MaxOrders] = InitialStock[p]
  BY DEF StockConserved, Lifecycle!StockConserved
<1>1. PICK acc : Ledger(acc, p)
  BY DEF LedgerInv
<1>2. inventory[p] \in Nat /\ MaxOrders \in Nat /\ InitialStock[p] \in Nat
  BY StoreAssumption DEF StoreTypeOK
<1>3. acc[MaxOrders] <= InitialStock[p]
  BY <1>1, <1>2 DEF Ledger
<1>4. \A i \in 0..MaxOrders : acc[i] \in 0..InitialStock[p]
  BY <1>1, <1>2, <1>3 DEF Ledger, Monotone
<1>5. Lifecycle!RunningTotal(acc, p)
  BY <1>1 DEF Ledger, Held, Lifecycle!RunningTotal, Lifecycle!Orders, Orders
<1> QED
  BY <1>1, <1>4, <1>5 DEF Ledger

\* No sequence of requests, sweeps, retries and crashes loses a unit of stock or
\* gives one back twice, for any number of orders, any catalogue and any carts.
THEOREM PipelineConservesStock == Spec => []StockConserved
<1>1. Init => LedgerInv
  BY LedgerInit
<1>2. AInv /\ LedgerInv /\ [Next]_vars => LedgerInv'
  BY ImplementsStep, LedgerStep DEF AInv, TypeOK
<1>3. AInv /\ LedgerInv => StockConserved
  BY LedgerConserves DEF AInv, TypeOK
<1> QED
  BY <1>1, <1>2, <1>3, AInvariant, PTL DEF Spec

=============================================================================
