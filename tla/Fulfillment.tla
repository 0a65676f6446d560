----------------------------- MODULE Fulfillment -----------------------------
(***************************************************************************)
(* The life of an order between the transaction that creates it and the    *)
(* transaction that decides it: the hand-off to the worker pool, the       *)
(* pool's queue, the workers running Fulfill, the sweeper, the payment     *)
(* gateway, the notification rows, and crashes.                            *)
(*                                                                         *)
(* Several server processes (k8s/deployment.yaml runs two replicas) share  *)
(* the tables of OrderStore.  Everything else is a process's own memory,   *)
(* the fake gateway's map of charged keys included, and a crash loses it.  *)
(*                                                                         *)
(* A worker takes one step per call that leaves the process (a query, a    *)
(* charge), so that steps of other workers, sweeps and crashes fall        *)
(* between them.  A transaction may commit and still return an error: the  *)
(* context's deadline or the connection may go while the commit is         *)
(* answered.  Such steps end in "Unacked".                                 *)
(***************************************************************************)
EXTENDS OrderStore

CONSTANTS
  Procs,            \* the server processes
  Workers,          \* all worker goroutines
  ProcOf,           \* the process a worker belongs to
  QueueSize,        \* WORKER_QUEUE_SIZE, the capacity of a pool's queue
  SweepBatchSize,   \* WORKER_SWEEP_BATCH_SIZE
  MaxRetries,       \* WORKER_MAX_RETRIES, charge attempts per run
  ChargeTimesOut,   \* whether a charge may outlast WORKER_ATTEMPT_TIMEOUT
  MaxCrashes        \* bound: how many crashes happen

ASSUME PipelineAssumption ==
  /\ IsFiniteSet(Procs)
  /\ ProcOf \in [Workers -> Procs]
  /\ QueueSize \in Nat \ {0}
  /\ SweepBatchSize \in Int
  /\ MaxRetries \in Nat
  /\ ChargeTimesOut \in BOOLEAN
  /\ MaxCrashes \in Nat

VARIABLES
  handoff,   \* per process: orders committed, Process not yet called
  jobs,      \* per process: the pool's queue
  wk,        \* per worker: its step, the order it runs, its local variables
  batch,     \* per process: what the sweeper has still to re-enqueue
  charged,   \* per process: fakeGateway.charged, the charge of each order's key
  charges,   \* history: how many charges of the order any gateway accepted
  notes,     \* the notification rows of each order, by id
  crashes    \* crashes so far

pipeVars == <<handoff, jobs, wk, batch, charged, charges, notes, crashes>>
vars == <<storeVars, pipeVars>>

\* A worker at step pc of order o, its other local variables not yet set.
At(pc, o) == [pc |-> pc, order |-> o, attempt |-> 0, txn |-> NoTxn, msg |-> "", row |-> 0]
Idle == At("idle", 0)
PCs == {"idle", "load", "charge", "confirm", "cancel", "notify", "push"}
NoteStatuses == {"pending", "sent", "failed"}

TypeOK ==
  /\ StoreTypeOK
  /\ handoff \in [Procs -> SUBSET Orders]
  /\ jobs \in [Procs -> Seq(Orders)]
  /\ wk \in [Workers -> [pc : PCs, order : 0..MaxOrders, attempt : Nat, txn : Nat,
                         msg : Decided \cup {""}, row : Nat]]
  /\ \A w \in Workers : wk[w].pc # "idle" => wk[w].order \in Orders
  /\ \A w \in Workers : wk[w].pc = "notify" => wk[w].msg \in Decided
  /\ batch \in [Procs -> SUBSET Orders]
  /\ charged \in [Procs -> [Orders -> Nat]]
  /\ charges \in [Orders -> Nat]
  /\ notes \in [Orders -> Seq([message : Decided, status : NoteStatuses])]
  /\ crashes \in Nat

Init ==
  /\ StoreInit
  /\ handoff = [p \in Procs |-> {}]
  /\ jobs = [p \in Procs |-> <<>>]
  /\ wk = [w \in Workers |-> Idle]
  /\ batch = [p \in Procs |-> {}]
  /\ charged = [p \in Procs |-> [o \in Orders |-> 0]]
  /\ charges = [o \in Orders |-> 0]
  /\ notes = [o \in Orders |-> <<>>]
  /\ crashes = 0

-----------------------------------------------------------------------------
(***************************************************************************)
(* Creating an order and handing it to the pool.                           *)
(***************************************************************************)

CreateOrder(p, o, cart) ==
  /\ CreateOrderTx(o, cart)
  /\ handoff' = [handoff EXCEPT ![p] = @ \cup {o}]
  /\ UNCHANGED <<jobs, wk, batch, charged, charges, notes, crashes>>

\* The service sees an error and returns it: nobody calls Process.
CreateOrderUnacked(o, cart) ==
  /\ CreateOrderTx(o, cart)
  /\ UNCHANGED pipeVars

\* Pool.Process never blocks: a full queue drops the order.
Enqueue(p, o) ==
  jobs' = IF Len(jobs[p]) < QueueSize
          THEN [jobs EXCEPT ![p] = Append(@, o)]
          ELSE jobs

Process(p, o) ==
  /\ o \in handoff[p]
  /\ handoff' = [handoff EXCEPT ![p] = @ \ {o}]
  /\ Enqueue(p, o)
  /\ UNCHANGED <<storeVars, wk, batch, charged, charges, notes, crashes>>

-----------------------------------------------------------------------------
(***************************************************************************)
(* The sweeper: list once per tick, then re-enqueue oldest first.          *)
(***************************************************************************)

SweepLimit == IF SweepBatchSize <= 0 THEN QueueSize ELSE SweepBatchSize

SweepList(p) ==
  /\ batch[p] = {}
  /\ batch' = [batch EXCEPT ![p] = ListStalePending(SweepLimit)]
  /\ UNCHANGED <<storeVars, handoff, jobs, wk, charged, charges, notes, crashes>>

SweepProcess(p, o) ==
  /\ o \in batch[p]
  /\ \A other \in batch[p] : o <= other
  /\ batch' = [batch EXCEPT ![p] = @ \ {o}]
  /\ Enqueue(p, o)
  /\ UNCHANGED <<storeVars, handoff, wk, charged, charges, notes, crashes>>

-----------------------------------------------------------------------------
(***************************************************************************)
(* A worker: receive a job and run Fulfill on it.                          *)
(***************************************************************************)

Goto(w, r) == wk' = [wk EXCEPT ![w] = r]

Receive(w) ==
  LET p == ProcOf[w] IN
  /\ wk[w].pc = "idle"
  /\ jobs[p] # <<>>
  /\ Goto(w, At("load", Head(jobs[p])))
  /\ jobs' = [jobs EXCEPT ![p] = Tail(@)]
  /\ UNCHANGED <<storeVars, handoff, batch, charged, charges, notes, crashes>>

\* With no attempt to make the loop of charge ends at once, with a nil error.
FirstAttempt(r) ==
  [r EXCEPT !.pc = IF MaxRetries = 0 THEN "confirm" ELSE "charge", !.attempt = 1]

Load(w) ==
  /\ wk[w].pc = "load"
  /\ Goto(w, IF PaymentPending(wk[w].order) THEN FirstAttempt(wk[w]) ELSE Idle)
  /\ UNCHANGED <<storeVars, handoff, jobs, batch, charged, charges, notes, crashes>>

LoadError(w) ==
  /\ wk[w].pc = "load"
  /\ Goto(w, Idle)
  /\ UNCHANGED <<storeVars, handoff, jobs, batch, charged, charges, notes, crashes>>

\* The gateway knows the key: the result of the first charge again.
ChargeReplayed(w) ==
  LET o == wk[w].order
      known == charged[ProcOf[w]][o] IN
  /\ wk[w].pc = "charge"
  /\ known # 0
  /\ Goto(w, [wk[w] EXCEPT !.pc = "confirm", !.txn = known])
  /\ UNCHANGED <<storeVars, handoff, jobs, batch, charged, charges, notes, crashes>>

\* Mutant of ChargeAccepted: the key is not remembered.
ChargeForgotten(w) ==
  LET o == wk[w].order
      new == charges[o] + 1 IN
  /\ wk[w].pc = "charge"
  /\ charged[ProcOf[w]][o] = 0
  /\ charges' = [charges EXCEPT ![o] = new]
  /\ Goto(w, [wk[w] EXCEPT !.pc = "confirm", !.txn = new])
  /\ UNCHANGED <<storeVars, handoff, jobs, batch, charged, notes, crashes>>

ChargeAccepted(w) ==
  LET o == wk[w].order
      new == charges[o] + 1 IN
  /\ wk[w].pc = "charge"
  /\ charged[ProcOf[w]][o] = 0
  /\ charges' = [charges EXCEPT ![o] = new]
  /\ charged' = [charged EXCEPT ![ProcOf[w]][o] = new]
  /\ Goto(w, [wk[w] EXCEPT !.pc = "confirm", !.txn = new])
  /\ UNCHANGED <<storeVars, handoff, jobs, batch, notes, crashes>>

\* Mutant of ChargeFailed: the loop's last error is not returned.
ChargeErrorLost(w) ==
  /\ wk[w].pc = "charge"
  /\ ChargeTimesOut \/ charged[ProcOf[w]][wk[w].order] = 0
  /\ Goto(w, IF wk[w].attempt < MaxRetries
             THEN [wk[w] EXCEPT !.attempt = @ + 1]
             ELSE [wk[w] EXCEPT !.pc = "confirm"])
  /\ UNCHANGED <<storeVars, handoff, jobs, batch, charged, charges, notes, crashes>>

\* A simulated failure of a key not charged yet, or the attempt's deadline,
\* which fires before anything is charged.
ChargeFailed(w) ==
  /\ wk[w].pc = "charge"
  /\ ChargeTimesOut \/ charged[ProcOf[w]][wk[w].order] = 0
  /\ Goto(w, IF wk[w].attempt < MaxRetries
             THEN [wk[w] EXCEPT !.attempt = @ + 1]
             ELSE [wk[w] EXCEPT !.pc = "cancel"])
  /\ UNCHANGED <<storeVars, handoff, jobs, batch, charged, charges, notes, crashes>>

\* Mutant of AfterTransition: transitioned is not looked at.
AnnounceAlways(w, msg) == Goto(w, [wk[w] EXCEPT !.pc = "notify", !.msg = msg])

\* The worker whose update affected the row announces it; others have done.
AfterTransition(w, msg) ==
  Goto(w, IF PaymentPending(wk[w].order)
          THEN [wk[w] EXCEPT !.pc = "notify", !.msg = msg]
          ELSE Idle)

MarkPaid(w) ==
  /\ wk[w].pc = "confirm"
  /\ MarkPaidAndConfirm(wk[w].order, wk[w].txn)
  /\ AfterTransition(w, "confirmed")
  /\ UNCHANGED <<handoff, jobs, batch, charged, charges, notes, crashes>>

MarkPaidUnacked(w) ==
  /\ wk[w].pc = "confirm"
  /\ MarkPaidAndConfirm(wk[w].order, wk[w].txn)
  /\ Goto(w, Idle)
  /\ UNCHANGED <<handoff, jobs, batch, charged, charges, notes, crashes>>

FailCancel(w) ==
  /\ wk[w].pc = "cancel"
  /\ FailCancelAndRestock(wk[w].order)
  /\ AfterTransition(w, "cancelled")
  /\ UNCHANGED <<handoff, jobs, batch, charged, charges, notes, crashes>>

FailCancelUnacked(w) ==
  /\ wk[w].pc = "cancel"
  /\ FailCancelAndRestock(wk[w].order)
  /\ Goto(w, Idle)
  /\ UNCHANGED <<handoff, jobs, batch, charged, charges, notes, crashes>>

\* Rolled back: the order stays pending until a sweep finds it.
FinalizeError(w) ==
  /\ wk[w].pc \in {"confirm", "cancel"}
  /\ Goto(w, Idle)
  /\ UNCHANGED <<storeVars, handoff, jobs, batch, charged, charges, notes, crashes>>

\* NotificationService.Send, first half: the row is inserted as pending.
CreateNote(w) ==
  LET o == wk[w].order IN
  /\ wk[w].pc = "notify"
  /\ notes' = [notes EXCEPT ![o] = Append(@, [message |-> wk[w].msg, status |-> "pending"])]
  /\ Goto(w, [wk[w] EXCEPT !.pc = "push", !.row = Len(notes[o]) + 1])
  /\ UNCHANGED <<storeVars, handoff, jobs, batch, charged, charges, crashes>>

CreateNoteUnacked(w) ==
  /\ wk[w].pc = "notify"
  /\ notes' = [notes EXCEPT ![wk[w].order] =
                 Append(@, [message |-> wk[w].msg, status |-> "pending"])]
  /\ Goto(w, Idle)
  /\ UNCHANGED <<storeVars, handoff, jobs, batch, charged, charges, crashes>>

CreateNoteError(w) ==
  /\ wk[w].pc = "notify"
  /\ Goto(w, Idle)
  /\ UNCHANGED <<storeVars, handoff, jobs, batch, charged, charges, notes, crashes>>

\* MarkSent, MarkFailed: UPDATE notifications SET status = s WHERE id = i.
MarkRow(rows, i, s) == [rows EXCEPT ![i] = [@ EXCEPT !.status = s]]

\* Second half: push to the hub, then record whether a client took it.  When
\* recording fails the row stays pending.
PushAndMark(w, outcome) ==
  LET r == wk[w] IN
  /\ r.pc = "push"
  /\ notes' = [notes EXCEPT ![r.order] = MarkRow(@, r.row, outcome)]
  /\ Goto(w, Idle)
  /\ UNCHANGED <<storeVars, handoff, jobs, batch, charged, charges, crashes>>

-----------------------------------------------------------------------------

\* The process dies and is started again: its tables survive, nothing else does.
Crash(p) ==
  /\ crashes < MaxCrashes
  /\ crashes' = crashes + 1
  /\ handoff' = [handoff EXCEPT ![p] = {}]
  /\ jobs' = [jobs EXCEPT ![p] = <<>>]
  /\ wk' = [w \in Workers |-> IF ProcOf[w] = p THEN Idle ELSE wk[w]]
  /\ batch' = [batch EXCEPT ![p] = {}]
  /\ charged' = [charged EXCEPT ![p] = [o \in Orders |-> 0]]
  /\ UNCHANGED <<storeVars, charges, notes>>

ClockTick == PaymentAges /\ UNCHANGED pipeVars

Fulfill(w) ==
  \/ Load(w) \/ LoadError(w)
  \/ ChargeReplayed(w) \/ ChargeAccepted(w) \/ ChargeFailed(w)
  \/ MarkPaid(w) \/ MarkPaidUnacked(w)
  \/ FailCancel(w) \/ FailCancelUnacked(w)
  \/ FinalizeError(w)
  \/ CreateNote(w) \/ CreateNoteUnacked(w) \/ CreateNoteError(w)
  \/ \E outcome \in NoteStatuses : PushAndMark(w, outcome)

Api(p, o) ==
  \/ \E cart \in Carts : CreateOrder(p, o, cart)
  \/ Process(p, o)

Next ==
  \/ \E p \in Procs, o \in Orders : Api(p, o) \/ SweepProcess(p, o)
  \/ \E o \in Orders, cart \in Carts : CreateOrderUnacked(o, cart)
  \/ \E p \in Procs : SweepList(p) \/ Crash(p)
  \/ \E w \in Workers : Receive(w) \/ Fulfill(w)
  \/ ClockTick

Spec == Init /\ [][Next]_vars

(***************************************************************************)
(* Fairness.  Goroutines that can run do run, timers fire, and the         *)
(* database is not down for ever: a query or transaction that is tried     *)
(* again and again commits in the end.  Nothing is assumed of the charges  *)
(* (they may all fail) nor of the arrival of orders.                       *)
(***************************************************************************)
Decide(w) ==
  \/ MarkPaid(w) \/ MarkPaidUnacked(w)
  \/ FailCancel(w) \/ FailCancelUnacked(w)

Fairness ==
  /\ WF_vars(ClockTick)
  /\ \A p \in Procs :
       /\ WF_vars(SweepList(p))
       /\ WF_vars(\E o \in Orders : SweepProcess(p, o))
  /\ \A w \in Workers :
       /\ WF_vars(Receive(w) \/ Fulfill(w))
       /\ SF_vars(Load(w))
       /\ SF_vars(Decide(w))

LiveSpec == Spec /\ Fairness

-----------------------------------------------------------------------------

\* The notification messages of an order, in the order of their ids.
Messages(o) == [i \in DOMAIN notes[o] |-> notes[o][i].message]

Lifecycle == INSTANCE OrderLifecycle WITH
               status <- orders,
               stock <- inventory,
               told <- [o \in Orders |-> Messages(o)]

\* The pipeline, with all its retries, sweeps and crashes, only ever does to an
\* order what OrderLifecycle allows: place it whole, decide it once, announce
\* the decision at most once.
ImplementsLifecycle == Lifecycle!Spec

\* Every unit of stock is in the inventory or held by one order that is not
\* cancelled: CreateOrder and FailCancelAndRestock neither lose nor invent any,
\* however often an order is swept, run twice or interrupted by a crash.
StockConserved == Lifecycle!StockConserved

\* payments and orders never disagree on the fate of an order, although the two
\* final transactions guard only the payment and advance the order separately.
TablesAgree ==
  \A o \in Orders :
    <<orders[o], payments[o].status>> \in
      {<<"none", "none">>, <<"pending", "pending">>,
       <<"confirmed", "paid">>, <<"cancelled", "failed">>}

\* A payment marked paid carries the transaction id of a charge the gateway
\* really accepted for that order (MarkPaidAndConfirm records a successful
\* charge, after any number of failed attempts, replays and re-runs).
PaidIsCharged ==
  \A o \in Orders :
    payments[o].status = "paid" => payments[o].txn \in 1..charges[o]

\* At most one notification per order, and its message is the order's real
\* status (the claim of Fulfill's comment on transitioned), even when two
\* workers run the same order to opposite outcomes.
AnnouncedOnceAndTruly ==
  \A o \in Orders :
    /\ Len(notes[o]) <= 1
    /\ \A i \in DOMAIN notes[o] : notes[o][i].message = orders[o]

\* A decided payment is never decided again, nor its transaction id replaced
\* (the status = 'pending' guard of both final transactions).
DecidedIsFinal ==
  [][\A o \in Orders :
       payments[o].status \in {"paid", "failed"} => payments'[o] = payments[o]]_vars

\* A gateway accepts one charge per order in its process's life, however often
\* the order is swept, run by two workers at once or retried after a result was
\* not recorded (fakeGateway.Charge replays a key it knows).
ChargedOncePerGateway ==
  \A o \in Orders : charges[o] <= Cardinality(Procs) + crashes

\* A cancelled order has not been charged: the recorded outcome is the outcome
\* of the charge.
CancelledIsNotCharged ==
  \A o \in Orders : orders[o] = "cancelled" => charges[o] = 0

\* Every order that was created is decided in the end: one whose hand-off was
\* dropped, lost in a crash or never made is found by a sweep.
EveryOrderDecided ==
  \A o \in Orders : orders[o] = "pending" ~> orders[o] \in Decided

=============================================================================
