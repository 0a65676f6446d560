------------------------ MODULE ServerLifecycleProofs ------------------------
(***************************************************************************)
(* Proofs about ServerLifecycle, for any number of requests and workers    *)
(* and any queue, none and an unbuffered one included.                     *)
(*                                                                         *)
(* What the properties say of a moment follows from how far Run has got:   *)
(* PhaseInv ties the state of every goroutine to the stopper Run is in.    *)
(***************************************************************************)
EXTENDS ServerLifecycle, TLAPS

Draining == {"sweep", "sweeper", "quit", "jobs", "wait", "hub", "db", "redis", "end"}
PastSweeper == {"quit", "jobs", "wait", "hub", "db", "redis", "end"}
PastClose == {"wait", "hub", "db", "redis", "end"}
PastPool == {"hub", "db", "redis", "end"}

\* A worker leaves only a closed and empty queue, and all have left when Run
\* goes on to the hub.
WorkersLeaveLast ==
  /\ \A w \in Workers : wk[w] = "exit" => jobsClosed /\ jobs = 0
  /\ main \in PastPool => \A w \in Workers : wk[w] = "exit"

PhaseInv ==
  /\ TypeOK
  /\ sweeper = "enqueue" => batch > 0
  /\ jobsClosed => main \in PastClose
  /\ main \in PastSweeper => sweeper = "done"
  /\ WorkersLeaveLast
  /\ hubDone => main \in PastPool
  /\ dbClosed => hubDone
  /\ main \in {"db", "redis", "end"} => hubDone
  /\ dbClosed => main \in {"redis", "end"}
  /\ "sweeper" \notin panicked

\* When the drain succeeds no request is at work after it.
DrainInv ==
  /\ rushed => main \in Draining
  /\ ~rushed /\ main \in Draining => \A r \in Requests : req[r] \in {"idle", "done"}
  /\ ~rushed => panicked = {}

LEMMA PhaseInvHolds == Spec => []PhaseInv
<1>1. Init => PhaseInv
  <2> SUFFICES ASSUME Init PROVE PhaseInv
    OBVIOUS
  <2> USE DEF Init, NewSweeper, NewPool
  <2>1. TypeOK
    <3>1. {rushed, sweepQuit, poolQuit, jobsClosed, hubDone, dbClosed} \subseteq BOOLEAN
      OBVIOUS
    <3>2. jobs \in 0..QueueSize /\ batch \in 0..SweepBatch
      BY LifecycleAssumption
    <3>3. QED
      BY <3>1, <3>2 DEF TypeOK, Phases
  <2>2. QED
    BY <2>1 DEF PhaseInv, WorkersLeaveLast, PastClose, PastSweeper, PastPool
<1>2. PhaseInv /\ [Next]_vars => PhaseInv'
  <2> SUFFICES ASSUME PhaseInv, [Next]_vars PROVE PhaseInv'
    OBVIOUS
  <2> USE LifecycleAssumption
      DEF PhaseInv, TypeOK, Phases, WorkersLeaveLast, PastClose, PastSweeper, PastPool,
          poolVars, sweepVars
  <2>1. CASE New BY <2>1 DEF New, StartPool, StartSweeper
  <2>2. CASE NewFails BY <2>2 DEF NewFails
  <2>3. CASE Signal BY <2>3 DEF Signal
  <2>4. CASE HTTPStopped BY <2>4 DEF HTTPStopped
  <2>5. CASE StopSweeper BY <2>5 DEF StopSweeper
  <2>6. CASE SweeperStopped BY <2>6 DEF SweeperStopped
  <2>7. CASE CloseQuit BY <2>7 DEF CloseQuit
  <2>8. CASE CloseJobs BY <2>8 DEF CloseJobs
  <2>9. CASE PoolStopped BY <2>9 DEF PoolStopped
  <2>10. CASE StopHub BY <2>10 DEF StopHub
  <2>11. CASE StopDB BY <2>11 DEF StopDB
  <2>12. CASE StopRedis BY <2>12 DEF StopRedis
  <2>13. ASSUME NEW r \in Requests, Request(r) PROVE PhaseInv'
    BY <2>13 DEF Request
  <2>14. ASSUME NEW r \in Requests, Persist(r) \/ PersistFails(r) PROVE PhaseInv'
    BY <2>14 DEF Persist, PersistFails
  <2>15. ASSUME NEW r \in Requests, HandOff(r) PROVE PhaseInv'
    BY <2>15 DEF HandOff, Process, WorkerTo
  <2>16. ASSUME NEW n \in 0..SweepBatch, SweepList(n) PROVE PhaseInv'
    BY <2>16 DEF SweepList
  <2>17. CASE SweepProcess BY <2>17 DEF SweepProcess, Process, WorkerTo
  <2>18. CASE SweepTick \/ SweepQuits BY <2>18 DEF SweepTick, SweepQuits
  <2>19. ASSUME NEW w \in Workers, Receive(w) PROVE PhaseInv'
    BY <2>19 DEF Receive, WorkerTo
  <2>20. ASSUME NEW w \in Workers, NEW next \in {"receive", "notify"}, Fulfill(w, next)
         PROVE PhaseInv'
    BY <2>20 DEF Fulfill, WorkerTo
  <2>21. ASSUME NEW w \in Workers, Notify(w) PROVE PhaseInv'
    BY <2>21 DEF Notify, WorkerTo
  <2>22. ASSUME NEW w \in Workers, RangeEnds(w) PROVE PhaseInv'
    BY <2>22 DEF RangeEnds, WorkerTo
  <2>23. CASE UNCHANGED vars BY <2>23 DEF vars
  <2>24. QED
    BY <2>1, <2>2, <2>3, <2>4, <2>5, <2>6, <2>7, <2>8, <2>9, <2>10, <2>11, <2>12, <2>13,
       <2>14, <2>15, <2>16, <2>17, <2>18, <2>19, <2>20, <2>21, <2>22, <2>23
    DEF Next, Shutdown, Handle, Sweep, Work
<1>3. QED
  BY <1>1, <1>2, PTL DEF Spec

\* The type invariant of the process: in particular no queue overflows and no
\* sweep enqueues more than it listed.
THEOREM TypeCorrect == Spec => []TypeOK
<1>1. PhaseInv => TypeOK
  BY DEF PhaseInv
<1>2. QED
  BY <1>1, PhaseInvHolds, PTL

\* The sweeper's goroutine never sends on the closed queue: Sweeper.Stop waits
\* for it before Run calls Pool.Stop.
THEOREM SweeperIsSafe == Spec => []SweeperNeverPanics
<1>1. PhaseInv => SweeperNeverPanics
  BY DEF PhaseInv, SweeperNeverPanics
<1>2. QED
  BY <1>1, PhaseInvHolds, PTL

LEMMA DrainInvHolds == Spec => []DrainInv
<1>1. Init => DrainInv
  BY DEF Init, DrainInv, Draining
<1>2. PhaseInv /\ DrainInv /\ [Next]_vars => DrainInv'
  <2> SUFFICES ASSUME PhaseInv, DrainInv, [Next]_vars PROVE DrainInv'
    OBVIOUS
  <2> USE DEF DrainInv, Draining
  <2>0. /\ req \in [Requests -> {"idle", "db", "process", "done"}]
        /\ jobsClosed => main \in PastClose
        /\ main \in PastSweeper => sweeper = "done"
    BY DEF PhaseInv, TypeOK
  <2>1. CASE New \/ NewFails \/ Signal
    BY <2>1 DEF New, NewFails, Signal
  <2>2. CASE Shutdown
    <3>1. CASE HTTPStopped
      BY <2>0, <3>1 DEF HTTPStopped, Serving
    <3>2. CASE ~HTTPStopped
      BY <2>2, <3>2 DEF Shutdown, StopSweeper, SweeperStopped, CloseQuit, CloseJobs,
                        PoolStopped, StopHub, StopDB, StopRedis
    <3>3. QED BY <3>1, <3>2
  <2>3. ASSUME NEW r \in Requests, Request(r) PROVE DrainInv'
    BY <2>0, <2>3 DEF Request
  <2>4. ASSUME NEW r \in Requests, Handle(r) PROVE DrainInv'
    BY <2>0, <2>4 DEF Handle, Persist, PersistFails, HandOff, Process, PastClose
  <2>5. CASE Sweep \/ SweepTick \/ SweepQuits
    BY <2>0, <2>5 DEF Sweep, SweepList, SweepProcess, Process, SweepTick, SweepQuits,
                      PastClose, PastSweeper
  <2>6. ASSUME NEW w \in Workers, Work(w) PROVE DrainInv'
    BY <2>6 DEF Work, Receive, Fulfill, Notify, RangeEnds
  <2>7. CASE UNCHANGED vars BY <2>7 DEF vars
  <2>8. QED BY <2>1, <2>2, <2>3, <2>4, <2>5, <2>6, <2>7 DEF Next
<1>3. QED
  BY <1>1, <1>2, PhaseInvHolds, PTL DEF Spec

\* If Shutdown returns because no connection is in use, no goroutine at all sends
\* on the closed queue.
THEOREM DrainedMeansSafe == Spec => []DrainedQueueIsSafe
<1>1. DrainInv => DrainedQueueIsSafe
  BY DEF DrainInv, DrainedQueueIsSafe
<1>2. QED
  BY <1>1, DrainInvHolds, PTL

\* The hub stops only when all workers are gone, with no order queued if there are
\* any workers, and the database is closed only when the sweeper is gone too and,
\* unless the drain timed out, no order request is being served: the order of Run's
\* stoppers sees to it.
THEOREM StoppersAreInOrder == Spec => []NothingIsPulledAway
<1>1. PhaseInv /\ DrainInv => NothingIsPulledAway
  <2> SUFFICES ASSUME PhaseInv, DrainInv PROVE NothingIsPulledAway
    OBVIOUS
  <2>1. hubDone => /\ \A w \in Workers : wk[w] = "exit"
                   /\ jobs = 0 \/ Workers = {}
    BY DEF PhaseInv, WorkersLeaveLast
  <2>2. dbClosed => hubDone /\ sweeper = "done"
    BY DEF PhaseInv, PastSweeper
  <2>3. dbClosed /\ ~rushed => ~Serving
    BY DEF PhaseInv, DrainInv, Draining, Serving
  <2>4. QED
    BY <2>1, <2>2, <2>3 DEF NothingIsPulledAway
<1>2. QED
  BY <1>1, PhaseInvHolds, DrainInvHolds, PTL

=============================================================================
