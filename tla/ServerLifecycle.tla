--------------------------- MODULE ServerLifecycle ---------------------------
(***************************************************************************)
(* One server process from server.New to the end of Server.Run: the        *)
(* stoppers called one after the other (HTTP, sweeper, pool, hub,          *)
(* database, Redis) while requests, the sweeper and the workers are still  *)
(* running.                                                                *)
(*                                                                         *)
(* What matters here is who may still use what, so a queued order is only  *)
(* counted and a worker's Fulfill is only "using the database" and "using  *)
(* the hub"; Fulfillment and NotificationHub say what they do.             *)
(***************************************************************************)
EXTENDS Integers

CONSTANTS
  Requests,        \* order requests, each sent once
  Workers,         \* WORKER_COUNT goroutines, perhaps none
  QueueSize,       \* WORKER_QUEUE_SIZE, perhaps 0
  SweepBatch       \* the most orders one sweep lists

ASSUME LifecycleAssumption ==
  /\ "sweeper" \notin Requests
  /\ QueueSize \in Nat
  /\ SweepBatch \in Nat

VARIABLES
  main,        \* where New and Run are
  rushed,      \* SHUTDOWN_TIMEOUT was up before the last connection was idle
  req,         \* per request: the step of its handler
  sweeper,     \* the step of Sweeper.run
  batch,       \* orders the sweep in progress has still to re-enqueue
  sweepQuit,   \* Sweeper.quit is closed
  jobs,        \* how many orders Pool.jobs buffers
  poolQuit,    \* Pool.quit is closed
  jobsClosed,  \* Pool.jobs is closed
  wk,          \* per worker: what its loop is doing
  hubDone,     \* Hub.done is closed
  dbClosed,    \* the database handle is closed
  panicked     \* goroutines that sent on a closed channel

vars == <<main, rushed, req, sweeper, batch, sweepQuit, jobs, poolQuit, jobsClosed, wk,
          hubDone, dbClosed, panicked>>
poolVars == <<jobs, poolQuit, jobsClosed>>
sweepVars == <<sweeper, batch, sweepQuit>>

Phases == {"new", "fatal", "serve", "http", "sweep", "sweeper", "quit", "jobs", "wait",
           "hub", "db", "redis", "end"}

TypeOK ==
  /\ main \in Phases
  /\ req \in [Requests -> {"idle", "db", "process", "done"}]
  /\ sweeper \in {"off", "list", "enqueue", "select", "done"}
  /\ batch \in 0..SweepBatch
  /\ jobs \in 0..QueueSize
  /\ {rushed, sweepQuit, poolQuit, jobsClosed, hubDone, dbClosed} \subseteq BOOLEAN
  /\ wk \in [Workers -> {"off", "receive", "db", "notify", "exit"}]
  /\ panicked \subseteq Requests \cup {"sweeper"}

NewSweeper == sweeper = "off" /\ batch = 0 /\ sweepQuit = FALSE

NewPool ==
  /\ jobs = 0 /\ poolQuit = FALSE /\ jobsClosed = FALSE
  /\ wk = [w \in Workers |-> "off"]

Init ==
  /\ main = "new" /\ rushed = FALSE
  /\ req = [r \in Requests |-> "idle"]
  /\ NewSweeper
  /\ NewPool
  /\ hubDone = FALSE /\ dbClosed = FALSE
  /\ panicked = {}

-----------------------------------------------------------------------------
(***************************************************************************)
(* New, and the stoppers in the order of Run's loop.                       *)
(***************************************************************************)

StartPool == wk' = [w \in Workers |-> "receive"]

\* The first sweep is made at once.
StartSweeper == sweeper' = "list"

\* pool.Start and sweeper.Start, then Run listens.
New ==
  /\ main = "new"
  /\ main' = "serve"
  /\ StartPool
  /\ StartSweeper
  /\ UNCHANGED <<rushed, req, batch, sweepQuit, poolVars, hubDone, dbClosed, panicked>>

\* The database, its migrations or Redis: nothing has been started yet.
NewFails ==
  /\ main = "new"
  /\ main' = "fatal"
  /\ UNCHANGED <<rushed, req, sweepVars, poolVars, wk, hubDone, dbClosed, panicked>>

\* A signal, or the listener fails.  Shutdown closes the listener.
Signal ==
  /\ main = "serve"
  /\ main' = "http"
  /\ UNCHANGED <<rushed, req, sweepVars, poolVars, wk, hubDone, dbClosed, panicked>>

Serving == \E r \in Requests : req[r] \in {"db", "process"}

\* Shutdown returns, when no connection is in use or its time is up.  A connection
\* may be in use without a request: accepted, and nothing sent on it yet.
HTTPStopped ==
  /\ main = "http"
  /\ rushed' \in BOOLEAN /\ (Serving => rushed')
  /\ main' = "sweep"
  /\ UNCHANGED <<req, sweepVars, poolVars, wk, hubDone, dbClosed, panicked>>

\* Sweeper.Stop closes quit and waits for done.
StopSweeper ==
  /\ main = "sweep"
  /\ sweepQuit' = TRUE
  /\ main' = "sweeper"
  /\ UNCHANGED <<rushed, req, sweeper, batch, poolVars, wk, hubDone, dbClosed, panicked>>

\* Mutant of SweeperStopped: Sweeper.Stop does not wait for done.
SweeperNotAwaited ==
  /\ main = "sweeper"
  /\ main' = "quit"
  /\ UNCHANGED <<rushed, req, sweepVars, poolVars, wk, hubDone, dbClosed, panicked>>

SweeperStopped ==
  /\ main = "sweeper"
  /\ sweeper = "done"
  /\ main' = "quit"
  /\ UNCHANGED <<rushed, req, sweepVars, poolVars, wk, hubDone, dbClosed, panicked>>

CloseQuit ==
  /\ main = "quit"
  /\ poolQuit' = TRUE
  /\ main' = "jobs"
  /\ UNCHANGED <<rushed, req, sweepVars, jobs, jobsClosed, wk, hubDone, dbClosed, panicked>>

\* Mutant of CloseJobs: Pool.Stop closes only quit.
CloseJobsForgotten ==
  /\ main = "jobs"
  /\ main' = "wait"
  /\ UNCHANGED <<rushed, req, sweepVars, poolVars, wk, hubDone, dbClosed, panicked>>

CloseJobs ==
  /\ main = "jobs"
  /\ jobsClosed' = TRUE
  /\ main' = "wait"
  /\ UNCHANGED <<rushed, req, sweepVars, jobs, poolQuit, wk, hubDone, dbClosed, panicked>>

PoolStopped ==
  /\ main = "wait"
  /\ \A w \in Workers : wk[w] = "exit"
  /\ main' = "hub"
  /\ UNCHANGED <<rushed, req, sweepVars, poolVars, wk, hubDone, dbClosed, panicked>>

StopHub ==
  /\ main = "hub"
  /\ hubDone' = TRUE
  /\ main' = "db"
  /\ UNCHANGED <<rushed, req, sweepVars, poolVars, wk, dbClosed, panicked>>

StopDB ==
  /\ main = "db"
  /\ dbClosed' = TRUE
  /\ main' = "redis"
  /\ UNCHANGED <<rushed, req, sweepVars, poolVars, wk, hubDone, panicked>>

StopRedis ==
  /\ main = "redis"
  /\ main' = "end"
  /\ UNCHANGED <<rushed, req, sweepVars, poolVars, wk, hubDone, dbClosed, panicked>>

-----------------------------------------------------------------------------
(***************************************************************************)
(* Pool.Process: a select of a send on jobs, a receive from quit and a     *)
(* default.  A send on a closed channel is ready, and panics.              *)
(***************************************************************************)

\* Mutant of Process: an order too many fits.
ProcessOverfills(caller) ==
  \/ /\ ~jobsClosed /\ jobs <= QueueSize
     /\ jobs' = jobs + 1
     /\ UNCHANGED <<poolQuit, jobsClosed, wk, panicked>>
  \/ /\ poolQuit
     /\ UNCHANGED <<poolVars, wk, panicked>>

WorkerTo(w, step) == wk' = [wk EXCEPT ![w] = step]

\* The queue takes the order, a worker that waits at the empty queue gets it
\* directly (the only way if QueueSize is 0), the order is left for the sweeper
\* (a worker on its way to the queue does not wait there yet), or the send panics.
Process(caller) ==
  \/ /\ ~jobsClosed /\ jobs < QueueSize
     /\ jobs' = jobs + 1
     /\ UNCHANGED <<poolQuit, jobsClosed, wk, panicked>>
  \/ /\ ~jobsClosed /\ jobs = 0
     /\ \E w \in Workers : wk[w] = "receive" /\ WorkerTo(w, "db")
     /\ UNCHANGED <<poolVars, panicked>>
  \/ /\ poolQuit \/ (~jobsClosed /\ jobs = QueueSize)
     /\ UNCHANGED <<poolVars, wk, panicked>>
  \/ /\ jobsClosed
     /\ panicked' = panicked \cup {caller}
     /\ UNCHANGED <<poolVars, wk>>

\* On a connection that is open: Shutdown takes no new ones, and after it only a
\* drain that timed out leaves any.
Request(r) ==
  /\ req[r] = "idle"
  /\ main \in {"serve", "http"} \/ (rushed /\ main # "end")
  /\ req' = [req EXCEPT ![r] = "db"]
  /\ UNCHANGED <<main, rushed, sweepVars, poolVars, wk, hubDone, dbClosed, panicked>>

\* CreateOrder's transaction commits; it cannot once the database is closed.
Persist(r) ==
  /\ req[r] = "db" /\ ~dbClosed
  /\ req' = [req EXCEPT ![r] = "process"]
  /\ UNCHANGED <<main, rushed, sweepVars, poolVars, wk, hubDone, dbClosed, panicked>>

PersistFails(r) ==
  /\ req[r] = "db"
  /\ req' = [req EXCEPT ![r] = "done"]
  /\ UNCHANGED <<main, rushed, sweepVars, poolVars, wk, hubDone, dbClosed, panicked>>

HandOff(r) ==
  /\ req[r] = "process"
  /\ Process(r)
  /\ req' = [req EXCEPT ![r] = "done"]
  /\ UNCHANGED <<main, rushed, sweepVars, hubDone, dbClosed>>

-----------------------------------------------------------------------------
(***************************************************************************)
(* Sweeper.run.                                                            *)
(***************************************************************************)

SweepList(n) ==
  /\ sweeper = "list"
  /\ batch' = n
  /\ sweeper' = IF n = 0 THEN "select" ELSE "enqueue"
  /\ UNCHANGED <<main, rushed, req, sweepQuit, poolVars, wk, hubDone, dbClosed, panicked>>

SweepProcess ==
  /\ sweeper = "enqueue"
  /\ Process("sweeper")
  /\ batch' = batch - 1
  /\ sweeper' = IF batch = 1 THEN "select" ELSE "enqueue"
  /\ UNCHANGED <<main, rushed, req, sweepQuit, hubDone, dbClosed>>

SweepTick ==
  /\ sweeper = "select"
  /\ sweeper' = "list"
  /\ UNCHANGED <<main, rushed, req, batch, sweepQuit, poolVars, wk, hubDone, dbClosed, panicked>>

SweepQuits ==
  /\ sweeper = "select" /\ sweepQuit
  /\ sweeper' = "done"
  /\ UNCHANGED <<main, rushed, req, batch, sweepQuit, poolVars, wk, hubDone, dbClosed, panicked>>

-----------------------------------------------------------------------------
(***************************************************************************)
(* Pool.work: range over jobs, Fulfill each.                               *)
(***************************************************************************)

Receive(w) ==
  /\ wk[w] = "receive" /\ jobs > 0
  /\ jobs' = jobs - 1
  /\ WorkerTo(w, "db")
  /\ UNCHANGED <<main, rushed, req, sweepVars, poolQuit, jobsClosed, hubDone, dbClosed, panicked>>

\* Load, charge and record the outcome; with an outcome of its own, Notify next.
Fulfill(w, next) ==
  /\ wk[w] = "db"
  /\ WorkerTo(w, next)
  /\ UNCHANGED <<main, rushed, req, sweepVars, poolVars, hubDone, dbClosed, panicked>>

Notify(w) ==
  /\ wk[w] = "notify"
  /\ WorkerTo(w, "receive")
  /\ UNCHANGED <<main, rushed, req, sweepVars, poolVars, hubDone, dbClosed, panicked>>

\* Mutant of RangeEnds: the loop ends as soon as the queue is closed.
RangeEndsEarly(w) ==
  /\ wk[w] = "receive" /\ jobsClosed
  /\ WorkerTo(w, "exit")
  /\ UNCHANGED <<main, rushed, req, sweepVars, poolVars, hubDone, dbClosed, panicked>>

\* A closed queue ends the loop once it is empty.
RangeEnds(w) ==
  /\ wk[w] = "receive" /\ jobsClosed /\ jobs = 0
  /\ WorkerTo(w, "exit")
  /\ UNCHANGED <<main, rushed, req, sweepVars, poolVars, hubDone, dbClosed, panicked>>

-----------------------------------------------------------------------------

Shutdown ==
  \/ HTTPStopped \/ StopSweeper \/ SweeperStopped
  \/ CloseQuit \/ CloseJobs \/ PoolStopped
  \/ StopHub \/ StopDB \/ StopRedis

Handle(r) == Persist(r) \/ PersistFails(r) \/ HandOff(r)

Sweep == (\E n \in 0..SweepBatch : SweepList(n)) \/ SweepProcess

Work(w) ==
  \/ Receive(w)
  \/ \E next \in {"receive", "notify"} : Fulfill(w, next)
  \/ Notify(w)
  \/ RangeEnds(w)

Next ==
  \/ New \/ NewFails \/ Signal \/ Shutdown
  \/ \E r \in Requests : Request(r) \/ Handle(r)
  \/ Sweep \/ SweepTick \/ SweepQuits
  \/ \E w \in Workers : Work(w)

Spec == Init /\ [][Next]_vars

(***************************************************************************)
(* Fairness: goroutines go on, and every call they make is bounded by a    *)
(* timeout.  When the tick and quit are both ready Go's select picks at    *)
(* random, so quit is taken in the end although ticks never stop.          *)
(***************************************************************************)
Fairness ==
  /\ WF_vars(Shutdown)
  /\ WF_vars(Sweep) /\ SF_vars(SweepQuits)
  /\ \A r \in Requests : WF_vars(Handle(r))
  /\ \A w \in Workers : WF_vars(Work(w))

LiveSpec == Spec /\ Fairness

-----------------------------------------------------------------------------

\* Nobody sends on the pool's queue after Pool.Stop has closed it, unless the
\* drain timed out: requests are served and the sweeper has returned before
\* the pool stops.
DrainedQueueIsSafe == panicked # {} => rushed

\* The sweeper does not send on the closed queue, even if requests outlast the
\* drain: Sweeper.Stop waits for its goroutine, whose panic would end the
\* process.
SweeperNeverPanics == "sweeper" \notin panicked

\* The stoppers close the hub and the database behind their users, as the order of
\* Run's stoppers is meant to: before the hub stops the workers are gone, having run
\* every queued order (if there are any workers at all); before the database is
\* closed the hub is stopped, the sweeper's last query is over and, unless the drain
\* timed out, no order request is being served or will be.
NothingIsPulledAway ==
  /\ hubDone => /\ \A w \in Workers : wk[w] = "exit"
                /\ jobs = 0 \/ Workers = {}
  /\ dbClosed => hubDone /\ sweeper = "done" /\ (Serving => rushed)

\* Shutdown comes to its end: no stopper waits for ever, for requests, for the
\* sweeper between two ticks or for workers at an empty queue.
ShutdownCompletes == main = "http" ~> main = "end"

=============================================================================
