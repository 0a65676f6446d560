# A TLA+ verification of the order processing system

The system takes orders over HTTP, reserves stock and stores the order in one
PostgreSQL transaction, charges the payment in the background, records the
outcome, and tells the customer over a WebSocket. This project models what
happens between these parts when requests, workers, sweeps, crashes and
shutdowns overlap. TLC checks the models on small instances; TLAPS proves every
safety property of the passing runs for every value of the constants.

## The system

| part | source (under `src/internal`) | what it does |
|---|---|---|
| order service | `services/order.go` | rejects repeated lines, claims an idempotency key, reads prices, commits the order, hands it off |
| idempotency store | `idempotency/` | `SET NX` with a TTL and `DEL` in Redis |
| order tables | `repository/order.go` | create (guarded decrements), mark paid, fail + restock, list stale |
| worker pool | `workers/pool.go` | a bounded queue that drops when full, N workers |
| sweeper | `workers/sweeper.go` | re-enqueues orders whose payment has been pending too long |
| fulfillment | `services/fulfillment.go` | load, charge with retries, record, announce |
| gateway | `payment/` | fake provider; remembers charged keys in its process's memory |
| notifications | `services/notification.go`, `repository/notification.go` | a row per message, pushed to the hub, marked sent or failed |
| hub and clients | `ws/`, `api/handlers/ws_handler.go` | one event loop, a bounded queue and a write pump per socket, replay on connect |
| server | `server/server.go` | starts everything, stops it in order |
| catalogue | `services/product.go`, `repository/product.go` | create, update, list products |
| users and tokens | `services/user.go`, `repository/user.go`, `auth/`, `api/middleware/auth.go` | accounts, login, signed claims, the role check |
| configuration | `config/config.go` | settings from the environment, `.env` or defaults |
| metrics, connections | | not modelled, see below |

`k8s/deployment.yaml` runs two replicas: they share PostgreSQL and Redis, and
nothing else.

## Modules

| module | models | state |
|---|---|---|
| `OrderLifecycle` | what the pipeline promises (abstract) | status, cart, stock, announcements |
| `OrderStore` | the tables and each transaction on them, atomic | `orders`, `payments`, `items`, `inventory`, `cutoff` (how far the clock is past the ages) |
| `Fulfillment` | hand-off, queue, sweeper, workers, gateway, notification rows, crashes, in several processes | per process `handoff`, `jobs`, `batch`, `charged`; per worker `wk`; `notes`; history `charges` |
| `RowLocks` | the same transactions, statement by statement, under PostgreSQL's row locks | committed tables; per transaction the rows it holds (`held`) and its step (`tx`) |
| `OrderIntake` | `CreateOrder` up to the commit: the race for an idempotency key | per request `pc`; `keys` in Redis; `committed`; history `recent`, `late`, `resent` |
| `NotificationHub` | `Hub.Run`, write pumps, `Connect` with its check of the owner, `Send` | the loop, its map and fan-out, queues, steps of each goroutine |
| `ServerLifecycle` | `New`, `Run` and the stoppers against running goroutines | how far `Run` is, what is closed, whether the drain timed out, steps of each goroutine |
| `Catalog` | products created, updated, ordered and listed | rows, steps of each request, a client walking pages |
| `Accounts` | users created, updated and logged in, and what a token is good for | `users`; per call of `UpdateUser` and `Login` its step and locals; `clock` |
| `Settings` | `config.Load`, what `New` and the sweeper make of the settings, the retries of `charge`, in integers with a width | environment, file, `cfg`, steps of server, sweeper and charge |

`Fulfillment` extends `OrderStore`. `...Proofs` modules hold the theorems,
`MC...` modules the constants of the runs. Actions have the names of the
functions they model where a function is one step. A function that makes
several calls out of the process is one action per call, because others run in
between. A transaction or Redis command that takes effect and is not answered
is an action of its own (`...Unacked`, `ReserveEchoed`, `ReleaseUnanswered`) or an
alternative of the error (`ReserveError`, `ReleaseError`). The Redis client sends an
unanswered command again: a `SET NX` then meets its own key, and a `DEL` may remove
the key of a submission that came in between.

Data is abstract: an order is its rank by `created_at`, a transaction id the
number of the accepted charge, a digest the text it digests, a notification a
model value, a product's fields its price, a user's fields email and role. Time
is a cutoff in `OrderStore`, fractions of a second in `Accounts`.

`OrderLifecycle` is implemented twice: by `Fulfillment`, where the transactions of
`OrderStore` are atomic and everything around them fails, and by `RowLocks`, where
nothing is around them and their statements interleave. The second is the evidence
that the atomic actions of the first leave nothing out.

## What is checked

Passing runs:

| run | instance | shows |
|---|---|---|
| `fulfil_workers` | 1 process, 2 workers, 2 orders, 2 products, 1 crash, lost answers, charges that time out | the pipeline implements `OrderLifecycle`: stock conserved, tables agree, paid means charged, one true announcement; no gateway charges an order twice |
| `fulfil_recovery` | queue of 1, sweeps of 1, a crash, with fairness | every order is decided |
| `row_locks` | 2 orders over 2 products, 2 calls that decide orders, rollbacks, with fairness | what is committed changes only as `OrderLifecycle` says; creating orders never deadlocks by itself; every transaction ends |
| `intake` | 4 requests, 3 of one cart, every fault; all bodies of up to 3 lines for the keys | keys are canonical; a key is held for a reason; a duplicate has one of four causes |
| `hub` | 2 orders of 2 owners, 2 sockets of the first order or 1 of each, 1 of the wrong owner, 1 note, queues of 1, stop, with fairness | the hub never panics, no replayed client misses a message while the hub runs, only sockets of its order and owner are given it, a row marked sent was taken by a client, `Notify` always returns, a stopped hub leaves no pump of its clients |
| `server_shutdown` | 2 requests, 2 workers, queue of 2, with fairness | only a drain that timed out leads to a send on the closed queue, and never by the sweeper; the hub stops after the last worker, the database is closed after the sweeper and, unless the drain timed out, after the last order request; shutdown ends |
| `catalog` | 2 products, 2 updates, 1 buyer, page sizes 0, 1 and 3 (default and maximum 2), integers from -4 to 3 | an order's prices were listed together; a walk over the pages shows all there was; pages are disjoint while the offset fits |
| `accounts` | 2 users, 2 updates, 1 login, half seconds, a token of 1.5 seconds | an update is lost only to a save of an older row; a demoted admin is served no longer than a token lives; `expires_in` is right to less than a second |
| `settings` | any one variable and any one line of `.env`; all pairs of durations of 5-bit integers | waits are as documented although the shift overflows, while `BaseBackoff * MaxBackoff` fits the integer; a charge takes bounded time; positive settings work, wherever they are made, and the batch size need not be positive |

Every property of a passing run has a mutant in `PROJECT.json`: a plausible bug in one
definition under which TLC finds the property violated.

### Where code and comments disagree

Three have a run whose counterexample is the scenario:

1. `charge_then_cancel`: two runs of one order can end differently; if the
   failing one commits first, the order is cancelled and the customer charged.
2. `intake_lost_ack`: a commit whose answer is lost is treated as a failure, and
   the retry orders again.
3. `hub_replay`: replaying to a client the hub has dropped panics (net/http
   recovers the panic).

The models show more; the property that comes closest names the exception:

4. A request that outlasts the drain may send on the pool's closed queue
   (`server/server.go:96-97` says that none reaches a stopping pool). Hence
   `DrainedQueueIsSafe` excepts a drain that timed out.
5. The gateway's memory of keys ends with its process, so a re-run after a
   restart charges again. This is why `ChargedOncePerGateway` counts gateways.
   (True of the fake gateway; a provider that remembers keys would not.)
6. `MaxRetries <= 0`: payments are marked paid without a charge (outcome
   `"unasked"` in `Settings`). The theorem `PaidWasCharged` has `MaxRetries > 0` as
   a hypothesis for this reason.
7. A request that ran without its key, because `Reserve` failed, releases
   another's on its error paths (`RanWithoutKey` in `Cause`).
8. A `DEL` that was applied and not answered is sent again by the Redis client, and
   may remove the key of a later submission, whose cart can then be ordered twice
   (`resent` in `Cause`). This takes no failure that the code sees.
9. The release runs under the cancelled context of a client that left, so the key
   stays (`"stuck"` in `Explains`).
10. A socket that registers while the hub stops (the second disjunct of
    `Register`) is never closed and keeps its pump: `PumpsUnwind` speaks of the
    clients the hub has or had.
11. The sweeper's fallback for a batch size that is not positive
    (`workers/sweeper.go:81`) is the queue size, which may be 0: in
    `UsableSettingsServe` the batch size is free and the queue size is not.
12. A setting that is empty in `.env`, or does not parse, is 0 and not its default;
    empty in the environment it is its default (`Usable` in `Settings`).
13. Restocks lock inventory rows in the order in which a query without `ORDER BY`
    returns the lines, so that they can deadlock with each other and with new
    orders. PostgreSQL ends the cycle by failing one of them: the sweeper runs a
    restock again, and a new order is refused with an error.
14. Two overlapping calls of `UpdateUser` for one user can lose one of the changes:
    `LostOnlyToAStaleSave` says that this is the only way.

### Bounds

Two workers are enough for every race on one order, since a transaction involves
one worker and the row; replicas differ from workers only in having a queue and a
gateway each, and the proofs below cover any number of them; two orders for every
race on stock and for a batch of one to leave somebody behind; a queue of one is full as soon as it is used. One crash
separates a step from its successor; a second would only repeat it. Two clients
on one order are needed for a fan-out that serves one and drops another, and one of
another order for a fan-out that must pass somebody by; the constant `Groups` of
`NotificationHub` keeps all three from coming in one run, and the proofs are for any
`Groups`. Three
requests of a cart are needed for a duplicate that a third party causes. Two
creators and two deciders are enough for every pair of transactions to meet, and
two products for them to meet in opposite orders. A token lives longer than a
second and ends between two, so that both truncations show. The 5 bits of
`Settings` and the `IntLimit` of 4 in `Catalog` stand for 64 bits: the proofs hold
for any width. Of the settings, one in the environment and one in the
file at a time reach every branch, since no branch but the sweeper's fallback
reads two of them. Deadlock is checked in the runs of `Fulfillment`; the other models end
(requests are sent once, the server stops), so there it is not.

### Fairness

`Fulfillment`: goroutines that can run do, timers fire, and a query or transaction
tried again and again succeeds in the end (strong fairness of `Load` and
`Decide`). Nothing is assumed of charges. `NotificationHub`: the hub, the pumps and
the senders run, replays need not; Go's `select` chooses at random, so who waits at the loop is served in the end.
`RowLocks`: a statement is answered in the end, and the database's deadlock
detector finds a cycle that stays; no call has to fail.
`ServerLifecycle`: goroutines run, calls are bounded by timeouts, and the
sweeper's `select` takes `quit` in the end although ticks go on.

## What is proved

For any number of processes, workers, orders, products and crashes
(`FulfillmentProofs`, from the assumptions on the constants alone):

- `TypeCorrect`, in particular that stock never goes below zero;
- `TablesAlwaysAgree`, and `DecisionsAreFinal` (proved only, no run checks it: the
  status and the transaction id of a decided payment stay);
- `OneTrueAnnouncement`. Not inductive alone: `AInv` adds that a worker about to
  announce carries the order's real status, that it is the only one, and that
  nothing has been announced before it;
- `PaidWasCharged` (given `MaxRetries > 0`): `CInv` adds that every transaction id
  in a gateway's map, or carried by a worker about to confirm, names an accepted
  charge of that order;
- `PipelineImplementsLifecycle`: every step is a step of `OrderLifecycle` or
  changes nothing it sees;
- `OneChargePerGateway`: no order is charged more often than there have been
  gateways, one per process and one more per crash. `GatewayInv` counts: the charges
  of an order are at most the processes whose map knows its key, plus the crashes. A
  charge adds a process to the first, a crash moves one to the second;
- `PipelineConservesStock`, from the same refinement: what is in stock and what live
  orders hold add up to what there was. Sums are written as a ledger of running
  totals (`Ledger`), so that no recursion is needed.

`ServerLifecycleProofs`, for any number of requests and workers and any queue (no
workers and an unbuffered queue included, which unchecked settings can lead to):
`TypeCorrect`, `SweeperIsSafe`, `StoppersAreInOrder`, and `DrainedMeansSafe` (nobody
sends on the closed queue unless the drain timed out). `PhaseInv` ties what every
goroutine may be doing to the stopper `Run` has reached; `DrainInv` adds that after
a drain that did not time out no request is at work.

`RowLocksProofs`, for any number of transactions, orders and products:
`LocksImplementLifecycle`, `DeadlocksAreRestocks` and `TypeCorrect`. The invariant
says of every transaction which rows it holds and which are left, given its kind;
that no row has two holders; and that for the row a transaction holds, the guard
it checked is still true, which is why the commit may apply it. For deadlocks: a
creator that waits holds only rows below the one it waits for, so that a cycle of
creators would have no greatest row.

`OrderIntakeProofs`: `TypeCorrect`, `SortedKeysAreCanonical`, `KeysTurnAwayOneCart`,
`DuplicatesAreExplained`, `UndisturbedDuplicatesCollapse` and `HeldKeysAreExplained`.
Keys first, for carts of any length: lines of distinct products have an increasing
listing, because every line has a place of its own (the number of lines with smaller
products), and only one, because the i-th line of an increasing listing is the one
with i - 1 lines before it. So `sorted` is a function of the set of lines. The rest
is an invariant per key: until a request of its cart does harm, a key has at most one
holder and is in Redis while it has one. `UndisturbedDuplicatesCollapse` assumes that
no claim fails, no commit goes unanswered, no request outlasts the TTL and no `DEL` is
sent again; releases may fail, clients leave and processes die.

`NotificationHubProofs`, for any number of sockets, notifications and orders and any
capacity: `HubIsPanicFree`, `NothingIsMissed`, `SentMeansTaken`, `OwnersOnly` and
`TypeCorrect`. `LoopInv` is the loop's own discipline (a client in the map has an
open queue, a fan-out serves only clients in the map). For `NothingIsMissed`,
`MissInv` says where a note that a client lacks still is: among the rows to replay,
with a sender that waits for the loop, or in the fan-out.

`AccountsProofs`, for any number of users, updates and logins, any lifetime and any
resolution of the clock: `UpdatesAreLostToStaleSaves`, `DemotionTakesEffect`,
`ReportedLifetimeIsClose` and `TypeCorrect`. The invariant relates the copy of an
update in flight to the row (they differ only if it is marked stale) and the claims
of a login to the time at which its row was read.

`CatalogProofs`, for any catalogue, carts, page sizes and width of integers:
`TypeCorrect`, `OrdersArePricedTogether`, `WalkShowsEverything` and
`NoProductOnTwoPages`. `PriceInv` says that the price list a buyer read is among
those since its request came in. `WalkInv` says that every product that was listed
at the start and has not been shown has a rank (the number of listed products with
smaller ids) at or beyond the next page's offset. It is inductive because products
only appear, so that ranks only grow; and because ranks have no gaps, so that only
the page on which the listing ends is not full. It also bounds the offset by the
number of products, which is why a walk never reaches an offset that wraps around.

`SettingsProofs`, for integers of any width, any defaults that are positive and any
environment and file: `TypeCorrect`, `WaitsAreAsDocumented`,
`ChargeTakesBoundedTime` and `UsableSettingsAreEnough`. The argument about
waits is arithmetic (`DelayIsCapped`): a shift by n places that overflows is still a
multiple of 2^n, or 0, and it overflows only if 2^n is above the cap. The laws of
powers of two come from counting subsets (`PowerAdds`). `TimeInv` says that before
attempt n a charge has taken n - 1 attempts and n - 1 waits; `ServeInv`, that `Load`
makes positive numbers of usable settings.

The assumptions are the ones named in the modules: in particular that the set of
processes is finite (`PipelineAssumption`), that ids of products are integers of the
width (`CatalogAssumption`), and that the defaults `Load` sets are positive
(`SettingsAssumption`), as all of them are.

Only model-checked: liveness (`EveryOrderDecided`, `NotifyAlwaysReturns`,
`PumpsUnwind`, `TransactionsEnd`, `ShutdownCompletes`), which the prover cannot do.

## What is not modelled

- Signatures of tokens and the form of the `Authorization` header: a token is its
  claims. Passwords never change after the insert, so comparing them is a choice.
- JSON, status codes, DTOs and metrics; reads that only answer a request
  (`GetUser`, `GetProduct`, `GetInventory`).
- Settings that are text, and the numbers `WORKER_STALE_AFTER`, `SHUTDOWN_TIMEOUT`,
  `JWT_TTL`, `WORKER_GATEWAY_FAILURE_RATE`, `DB_PORT`, `REDIS_PORT` and `REDIS_DB`.
  `Load` reads these as it reads the ones in `Settings`, so they too become 0 when
  they do not parse; what that does to the drain, to tokens or to a sweep is not
  modelled.
- In `ServerLifecycle`: requests other than orders. The drain does not wait for
  WebSocket connections (`net/http` does not track them once they are upgraded), so
  a replay may still query a database that is being closed. `http.Server.Shutdown` is
  taken at its word: when it returns without an error, no handler runs any more.
- Connection set-up and migrations: pure I/O, whose errors are `NewFails` in
  `ServerLifecycle`. A process that dies within a migration leaves the schema
  marked dirty; that is the migration library's business.
- What `UpdateProduct` does to a quantity that orders change meanwhile: `Catalog` has
  the overwrite, and nothing in the repository says what it should be relative to.
- A notification that is lost in a crash between the decision and its row: the
  model has it, and no property forbids it, since the code calls it best-effort.
- One composition of `OrderIntake` and `Fulfillment`: they share only the commit
  and the hand-off, which `Fulfillment` has as `CreateOrder` and `Process`, and no
  property speaks of both.
