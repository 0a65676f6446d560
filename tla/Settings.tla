------------------------------ MODULE Settings ------------------------------
(***************************************************************************)
(* What the settings of the worker pool become: config.Load takes each from *)
(* the environment, the .env file or its default, server.New and the        *)
(* sweeper start with them, and Fulfiller.charge retries and waits by them. *)
(*                                                                         *)
(* Durations and counts are integers of Bits bits: time.Duration is an      *)
(* int64, and a left shift drops what does not fit.  Left out are settings  *)
(* that are text, and numbers that neither decide whether the pool and the  *)
(* sweeper start nor how long a charge takes (the other timeouts and ports, *)
(* the age of a stale order, the rate of failures): Load reads them alike.  *)
(***************************************************************************)
EXTENDS Integers, FiniteSetsExt

CONSTANTS
  Bits,                    \* the width of time.Duration
  Default,                 \* the values of Load's SetDefault, by name
  Sources,                 \* pairs of an environment and a .env file, by name
  Unset, Empty, Garbage    \* a name that is not there, "", and no number

Keys ==
  {"SERVER_PORT", "WORKER_COUNT", "WORKER_QUEUE_SIZE", "WORKER_MAX_RETRIES",
   "WORKER_BASE_BACKOFF", "WORKER_MAX_BACKOFF", "WORKER_ATTEMPT_TIMEOUT",
   "WORKER_SWEEP_INTERVAL", "WORKER_SWEEP_BATCH_SIZE"}

Width == -(2^(Bits - 1))..(2^(Bits - 1) - 1)
Texts == {Unset, Empty, Garbage} \cup Width

ASSUME SettingsAssumption ==
  /\ Bits \in Nat \ {0}
  /\ Default \in [Keys -> {n \in Width : n > 0}]
  /\ \A s \in Sources : \A k \in Keys : s.env[k] \in Texts /\ s.file[k] \in Texts

VARIABLES
  env, file,   \* where the settings come from
  cfg,         \* the Config that Load made of them
  server,      \* how far main has come
  sweeper,     \* and the sweeper's goroutine
  limit,       \* the LIMIT of its last query, 0 before the first one
  attempt,     \* the attempt charge is making, 0 outside its loop
  slept,       \* what it slept before that attempt
  elapsed,     \* the time charge has taken
  outcome      \* what charge returned

vars == <<env, file, cfg, server, sweeper, limit, attempt, slept, elapsed, outcome>>

TypeOK ==
  /\ cfg \in [Keys -> Width]
  /\ server \in {"down", "loaded", "refused", "panicked", "up"}
  /\ server \in {"loaded", "up"} => cfg["SERVER_PORT"] # 0
  /\ server = "up" => cfg["WORKER_QUEUE_SIZE"] >= 0
  /\ sweeper \in {"none", "first", "swept", "ticking"}
  /\ limit \in Width
  /\ attempt \in 0..Max({0, cfg["WORKER_MAX_RETRIES"]})
  /\ slept \in Width /\ elapsed \in Nat
  /\ outcome \in {"none", "charged", "gaveup", "unasked"}

Init ==
  /\ \E s \in Sources : env = s.env /\ file = s.file
  /\ cfg = Default
  /\ server = "down" /\ sweeper = "none"
  /\ limit = 0 /\ attempt = 0 /\ slept = 0 /\ elapsed = 0
  /\ outcome = "none"

-----------------------------------------------------------------------------

\* viper's Get after AutomaticEnv: an empty variable counts as not set, an empty
\* entry of the file does not.
Get(k) ==
  IF env[k] \notin {Unset, Empty} THEN env[k]
  ELSE IF file[k] # Unset THEN file[k] ELSE Default[k]

\* viper's GetInt and GetDuration: what does not parse is 0.
Convert(text) == IF text \in Width THEN text ELSE 0

\* Mutant of Load: the port is not looked at.
LoadUnchecked ==
  /\ server = "down"
  /\ cfg' = [k \in Keys |-> Convert(Get(k))]
  /\ server' = "loaded"
  /\ UNCHANGED <<env, file, sweeper, limit, attempt, slept, elapsed, outcome>>

Load ==
  /\ server = "down"
  /\ cfg' = [k \in Keys |-> Convert(Get(k))]
  /\ server' = IF cfg'["SERVER_PORT"] = 0 THEN "refused" ELSE "loaded"
  /\ UNCHANGED <<env, file, sweeper, limit, attempt, slept, elapsed, outcome>>

\* make(chan int, QueueSize) panics on a negative size.
New ==
  /\ server = "loaded"
  /\ IF cfg["WORKER_QUEUE_SIZE"] < 0
     THEN server' = "panicked" /\ UNCHANGED sweeper
     ELSE server' = "up" /\ sweeper' = "first"
  /\ UNCHANGED <<env, file, cfg, limit, attempt, slept, elapsed, outcome>>

\* Mutant of Batch: no fallback.
BatchAsSet == cfg["WORKER_SWEEP_BATCH_SIZE"]

Batch ==
  IF cfg["WORKER_SWEEP_BATCH_SIZE"] <= 0 THEN cfg["WORKER_QUEUE_SIZE"]
  ELSE cfg["WORKER_SWEEP_BATCH_SIZE"]

Reclaim ==
  /\ server = "up" /\ sweeper \in {"first", "ticking"}
  /\ limit' = Batch
  /\ sweeper' = IF sweeper = "first" THEN "swept" ELSE sweeper
  /\ UNCHANGED <<env, file, cfg, server, attempt, slept, elapsed, outcome>>

\* time.NewTicker panics unless its interval is positive, and nobody recovers.
NewTicker ==
  /\ server = "up" /\ sweeper = "swept"
  /\ IF cfg["WORKER_SWEEP_INTERVAL"] <= 0
     THEN server' = "panicked" /\ UNCHANGED sweeper
     ELSE sweeper' = "ticking" /\ UNCHANGED server
  /\ UNCHANGED <<env, file, cfg, limit, attempt, slept, elapsed, outcome>>

-----------------------------------------------------------------------------

base == cfg["WORKER_BASE_BACKOFF"]
max == cfg["WORKER_MAX_BACKOFF"]

\* The value of an integer kept to Bits bits, in two's complement.
Wrap(n) ==
  LET low == n % 2^Bits IN IF low < 2^(Bits - 1) THEN low ELSE low - 2^Bits

\* Mutants of delay: without its cap, and shifted one place too far.
delayUncapped(n) ==
  LET d == Wrap(base * 2^(n - 1)) IN IF d <= 0 THEN max ELSE d
delayShifted(n) ==
  LET d == Wrap(base * 2^n) IN IF d <= 0 \/ d > max THEN max ELSE d

\* d of backoff(n)
delay(n) ==
  LET d == Wrap(base * 2^(n - 1)) IN IF d <= 0 \/ d > max THEN max ELSE d

\* What backoff(n) may return: half + rand.Int63n(half + 1), or d when half is
\* not positive (for d < 0, as for d = 0 and d = 1).
backoff(n) ==
  LET d == delay(n) IN IF d <= 1 THEN {d} ELSE (d \div 2)..(2 * (d \div 2))

\* A worker takes up an order; without a retry budget the loop is not entered and
\* the error returned is nil.
Charge ==
  /\ server = "up" /\ cfg["WORKER_COUNT"] > 0
  /\ attempt = 0 /\ outcome = "none"
  /\ IF cfg["WORKER_MAX_RETRIES"] <= 0
     THEN outcome' = "unasked" /\ UNCHANGED attempt
     ELSE attempt' = 1 /\ UNCHANGED outcome
  /\ UNCHANGED <<env, file, cfg, server, sweeper, limit, slept, elapsed>>

\* An attempt takes no time to speak of, or all that AttemptTimeout gives it.
Took == {0, Max({0, cfg["WORKER_ATTEMPT_TIMEOUT"]})}

\* With a timeout that is not positive the context is done from the start.
Accepted ==
  /\ server = "up" /\ attempt > 0
  /\ cfg["WORKER_ATTEMPT_TIMEOUT"] > 0
  /\ \E t \in Took : elapsed' = elapsed + t
  /\ attempt' = 0 /\ outcome' = "charged"
  /\ UNCHANGED <<env, file, cfg, server, sweeper, limit, slept>>

\* An attempt fails and is not the last one; a Sleep of less than nothing returns
\* at once.
Retry ==
  /\ server = "up" /\ attempt > 0
  /\ attempt < cfg["WORKER_MAX_RETRIES"]
  /\ slept' \in backoff(attempt)
  /\ \E t \in Took : elapsed' = elapsed + t + Max({0, slept'})
  /\ attempt' = attempt + 1
  /\ UNCHANGED <<env, file, cfg, server, sweeper, limit, outcome>>

GiveUp ==
  /\ server = "up" /\ attempt > 0
  /\ attempt = cfg["WORKER_MAX_RETRIES"]
  /\ \E t \in Took : elapsed' = elapsed + t
  /\ attempt' = 0 /\ outcome' = "gaveup"
  /\ UNCHANGED <<env, file, cfg, server, sweeper, limit, slept>>

Next ==
  \/ Load \/ New \/ Reclaim \/ NewTicker
  \/ Charge \/ Accepted \/ Retry \/ GiveUp

Spec == Init /\ [][Next]_vars

-----------------------------------------------------------------------------

\* The documented delay, in unbounded integers.
Capped(n) == IF base * 2^(n - 1) > max THEN max ELSE base * 2^(n - 1)

\* The wait before a retry is between half of BaseBackoff * 2^(attempt-1), capped
\* at MaxBackoff, and all of it, at every attempt, although the shift overflows:
\* while BaseBackoff * MaxBackoff fits the integer, a shift that overflows to a
\* positive value is beyond the cap.
SleepsAsDocumented ==
  attempt > 1 /\ base > 0 /\ max > 0 /\ base * max < 2^(Bits - 1) =>
    slept \in (Capped(attempt - 1) \div 2)..Capped(attempt - 1)

\* A run of charge takes at most its attempts at AttemptTimeout each and its
\* waits at MaxBackoff each, whatever the settings: what Pool.Stop relies on
\* when it says that it returns in finite time.
ChargeIsBounded ==
  LET retries == cfg["WORKER_MAX_RETRIES"] IN
  elapsed <= Max({0, retries}) * Max({0, cfg["WORKER_ATTEMPT_TIMEOUT"]})
               + Max({0, retries - 1}) * Max({0, max})

\* The environment or the file says nothing of k, or a positive number.  An
\* empty variable says nothing; an empty entry of the file says 0.
Usable(k) ==
  /\ env[k] \in {Unset, Empty} \cup {n \in Width : n > 0}
  /\ file[k] \in {Unset} \cup {n \in Width : n > 0}

\* Load checks nothing but the port, so that the other settings take effect far
\* from it: a queue that cannot be made, a ticker that panics, a sweep that asks
\* for no rows, a charge that is never asked for.  None of these happens when
\* every setting that is made is a positive number, wherever it is made, and the
\* batch size need not be: reclaim falls back on the size of the queue.
UsableSettingsServe ==
  (\A k \in Keys \ {"WORKER_SWEEP_BATCH_SIZE"} : Usable(k)) =>
    /\ server \notin {"refused", "panicked"}
    /\ sweeper \in {"swept", "ticking"} => limit > 0
    /\ outcome # "unasked"

=============================================================================
