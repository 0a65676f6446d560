----------------------------- MODULE OrderIntake -----------------------------
(***************************************************************************)
(* orderService.CreateOrder up to the commit of the order: requests that   *)
(* carry the same cart race for one idempotency key in Redis, and give it  *)
(* back when they fail.  What happens to an order after its commit is the  *)
(* subject of Fulfillment.                                                 *)
(*                                                                         *)
(* Redis does not know who claimed a key (its value is always "1"), so     *)
(* neither does keys below.  A request takes one step per call that leaves *)
(* the process.  Every such call runs under the request's context, which   *)
(* net/http cancels when the client goes away: from then on the calls fail *)
(* without effect.                                                         *)
(***************************************************************************)
EXTENDS Integers, Sequences, Functions

CONSTANTS
  Requests,       \* the requests of one run of the model
  Bodies,         \* what a request may carry: the user and the order lines
  Body,           \* what each of Requests carries
  ClientsLeave,   \* whether a client may go away before it is answered
  ReserveFails,   \* whether SET NX may fail, or be applied and not answered
  ReleaseFails,   \* whether DEL may fail, or be applied and not answered
  ReleaseResent,  \* whether an unanswered DEL may be sent again
  AckLost,        \* whether a commit may be applied and not answered
  OutlastTTL,     \* whether a request may take longer than idempotencyTTL
  Crashes         \* whether a process may die with requests in flight

ASSUME IntakeAssumption ==
  /\ \A b \in Bodies : b.lines \in Seq([product : Nat, quantity : Nat])
  /\ Body \in [Requests -> Bodies]
  /\ {ClientsLeave, ReserveFails, ReleaseFails, ReleaseResent, AckLost, OutlastTTL,
      Crashes} \subseteq BOOLEAN

VARIABLES
  pc,          \* per request: the next call, or how it ended
  gone,        \* requests whose context is cancelled
  acquired,    \* requests that were told they hold their key
  keys,        \* the keys present in Redis
  committed,   \* requests whose order is in the database
  recent,      \* history: orders of requests that acquired their key, while
               \* the TTL of the key has not run out since
  late,        \* history: requests that outlasted the TTL of their key
  resent       \* history: requests whose DEL was applied and is sent again

vars == <<pc, gone, acquired, keys, committed, recent, late, resent>>

\* The same lines, in every order in which they can be listed.
Listings(lines) ==
  {[i \in DOMAIN lines |-> lines[p[i]]] : p \in Bijection(DOMAIN lines, DOMAIN lines)}

\* What sort.Slice makes of a copy of the lines.
sorted(lines) ==
  CHOOSE s \in Listings(lines) :
    \A i, j \in DOMAIN s : i < j => s[i].product <= s[j].product

\* Mutant of idempotencyKey: the lines are not sorted.
unsortedKey(user, lines) == <<user, lines>>

\* SHA-256 is taken to be injective; the text it digests lists the user and the
\* lines, separated and in the order of their products.
idempotencyKey(user, lines) ==
  <<user, sorted(lines)>>

\* Computed once, for all the calls of a request.
key == [r \in Requests |-> idempotencyKey(Body[r].user, Body[r].lines)]
Key(r) == key[r]

HasDuplicateLine(lines) ==
  \E i, j \in DOMAIN lines : i # j /\ lines[i].product = lines[j].product

Calling == {"reserve", "fetch", "persist", "release"}
Ended == {"rejected", "duplicate", "echoed", "created", "failed", "stuck", "dead"}
InFlight(r) == pc[r] \in Calling

\* At work on the strength of the key, which it has not given back.
Working(r) == r \in acquired /\ InFlight(r) /\ r \notin resent

TypeOK ==
  /\ pc \in [Requests -> {"new"} \cup Calling \cup Ended]
  /\ gone \subseteq Requests
  /\ acquired \subseteq Requests
  /\ keys \subseteq {Key(r) : r \in Requests}
  /\ committed \subseteq Requests
  /\ \A r \in Requests : pc[r] = "created" => r \in committed
  /\ recent \subseteq committed
  /\ late \subseteq Requests
  /\ resent \subseteq Requests

Init ==
  /\ pc = [r \in Requests |-> "new"]
  /\ gone = {}
  /\ acquired = {}
  /\ keys = {}
  /\ committed = {}
  /\ recent = {}
  /\ late = {}
  /\ resent = {}

-----------------------------------------------------------------------------

Goto(r, step) == pc' = [pc EXCEPT ![r] = step]

Validate(r) ==
  /\ pc[r] = "new"
  /\ Goto(r, IF HasDuplicateLine(Body[r].lines) THEN "rejected" ELSE "reserve")
  /\ UNCHANGED <<gone, acquired, keys, committed, recent, late, resent>>

\* SET key NX EX ttl on a key that is not there.
ReserveAcquires(r) ==
  /\ pc[r] = "reserve" /\ r \notin gone
  /\ Key(r) \notin keys
  /\ keys' = keys \cup {Key(r)}
  /\ acquired' = acquired \cup {r}
  /\ Goto(r, "fetch")
  /\ UNCHANGED <<gone, committed, recent, late, resent>>

\* Mutant of ReserveDuplicate: the loser releases the key on its way out.
ReserveDuplicateReleases(r) ==
  /\ pc[r] = "reserve" /\ r \notin gone
  /\ Key(r) \in keys
  /\ keys' = keys \ {Key(r)}
  /\ Goto(r, "duplicate")
  /\ UNCHANGED <<gone, acquired, committed, recent, late, resent>>

ReserveDuplicate(r) ==
  /\ pc[r] = "reserve" /\ r \notin gone
  /\ Key(r) \in keys
  /\ Goto(r, "duplicate")
  /\ UNCHANGED <<gone, acquired, keys, committed, recent, late, resent>>

\* An error: carry on without the key.  The claim may have been applied.
ReserveError(r) ==
  /\ pc[r] = "reserve"
  /\ r \in gone \/ ReserveFails
  /\ \/ UNCHANGED keys
     \/ r \notin gone /\ keys' = keys \cup {Key(r)}
  /\ Goto(r, "fetch")
  /\ UNCHANGED <<gone, acquired, committed, recent, late, resent>>

\* The Redis client sends an unanswered command again: the second SET NX finds
\* the key the first one set.
ReserveEchoed(r) ==
  /\ pc[r] = "reserve" /\ r \notin gone
  /\ ReserveFails
  /\ keys' = keys \cup {Key(r)}
  /\ Goto(r, "echoed")
  /\ UNCHANGED <<gone, acquired, committed, recent, late, resent>>

FetchProducts(r) ==
  /\ pc[r] = "fetch" /\ r \notin gone
  /\ Goto(r, "persist")
  /\ UNCHANGED <<gone, acquired, keys, committed, recent, late, resent>>

\* A query error, or a line whose product does not exist.
FetchFails(r) ==
  /\ pc[r] = "fetch"
  /\ Goto(r, "release")
  /\ UNCHANGED <<gone, acquired, keys, committed, recent, late, resent>>

Commit(r) ==
  /\ committed' = committed \cup {r}
  /\ recent' = IF r \in acquired THEN recent \cup {r} ELSE recent

\* The order is in the database and is handed to the processor.
Persist(r) ==
  /\ pc[r] = "persist" /\ r \notin gone
  /\ Commit(r)
  /\ Goto(r, "created")
  /\ UNCHANGED <<gone, acquired, keys, late, resent>>

\* Mutant of PersistFails: the error is not looked at.
PersistErrorLost(r) ==
  /\ pc[r] = "persist"
  /\ Goto(r, "created")
  /\ UNCHANGED <<gone, acquired, keys, committed, recent, late, resent>>

\* Too little stock, an unknown user, any other error: rolled back.
PersistFails(r) ==
  /\ pc[r] = "persist"
  /\ Goto(r, "release")
  /\ UNCHANGED <<gone, acquired, keys, committed, recent, late, resent>>

PersistUnacked(r) ==
  /\ pc[r] = "persist" /\ r \notin gone
  /\ AckLost
  /\ Commit(r)
  /\ Goto(r, "release")
  /\ UNCHANGED <<gone, acquired, keys, late, resent>>

\* Mutant of Release: the error paths return without releasing.
ReleaseForgotten(r) ==
  /\ pc[r] = "release" /\ r \notin gone
  /\ Goto(r, "failed")
  /\ UNCHANGED <<gone, acquired, keys, committed, recent, late, resent>>

\* DEL key, whoever claimed it.
Release(r) ==
  /\ pc[r] = "release" /\ r \notin gone
  /\ keys' = keys \ {Key(r)}
  /\ Goto(r, "failed")
  /\ UNCHANGED <<gone, acquired, committed, recent, late, resent>>

\* The Redis client did not see the answer of the DEL and sends it again: what the
\* next one removes may be somebody else's claim.
ReleaseUnanswered(r) ==
  /\ pc[r] = "release" /\ r \notin gone
  /\ ReleaseResent
  /\ keys' = keys \ {Key(r)}
  /\ resent' = resent \cup {r}
  /\ UNCHANGED <<pc, gone, acquired, committed, recent, late>>

\* The error is logged.  The key stays, or the DEL was applied after all.
ReleaseError(r) ==
  /\ pc[r] = "release"
  /\ r \in gone \/ ReleaseFails
  /\ \/ UNCHANGED keys /\ Goto(r, "stuck")
     \/ r \notin gone /\ keys' = keys \ {Key(r)} /\ Goto(r, "failed")
  /\ UNCHANGED <<gone, acquired, committed, recent, late, resent>>

-----------------------------------------------------------------------------

ClientLeaves(r) ==
  /\ ClientsLeave
  /\ InFlight(r) /\ r \notin gone
  /\ gone' = gone \cup {r}
  /\ UNCHANGED <<pc, acquired, keys, committed, recent, late, resent>>

Die(r) ==
  /\ Crashes
  /\ InFlight(r)
  /\ Goto(r, "dead")
  /\ UNCHANGED <<gone, acquired, keys, committed, recent, late, resent>>

\* idempotencyTTL after the last claim of k.
Expire(k) ==
  LET working == {r \in Requests : Key(r) = k /\ Working(r)} IN
  /\ k \in keys \/ \E r \in recent : Key(r) = k
  /\ working = {} \/ OutlastTTL
  /\ keys' = keys \ {k}
  /\ recent' = {r \in recent : Key(r) # k}
  /\ late' = late \cup working
  /\ UNCHANGED <<pc, gone, acquired, committed, resent>>

CreateOrder(r) ==
  \/ Validate(r)
  \/ ReserveAcquires(r) \/ ReserveDuplicate(r) \/ ReserveError(r) \/ ReserveEchoed(r)
  \/ FetchProducts(r) \/ FetchFails(r)
  \/ Persist(r) \/ PersistFails(r) \/ PersistUnacked(r)
  \/ Release(r) \/ ReleaseUnanswered(r) \/ ReleaseError(r)

Next ==
  \/ \E r \in Requests : CreateOrder(r) \/ ClientLeaves(r) \/ Die(r)
  \/ \E r \in Requests : Expire(Key(r))

Spec == Init /\ [][Next]_vars

-----------------------------------------------------------------------------

\* The same user with the same lines, in whatever order they are listed.
SameOrder(a, b) ==
  /\ a.user = b.user
  /\ {a.lines[i] : i \in DOMAIN a.lines} = {b.lines[i] : i \in DOMAIN b.lines}

SameCart(r, s) == SameOrder(Body[r], Body[s])

\* Two bodies that are not rejected for a repeated line have the same key exactly
\* when they are the same cart.
CanonicalKeys ==
  \A a, b \in {c \in Bodies : ~HasDuplicateLine(c.lines)} :
    idempotencyKey(a.user, a.lines) = idempotencyKey(b.user, b.lines)
      <=> SameOrder(a, b)

\* Once a key is in Redis, it turns away every other submission of its cart and
\* nothing else, whatever comes in: the sort of idempotencyKey makes the order of
\* the lines irrelevant, and the user and every quantity are part of the key.
KeysAreCanonical == keys # {} => CanonicalKeys

\* Submissions of the same cart collapse to a single order while the TTL of its
\* key runs, however CreateOrder's steps of several requests interleave and
\* however often one of them fails and gives the key back.
DuplicatesCollapse ==
  \A r, s \in recent : SameCart(r, s) => r = s

\* A request that went on although Reserve returned an error.
RanWithoutKey(r) ==
  r \notin acquired /\ pc[r] \in {"fetch", "persist", "release", "created", "failed", "stuck"}

\* What may have left a key behind: work that goes on, an order, or a fault that can
\* be named (the claim was applied and not answered, the release failed, the process
\* died).  A request that gave its key back is none of these.
Explains(r) ==
  \/ Working(r) \/ r \in recent
  \/ pc[r] = "echoed"
  \/ r \notin resent /\ pc[r] \in {"stuck", "dead"}
  \/ r \notin resent /\ RanWithoutKey(r) /\ pc[r] # "failed"

\* A key is in Redis because a request that claimed it is still at work or has
\* created its order, or else because of a fault that can be named.  In particular
\* a failed request whose release came through, answered or not, leaves nothing
\* behind that would turn its client's retry away (CreateOrder's calls of release).
HeldForAReason ==
  \A k \in keys : \E r \in Requests : Key(r) = k /\ Explains(r)

\* A request of the same cart that ran without the key, whose commit was not
\* answered, that outlasted the TTL, or whose release was sent again.
Cause(q) ==
  \/ RanWithoutKey(q)
  \/ q \in committed /\ pc[q] \in {"release", "failed", "stuck", "dead"}
  \/ q \in late
  \/ q \in resent

\* Whatever fails (Redis, the database's answers, clients, processes), a cart is
\* ordered twice within the TTL only if one of its requests ran without its key,
\* had its commit go unanswered, outlasted the TTL, or had its DEL applied, left
\* unanswered and sent again, which may remove the key of a later submission.
DuplicatesHaveACause ==
  \A r, s \in recent :
    r # s /\ SameCart(r, s) => \E q \in Requests : SameCart(q, r) /\ Cause(q)

=============================================================================
