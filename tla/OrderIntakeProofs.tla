-------------------------- MODULE OrderIntakeProofs --------------------------
(***************************************************************************)
(* Proofs about OrderIntake, for any number of requests and any carts.     *)
(*                                                                         *)
(* The first part is about the sort: it makes keys canonical, whatever     *)
(* carts come in.  The rest is an argument about who holds a key: a        *)
(* request that was given it, while it works and while its order is        *)
(* recent.  Until one of four kinds of request does harm, a key has one    *)
(* holder and is in Redis as long as it has one.                           *)
(***************************************************************************)
EXTENDS OrderIntake, FunctionTheorems, FiniteSetTheorems, TLAPS

-----------------------------------------------------------------------------
(***************************************************************************)
(* Sorting.  The place of a line in the sorted list is the number of lines *)
(* with smaller products, which depends on the set of lines only.  Places  *)
(* are counted, so that no induction over the lines is needed.             *)
(***************************************************************************)

Line == [product : Nat, quantity : Nat]

Increasing(s) == \A i, j \in DOMAIN s : i < j => s[i].product < s[j].product

Lines(s) == {s[i] : i \in DOMAIN s}

LEMMA StrictSubset ==
  ASSUME NEW T, IsFiniteSet(T), NEW S, S \subseteq T, NEW x \in T, x \notin S
  PROVE  /\ IsFiniteSet(S) /\ Cardinality(S) \in Nat
         /\ Cardinality(T) \in Nat /\ Cardinality(S) < Cardinality(T)
<1>1. IsFiniteSet(S) /\ Cardinality(S) <= Cardinality(T) /\ Cardinality(S) # Cardinality(T)
  BY FS_Subset
<1>2. Cardinality(S) \in Nat /\ Cardinality(T) \in Nat
  BY <1>1, FS_CardinalityType
<1> QED
  BY <1>1, <1>2

\* Where product f[i] of the i-th line belongs among the products of n lines.
Place(f, n, i) == Cardinality({j \in 1..n : f[j] < f[i]}) + 1

LEMMA PlaceGrows ==
  ASSUME NEW n \in Nat, NEW f \in [1..n -> Nat],
         NEW i \in 1..n, NEW j \in 1..n
  PROVE  /\ Place(f, n, i) \in 1..n
         /\ f[i] < f[j] => Place(f, n, i) < Place(f, n, j)
<1> DEFINE B(k) == {l \in 1..n : f[l] < f[k]}
<1>1. IsFiniteSet(1..n) /\ Cardinality(1..n) = n
  BY FS_Interval
<1>2. \A k \in 1..n : IsFiniteSet(B(k)) /\ Cardinality(B(k)) \in Nat /\ Cardinality(B(k)) < n
  <2> SUFFICES ASSUME NEW k \in 1..n
               PROVE  IsFiniteSet(B(k)) /\ Cardinality(B(k)) \in Nat /\ Cardinality(B(k)) < n
    OBVIOUS
  <2>1. B(k) \subseteq 1..n /\ k \notin B(k)
    OBVIOUS
  <2> QED
    BY <1>1, <2>1, StrictSubset
<1>3. ASSUME f[i] < f[j] PROVE Cardinality(B(i)) < Cardinality(B(j))
  <2>1. B(i) \subseteq B(j) /\ i \in B(j) /\ i \notin B(i)
    BY <1>3
  <2> QED
    BY <1>2, <2>1, StrictSubset
<1> HIDE DEF B
<1>4. Place(f, n, i) = Cardinality(B(i)) + 1 /\ Place(f, n, j) = Cardinality(B(j)) + 1
  BY DEF Place, B
<1>5. /\ Cardinality(B(i)) \in Nat /\ Cardinality(B(i)) < n
      /\ Cardinality(B(j)) \in Nat
  BY <1>2
<1> QED
  BY <1>3, <1>4, <1>5

\* Distinct products have distinct places, so that every place is taken.
LEMMA PlacesAreTaken ==
  ASSUME NEW n \in Nat, NEW f \in [1..n -> Nat],
         \A i, j \in 1..n : i # j => f[i] # f[j]
  PROVE  \E p \in Bijection(1..n, 1..n) : \A i, j \in 1..n : i < j => f[p[i]] < f[p[j]]
<1> DEFINE D == 1..n
<1>1. PICK place : place = [i \in D |-> Place(f, n, i)]
  OBVIOUS
<1>2. place \in [D -> D] /\ \A i, j \in D : f[i] < f[j] => place[i] < place[j]
  BY <1>1, PlaceGrows
<1>3. \A i, j \in D : i # j => place[i] # place[j]
  <2> SUFFICES ASSUME NEW i \in D, NEW j \in D, i # j PROVE place[i] # place[j]
    OBVIOUS
  <2>1. f[i] < f[j] \/ f[j] < f[i]
    OBVIOUS
  <2>2. place[i] < place[j] \/ place[j] < place[i]
    BY <1>2, <2>1
  <2>3. place[i] \in D /\ place[j] \in D
    BY <1>2
  <2> QED
    BY <2>2, <2>3
<1>4. place \in Injection(D, D)
  BY <1>2, <1>3 DEF Injection, IsInjective
<1>5. place \in Bijection(D, D)
  BY <1>4, FS_Interval, FS_Injection DEF Bijection
<1>6. \A k \in D : \E i \in D : place[i] = k
  BY <1>5 DEF Bijection, Surjection
<1>7. PICK p : p = [k \in D |-> CHOOSE i \in D : place[i] = k]
  OBVIOUS
<1>8. p \in [D -> D] /\ \A k \in D : place[p[k]] = k
  BY <1>6, <1>7
<1>9. p \in Injection(D, D)
  <2>1. \A i, j \in D : p[i] = p[j] => i = j
    BY <1>8
  <2> QED
    BY <1>8, <2>1 DEF Injection, IsInjective
<1>10. p \in Bijection(D, D)
  BY <1>9, FS_Interval, FS_Injection DEF Bijection
<1>11. ASSUME NEW i \in D, NEW j \in D, i < j PROVE f[p[i]] < f[p[j]]
  <2>1. p[i] \in D /\ p[j] \in D /\ f[p[i]] \in Nat /\ f[p[j]] \in Nat
    BY <1>8
  <2>2. ~(f[p[j]] < f[p[i]])
    <3>1. place[p[i]] = i /\ place[p[j]] = j
      BY <1>8
    <3>2. f[p[j]] < f[p[i]] => place[p[j]] < place[p[i]]
      BY <1>2, <2>1
    <3> QED
      BY <1>11, <3>1, <3>2
  <2>3. f[p[i]] # f[p[j]]
    <3>1. i # j
      BY <1>11
    <3>2. p[i] # p[j]
      BY <1>8, <3>1
    <3> QED
      BY <2>1, <3>2
  <2> QED
    BY <2>1, <2>2, <2>3
<1> QED
  BY <1>10, <1>11

LEMMA LineTypes ==
  ASSUME NEW lines \in Seq(Line)
  PROVE  /\ Len(lines) \in Nat /\ DOMAIN lines = 1..Len(lines)
         /\ \A i \in 1..Len(lines) : lines[i] \in Line /\ lines[i].product \in Nat
<1>1. Len(lines) \in Nat /\ DOMAIN lines = 1..Len(lines)
  <2> HIDE DEF Line
  <2> QED
    OBVIOUS
<1>2. \A i \in 1..Len(lines) : lines[i] \in Line
  OBVIOUS
<1>3. \A i \in 1..Len(lines) : lines[i].product \in Nat
  BY <1>2 DEF Line
<1> QED
  BY <1>1, <1>2, <1>3

\* The sort finds a listing whose products increase.
LEMMA SortSorts ==
  ASSUME NEW lines \in Seq(Line), ~HasDuplicateLine(lines)
  PROVE  sorted(lines) \in Listings(lines) /\ Increasing(sorted(lines))
<1> DEFINE n == Len(lines)
           f == [i \in 1..n |-> lines[i].product]
           InOrder(s) == \A i, j \in DOMAIN s : i < j => s[i].product <= s[j].product
<1>1. n \in Nat /\ DOMAIN lines = 1..n /\ f \in [1..n -> Nat]
  BY LineTypes
<1>2. \A i, j \in 1..n : i # j => f[i] # f[j]
  BY <1>1 DEF HasDuplicateLine
<1>3. PICK p \in Bijection(1..n, 1..n) : \A i, j \in 1..n : i < j => f[p[i]] < f[p[j]]
  <2> HIDE DEF f, n
  <2> QED
    BY <1>1, <1>2, PlacesAreTaken
<1>4. PICK t : t = [i \in DOMAIN lines |-> lines[p[i]]]
  OBVIOUS
<1>5. t \in Listings(lines)
  BY <1>1, <1>3, <1>4 DEF Listings
<1>6. InOrder(t)
  <2> SUFFICES ASSUME NEW i \in 1..n, NEW j \in 1..n, i < j
               PROVE  t[i].product <= t[j].product
    BY <1>1, <1>4
  <2>1. p[i] \in 1..n /\ p[j] \in 1..n
    BY <1>3 DEF Bijection, Injection
  <2>2. f[p[i]] < f[p[j]] /\ f[p[i]] \in Nat /\ f[p[j]] \in Nat
    BY <1>1, <1>3, <2>1
  <2>3. t[i].product = f[p[i]] /\ t[j].product = f[p[j]]
    BY <1>1, <1>4, <2>1
  <2> QED
    BY <2>2, <2>3
<1>7. PICK s : s = sorted(lines)
  OBVIOUS
<1>8. s \in Listings(lines) /\ InOrder(s)
  BY <1>5, <1>6, <1>7 DEF sorted
<1>9. Increasing(s)
  <2>1. PICK q \in Bijection(1..n, 1..n) : s = [i \in 1..n |-> lines[q[i]]]
    BY <1>1, <1>8 DEF Listings
  <2> SUFFICES ASSUME NEW i \in 1..n, NEW j \in 1..n, i < j
               PROVE  s[i].product < s[j].product
    BY <2>1 DEF Increasing
  <2>2. q[i] \in 1..n /\ q[j] \in 1..n
    BY <2>1 DEF Bijection, Injection
  <2>3. q[i] # q[j]
    <3>1. i # j
      OBVIOUS
    <3> QED
      BY <2>1, <3>1 DEF Bijection, Injection, IsInjective
  <2>4. s[i].product = f[q[i]] /\ s[j].product = f[q[j]]
    BY <2>1, <2>2
  <2>5. f[q[i]] # f[q[j]] /\ f[q[i]] \in Nat /\ f[q[j]] \in Nat
    BY <1>1, <1>2, <2>2, <2>3
  <2>6. s[i].product <= s[j].product
    BY <1>8, <2>1
  <2> QED
    BY <2>4, <2>5, <2>6
<1> QED
  BY <1>7, <1>8, <1>9

\* A listing has the lines it lists, and as many.
LEMMA ListingLists ==
  ASSUME NEW lines \in Seq(Line), NEW s \in Listings(lines)
  PROVE  s \in [1..Len(lines) -> Line] /\ Lines(s) = Lines(lines)
<1> DEFINE n == Len(lines)
<1>1. n \in Nat /\ DOMAIN lines = 1..n /\ \A i \in 1..n : lines[i] \in Line
  BY LineTypes
<1>2. PICK p \in Bijection(1..n, 1..n) : s = [i \in 1..n |-> lines[p[i]]]
  BY <1>1 DEF Listings
<1>3. p \in [1..n -> 1..n] /\ \A k \in 1..n : \E i \in 1..n : p[i] = k
  BY <1>2 DEF Bijection, Injection, Surjection
<1>4. s \in [1..n -> Line]
  BY <1>1, <1>2, <1>3
<1>5. \A i \in 1..n : s[i] \in Lines(lines)
  BY <1>1, <1>2, <1>3 DEF Lines
<1>6. \A k \in 1..n : lines[k] \in Lines(s)
  BY <1>2, <1>3 DEF Lines
<1> QED
  BY <1>1, <1>4, <1>5, <1>6 DEF Lines

\* Increasing lists do not repeat a line, so that their lines can be counted.
LEMMA CountLines ==
  ASSUME NEW n \in Nat, NEW s \in [1..n -> Line], Increasing(s)
  PROVE  IsFiniteSet(Lines(s)) /\ Cardinality(Lines(s)) = n
<1>1. \A i, j \in 1..n : s[i] = s[j] => i = j
  <2> SUFFICES ASSUME NEW i \in 1..n, NEW j \in 1..n, s[i] = s[j], i # j PROVE FALSE
    OBVIOUS
  <2>1. s[i].product \in Nat /\ s[j].product \in Nat
    BY DEF Line
  <2>2. i < j \/ j < i
    OBVIOUS
  <2>3. s[i].product < s[j].product \/ s[j].product < s[i].product
    BY <2>2 DEF Increasing
  <2> QED
    BY <2>1, <2>3
<1>2. s \in Bijection(1..n, Lines(s))
  BY <1>1 DEF Bijection, Injection, Surjection, IsInjective, Lines
<1>3. ExistsBijection(1..n, Lines(s))
  BY <1>2 DEF ExistsBijection
<1> QED
  BY <1>3, FS_CountingElements, FS_NatBijection

\* The i-th line of an increasing list is the one that i - 1 lines come before.
LEMMA LinesBefore ==
  ASSUME NEW n \in Nat, NEW s \in [1..n -> Line], Increasing(s), NEW i \in 1..n
  PROVE  Cardinality({l \in Lines(s) : l.product < s[i].product}) = i - 1
<1> DEFINE m == i - 1
           head == [j \in 1..m |-> s[j]]
<1>1. m \in Nat /\ head \in [1..m -> Line] /\ 1..m \subseteq 1..n
  OBVIOUS
<1>2. Increasing(head)
  BY <1>1 DEF Increasing
<1>3. Cardinality(Lines(head)) = m
  <2> HIDE DEF m, head
  <2> QED
    BY <1>1, <1>2, CountLines
<1>4. ASSUME NEW j \in 1..n PROVE s[j].product < s[i].product <=> j \in 1..m
  <2>1. s[i].product \in Nat /\ s[j].product \in Nat
    BY DEF Line
  <2>2. j < i => s[j].product < s[i].product
    BY DEF Increasing
  <2>3. i < j => s[i].product < s[j].product
    BY DEF Increasing
  <2>4. j = i => s[j].product = s[i].product
    OBVIOUS
  <2> QED
    BY <2>1, <2>2, <2>3, <2>4
<1>5. {l \in Lines(s) : l.product < s[i].product} = Lines(head)
  BY <1>1, <1>4 DEF Lines
<1> QED
  BY <1>3, <1>5

\* There is one increasing list of a set of lines.
LEMMA OneIncreasingList ==
  ASSUME NEW n \in Nat, NEW s \in [1..n -> Line], Increasing(s),
         NEW m \in Nat, NEW t \in [1..m -> Line], Increasing(t),
         Lines(s) = Lines(t)
  PROVE  s = t
<1>1. n = m
  BY CountLines
<1>2. ASSUME NEW i \in 1..n PROVE s[i] = t[i]
  <2>1. PICK k \in 1..n : s[i] = t[k]
    BY <1>1 DEF Lines
  <2>2. Cardinality({l \in Lines(s) : l.product < s[i].product}) = i - 1
    BY LinesBefore
  <2>3. Cardinality({l \in Lines(t) : l.product < t[k].product}) = k - 1
    BY <1>1, LinesBefore
  <2>4. i = k
    BY <2>1, <2>2, <2>3
  <2> QED
    BY <2>1, <2>4
<1> QED
  BY <1>1, <1>2

\* Two carts that are not rejected for a repeated line have the same key exactly
\* when they are the same cart: the sort of idempotencyKey makes the order of the
\* lines irrelevant, for any number of lines.
THEOREM SortedKeysAreCanonical == CanonicalKeys
<1> SUFFICES ASSUME NEW a \in Bodies, NEW b \in Bodies,
                    ~HasDuplicateLine(a.lines), ~HasDuplicateLine(b.lines)
             PROVE  idempotencyKey(a.user, a.lines) = idempotencyKey(b.user, b.lines)
                      <=> SameOrder(a, b)
  BY DEF CanonicalKeys
<1>1. a.lines \in Seq(Line) /\ b.lines \in Seq(Line)
  BY IntakeAssumption DEF Line
<1>2. PICK s : s = sorted(a.lines)
  OBVIOUS
<1>3. PICK t : t = sorted(b.lines)
  OBVIOUS
<1>4. /\ s \in [1..Len(a.lines) -> Line] /\ Increasing(s) /\ Lines(s) = Lines(a.lines)
      /\ t \in [1..Len(b.lines) -> Line] /\ Increasing(t) /\ Lines(t) = Lines(b.lines)
  BY <1>1, <1>2, <1>3, SortSorts, ListingLists
<1>5. Len(a.lines) \in Nat /\ Len(b.lines) \in Nat
  BY <1>1, LineTypes
<1>6. s = t <=> Lines(a.lines) = Lines(b.lines)
  BY <1>4, <1>5, OneIncreasingList
<1> QED
  BY <1>2, <1>3, <1>6 DEF idempotencyKey, SameOrder, Lines

\* A key in Redis turns away every other submission of its cart and nothing else,
\* whatever comes in.
THEOREM KeysTurnAwayOneCart == Spec => []KeysAreCanonical
<1>1. KeysAreCanonical
  BY SortedKeysAreCanonical DEF KeysAreCanonical
<1> QED
  BY <1>1, PTL

-----------------------------------------------------------------------------
(***************************************************************************)
(* Who holds a key.                                                        *)
(***************************************************************************)

Holds(r) == r \in recent \/ Working(r)

\* A request that gave back a key it was never given, one whose commit was taken
\* for a failure, one that outlasted the TTL, and one that may release twice.
Harm(q) ==
  \/ q \notin acquired /\ q \notin gone /\ pc[q] = "failed"
  \/ q \in committed /\ pc[q] \in {"release", "failed", "stuck", "dead"}
  \/ q \in late
  \/ q \in resent

OneHolder(k) ==
  /\ \A r \in Requests : Holds(r) /\ Key(r) = k => k \in keys
  /\ \A r, s \in Requests : Holds(r) /\ Holds(s) /\ Key(r) = k /\ Key(s) = k => r = s

Harmed(k) == \E q \in Requests : Key(q) = k /\ Harm(q)

KeyInv == \A t \in Requests : OneHolder(Key(t)) \/ Harmed(Key(t))

\* Where requests are, and what that says of the sets.
StepInv ==
  /\ pc \in [Requests -> {"new"} \cup Calling \cup Ended]
  /\ gone \subseteq Requests /\ acquired \subseteq Requests
  /\ committed \subseteq Requests /\ recent \subseteq committed /\ late \subseteq acquired
  /\ resent \subseteq Requests
  /\ \A r \in resent : pc[r] \in {"release", "failed", "stuck", "dead"}
  /\ \A r \in Requests : pc[r] \in {"new", "rejected", "reserve"} => r \notin acquired
  /\ \A r \in Requests : pc[r] \in {"new", "rejected", "reserve", "fetch", "persist"}
                            => r \notin committed
  /\ \A r \in committed : pc[r] \in {"created", "release", "failed", "stuck", "dead"}
  /\ \A r \in recent : r \in acquired
  /\ \A r \in Requests : pc[r] \notin {"new", "rejected"} => ~HasDuplicateLine(Body[r].lines)
  /\ \A r \in Requests : pc[r] = "created" => r \in committed
  /\ keys \subseteq {Key(r) : r \in Requests}

LEMMA StepInvHolds == Spec => []StepInv
<1>1. Init => StepInv
  BY DEF Init, StepInv
<1>2. StepInv /\ [Next]_vars => StepInv'
  <2> SUFFICES ASSUME StepInv, [Next]_vars PROVE StepInv'
    OBVIOUS
  <2> USE DEF StepInv, Calling, Ended, Goto
  <2>1. ASSUME NEW r \in Requests, Validate(r) PROVE StepInv'
    BY <2>1 DEF Validate
  <2>2. ASSUME NEW r \in Requests, ReserveAcquires(r) PROVE StepInv'
    BY <2>2 DEF ReserveAcquires
  <2>3. ASSUME NEW r \in Requests, ReserveDuplicate(r) PROVE StepInv'
    BY <2>3 DEF ReserveDuplicate
  <2>4. ASSUME NEW r \in Requests, ReserveError(r) PROVE StepInv'
    BY <2>4 DEF ReserveError
  <2>5. ASSUME NEW r \in Requests, ReserveEchoed(r) PROVE StepInv'
    BY <2>5 DEF ReserveEchoed
  <2>6. ASSUME NEW r \in Requests, FetchProducts(r) \/ FetchFails(r) PROVE StepInv'
    BY <2>6 DEF FetchProducts, FetchFails
  <2>7. ASSUME NEW r \in Requests, Persist(r) PROVE StepInv'
    BY <2>7 DEF Persist, Commit
  <2>8. ASSUME NEW r \in Requests, PersistFails(r) PROVE StepInv'
    BY <2>8 DEF PersistFails
  <2>9. ASSUME NEW r \in Requests, PersistUnacked(r) PROVE StepInv'
    BY <2>9 DEF PersistUnacked, Commit
  <2>10. ASSUME NEW r \in Requests, Release(r) PROVE StepInv'
    BY <2>10 DEF Release
  <2>11. ASSUME NEW r \in Requests, ReleaseError(r) PROVE StepInv'
    BY <2>11 DEF ReleaseError
  <2>12. ASSUME NEW r \in Requests, ClientLeaves(r) PROVE StepInv'
    BY <2>12 DEF ClientLeaves
  <2>13. ASSUME NEW r \in Requests, Die(r) PROVE StepInv'
    BY <2>13 DEF Die, InFlight
  <2>14. ASSUME NEW r \in Requests, Expire(Key(r)) PROVE StepInv'
    BY <2>14 DEF Expire, Working
  <2>15. ASSUME NEW r \in Requests, ReleaseUnanswered(r) PROVE StepInv'
    BY <2>15 DEF ReleaseUnanswered
  <2>16. CASE UNCHANGED vars
    BY <2>16 DEF vars
  <2>17. QED
    BY <2>1, <2>2, <2>3, <2>4, <2>5, <2>6, <2>7, <2>8, <2>9, <2>10, <2>11, <2>12, <2>13,
       <2>14, <2>15, <2>16
    DEF Next, CreateOrder
<1>3. QED
  BY <1>1, <1>2, PTL DEF Spec

\* Harm is for good: no step undoes it.
LEMMA HarmStays == StepInv /\ [Next]_vars => \A q \in Requests : Harm(q) => Harm(q)'
<1> SUFFICES ASSUME StepInv, [Next]_vars, NEW q \in Requests, Harm(q) PROVE Harm(q)'
  OBVIOUS
<1>0. pc \in [Requests -> {"new"} \cup Calling \cup Ended] /\ late \subseteq acquired
  BY DEF StepInv
<1>1. q \in committed \/ q \in late \/ q \in resent \/ pc[q] = "failed"
  BY DEF Harm
<1> USE DEF Harm, Goto, InFlight, Calling
<1>2. ASSUME NEW r \in Requests, Validate(r) PROVE Harm(q)'
  BY <1>0, <1>1, <1>2 DEF Validate
<1>3. ASSUME NEW r \in Requests, ReserveAcquires(r) PROVE Harm(q)'
  BY <1>0, <1>1, <1>3 DEF ReserveAcquires
<1>4. ASSUME NEW r \in Requests, ReserveDuplicate(r) PROVE Harm(q)'
  BY <1>0, <1>1, <1>4 DEF ReserveDuplicate
<1>5. ASSUME NEW r \in Requests, ReserveError(r) PROVE Harm(q)'
  BY <1>0, <1>1, <1>5 DEF ReserveError
<1>6. ASSUME NEW r \in Requests, ReserveEchoed(r) PROVE Harm(q)'
  BY <1>0, <1>1, <1>6 DEF ReserveEchoed
<1>7. ASSUME NEW r \in Requests, FetchProducts(r) PROVE Harm(q)'
  BY <1>0, <1>1, <1>7 DEF FetchProducts
<1>8. ASSUME NEW r \in Requests, FetchFails(r) PROVE Harm(q)'
  BY <1>0, <1>1, <1>8 DEF FetchFails
<1>9. ASSUME NEW r \in Requests, Persist(r) PROVE Harm(q)'
  BY <1>0, <1>1, <1>9 DEF Persist, Commit
<1>10. ASSUME NEW r \in Requests, PersistFails(r) PROVE Harm(q)'
  BY <1>0, <1>1, <1>10 DEF PersistFails
<1>11. ASSUME NEW r \in Requests, PersistUnacked(r) PROVE Harm(q)'
  BY <1>0, <1>1, <1>11 DEF PersistUnacked, Commit
<1>12. ASSUME NEW r \in Requests, Release(r) PROVE Harm(q)'
  BY <1>0, <1>1, <1>12 DEF Release
<1>13. ASSUME NEW r \in Requests, ReleaseError(r) PROVE Harm(q)'
  BY <1>0, <1>1, <1>13 DEF ReleaseError
<1>14. ASSUME NEW r \in Requests, ClientLeaves(r) PROVE Harm(q)'
  BY <1>0, <1>1, <1>14 DEF ClientLeaves
<1>15. ASSUME NEW r \in Requests, Die(r) PROVE Harm(q)'
  BY <1>0, <1>1, <1>15 DEF Die
<1>16. ASSUME NEW r \in Requests, Expire(Key(r)) PROVE Harm(q)'
  BY <1>16 DEF Expire
<1>17. ASSUME NEW r \in Requests, ReleaseUnanswered(r) PROVE Harm(q)'
  BY <1>17 DEF ReleaseUnanswered
<1>18. CASE UNCHANGED vars
  BY <1>18 DEF vars
<1>19. QED
  BY <1>2, <1>3, <1>4, <1>5, <1>6, <1>7, <1>8, <1>9, <1>10, <1>11, <1>12, <1>13, <1>14, <1>15,
     <1>16, <1>17, <1>18
  DEF Next, CreateOrder

LEMMA KeyInvStep == StepInv /\ KeyInv /\ [Next]_vars => KeyInv'
<1> SUFFICES ASSUME StepInv, KeyInv, [Next]_vars, NEW t \in Requests
             PROVE (OneHolder(Key(t)) \/ Harmed(Key(t)))'
  BY DEF KeyInv
<1> DEFINE Goal == (OneHolder(Key(t)) \/ Harmed(Key(t)))'
<1>1. CASE Harmed(Key(t))
  BY <1>1, HarmStays DEF Harmed
<1>2. CASE OneHolder(Key(t))
  <2> USE <1>2 DEF OneHolder, Holds, Working, Goto, InFlight, Calling
  <2>0. /\ pc \in [Requests -> {"new"} \cup Calling \cup Ended]
        /\ recent \subseteq Requests /\ acquired \subseteq Requests
        /\ \A r \in Requests : pc[r] \in {"new", "rejected", "reserve"}
                                  => r \notin acquired /\ r \notin recent
        /\ \A r \in Requests : pc[r] = "persist" => r \notin resent
    BY DEF StepInv
  <2>1. ASSUME NEW r \in Requests, Validate(r) PROVE Goal
    BY <2>0, <2>1 DEF Validate
  <2>2. ASSUME NEW r \in Requests, ReserveAcquires(r) PROVE Goal
    BY <2>0, <2>2 DEF ReserveAcquires
  <2>3. ASSUME NEW r \in Requests, ReserveDuplicate(r) PROVE Goal
    BY <2>0, <2>3 DEF ReserveDuplicate
  <2>4. ASSUME NEW r \in Requests, ReserveError(r) PROVE Goal
    BY <2>0, <2>4 DEF ReserveError
  <2>5. ASSUME NEW r \in Requests, ReserveEchoed(r) PROVE Goal
    BY <2>0, <2>5 DEF ReserveEchoed
  <2>6. ASSUME NEW r \in Requests, FetchProducts(r) PROVE Goal
    BY <2>0, <2>6 DEF FetchProducts
  <2>7. ASSUME NEW r \in Requests, FetchFails(r) PROVE Goal
    BY <2>0, <2>7 DEF FetchFails
  <2>8. ASSUME NEW r \in Requests, Persist(r) PROVE Goal
    BY <2>0, <2>8 DEF Persist, Commit
  <2>9. ASSUME NEW r \in Requests, PersistFails(r) PROVE Goal
    BY <2>0, <2>9 DEF PersistFails
  <2>10. ASSUME NEW r \in Requests, PersistUnacked(r) PROVE Goal
    <3>1. CASE Key(r) # Key(t)
      BY <2>0, <2>10, <3>1 DEF PersistUnacked, Commit
    <3>2. CASE Key(r) = Key(t)
      <4>1. Harm(r)'
        BY <2>0, <2>10 DEF Harm, PersistUnacked, Commit
      <4>2. QED
        BY <4>1, <3>2 DEF Harmed
    <3>3. QED
      BY <3>1, <3>2
  <2>11. ASSUME NEW r \in Requests, r \notin gone, pc[r] = "release",
                pc' = [pc EXCEPT ![r] = "failed"], keys' = keys \ {Key(r)},
                UNCHANGED <<gone, acquired, committed, recent, late, resent>>
         PROVE Goal
    <3>1. CASE Key(r) # Key(t)
      BY <2>0, <2>11, <3>1
    <3>2. CASE Key(r) = Key(t) /\ (r \notin acquired \/ r \in committed \/ r \in resent)
      <4>1. Harm(r)'
        BY <2>0, <2>11, <3>2 DEF Harm
      <4>2. QED
        BY <4>1, <3>2 DEF Harmed
    <3>3. CASE Key(r) = Key(t) /\ r \in acquired /\ r \notin committed /\ r \notin resent
      <4>1. r \notin recent
        BY <3>3 DEF StepInv
      <4>2. \A s \in Requests : Key(s) = Key(t) => ~Holds(s)'
        BY <2>0, <2>11, <3>3, <4>1
      <4>3. QED
        BY <4>2
    <3>4. QED
      BY <3>1, <3>2, <3>3
  <2>12. ASSUME NEW r \in Requests, Release(r) \/ ReleaseError(r) PROVE Goal
    <3>1. CASE r \notin gone /\ keys' = keys \ {Key(r)} /\ pc' = [pc EXCEPT ![r] = "failed"]
      <4>1. pc[r] = "release" /\ UNCHANGED <<gone, acquired, committed, recent, late, resent>>
        BY <2>12 DEF Release, ReleaseError
      <4>2. QED
        BY <2>11, <3>1, <4>1
    <3>2. CASE UNCHANGED keys /\ pc' = [pc EXCEPT ![r] = "stuck"]
      BY <2>0, <2>12, <3>2 DEF Release, ReleaseError
    <3>3. QED
      BY <2>12, <3>1, <3>2 DEF Release, ReleaseError
  <2>13. ASSUME NEW r \in Requests, ClientLeaves(r) PROVE Goal
    BY <2>0, <2>13 DEF ClientLeaves
  <2>14. ASSUME NEW r \in Requests, Die(r) PROVE Goal
    BY <2>0, <2>14 DEF Die
  <2>15. ASSUME NEW r \in Requests, Expire(Key(r)) PROVE Goal
    <3>1. CASE Key(r) # Key(t)
      BY <2>0, <2>15, <3>1 DEF Expire
    <3>2. CASE Key(r) = Key(t) /\ \E q \in Requests : Key(q) = Key(r) /\ Working(q)
      <4>1. PICK q \in Requests : Key(q) = Key(r) /\ Working(q)
        BY <3>2
      <4>2. Harm(q)'
        BY <2>0, <2>15, <4>1 DEF Harm, Expire
      <4>3. QED
        BY <4>1, <4>2, <3>2 DEF Harmed
    <3>3. CASE Key(r) = Key(t) /\ ~\E q \in Requests : Key(q) = Key(r) /\ Working(q)
      BY <2>0, <2>15, <3>3 DEF Expire
    <3>4. QED
      BY <3>1, <3>2, <3>3
  <2>16. ASSUME NEW r \in Requests, ReleaseUnanswered(r) PROVE Goal
    <3>1. CASE Key(r) # Key(t)
      BY <2>0, <2>16, <3>1 DEF ReleaseUnanswered
    <3>2. CASE Key(r) = Key(t)
      <4>1. Harm(r)'
        BY <2>16 DEF Harm, ReleaseUnanswered
      <4>2. QED
        BY <4>1, <3>2 DEF Harmed
    <3>3. QED
      BY <3>1, <3>2
  <2>17. CASE UNCHANGED vars
    BY <2>17 DEF vars
  <2>18. QED
    BY <2>1, <2>2, <2>3, <2>4, <2>5, <2>6, <2>7, <2>8, <2>9, <2>10, <2>11, <2>12, <2>13, <2>14,
       <2>15, <2>16, <2>17
    DEF Next, CreateOrder
<1>3. QED
  BY <1>1, <1>2 DEF KeyInv

LEMMA KeyInvHolds == Spec => []KeyInv
<1>1. Init => KeyInv
  BY DEF Init, KeyInv, OneHolder, Holds, Working
<1>2. QED
  BY <1>1, KeyInvStep, StepInvHolds, PTL DEF Spec

\* The type invariant; in particular a request that reports its order as created
\* has created it.
THEOREM TypeCorrect == Spec => []TypeOK
<1>1. StepInv => TypeOK
  BY DEF StepInv, TypeOK
<1>2. QED
  BY <1>1, StepInvHolds, PTL

LEMMA KeysOfCarts ==
  ASSUME StepInv, NEW r \in Requests, NEW s \in Requests,
         pc[r] \notin {"new", "rejected"}, pc[s] \notin {"new", "rejected"}
  PROVE  Key(r) = Key(s) <=> SameCart(r, s)
<1>1. /\ Body[r] \in Bodies /\ Body[s] \in Bodies
      /\ ~HasDuplicateLine(Body[r].lines) /\ ~HasDuplicateLine(Body[s].lines)
  BY IntakeAssumption DEF StepInv
<1>2. QED
  BY <1>1, SortedKeysAreCanonical DEF CanonicalKeys, Key, key, SameCart

\* With every fault there is, a cart is ordered twice within the TTL only if one
\* of its requests ran without its key, had its commit go unanswered, outlasted the
\* TTL, or had its DEL applied, left unanswered and sent again.
THEOREM DuplicatesAreExplained == Spec => []DuplicatesHaveACause
<1>1. StepInv /\ KeyInv => DuplicatesHaveACause
  <2> SUFFICES ASSUME StepInv, KeyInv, NEW r \in recent, NEW s \in recent,
                      r # s, SameCart(r, s)
               PROVE \E q \in Requests : SameCart(q, r) /\ Cause(q)
    BY DEF DuplicatesHaveACause
  <2>1. /\ r \in Requests /\ s \in Requests
        /\ pc[r] \notin {"new", "rejected"} /\ pc[s] \notin {"new", "rejected"}
    BY DEF StepInv
  <2>2. Key(r) = Key(s)
    BY <2>1, KeysOfCarts
  <2>3. ~OneHolder(Key(r))
    BY <2>1, <2>2 DEF OneHolder, Holds
  <2>4. PICK q \in Requests : Key(q) = Key(r) /\ Harm(q)
    BY <2>1, <2>3 DEF KeyInv, Harmed
  <2>5. pc[q] \notin {"new", "rejected"}
    BY <2>4 DEF StepInv, Harm
  <2>6. SameCart(q, r)
    BY <2>1, <2>4, <2>5, KeysOfCarts
  <2>7. Cause(q)
    BY <2>4 DEF Harm, Cause, RanWithoutKey
  <2>8. QED
    BY <2>6, <2>7
<1>2. QED
  BY <1>1, StepInvHolds, KeyInvHolds, PTL

\* Claims and commits answered, no DEL sent again, and requests faster than the TTL
\* are enough for duplicates to collapse: clients that leave, a release that fails
\* (applied or not) and processes that die do not matter.
Undisturbed == ~ReserveFails /\ ~AckLost /\ ~OutlastTTL /\ ~ReleaseResent

NoHarmInv ==
  /\ late = {}
  /\ resent = {}
  /\ \A r \in committed : pc[r] = "created"
  /\ \A r \in Requests : pc[r] \in {"fetch", "persist", "release", "failed"}
                            => r \in acquired \/ r \in gone

THEOREM UndisturbedDuplicatesCollapse ==
  Undisturbed => (Spec => []DuplicatesCollapse)
<1> SUFFICES ASSUME Undisturbed PROVE Spec => []DuplicatesCollapse
  OBVIOUS
<1>1. Init => NoHarmInv
  BY DEF Init, NoHarmInv
<1>2. StepInv /\ NoHarmInv /\ [Next]_vars => NoHarmInv'
  <2> SUFFICES ASSUME StepInv, NoHarmInv, [Next]_vars PROVE NoHarmInv'
    OBVIOUS
  <2> USE DEF NoHarmInv, Goto, InFlight, Calling, Undisturbed
  <2>0. /\ pc \in [Requests -> {"new"} \cup Calling \cup Ended]
        /\ committed \subseteq Requests
        /\ \A r \in Requests : pc[r] \in {"new", "reserve", "fetch", "persist"}
                                  => r \notin committed
    BY DEF StepInv
  <2>1. ASSUME NEW r \in Requests, Validate(r) PROVE NoHarmInv'
    BY <2>0, <2>1 DEF Validate
  <2>2. ASSUME NEW r \in Requests, ReserveAcquires(r) PROVE NoHarmInv'
    BY <2>0, <2>2 DEF ReserveAcquires
  <2>3. ASSUME NEW r \in Requests, ReserveDuplicate(r) PROVE NoHarmInv'
    BY <2>0, <2>3 DEF ReserveDuplicate
  <2>4. ASSUME NEW r \in Requests, ReserveError(r) PROVE NoHarmInv'
    BY <2>0, <2>4 DEF ReserveError
  <2>5. ASSUME NEW r \in Requests, ReserveEchoed(r) PROVE NoHarmInv'
    BY <2>0, <2>5 DEF ReserveEchoed
  <2>6. ASSUME NEW r \in Requests, FetchProducts(r) PROVE NoHarmInv'
    BY <2>0, <2>6 DEF FetchProducts
  <2>7. ASSUME NEW r \in Requests, FetchFails(r) PROVE NoHarmInv'
    BY <2>0, <2>7 DEF FetchFails
  <2>8. ASSUME NEW r \in Requests, Persist(r) PROVE NoHarmInv'
    BY <2>0, <2>8 DEF Persist, Commit
  <2>9. ASSUME NEW r \in Requests, PersistFails(r) PROVE NoHarmInv'
    BY <2>0, <2>9 DEF PersistFails
  <2>10. ASSUME NEW r \in Requests, PersistUnacked(r) PROVE NoHarmInv'
    BY <2>0, <2>10 DEF PersistUnacked, Commit
  <2>11. ASSUME NEW r \in Requests, Release(r) PROVE NoHarmInv'
    BY <2>0, <2>11 DEF Release
  <2>12. ASSUME NEW r \in Requests, ReleaseError(r) PROVE NoHarmInv'
    BY <2>0, <2>12 DEF ReleaseError
  <2>13. ASSUME NEW r \in Requests, ClientLeaves(r) PROVE NoHarmInv'
    BY <2>0, <2>13 DEF ClientLeaves
  <2>14. ASSUME NEW r \in Requests, Die(r) PROVE NoHarmInv'
    BY <2>0, <2>14 DEF Die
  <2>15. ASSUME NEW r \in Requests, Expire(Key(r)) PROVE NoHarmInv'
    BY <2>15 DEF Expire, Working
  <2>16. ASSUME NEW r \in Requests, ReleaseUnanswered(r) PROVE NoHarmInv'
    BY <2>16 DEF ReleaseUnanswered
  <2>17. CASE UNCHANGED vars
    BY <2>17 DEF vars
  <2>18. QED
    BY <2>1, <2>2, <2>3, <2>4, <2>5, <2>6, <2>7, <2>8, <2>9, <2>10, <2>11, <2>12, <2>13, <2>14,
       <2>15, <2>16, <2>17
    DEF Next, CreateOrder
<1>3. StepInv /\ KeyInv /\ NoHarmInv => DuplicatesCollapse
  <2> SUFFICES ASSUME StepInv, KeyInv, NoHarmInv,
                      NEW r \in recent, NEW s \in recent, SameCart(r, s)
               PROVE r = s
    BY DEF DuplicatesCollapse
  <2>1. /\ r \in Requests /\ s \in Requests
        /\ pc[r] \notin {"new", "rejected"} /\ pc[s] \notin {"new", "rejected"}
    BY DEF StepInv
  <2>2. Key(r) = Key(s)
    BY <2>1, KeysOfCarts
  <2>3. ~Harmed(Key(r))
    BY DEF Harmed, Harm, NoHarmInv, StepInv
  <2>4. QED
    BY <2>1, <2>2, <2>3 DEF KeyInv, OneHolder, Holds
<1>4. QED
  BY <1>1, <1>2, <1>3, StepInvHolds, KeyInvHolds, PTL DEF Spec

\* A key in Redis has a request at work, an order within its TTL, or a named fault
\* behind it.
THEOREM HeldKeysAreExplained == Spec => []HeldForAReason
<1>1. Init => HeldForAReason
  BY DEF Init, HeldForAReason
<1>2. StepInv /\ HeldForAReason /\ [Next]_vars => HeldForAReason'
  <2> SUFFICES ASSUME StepInv, HeldForAReason, [Next]_vars, NEW k \in keys'
               PROVE (\E r \in Requests : Key(r) = k /\ Explains(r))'
    BY DEF HeldForAReason
  <2>0. /\ pc \in [Requests -> {"new"} \cup Calling \cup Ended]
        /\ \A r \in Requests : pc[r] \in {"new", "rejected", "reserve"} => r \notin acquired
        /\ \A r \in Requests : pc[r] = "reserve" => r \notin resent
    BY DEF StepInv
  <2> USE <2>0 DEF Goto, InFlight, Calling, Ended, RanWithoutKey, Working, Explains
  <2>1. ASSUME NEW r \in Requests, ReserveAcquires(r) \/ ReserveError(r) \/ ReserveEchoed(r)
        PROVE k \in keys \/ (Key(r) = k /\ Explains(r)')
    BY <2>1 DEF ReserveAcquires, ReserveError, ReserveEchoed
  <2>2. CASE k \notin keys
    <3>1. PICK r \in Requests : ReserveAcquires(r) \/ ReserveError(r) \/ ReserveEchoed(r)
      BY <2>2 DEF Next, CreateOrder, vars, Validate, ReserveDuplicate, FetchProducts, FetchFails,
         Persist, PersistFails, PersistUnacked, Release, ReleaseUnanswered, ReleaseError,
         ClientLeaves, Die, Expire
    <3>2. QED
      BY <2>1, <2>2, <3>1 DEF Key
  <2>3. CASE k \in keys
    <3>1. PICK q \in Requests : Key(q) = k /\ Explains(q)
      BY <2>3 DEF HeldForAReason
    <3> SUFFICES Explains(q)'
      BY <3>1 DEF Key
    <3>2. ASSUME NEW r \in Requests, Validate(r) PROVE Explains(q)'
      BY <3>1, <3>2 DEF Validate
    <3>3. ASSUME NEW r \in Requests, ReserveAcquires(r) PROVE Explains(q)'
      BY <3>1, <3>3 DEF ReserveAcquires
    <3>4. ASSUME NEW r \in Requests, ReserveDuplicate(r) PROVE Explains(q)'
      BY <3>1, <3>4 DEF ReserveDuplicate
    <3>5. ASSUME NEW r \in Requests, ReserveError(r) PROVE Explains(q)'
      BY <3>1, <3>5 DEF ReserveError
    <3>6. ASSUME NEW r \in Requests, ReserveEchoed(r) PROVE Explains(q)'
      BY <3>1, <3>6 DEF ReserveEchoed
    <3>7. ASSUME NEW r \in Requests, FetchProducts(r) \/ FetchFails(r) PROVE Explains(q)'
      BY <3>1, <3>7 DEF FetchProducts, FetchFails
    <3>8. ASSUME NEW r \in Requests, Persist(r) PROVE Explains(q)'
      BY <3>1, <3>8 DEF Persist, Commit
    <3>9. ASSUME NEW r \in Requests, PersistFails(r) PROVE Explains(q)'
      BY <3>1, <3>9 DEF PersistFails
    <3>10. ASSUME NEW r \in Requests, PersistUnacked(r) PROVE Explains(q)'
      BY <3>1, <3>10 DEF PersistUnacked, Commit
    <3>11. ASSUME NEW r \in Requests, Release(r) PROVE Explains(q)'
      <4>1. q # r
        BY <3>1, <3>11 DEF Release
      <4>2. QED
        BY <3>1, <3>11, <4>1 DEF Release
    <3>12. ASSUME NEW r \in Requests, ReleaseError(r) PROVE Explains(q)'
      <4>1. CASE UNCHANGED keys /\ pc' = [pc EXCEPT ![r] = "stuck"]
        BY <3>1, <3>12, <4>1 DEF ReleaseError
      <4>2. CASE keys' = keys \ {Key(r)}
        <5>1. q # r
          BY <3>1, <4>2
        <5>2. QED
          BY <3>1, <3>12, <5>1 DEF ReleaseError
      <4>3. QED
        BY <3>12, <4>1, <4>2 DEF ReleaseError
    <3>13. ASSUME NEW r \in Requests, ClientLeaves(r) PROVE Explains(q)'
      BY <3>1, <3>13 DEF ClientLeaves
    <3>14. ASSUME NEW r \in Requests, Die(r) PROVE Explains(q)'
      BY <3>1, <3>14 DEF Die
    <3>15. ASSUME NEW r \in Requests, Expire(Key(r)) PROVE Explains(q)'
      BY <3>1, <3>15 DEF Expire
    <3>16. ASSUME NEW r \in Requests, ReleaseUnanswered(r) PROVE Explains(q)'
      <4>1. q # r
        BY <3>1, <3>16 DEF ReleaseUnanswered
      <4>2. QED
        BY <3>1, <3>16, <4>1 DEF ReleaseUnanswered
    <3>17. CASE UNCHANGED vars
      BY <3>1, <3>17 DEF vars
    <3>18. QED
      BY <3>2, <3>3, <3>4, <3>5, <3>6, <3>7, <3>8, <3>9, <3>10, <3>11, <3>12, <3>13, <3>14,
         <3>15, <3>16, <3>17
      DEF Next, CreateOrder
  <2>4. QED
    BY <2>2, <2>3
<1>3. QED
  BY <1>1, <1>2, StepInvHolds, PTL DEF Spec

=============================================================================
