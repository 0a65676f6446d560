--------------------------- MODULE AccountsProofs ---------------------------
(***************************************************************************)
(* Proofs about Accounts, for any number of users, of overlapping updates  *)
(* and of logins, and for any lifetime of tokens.                          *)
(*                                                                         *)
(* An update that is not out of date holds the row as it is, but for what  *)
(* it was asked to set; a login that read the role admin did so when its   *)
(* user was one; and the claims of a token are what Generate computed.     *)
(***************************************************************************)
EXTENDS Accounts, TLAPS

UpdInv ==
  \A c \in Updates : upd[c].pc = "save" =>
    /\ upd[c].user \in Users /\ Exists(upd[c].user)
    /\ upd[c].row # NoRow
    /\ ~upd[c].stale =>
         \A f \in Fields \ upd[c].set : upd[c].row[f] = users[upd[c].user][f]

AdminInv ==
  \A u \in Users :
    /\ lastAdmin[u] <= clock
    /\ users[u]["role"] = "admin" => lastAdmin[u] = clock

LoginInv ==
  \A l \in Logins :
    /\ login[l].pc \in {"compare", "respond", "token"} =>
         /\ login[l].user \in Users
         /\ login[l].role = "admin" => lastAdmin[login[l].user] >= login[l].read
    /\ login[l].pc \in {"respond", "token"} =>
         login[l].issued \in Nat /\ login[l].exp = NumericDate(login[l].issued + TTL)
    /\ login[l].pc = "token" =>
         login[l].expiresIn = Seconds(login[l].issued + TTL - login[l].at)

AskedInv == \A u \in Users : Exists(u) => asked[u] # NoRow

IInv == TypeOK /\ UpdInv /\ AskedInv /\ LostOnlyToAStaleSave /\ AdminInv /\ LoginInv

-----------------------------------------------------------------------------

LEMMA DivBounds ==
  ASSUME NEW n \in Nat, NEW d \in Nat \ {0}
  PROVE  /\ n \div d \in Nat
         /\ (n \div d) * d <= n
         /\ n < (n \div d) * d + d
OBVIOUS

LEMMA NumericDateBounds ==
  ASSUME NEW t \in Nat
  PROVE  NumericDate(t) \in Nat /\ NumericDate(t) <= t /\ t < NumericDate(t) + PerSecond
<1>1. PerSecond \in Nat \ {0}
  BY AccountsAssumption
<1>2. QED
  BY <1>1, DivBounds DEF NumericDate

LEMMA RowFacts ==
  /\ NoRow \in Rows /\ NoRow["role"] = "" /\ NoRow["email"] = ""
  /\ \A e \in Emails, r \in Roles : Row(e, r) \in Rows /\ Row(e, r) # NoRow
  /\ \A x \in Rows : x \in [Fields -> Emails \cup Roles \cup {""}]
  /\ \A x \in Rows : x # NoRow => x["email"] \in Emails /\ x["role"] \in Roles
  /\ \A x \in [Fields -> Emails \cup Roles \cup {""}] :
       x["email"] \in Emails /\ x["role"] \in Roles => x \in Rows /\ x # NoRow
<1>1. \A e, r : /\ Row(e, r) = [f \in {"email", "role"} |-> IF f = "email" THEN e ELSE r]
                /\ Row(e, r)["email"] = e /\ Row(e, r)["role"] = r
  BY DEF Row, Fields
<1>2. NoRow = [f \in {"email", "role"} |-> ""] /\ NoRow["role"] = "" /\ NoRow["email"] = ""
  BY DEF NoRow, Fields
<1>3. \A x \in Rows : x = NoRow \/ \E e \in Emails, r \in Roles : x = Row(e, r)
  BY DEF Rows
<1>4. \A e \in Emails, r \in Roles : Row(e, r) \in Rows /\ Row(e, r) # NoRow
  <2> SUFFICES ASSUME NEW e \in Emails, NEW r \in Roles
               PROVE Row(e, r) \in Rows /\ Row(e, r) # NoRow
    OBVIOUS
  <2>1. Row(e, r) \in Rows
    BY DEF Rows
  <2>2. Row(e, r)["email"] # ""
    BY <1>1, AccountsAssumption
  <2>3. QED
    BY <1>2, <2>1, <2>2
<1>5. \A x \in Rows : x \in [Fields -> Emails \cup Roles \cup {""}]
  <2> SUFFICES ASSUME NEW x \in Rows
               PROVE x \in [Fields -> Emails \cup Roles \cup {""}]
    OBVIOUS
  <2>1. CASE x = NoRow
    BY <1>2, <2>1 DEF Fields
  <2>2. ASSUME NEW e \in Emails, NEW r \in Roles, x = Row(e, r)
        PROVE x \in [Fields -> Emails \cup Roles \cup {""}]
    BY <2>2, <1>1 DEF Fields
  <2>3. QED
    BY <2>1, <2>2, <1>3
<1>6. \A x \in Rows : x # NoRow => x["email"] \in Emails /\ x["role"] \in Roles
  BY <1>1, <1>3
<1>7. ASSUME NEW x \in [Fields -> Emails \cup Roles \cup {""}],
             x["email"] \in Emails, x["role"] \in Roles
      PROVE  x \in Rows /\ x # NoRow
  <2>1. x = Row(x["email"], x["role"])
    BY <1>1 DEF Fields
  <2>2. QED
    BY <2>1, <1>4, <1>7
<1>8. NoRow \in Rows
  BY DEF Rows
<1>9. QED
  BY <1>2, <1>4, <1>5, <1>6, <1>7, <1>8

LEMMA Initially == Init => IInv
<1> SUFFICES ASSUME Init PROVE IInv
  OBVIOUS
<1>1. NoRow \in Rows /\ NoRow["role"] = ""
  BY RowFacts
<1>0. clock \in 0..MaxClock /\ clock >= 0 /\ 0 \in Times /\ -1 \in Times
      /\ 0 \in 0..MaxUsers /\ 0 \in Int
  <2>1. clock \in 0..(PerSecond - 1)
    BY DEF Init
  <2>2. MaxUsers \in Nat /\ MaxClock \in Nat /\ TTL \in Nat /\ PerSecond \in Nat \ {0}
        /\ PerSecond <= MaxClock + 1
    BY AccountsAssumption
  <2>3. QED
    BY <2>1, <2>2 DEF Times
<1>2. TypeOK
  <2>1. Call("idle") \in [pc : {"idle", "save", "end"}, user : 0..MaxUsers,
                          row : Rows, set : SUBSET Fields, stale : BOOLEAN]
    BY <1>0, <1>1 DEF Call
  <2>2. NotIn("idle") \in [pc : {"idle", "compare", "respond", "token", "end"},
                           user : 0..MaxUsers, role : Roles \cup {""}, read : Times, issued : Times,
                           exp : Times, expiresIn : Int, at : Times]
    BY <1>0 DEF NotIn
  <2>3. QED
    BY <1>0, <1>1, <2>1, <2>2 DEF Init, TypeOK
<1>3. UpdInv /\ LoginInv
  BY DEF Init, UpdInv, LoginInv, Call, NotIn
<1>4. LostOnlyToAStaleSave
  BY DEF Init, LostOnlyToAStaleSave
<1>7. AskedInv
  BY DEF Init, AskedInv, Exists
<1>5. AdminInv
  <2> SUFFICES ASSUME NEW u \in Users
               PROVE lastAdmin[u] <= clock /\ users[u]["role"] # "admin"
    BY DEF AdminInv
  <2>1. lastAdmin[u] = -1 /\ users[u] = NoRow
    BY DEF Init
  <2>2. clock \in Int
    BY <1>0
  <2>3. -1 <= clock
    BY <1>0, <2>2
  <2>4. users[u]["role"] # "admin"
    BY <1>1, <2>1
  <2>5. QED
    BY <2>1, <2>3, <2>4
<1>6. QED
  BY <1>2, <1>3, <1>4, <1>5, <1>7 DEF IInv

-----------------------------------------------------------------------------

UpdRecord == [pc : {"idle", "save", "end"}, user : 0..MaxUsers,
              row : Rows, set : SUBSET Fields, stale : BOOLEAN]
LoginRecord == [pc : {"idle", "compare", "respond", "token", "end"},
                user : 0..MaxUsers, role : Roles \cup {""}, read : Times, issued : Times,
                exp : Times, expiresIn : Int, at : Times]

LEMMA Numbers ==
  /\ MaxUsers \in Nat /\ MaxClock \in Nat /\ TTL \in Nat /\ PerSecond \in Nat \ {0}
  /\ 0 \in Times /\ 0 \in 0..MaxUsers /\ Users \subseteq 0..MaxUsers
  /\ \A t \in 0..MaxClock : t \in Times /\ NumericDate(t + TTL) \in Times
  /\ \A t \in Times : t \in Int
<1>1. MaxUsers \in Nat /\ MaxClock \in Nat /\ TTL \in Nat /\ PerSecond \in Nat \ {0}
  BY AccountsAssumption
<1>2. ASSUME NEW t \in 0..MaxClock PROVE t \in Times /\ NumericDate(t + TTL) \in Times
  <2>1. t + TTL \in Nat
    BY <1>1
  <2>2. NumericDate(t + TTL) \in Nat /\ NumericDate(t + TTL) <= t + TTL
    BY <2>1, NumericDateBounds
  <2>3. QED
    BY <1>1, <2>2 DEF Times
<1>3. QED
  BY <1>1, <1>2 DEF Times, Users

LEMMA EndedCalls ==
  /\ Call("end") \in UpdRecord /\ Call("end").pc = "end"
  /\ NotIn("end") \in LoginRecord /\ NotIn("end").pc = "end"
<1>1. NoRow \in Rows
  BY RowFacts
<1>2. QED
  BY <1>1, Numbers DEF Call, NotIn, UpdRecord, LoginRecord

\* What a write does to the table and to the history of admins.
LEMMA Writing ==
  ASSUME IInv, NEW u \in Users, NEW row \in Rows, row # NoRow, WriteUser(u, row),
         UNCHANGED clock
  PROVE  /\ users' \in [Users -> Rows] /\ users'[u] = row
         /\ \A v \in Users \ {u} : users'[v] = users[v]
         /\ lastAdmin' \in [Users -> Times]
         /\ AdminInv'
         /\ \A v \in Users : lastAdmin'[v] >= lastAdmin[v]
<1>0. /\ users \in [Users -> Rows] /\ lastAdmin \in [Users -> Times]
      /\ clock \in 0..MaxClock /\ AdminInv
  BY DEF IInv, TypeOK
<1>1. users' \in [Users -> Rows] /\ users'[u] = row /\ \A v \in Users \ {u} : users'[v] = users[v]
  BY <1>0 DEF WriteUser
<1>2. clock \in Times /\ clock \in Int
  BY <1>0, Numbers
<1>3. lastAdmin' \in [Users -> Times]
      /\ lastAdmin'[u] = (IF row["role"] = "admin" THEN clock ELSE lastAdmin[u])
      /\ \A v \in Users \ {u} : lastAdmin'[v] = lastAdmin[v]
  BY <1>0, <1>2 DEF WriteUser
<1>4. \A v \in Users : lastAdmin[v] \in Int
  BY <1>0, Numbers
<1>5. ASSUME NEW v \in Users
      PROVE  /\ lastAdmin'[v] <= clock' /\ lastAdmin'[v] >= lastAdmin[v]
             /\ users'[v]["role"] = "admin" => lastAdmin'[v] = clock'
  <2> DEFINE old == lastAdmin[v]  new == lastAdmin'[v]
  <2>1. old \in Int /\ clock \in Int /\ clock' = clock /\ old <= clock
    BY <1>0, <1>2, <1>4 DEF AdminInv
  <2>2. ASSUME new = old \/ new = clock PROVE new <= clock' /\ new >= old
    <3> HIDE DEF old, new
    <3> QED
      BY <2>2, <2>1
  <2>3. users[v]["role"] = "admin" => old = clock
    BY <1>0 DEF AdminInv
  <2>4. CASE v = u /\ row["role"] = "admin"
    <3>1. lastAdmin'[v] = clock
      BY <1>3, <2>4
    <3>2. QED
      BY <2>2, <2>1, <3>1
  <2>5. CASE v = u /\ row["role"] # "admin"
    <3>1. lastAdmin'[v] = lastAdmin[v] /\ users'[v]["role"] # "admin"
      BY <1>1, <1>3, <2>5
    <3>2. QED
      BY <2>3, <2>2, <2>1, <3>1
  <2>6. CASE v # u
    <3>1. lastAdmin'[v] = lastAdmin[v] /\ users'[v] = users[v]
      BY <1>1, <1>3, <2>6
    <3>2. QED
      BY <2>3, <2>2, <2>1, <3>1
  <2>7. QED
    BY <2>4, <2>5, <2>6
<1>6. AdminInv'
  BY <1>5 DEF AdminInv
<1>7. QED
  BY <1>1, <1>3, <1>5, <1>6

\* Logins that are not stepping keep their invariant, because lastAdmin only grows.
LEMMA LoginsKeep ==
  ASSUME IInv, UNCHANGED login, lastAdmin' \in [Users -> Times],
         \A v \in Users : lastAdmin'[v] >= lastAdmin[v]
  PROVE  LoginInv'
<1> SUFFICES ASSUME NEW l \in Logins, login[l].pc \in {"compare", "respond", "token"},
                    login[l].role = "admin", login[l].user \in Users
             PROVE  lastAdmin'[login[l].user] >= login[l].read
  BY DEF IInv, LoginInv, NumericDate, Seconds
<1>1. lastAdmin[login[l].user] >= login[l].read
  BY DEF IInv, LoginInv
<1>2. /\ lastAdmin[login[l].user] \in Int /\ lastAdmin'[login[l].user] \in Int
      /\ login[l].read \in Int
  BY Numbers DEF IInv, TypeOK
<1>3. QED
  BY <1>1, <1>2

-----------------------------------------------------------------------------

LEMMA TickKeeps == IInv /\ Tick => IInv'
<1> SUFFICES ASSUME IInv, Tick PROVE IInv'
  OBVIOUS
<1>1. /\ clock \in 0..MaxClock /\ clock < MaxClock /\ clock' = clock + 1
      /\ lastAdmin \in [Users -> Times] /\ AdminInv
      /\ UNCHANGED <<users, upd, login, asked, reverted>>
      /\ lastAdmin' = [u \in Users |-> IF users[u]["role"] = "admin" THEN clock' ELSE lastAdmin[u]]
  BY DEF IInv, TypeOK, Tick
<1>2. clock' \in 0..MaxClock /\ clock' \in Times
  BY <1>1, Numbers
<1>3. lastAdmin' \in [Users -> Times]
  BY <1>1, <1>2
<1>4. ASSUME NEW u \in Users
      PROVE  /\ lastAdmin'[u] <= clock' /\ lastAdmin'[u] >= lastAdmin[u]
             /\ users[u]["role"] = "admin" => lastAdmin'[u] = clock'
  <2>1. lastAdmin[u] \in Int /\ lastAdmin[u] <= clock /\ clock \in Int
    BY <1>1, Numbers DEF AdminInv
  <2>2. lastAdmin'[u] \in {clock', lastAdmin[u]}
        /\ (users[u]["role"] = "admin" => lastAdmin'[u] = clock')
    BY <1>1
  <2>3. lastAdmin'[u] <= clock' /\ lastAdmin'[u] >= lastAdmin[u]
    BY <1>1, <2>1, <2>2
  <2>4. QED
    BY <2>2, <2>3
<1>5. AdminInv'
  BY <1>1, <1>4 DEF AdminInv
<1>6. LoginInv'
  BY <1>1, <1>3, <1>4, LoginsKeep
<1>7. TypeOK' /\ UpdInv' /\ AskedInv' /\ LostOnlyToAStaleSave'
  BY <1>1, <1>2, <1>3 DEF IInv, TypeOK, UpdInv, AskedInv, LostOnlyToAStaleSave, Exists
<1>8. QED
  BY <1>5, <1>6, <1>7 DEF IInv

LEMMA CreateKeeps ==
  ASSUME IInv, NEW u \in Users, NEW e \in Emails, NEW r \in Roles \cup {""}, CreateUser(u, e, r)
  PROVE  IInv'
<1> DEFINE row == Row(e, IF r = "" THEN "customer" ELSE r)
<1>1. row \in Rows /\ row # NoRow
  BY RowFacts DEF Roles
<1>2. /\ ~Exists(u) /\ WriteUser(u, row)
      /\ asked' = [asked EXCEPT ![u] = row]
      /\ UNCHANGED <<clock, upd, login, reverted>>
  BY DEF CreateUser
<1> HIDE DEF row
<1>3. /\ users' \in [Users -> Rows] /\ users'[u] = row
      /\ \A v \in Users \ {u} : users'[v] = users[v]
      /\ lastAdmin' \in [Users -> Times] /\ AdminInv'
      /\ \A v \in Users : lastAdmin'[v] >= lastAdmin[v]
  BY <1>1, <1>2, Writing
<1>4. LoginInv'
  BY <1>2, <1>3, LoginsKeep
<1>5. TypeOK'
  BY <1>1, <1>2, <1>3 DEF IInv, TypeOK
<1>6. UpdInv'
  BY <1>2, <1>3 DEF IInv, UpdInv, Exists
<1>7. LostOnlyToAStaleSave'
  <2>1. asked'[u] = users'[u] /\ \A v \in Users \ {u} : asked'[v] = asked[v]
    BY <1>2, <1>3 DEF IInv, TypeOK
  <2>2. QED
    BY <1>2, <1>3, <2>1 DEF IInv, LostOnlyToAStaleSave
<1>8. AskedInv'
  BY <1>1, <1>2, <1>3 DEF IInv, TypeOK, AskedInv, Exists
<1>9. QED
  BY <1>3, <1>4, <1>5, <1>6, <1>7, <1>8 DEF IInv

\* Steps that change calls of UpdateUser only.
LEMMA CallsOnly ==
  ASSUME IInv, UNCHANGED <<clock, users, login, asked, reverted, lastAdmin>>,
         upd' \in [Updates -> UpdRecord], UpdInv'
  PROVE  IInv'
<1>1. TypeOK'
  BY DEF IInv, TypeOK, UpdRecord
<1>2. AskedInv' /\ LostOnlyToAStaleSave' /\ AdminInv' /\ LoginInv'
  BY DEF IInv, AskedInv, Exists, LostOnlyToAStaleSave, AdminInv, LoginInv, NumericDate, Seconds
<1>3. QED
  BY <1>1, <1>2 DEF IInv

LEMMA GetUserKeeps ==
  ASSUME IInv, NEW c \in Updates, NEW u \in Users,
         NEW e \in Emails \cup {""}, NEW r \in Roles \cup {""}, GetUser(c, u, Row(e, r))
  PROVE  IInv'
<1> DEFINE req == Row(e, r)
<1>1. /\ users \in [Users -> Rows] /\ upd \in [Updates -> UpdRecord]
      /\ UNCHANGED <<clock, users, login, asked, reverted, lastAdmin>>
      /\ u \in 0..MaxUsers
  BY Numbers DEF IInv, TypeOK, UpdRecord, GetUser
<1>2. CASE ~Exists(u)
  <2>1. upd' = [upd EXCEPT ![c] = Call("end")]
    BY <1>2 DEF GetUser
  <2>2. upd' \in [Updates -> UpdRecord] /\ UpdInv'
    BY <1>1, <2>1, EndedCalls DEF IInv, UpdInv, Exists
  <2>3. QED
    BY <1>1, <2>2, CallsOnly
<1>3. CASE Exists(u)
  <2> DEFINE new == [pc |-> "save", user |-> u, row |-> Changed(users[u], req),
                     set |-> {f \in Fields : req[f] # ""}, stale |-> FALSE]
  <2>1. upd' = [upd EXCEPT ![c] = new]
    BY <1>3 DEF GetUser
  <2>2. users[u] \in Rows /\ users[u] # NoRow
    BY <1>1, <1>3 DEF Exists
  <2>3. users[u]["email"] \in Emails /\ users[u]["role"] \in Roles
    BY <2>2, RowFacts
  <2>4. req["email"] = e /\ req["role"] = r
    BY DEF Row, Fields
  <2>5. Changed(users[u], req) = [f \in Fields |-> IF req[f] = "" THEN users[u][f] ELSE req[f]]
    BY DEF Changed
  <2> HIDE DEF req
  <2>6. /\ Changed(users[u], req) \in [Fields -> Emails \cup Roles \cup {""}]
        /\ Changed(users[u], req)["email"] \in Emails /\ Changed(users[u], req)["role"] \in Roles
    BY <2>3, <2>4, <2>5 DEF Fields
  <2>7. Changed(users[u], req) \in Rows /\ Changed(users[u], req) # NoRow
    BY <2>6, RowFacts
  <2>8. \A f \in Fields : req[f] = "" => Changed(users[u], req)[f] = users[u][f]
    BY <2>5
  <2>9. new \in UpdRecord
    BY <1>1, <2>7 DEF UpdRecord
  <2>10. upd' \in [Updates -> UpdRecord]
    BY <1>1, <2>1, <2>9
  <2>11. UpdInv'
    <3>1. upd'[c] = new /\ \A d \in Updates \ {c} : upd'[d] = upd[d]
      BY <1>1, <2>1
    <3>2. /\ new.user = u /\ new.row = Changed(users[u], req)
          /\ \A f \in Fields \ new.set : new.row[f] = users[u][f]
      BY <2>8
    <3> HIDE DEF new
    <3>3. ASSUME NEW d \in Updates, d # c PROVE upd'[d] = upd[d]
      BY <3>1, <3>3
    <3>4. users' = users /\ UpdInv
      BY <1>1 DEF IInv
    <3>5. /\ upd'[c].user \in Users /\ users'[upd'[c].user] # NoRow
          /\ upd'[c].row # NoRow
          /\ \A f \in Fields \ upd'[c].set : upd'[c].row[f] = users'[upd'[c].user][f]
      BY <2>2, <2>7, <3>1, <3>2, <3>4
    <3>6. ASSUME NEW d \in Updates, d # c, upd'[d].pc = "save"
          PROVE  /\ upd'[d].user \in Users /\ users'[upd'[d].user] # NoRow
                 /\ upd'[d].row # NoRow
                 /\ ~upd'[d].stale =>
                      \A f \in Fields \ upd'[d].set : upd'[d].row[f] = users'[upd'[d].user][f]
      BY <3>3, <3>4, <3>6 DEF UpdInv, Exists
    <3>7. QED
      BY <3>5, <3>6 DEF UpdInv, Exists
  <2>12. QED
    BY <1>1, <2>10, <2>11, CallsOnly
<1>4. QED
  BY <1>2, <1>3

LEMMA UpdateFailsKeeps ==
  ASSUME IInv, NEW c \in Updates, UpdateUserFails(c)
  PROVE  IInv'
<1>1. /\ upd \in [Updates -> UpdRecord] /\ upd' = [upd EXCEPT ![c] = Call("end")]
      /\ UNCHANGED <<clock, users, login, asked, reverted, lastAdmin>>
  BY DEF IInv, TypeOK, UpdRecord, UpdateUserFails
<1>2. upd' \in [Updates -> UpdRecord] /\ UpdInv'
  BY <1>1, EndedCalls DEF IInv, UpdInv, Exists
<1>3. QED
  BY <1>1, <1>2, CallsOnly

\* The save itself: what it was not asked to write is what the row had, or else it
\* is out of date.
LEMMA UpdateKeeps ==
  ASSUME IInv, NEW c \in Updates, UpdateUser(c)
  PROVE  IInv'
<1> DEFINE u == upd[c].user
           row == upd[c].row
           set == upd[c].set
<1>1. /\ upd[c].pc = "save" /\ WriteUser(u, row)
      /\ upd' = [d \in Updates |->
                   IF d = c THEN Call("end")
                   ELSE [upd[d] EXCEPT !.stale = @ \/ (upd[d].pc = "save" /\ upd[d].user = u)]]
      /\ asked' = [asked EXCEPT ![u] = [f \in Fields |-> IF f \in set THEN row[f] ELSE @[f]]]
      /\ reverted' = [reverted EXCEPT ![u] = IF upd[c].stale THEN Fields \ set ELSE @ \ set]
      /\ UNCHANGED <<clock, login>>
  BY DEF UpdateUser
<1>2. /\ users \in [Users -> Rows] /\ asked \in [Users -> Rows]
      /\ reverted \in [Users -> SUBSET Fields] /\ upd \in [Updates -> UpdRecord]
  BY DEF IInv, TypeOK, UpdRecord
<1>3. /\ u \in Users /\ row \in Rows /\ row # NoRow /\ Exists(u) /\ set \subseteq Fields
      /\ ~upd[c].stale => \A f \in Fields \ set : row[f] = users[u][f]
  BY <1>1, <1>2 DEF IInv, UpdInv, UpdRecord
<1> HIDE DEF u, row, set
<1>4. /\ users' \in [Users -> Rows] /\ users'[u] = row
      /\ \A v \in Users \ {u} : users'[v] = users[v]
      /\ lastAdmin' \in [Users -> Times] /\ AdminInv'
      /\ \A v \in Users : lastAdmin'[v] >= lastAdmin[v]
  BY <1>1, <1>3, Writing
<1>5. LoginInv'
  BY <1>1, <1>4, LoginsKeep
<1>6. /\ upd'[c] = Call("end")
      /\ \A d \in Updates \ {c} :
           /\ upd'[d] \in UpdRecord
           /\ upd'[d].pc = upd[d].pc /\ upd'[d].user = upd[d].user
           /\ upd'[d].row = upd[d].row /\ upd'[d].set = upd[d].set
           /\ ~upd'[d].stale =>
                ~upd[d].stale /\ ~(upd[d].pc = "save" /\ upd[d].user = u)
  BY <1>1, <1>2 DEF UpdRecord
<1>7. upd' \in [Updates -> UpdRecord]
  BY <1>1, <1>6, EndedCalls
<1>8. UpdInv'
  <2>1. upd'[c].pc # "save"
    BY <1>6, EndedCalls
  <2>2. ASSUME NEW d \in Updates \ {c}, upd'[d].pc = "save"
        PROVE  /\ upd'[d].user \in Users /\ users'[upd'[d].user] # NoRow
               /\ upd'[d].row # NoRow
               /\ ~upd'[d].stale =>
                    \A f \in Fields \ upd'[d].set : upd'[d].row[f] = users'[upd'[d].user][f]
    <3>1. /\ upd[d].pc = "save" /\ upd[d].user \in Users /\ users[upd[d].user] # NoRow
          /\ upd[d].row # NoRow
          /\ ~upd[d].stale =>
               \A f \in Fields \ upd[d].set : upd[d].row[f] = users[upd[d].user][f]
      BY <1>6, <2>2 DEF IInv, UpdInv, Exists
    <3>2. users'[upd[d].user] # NoRow
      BY <1>3, <1>4, <3>1
    <3>3. ~upd'[d].stale => ~upd[d].stale /\ users'[upd[d].user] = users[upd[d].user]
      BY <1>4, <1>6, <3>1
    <3>4. QED
      BY <1>6, <3>1, <3>2, <3>3
  <2>3. QED
    BY <2>1, <2>2 DEF UpdInv, Exists
<1>9. /\ \A f \in Fields : asked'[u][f] = IF f \in set THEN row[f] ELSE asked[u][f]
      /\ \A v \in Users \ {u} : asked'[v] = asked[v] /\ reverted'[v] = reverted[v]
      /\ reverted'[u] = IF upd[c].stale THEN Fields \ set ELSE reverted[u] \ set
  BY <1>1, <1>2, <1>3
<1>10. asked' \in [Users -> Rows] /\ reverted' \in [Users -> SUBSET Fields] /\ asked'[u] # NoRow
  <2>1. asked[u] \in Rows
    BY <1>2, <1>3
  <2> DEFINE new == [f \in Fields |-> IF f \in set THEN row[f] ELSE asked[u][f]]
  <2>2. asked[u] # NoRow
    BY <1>3 DEF IInv, AskedInv
  <2>3. /\ new \in [Fields -> Emails \cup Roles \cup {""}]
        /\ new["email"] \in Emails /\ new["role"] \in Roles
    BY <1>3, <2>1, <2>2, RowFacts DEF Fields
  <2>4. new \in Rows /\ new # NoRow
    BY <2>3, RowFacts
  <2>5. QED
    BY <1>1, <1>2, <1>3, <2>4
<1>11. LostOnlyToAStaleSave'
  <2> SUFFICES ASSUME NEW v \in Users, NEW f \in Fields, users'[v][f] # asked'[v][f]
               PROVE  f \in reverted'[v]
    BY DEF LostOnlyToAStaleSave
  <2>1. CASE v # u
    BY <1>4, <1>9, <2>1 DEF IInv, LostOnlyToAStaleSave
  <2>2. CASE v = u
    <3>1. f \notin set
      BY <1>4, <1>9, <2>2
    <3>2. CASE upd[c].stale
      BY <1>9, <2>2, <3>1, <3>2
    <3>3. CASE ~upd[c].stale
      <4>1. users[u][f] # asked[u][f]
        BY <1>3, <1>4, <1>9, <2>2, <3>1, <3>3
      <4>2. QED
        BY <1>3, <1>9, <2>2, <3>1, <3>3, <4>1 DEF IInv, LostOnlyToAStaleSave
    <3>4. QED
      BY <3>2, <3>3
  <2>3. QED
    BY <2>1, <2>2
<1>12. TypeOK'
  BY <1>1, <1>4, <1>7, <1>10 DEF IInv, TypeOK, UpdRecord
<1>13. AskedInv'
  BY <1>4, <1>9, <1>10 DEF IInv, AskedInv, Exists
<1>14. QED
  BY <1>4, <1>5, <1>8, <1>11, <1>12, <1>13 DEF IInv

\* Steps of one login.
LEMMA LoginOnly ==
  ASSUME IInv, NEW l \in Logins, NEW new \in LoginRecord,
         login' = [login EXCEPT ![l] = new],
         UNCHANGED <<clock, users, upd, asked, reverted, lastAdmin>>,
         new.pc \in {"compare", "respond", "token"} =>
           /\ new.user \in Users
           /\ new.role = "admin" => lastAdmin[new.user] >= new.read,
         new.pc \in {"respond", "token"} =>
           new.issued \in Nat /\ new.exp = NumericDate(new.issued + TTL),
         new.pc = "token" => new.expiresIn = Seconds(new.issued + TTL - new.at)
  PROVE  IInv'
<1>1. login \in [Logins -> LoginRecord]
  BY DEF IInv, TypeOK, LoginRecord
<1>2. login' \in [Logins -> LoginRecord]
      /\ login'[l] = new /\ \A k \in Logins \ {l} : login'[k] = login[k]
  BY <1>1
<1>3. TypeOK'
  BY <1>2 DEF IInv, TypeOK, LoginRecord
<1>4. UpdInv' /\ AskedInv' /\ LostOnlyToAStaleSave' /\ AdminInv'
  BY DEF IInv, UpdInv, AskedInv, Exists, LostOnlyToAStaleSave, AdminInv
<1>5. LoginInv'
  BY <1>2 DEF IInv, LoginInv, NumericDate, Seconds
<1>6. QED
  BY <1>3, <1>4, <1>5 DEF IInv

LEMMA LoginKeeps ==
  ASSUME IInv, NEW l \in Logins,
         \/ \E e \in Emails : GetUserByEmail(l, e)
         \/ WrongPassword(l) \/ Generate(l) \/ Respond(l)
  PROVE  IInv'
<1>0. /\ login \in [Logins -> LoginRecord] /\ login[l] \in LoginRecord
      /\ clock \in 0..MaxClock /\ users \in [Users -> Rows]
      /\ LoginInv /\ AdminInv
  BY DEF IInv, TypeOK, LoginRecord
<1>9. clock \in Times /\ clock \in Nat /\ NumericDate(clock + TTL) \in Times
  BY <1>0, Numbers
<1>1. CASE login' = [login EXCEPT ![l] = NotIn("end")]
           /\ UNCHANGED <<clock, users, upd, asked, reverted, lastAdmin>>
  BY <1>1, EndedCalls, LoginOnly
<1>2. ASSUME NEW u \in Users, NEW e \in Emails, users[u]["email"] = e,
             login' = [login EXCEPT ![l] = [@ EXCEPT !.pc = "compare", !.user = u,
                                              !.role = users[u]["role"], !.read = clock]],
             UNCHANGED <<clock, users, upd, asked, reverted, lastAdmin>>
      PROVE  IInv'
  <2> DEFINE new == [login[l] EXCEPT !.pc = "compare", !.user = u,
                                     !.role = users[u]["role"], !.read = clock]
  <2>1. users[u]["role"] \in Roles \cup {""}
    BY <1>0, RowFacts
  <2>2. u \in 0..MaxUsers
    BY Numbers
  <2>3. new \in LoginRecord /\ new.pc = "compare" /\ new.user = u
        /\ new.role = users[u]["role"] /\ new.read = clock
    BY <1>0, <1>9, <2>1, <2>2 DEF LoginRecord
  <2>4. login' = [login EXCEPT ![l] = new]
    BY <1>2
  <2>5. users[u]["role"] = "admin" => lastAdmin[u] = clock
    BY <1>0 DEF AdminInv
  <2>6. clock >= clock
    BY <1>9
  <2> HIDE DEF new
  <2>7. new.role = "admin" => lastAdmin[new.user] >= new.read
    BY <2>3, <2>5, <2>6
  <2>8. QED
    BY <1>2, <2>3, <2>4, <2>7, LoginOnly
<1>3. CASE Generate(l)
  <2> DEFINE new == [login[l] EXCEPT !.pc = "respond", !.issued = clock,
                                     !.exp = NumericDate(clock + TTL)]
  <2>1. login[l].pc = "compare" /\ login' = [login EXCEPT ![l] = new]
        /\ UNCHANGED <<clock, users, upd, asked, reverted, lastAdmin>>
    BY <1>3 DEF Generate
  <2>2. new \in LoginRecord /\ new.pc = "respond" /\ new.user = login[l].user
        /\ new.role = login[l].role /\ new.read = login[l].read
        /\ new.issued = clock /\ new.exp = NumericDate(clock + TTL)
    BY <1>0, <1>9 DEF LoginRecord
  <2>3. login[l].user \in Users
        /\ (login[l].role = "admin" => lastAdmin[login[l].user] >= login[l].read)
    BY <1>0, <2>1 DEF LoginInv
  <2> HIDE DEF new
  <2>4. QED
    BY <1>9, <2>1, <2>2, <2>3, LoginOnly
<1>4. CASE Respond(l)
  <2> DEFINE left == Seconds(login[l].issued + TTL - clock)
             new == [login[l] EXCEPT !.pc = "token", !.at = clock, !.expiresIn = left]
  <2>1. login[l].pc = "respond" /\ login' = [login EXCEPT ![l] = new]
        /\ UNCHANGED <<clock, users, upd, asked, reverted, lastAdmin>>
    BY <1>4 DEF Respond
  <2>2. /\ login[l].user \in Users
        /\ login[l].role = "admin" => lastAdmin[login[l].user] >= login[l].read
        /\ login[l].issued \in Nat /\ login[l].exp = NumericDate(login[l].issued + TTL)
    BY <1>0, <2>1 DEF LoginInv
  <2>3. left \in Int
    <3>1. login[l].issued + TTL - clock \in Int /\ PerSecond \in Nat \ {0}
      BY <1>9, <2>2, Numbers
    <3>2. QED
      BY <3>1 DEF Seconds
  <2> HIDE DEF left
  <2>4. new \in LoginRecord /\ new.pc = "token" /\ new.user = login[l].user
        /\ new.role = login[l].role /\ new.read = login[l].read
        /\ new.issued = login[l].issued /\ new.exp = login[l].exp
        /\ new.at = clock /\ new.expiresIn = left
    BY <1>0, <1>9, <2>3 DEF LoginRecord
  <2> HIDE DEF new
  <2>5. new.expiresIn = Seconds(new.issued + TTL - new.at)
    BY <2>4 DEF left
  <2>6. QED
    BY <2>1, <2>2, <2>4, <2>5, LoginOnly
<1>5. QED
  BY <1>1, <1>2, <1>3, <1>4 DEF GetUserByEmail, WrongPassword

LEMMA NextKeeps == IInv /\ [Next]_vars => IInv'
<1> SUFFICES ASSUME IInv, [Next]_vars PROVE IInv'
  OBVIOUS
<1>1. CASE UNCHANGED vars
  BY <1>1 DEF vars, IInv, TypeOK, UpdInv, AskedInv, Exists, LostOnlyToAStaleSave, AdminInv,
     LoginInv, NumericDate, Seconds
<1>2. CASE Tick
  BY <1>2, TickKeeps
<1>3. ASSUME NEW u \in Users, NEW e \in Emails, NEW r \in Roles \cup {""}, CreateUser(u, e, r)
      PROVE  IInv'
  BY <1>3, CreateKeeps
<1>4. ASSUME NEW c \in Updates, NEW u \in Users, NEW e \in Emails \cup {""},
             NEW r \in Roles \cup {""}, GetUser(c, u, Row(e, r))
      PROVE  IInv'
  BY <1>4, GetUserKeeps
<1>5. ASSUME NEW c \in Updates, UpdateUser(c) \/ UpdateUserFails(c) PROVE IInv'
  BY <1>5, UpdateKeeps, UpdateFailsKeeps
<1>6. ASSUME NEW l \in Logins,
             \/ \E e \in Emails : GetUserByEmail(l, e)
             \/ WrongPassword(l) \/ Generate(l) \/ Respond(l)
      PROVE  IInv'
  BY <1>6, LoginKeeps
<1>7. QED
  BY <1>1, <1>2, <1>3, <1>4, <1>5, <1>6 DEF Next

-----------------------------------------------------------------------------

\* The inductive invariant: what calls of UpdateUser and Login hold in their
\* locals, against the table as it is by now.
THEOREM Invariance == Spec => []IInv
BY Initially, NextKeeps, PTL DEF Spec

\* Rows, calls and tokens have their types; in particular no row without a role
\* is ever stored.
THEOREM TypeCorrect == Spec => []TypeOK
<1>1. IInv => TypeOK
  BY DEF IInv
<1>2. QED
  BY <1>1, Invariance, PTL

\* However many updates of the same user overlap, a field that UpdateUser was asked
\* to set loses that value only to the save of a call that had read the row
\* before another save.
THEOREM UpdatesAreLostToStaleSaves == Spec => []LostOnlyToAStaleSave
<1>1. IInv => LostOnlyToAStaleSave
  BY DEF IInv
<1>2. QED
  BY <1>1, Invariance, PTL

\* Whatever the lifetime of tokens and however a login and a demotion interleave,
\* nobody is served as an admin for longer than that after having been one.
THEOREM DemotionTakesEffect == Spec => []RightsRunOut
<1>1. IInv => RightsRunOut
  <2> SUFFICES ASSUME IInv, NEW l \in Logins, ServesAdmin(l)
               PROVE  clock - lastAdmin[login[l].user] < TTL + (login[l].issued - login[l].read)
    BY DEF RightsRunOut
  <2>1. login[l].pc = "token" /\ clock < login[l].exp /\ login[l].role = "admin"
    BY DEF ServesAdmin, Authenticate, Parse
  <2>2. /\ login[l].user \in Users /\ lastAdmin[login[l].user] >= login[l].read
        /\ login[l].issued \in Nat /\ login[l].exp = NumericDate(login[l].issued + TTL)
    BY <2>1 DEF IInv, LoginInv
  <2>3. /\ clock \in Int /\ lastAdmin[login[l].user] \in Int /\ login[l].read \in Int
        /\ TTL \in Nat
    BY <2>2, Numbers DEF IInv, TypeOK
  <2>4. login[l].exp \in Nat /\ login[l].exp <= login[l].issued + TTL
    <3>1. login[l].issued + TTL \in Nat
      BY <2>2, <2>3
    <3>2. QED
      BY <2>2, <3>1, NumericDateBounds
  <2>5. QED
    BY <2>1, <2>2, <2>3, <2>4
<1>2. QED
  BY <1>1, Invariance, PTL

\* The seconds Login reports are right to less than one, for any resolution of the
\* clock and any lifetime, although exp and the report are truncated apart.
THEOREM ReportedLifetimeIsClose == Spec => []ExpiresInIsClose
<1>1. IInv => ExpiresInIsClose
  <2> SUFFICES ASSUME IInv, NEW l \in Logins, login[l].pc = "token", login[l].expiresIn > 0
               PROVE  LET off == login[l].at + login[l].expiresIn * PerSecond - login[l].exp
                      IN -PerSecond < off /\ off < PerSecond
    BY DEF ExpiresInIsClose
  <2>1. login[l].at \in Int /\ TTL \in Nat /\ PerSecond \in Nat \ {0}
    BY Numbers DEF IInv, TypeOK
  <2>2. PICK end : end = login[l].issued + TTL
    OBVIOUS
  <2>3. PICK d : d = end - login[l].at
    OBVIOUS
  <2>4. /\ login[l].issued \in Nat /\ login[l].exp = NumericDate(end)
        /\ login[l].expiresIn = Seconds(d)
    <3>1. LoginInv /\ login[l].pc = "token" /\ login[l].pc \in {"respond", "token"}
      BY DEF IInv
    <3>2. /\ login[l].issued \in Nat /\ login[l].exp = NumericDate(login[l].issued + TTL)
          /\ login[l].expiresIn = Seconds(login[l].issued + TTL - login[l].at)
      BY <3>1 DEF LoginInv
    <3>3. QED
      <4>1. login[l].exp = NumericDate(end)
        BY <2>2, <3>2
      <4>2. login[l].issued + TTL - login[l].at = d
        BY <2>1, <2>2, <2>3, <3>2
      <4>3. login[l].expiresIn = Seconds(d)
        BY <4>2, <3>2
      <4>4. QED
        BY <3>2, <4>1, <4>3
  <2>5. end \in Nat /\ d \in Int
    BY <2>4, <2>1, <2>2, <2>3
  <2>6. login[l].exp \in Nat /\ login[l].exp <= end /\ end < login[l].exp + PerSecond
    BY <2>4, <2>5, NumericDateBounds
  <2>7. d >= 0 /\ login[l].expiresIn = d \div PerSecond
    <3>1. CASE d >= 0
      BY <2>4, <3>1 DEF Seconds
    <3>2. CASE ~(d >= 0)
      <4>1. -d \in Nat /\ Seconds(d) = -((-d) \div PerSecond)
        BY <2>5, <3>2 DEF Seconds
      <4>2. (-d) \div PerSecond \in Nat
        BY <2>1, <4>1, DivBounds
      <4>3. QED
        BY <2>4, <4>1, <4>2
    <3>3. QED
      BY <3>1, <3>2
  <2>8. /\ login[l].expiresIn * PerSecond \in Int
        /\ login[l].expiresIn * PerSecond <= d
        /\ d < login[l].expiresIn * PerSecond + PerSecond
    <3>1. d \in Nat
      BY <2>5, <2>7
    <3>2. QED
      BY <2>1, <2>7, <3>1, DivBounds
  <2>9. QED
    BY <2>1, <2>5, <2>6, <2>8, <2>3
<1>2. QED
  BY <1>1, Invariance, PTL

=============================================================================
