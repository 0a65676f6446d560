------------------------------- MODULE Accounts -------------------------------
(***************************************************************************)
(* User accounts and what a login is good for: the handlers of /users and  *)
(* /auth/login, the tokens, and the requests that present one.             *)
(*                                                                         *)
(* UpdateUser reads a row, changes the fields its request names, and saves *)
(* the whole row later; Login reads a row and signs what it read into a    *)
(* token later.  Steps of other requests, and time, pass in between.  Of   *)
(* the fields, name is left out: it behaves as role does.  Passwords never *)
(* change after the insert, so comparing them is a choice.  Time is        *)
(* counted in fractions of a second, which the token's claims do not keep. *)
(***************************************************************************)
EXTENDS Integers

CONSTANTS
  MaxUsers,    \* bound: how many ids are drawn
  Emails,
  Updates,     \* calls of UpdateUser
  Logins,      \* calls of Login, and the token each may return
  PerSecond,   \* clock ticks per second
  TTL,         \* JWT_TTL, in ticks
  MaxClock     \* bound: how far the clock runs

ASSUME AccountsAssumption ==
  /\ MaxUsers \in Nat /\ MaxClock \in Nat
  /\ PerSecond \in Nat \ {0} /\ PerSecond <= MaxClock + 1
  /\ TTL \in Nat
  /\ "" \notin Emails

VARIABLES
  clock,
  users,       \* the rows of users, NoRow where there is none yet
  upd,         \* per call of UpdateUser: its step and its locals
  login,       \* per call of Login: its step, its locals, the token's claims
  asked,       \* history: the value last asked for of each field of each user
  reverted,    \* history: fields last written by a save that had not been asked to
               \* and whose row was out of date
  lastAdmin    \* history: when each user was last seen to be an admin, -1: never

vars == <<clock, users, upd, login, asked, reverted, lastAdmin>>

Users == 1..MaxUsers
Roles == {"customer", "admin"}
Fields == {"email", "role"}
NoRow == [f \in Fields |-> ""]
Row(e, r) == [f \in Fields |-> IF f = "email" THEN e ELSE r]
Rows == {Row(e, r) : e \in Emails, r \in Roles} \cup {NoRow}
Exists(u) == users[u] # NoRow
Times == -1..(MaxClock + TTL)
Call(pc) == [pc |-> pc, user |-> 0, row |-> NoRow, set |-> {}, stale |-> FALSE]
NotIn(pc) == [pc |-> pc, user |-> 0, role |-> "", read |-> 0, issued |-> 0, exp |-> 0,
              expiresIn |-> 0, at |-> 0]

TypeOK ==
  /\ clock \in 0..MaxClock
  /\ users \in [Users -> Rows]
  /\ upd \in [Updates -> [pc : {"idle", "save", "end"}, user : 0..MaxUsers,
                          row : Rows, set : SUBSET Fields, stale : BOOLEAN]]
  /\ login \in [Logins -> [pc : {"idle", "compare", "respond", "token", "end"},
                           user : 0..MaxUsers, role : Roles \cup {""}, read : Times, issued : Times,
                           exp : Times, expiresIn : Int, at : Times]]
  /\ asked \in [Users -> Rows]
  /\ reverted \in [Users -> SUBSET Fields]
  /\ lastAdmin \in [Users -> Times]

Init ==
  /\ clock \in 0..(PerSecond - 1)
  /\ users = [u \in Users |-> NoRow]
  /\ upd = [c \in Updates |-> Call("idle")]
  /\ login = [l \in Logins |-> NotIn("idle")]
  /\ asked = users /\ reverted = [u \in Users |-> {}] /\ lastAdmin = [u \in Users |-> -1]

\* Time passes; whoever is an admin still is.  Before a login reads its row, time
\* makes no difference to anything.
Tick ==
  /\ clock < MaxClock
  /\ \E l \in Logins : login[l].pc \in {"compare", "respond", "token"}
  /\ clock' = clock + 1
  /\ lastAdmin' = [u \in Users |-> IF users[u]["role"] = "admin" THEN clock' ELSE lastAdmin[u]]
  /\ UNCHANGED <<users, upd, login, asked, reverted>>

-----------------------------------------------------------------------------
(***************************************************************************)
(* The table.                                                              *)
(***************************************************************************)

\* users_email_key
EmailFree(u, e) == \A v \in Users \ {u} : users[v]["email"] # e

\* Row u becomes row.
WriteUser(u, row) ==
  /\ users' = [users EXCEPT ![u] = row]
  /\ lastAdmin' = [lastAdmin EXCEPT ![u] = IF row["role"] = "admin" THEN clock ELSE @]

\* Mutant of CreateUser: a request without a role is stored as it is.
CreateUserNoDefault(u, e, r) ==
  LET row == Row(e, r) IN
  /\ ~Exists(u) /\ \A v \in 1..(u - 1) : Exists(v)
  /\ EmailFree(u, e)
  /\ WriteUser(u, row)
  /\ asked' = [asked EXCEPT ![u] = row]
  /\ UNCHANGED <<clock, upd, login, reverted>>

\* A request without a role makes a customer.
CreateUser(u, e, r) ==
  LET row == Row(e, IF r = "" THEN "customer" ELSE r) IN
  /\ ~Exists(u) /\ \A v \in 1..(u - 1) : Exists(v)
  /\ EmailFree(u, e)
  /\ WriteUser(u, row)
  /\ asked' = [asked EXCEPT ![u] = row]
  /\ UNCHANGED <<clock, upd, login, reverted>>

\* Mutant of Changed: the fields a request leaves empty are copied too, except
\* where the row would not be accepted.
ChangedWholly(row, req) == [f \in Fields |-> IF req[f] = "" /\ f = "email" THEN row[f]
                                             ELSE IF req[f] = "" THEN "customer" ELSE req[f]]

\* A field that is empty in the request keeps the value that was read.
Changed(row, req) == [f \in Fields |-> IF req[f] = "" THEN row[f] ELSE req[f]]

\* UpdateUser, up to the changed copy of the row; it ends if there is none.
GetUser(c, u, req) ==
  /\ upd[c].pc = "idle"
  /\ upd' = [upd EXCEPT ![c] =
               IF Exists(u)
               THEN [pc |-> "save", user |-> u, row |-> Changed(users[u], req),
                     set |-> {f \in Fields : req[f] # ""}, stale |-> FALSE]
               ELSE Call("end")]
  /\ UNCHANGED <<clock, users, login, asked, reverted, lastAdmin>>

\* Save writes every column of the row.
UpdateUser(c) ==
  LET u == upd[c].user
      row == upd[c].row
      set == upd[c].set
  IN
  /\ upd[c].pc = "save"
  /\ EmailFree(u, row["email"])
  /\ WriteUser(u, row)
  /\ upd' = [d \in Updates |->
               IF d = c THEN Call("end")
               ELSE [upd[d] EXCEPT !.stale = @ \/ (upd[d].pc = "save" /\ upd[d].user = u)]]
  /\ asked' = [asked EXCEPT ![u] = [f \in Fields |-> IF f \in set THEN row[f] ELSE @[f]]]
  /\ reverted' = [reverted EXCEPT ![u] =
                    IF upd[c].stale THEN Fields \ set ELSE @ \ set]
  /\ UNCHANGED <<clock, login>>

\* The email is another user's by now, or the statement fails.
UpdateUserFails(c) ==
  /\ upd[c].pc = "save"
  /\ upd' = [upd EXCEPT ![c] = Call("end")]
  /\ UNCHANGED <<clock, users, login, asked, reverted, lastAdmin>>

-----------------------------------------------------------------------------
(***************************************************************************)
(* Logging in.                                                             *)
(***************************************************************************)

\* Ends when no row has the email.
GetUserByEmail(l, e) ==
  /\ login[l].pc = "idle"
  /\ \/ \E u \in Users :
          /\ users[u]["email"] = e
          /\ login' = [login EXCEPT ![l] = [@ EXCEPT !.pc = "compare", !.user = u,
                                              !.role = users[u]["role"], !.read = clock]]
     \/ /\ \A u \in Users : users[u]["email"] # e
        /\ login' = [login EXCEPT ![l] = NotIn("end")]
  /\ UNCHANGED <<clock, users, upd, asked, reverted, lastAdmin>>

WrongPassword(l) ==
  /\ login[l].pc = "compare"
  /\ login' = [login EXCEPT ![l] = NotIn("end")]
  /\ UNCHANGED <<clock, users, upd, asked, reverted, lastAdmin>>

\* jwt.NewNumericDate keeps whole seconds.
NumericDate(t) == (t \div PerSecond) * PerSecond

\* The claims carry the user and role that were read; exp is ttl from now.
Generate(l) ==
  /\ login[l].pc = "compare"
  /\ login' = [login EXCEPT ![l] = [@ EXCEPT !.pc = "respond", !.issued = clock,
                                      !.exp = NumericDate(clock + TTL)]]
  /\ UNCHANGED <<clock, users, upd, asked, reverted, lastAdmin>>

\* Mutant of Seconds: rounded up.
SecondsUp(d) == IF d >= 0 THEN (d + PerSecond - 1) \div PerSecond ELSE -((-d) \div PerSecond)

\* int64(d.Seconds()): towards zero.
Seconds(d) == IF d >= 0 THEN d \div PerSecond ELSE -((-d) \div PerSecond)

\* The response says how many seconds are left of the time before truncation.
Respond(l) ==
  /\ login[l].pc = "respond"
  /\ login' = [login EXCEPT ![l] = [@ EXCEPT !.pc = "token", !.at = clock,
                                      !.expiresIn = Seconds(login[l].issued + TTL - clock)]]
  /\ UNCHANGED <<clock, users, upd, asked, reverted, lastAdmin>>

-----------------------------------------------------------------------------
(***************************************************************************)
(* Requests that present a token.                                          *)
(***************************************************************************)

\* Mutant of Authenticate: Parse verifies the signature only.
AuthenticateForever(l) == login[l].pc = "token"

\* A token that was signed here parses until it expires.
Parse(l) == clock < login[l].exp

Authenticate(l) == login[l].pc = "token" /\ Parse(l)

\* POST and PUT /products, behind Authenticate and RequireAdmin, are served.
ServesAdmin(l) == Authenticate(l) /\ login[l].role = "admin"

Next ==
  \/ Tick
  \/ \E u \in Users, e \in Emails, r \in Roles \cup {""} : CreateUser(u, e, r)
  \/ \E c \in Updates :
       \/ \E u \in Users, e \in Emails \cup {""}, r \in Roles \cup {""} : GetUser(c, u, Row(e, r))
       \/ UpdateUser(c) \/ UpdateUserFails(c)
  \/ \E l \in Logins :
       \/ \E e \in Emails : GetUserByEmail(l, e)
       \/ WrongPassword(l) \/ Generate(l) \/ Respond(l)

Spec == Init /\ [][Next]_vars

-----------------------------------------------------------------------------

\* A field that an update set keeps that value until it is set again, unless an
\* update that read the row before, and saved it after, put an old value back:
\* the hazard of UpdateUser's read and Save is exactly that.
LostOnlyToAStaleSave ==
  \A u \in Users, f \in Fields : users[u][f] # asked[u][f] => f \in reverted[u]

\* A caller who is served as an admin was one less than the token's lifetime ago,
\* not counting the time the login itself took from reading the row to signing:
\* however updates and logins overlap, a demoted admin is one no longer than that.
RightsRunOut ==
  \A l \in Logins :
    ServesAdmin(l) =>
      clock - lastAdmin[login[l].user] < TTL + (login[l].issued - login[l].read)

\* The seconds that a login says its token is good for are right to less than
\* one: a client that trusts expires_in is refused less than a second early.
ExpiresInIsClose ==
  \A l \in Logins :
    login[l].pc = "token" /\ login[l].expiresIn > 0 =>
      LET off == login[l].at + login[l].expiresIn * PerSecond - login[l].exp
      IN -PerSecond < off /\ off < PerSecond

=============================================================================
