-------------------------- MODULE MCNotificationHub --------------------------
(* Small instances of NotificationHub for TLC. *)
EXTENDS NotificationHub

\* Ann owns the first order, Bob the second.  The note is about the first order, for
\* which two sockets of Ann's ask and one of Bob's; another of Bob's asks for the
\* second.
MCOwner == [o \in Orders |-> IF o = "o1" THEN "ann" ELSE "bob"]
MCOrderOf == [x \in Clients \cup Notes |-> IF x = "c3" THEN "o2" ELSE "o1"]
MCCallerOf == [c \in Clients |-> IF c \in {"c3", "c4"} THEN "bob" ELSE "ann"]

\* Two sockets of the first order come, or one of each order; Bob's other socket
\* may always try.
MCGroups == {{"c1", "c2", "c4"}, {"c1", "c3", "c4"}}
=============================================================================
