----------------------------- MODULE MCSettings -----------------------------
(* Small instances of Settings for TLC. *)
EXTENDS Settings

MCDefault ==
  [k \in Keys |->
     CASE k = "WORKER_MAX_RETRIES" -> 3
       [] k = "WORKER_MAX_BACKOFF" -> 5
       [] k \in {"WORKER_QUEUE_SIZE", "WORKER_ATTEMPT_TIMEOUT"} -> 2
       [] OTHER -> 1]

Nothing == [k \in Keys |-> Unset]
Written == {Empty, Garbage, -1, 0, 2}

\* Any one variable and any one entry of the file; and, over more retries than
\* the integer has bits, every pair of positive durations.
MCSources ==
  {[env |-> [Nothing EXCEPT ![k] = v], file |-> [Nothing EXCEPT ![l] = w]] :
     k \in Keys, l \in Keys, v \in Written, w \in Written \cup {Unset}}
  \cup
  {[env |-> [Nothing EXCEPT !["WORKER_BASE_BACKOFF"] = b, !["WORKER_MAX_BACKOFF"] = m],
    file |-> [Nothing EXCEPT !["WORKER_MAX_RETRIES"] = Bits + 2]] :
     b \in 1..(2^(Bits - 1) - 1), m \in 1..(2^(Bits - 1) - 1)}
=============================================================================
