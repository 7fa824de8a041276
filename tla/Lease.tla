--------------------------------- MODULE Lease ---------------------------------
(***************************************************************************)
(* What a caller of redis_lock (src/core/locks.py) relies on: at most one  *)
(* client works under a lock, nobody starts while it is taken, and it is   *)
(* never freed under a working client.  A lock may outlive its client.     *)
(***************************************************************************)
CONSTANT Clients

VARIABLES
  working,  \* the clients inside the with-block
  taken     \* whether the lock is there for others to see

Init == working = {} /\ taken = FALSE

Enter(c) == /\ working = {}
            /\ ~taken
            /\ working' = {c}
            /\ taken' = TRUE

\* The client returns, raises or is killed; the lock may stay.
Leave(c) == /\ working = {c}
            /\ working' = {}
            /\ taken' \in {TRUE, FALSE}

\* A lock nobody works under is deleted or expires.
Free == /\ working = {}
        /\ taken
        /\ taken' = FALSE
        /\ UNCHANGED working

Next == Free \/ \E c \in Clients : Enter(c) \/ Leave(c)

Spec == Init /\ [][Next]_<<working, taken>>
=============================================================================
