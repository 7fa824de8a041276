------------------------------- MODULE RedisLock -------------------------------
(***************************************************************************)
(* redis_lock of src/core/locks.py for one key: an add() with a time to    *)
(* live, and a release that compares and deletes.  The cache backend of    *)
(* the settings (django.core.cache RedisCache) has no attribute client, so *)
(* the Lua script is never reached and the release is a get() followed by  *)
(* a delete().  The token of an acquisition is modelled by the client that *)
(* made it: a client has one acquisition at a time, and the key is free    *)
(* whenever it makes a new one.                                            *)
(***************************************************************************)
CONSTANTS
  Clients,    \* processes that use the key
  Overstays,  \* those whose work and release may outlast the time to live
  None        \* no token

ASSUME ClientsAssumption == Overstays \subseteq Clients /\ None \notin Clients

VARIABLES
  key,  \* the token stored under the key, or None
  pc    \* pc[c]: where client c is in redis_lock

lockVars == <<key, pc>>

Goto(c, p) == pc' = [pc EXCEPT ![c] = p]

LockInit ==
  /\ key = None
  /\ pc = [c \in Clients |-> "out"]

\* redis_lock is called.
Call(c) ==
  /\ pc[c] = "out"
  /\ Goto(c, "trying")
  /\ UNCHANGED key

\* cache.add succeeds: the with-block starts.

Acquire_Sets(c) ==
  /\ pc[c] = "trying"
  /\ key' = c
  /\ Goto(c, "in")

Acquire(c) ==
  /\ pc[c] = "trying"
  /\ key = None
  /\ key' = c
  /\ Goto(c, "in")

\* LockNotAcquired (not blocking, or the deadline has passed while the key was
\* there), or RuntimeError because Redis cannot be reached.
GiveUp(c) ==
  /\ pc[c] = "trying"
  /\ Goto(c, "out")
  /\ UNCHANGED key

\* The with-block is left, normally or by an exception.
Leave(c) ==
  /\ pc[c] = "in"
  /\ Goto(c, "leaving")
  /\ UNCHANGED key

\* _release compares the stored token with its own ...
Compare(c) ==
  /\ pc[c] = "leaving"
  /\ Goto(c, IF key = c THEN "checked" ELSE "out")
  /\ UNCHANGED key

\* ... and deletes the key, whatever it holds by now.
Delete(c) ==
  /\ pc[c] = "checked"
  /\ key' = None
  /\ Goto(c, "out")

\* The release fails (the exception is logged), or the process is killed.
Abandon(c) ==
  /\ pc[c] # "out"
  /\ Goto(c, "out")
  /\ UNCHANGED key

\* The time to live ends, which only an overstaying client lives to see.
Expire_Early ==
  /\ key # None
  /\ pc[key] # "checked"
  /\ key' = None
  /\ UNCHANGED pc


Expire ==
  /\ key # None
  /\ key \in Overstays \/ pc[key] \in {"out", "trying"}
  /\ key' = None
  /\ UNCHANGED pc

Client(c) ==
  \/ Call(c)
  \/ Acquire(c)
  \/ GiveUp(c)
  \/ Leave(c)
  \/ Compare(c)
  \/ Delete(c)
  \/ Abandon(c)

LockNext == Expire \/ \E c \in Clients : Client(c)

LockSpec == LockInit /\ [][LockNext]_lockVars

-----------------------------------------------------------------------------
(* Properties *)

\* Type invariant: the key holds a token or nothing, and each client is somewhere.
LockTypeOK ==
  /\ key \in Clients \cup {None}
  /\ pc \in [Clients -> {"out", "trying", "in", "leaving", "checked"}]

\* The clients inside the with-block.
Working == {c \in Clients : pc[c] = "in"}

\* When no client overstays, one that is inside, or has compared and is about to
\* delete, still has its token under the key: nobody else can be there.
HoldersOwnTheKey ==
  Overstays = {} => \A c \in Clients : pc[c] \in {"in", "leaving", "checked"} => key = c

Abstract == INSTANCE Lease WITH working <- Working, taken <- key # None

\* When no client overstays, the two-step release and the expiry of abandoned
\* keys are invisible: the key is a lease as its callers understand it.
ImplementsLease == Abstract!Spec

=============================================================================
