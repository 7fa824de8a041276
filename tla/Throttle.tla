-------------------------------- MODULE Throttle --------------------------------
(***************************************************************************)
(* acquire_slot of src/apps/scraping/throttle.py for one domain: the       *)
(* workers share a counter per 60-second window in the cache.  A worker    *)
(* reads the clock, adds the counter if it is missing, increments it, and  *)
(* has a slot if the result is within the rate; otherwise it decrements it *)
(* again and polls until its deadline.  Each of these is a step of its own *)
(* here, for nothing but the single cache operation is atomic.             *)
(*                                                                         *)
(* Workers read one monotonic clock: docker-compose.yml runs one host.  A  *)
(* rate of zero, which switches the throttle off, is not modelled.         *)
(***************************************************************************)
EXTENDS Integers, FiniteSets

CONSTANTS
  Workers,    \* processes that fetch from the domain
  Stallers,   \* those that may be suspended until the counter they use expires
  Rate,       \* rate_per_minute
  MaxWindow,  \* bound: the last window that is explored
  MaxCount    \* bound: the largest counter that is explored

ASSUME ThrottleAssumption ==
  /\ IsFiniteSet(Workers)
  /\ Stallers \subseteq Workers
  /\ Rate \in Nat \ {0}
  /\ MaxWindow \in Nat
  /\ MaxCount \in Nat

Windows == 0..MaxWindow

VARIABLES
  window,   \* _clock() // 60
  live,     \* the windows whose counter is in the cache
  count,    \* count[k]: the counter of window k, 0 while it is not there
  lapsed,   \* history: the windows whose counter has expired
  granted,  \* history: granted[k] is the number of slots taken in window k
  pc,       \* pc[w]: where worker w is in acquire_slot
  win       \* win[w]: the window worker w has computed

cacheVars == <<live, count, lapsed, granted>>
vars == <<window, cacheVars, pc, win>>

Outcomes == {"slot", "refused", "unavailable", "raised"}

Goto(w, p) == pc' = [pc EXCEPT ![w] = p] /\ UNCHANGED win

\* Worker w goes to p and has no more use for the window it has computed.
Forget(w, p) == pc' = [pc EXCEPT ![w] = p] /\ win' = [win EXCEPT ![w] = 0]

Init ==
  /\ window = 0
  /\ live = {}
  /\ count = [k \in Windows |-> 0]
  /\ lapsed = {}
  /\ granted = [k \in Windows |-> 0]
  /\ pc = [w \in Workers |-> "out"]
  /\ win = [w \in Workers |-> 0]

-----------------------------------------------------------------------------
(* A worker in acquire_slot *)

Call(w) ==
  /\ pc[w] = "out"
  /\ Goto(w, "clock")
  /\ UNCHANGED <<window, cacheVars>>


ReadClock(w) ==
  /\ pc[w] = "clock"
  /\ pc' = [pc EXCEPT ![w] = "add"]
  /\ win' = [win EXCEPT ![w] = window]
  /\ UNCHANGED <<window, cacheVars>>

\* cache.add writes nothing when the counter is there.
AddCounter(w) ==
  /\ pc[w] = "add"
  /\ live' = live \cup {win[w]}
  /\ Goto(w, "incr")
  /\ UNCHANGED <<window, count, lapsed, granted>>

\* The counter is within the rate: the worker has a slot, and sleeps its jitter.
Grant_OffByOne(w) ==
  /\ pc[w] = "incr"
  /\ win[w] \in live
  /\ count[win[w]] <= Rate
  /\ count' = [count EXCEPT ![win[w]] = @ + 1]
  /\ granted' = [granted EXCEPT ![win[w]] = @ + 1]
  /\ Forget(w, "slot")
  /\ UNCHANGED <<window, live, lapsed>>

Grant(w) ==
  /\ pc[w] = "incr"
  /\ win[w] \in live
  /\ count[win[w]] + 1 <= Rate
  /\ count' = [count EXCEPT ![win[w]] = @ + 1]
  /\ granted' = [granted EXCEPT ![win[w]] = @ + 1]
  /\ Forget(w, "slot")
  /\ UNCHANGED <<window, live, lapsed>>

\* Over budget.
Exceed_Early(w) ==
  /\ pc[w] = "incr"
  /\ win[w] \in live
  /\ count[win[w]] + 1 >= Rate
  /\ count[win[w]] < MaxCount
  /\ count' = [count EXCEPT ![win[w]] = @ + 1]
  /\ Goto(w, "over")
  /\ UNCHANGED <<window, live, lapsed, granted>>

Exceed(w) ==
  /\ pc[w] = "incr"
  /\ win[w] \in live
  /\ count[win[w]] + 1 > Rate
  /\ count[win[w]] < MaxCount
  /\ count' = [count EXCEPT ![win[w]] = @ + 1]
  /\ Goto(w, "over")
  /\ UNCHANGED <<window, live, lapsed, granted>>

\* ValueError: the counter has expired between add and incr.
Missing(w) ==
  /\ pc[w] = "incr"
  /\ win[w] \notin live
  /\ Forget(w, "poll")
  /\ UNCHANGED <<window, cacheVars>>

\* The token is given back; the ValueError of an expired counter is suppressed.
GiveBack_Twice(w) ==
  /\ pc[w] = "over"
  /\ count' = IF win[w] \in live THEN [count EXCEPT ![win[w]] = @ - 2] ELSE count
  /\ Forget(w, "poll")
  /\ UNCHANGED <<window, live, lapsed, granted>>

GiveBack(w) ==
  /\ pc[w] = "over"
  /\ count' = IF win[w] \in live THEN [count EXCEPT ![win[w]] = @ - 1] ELSE count
  /\ Forget(w, "poll")
  /\ UNCHANGED <<window, live, lapsed, granted>>

\* FetchBudgetExceeded once the deadline has passed, else another round.
Poll(w) ==
  /\ pc[w] = "poll"
  /\ \E p \in {"clock", "refused"} : Goto(w, p)
  /\ UNCHANGED <<window, cacheVars>>

\* ThrottleUnavailable if the cache fails in add or incr.  Its failure in decr is
\* outside the try block: it is raised as it is, and the token stays taken.
BackendFails(w) ==
  /\ \/ pc[w] \in {"add", "incr"} /\ Forget(w, "unavailable")
     \/ pc[w] = "over" /\ Forget(w, "raised")
  /\ UNCHANGED <<window, cacheVars>>

\* acquire_slot has returned or raised, or the worker is killed.
Leave(w) ==
  /\ pc[w] # "out"
  /\ Forget(w, "out")
  /\ UNCHANGED <<window, cacheVars>>

-----------------------------------------------------------------------------
(* The cache and the clock *)

Tick ==
  /\ window < MaxWindow
  /\ window' = window + 1
  /\ UNCHANGED <<cacheVars, pc, win>>

\* Worker w is about to use the counter of window k.
Uses(w, k) == pc[w] \in {"add", "incr", "over"} /\ win[w] = k

\* The time to live is two windows, which only a stalled worker outlives.
Expire(k) ==
  /\ k \in live
  /\ window >= k + 2
  /\ \A w \in Workers \ Stallers : ~Uses(w, k)
  /\ live' = live \ {k}
  /\ count' = [count EXCEPT ![k] = 0]
  /\ lapsed' = lapsed \cup {k}
  /\ UNCHANGED <<window, granted, pc, win>>

Worker(w) ==
  \/ Call(w)
  \/ ReadClock(w)
  \/ AddCounter(w)
  \/ Grant(w)
  \/ Exceed(w)
  \/ Missing(w)
  \/ GiveBack(w)
  \/ Poll(w)
  \/ BackendFails(w)
  \/ Leave(w)

Next ==
  \/ \E w \in Workers : Worker(w)
  \/ Tick
  \/ \E k \in Windows : Expire(k)

Spec == Init /\ [][Next]_vars
-----------------------------------------------------------------------------
(* Properties *)

\* Type invariant: where the workers are, and a counter per window.
TypeOK ==
  /\ window \in Windows
  /\ live \subseteq Windows
  /\ count \in [Windows -> Int]
  /\ lapsed \subseteq Windows
  /\ granted \in [Windows -> Nat]
  /\ pc \in [Workers -> Outcomes \cup {"out", "clock", "add", "incr", "over", "poll"}]
  /\ win \in [Workers -> Windows]

\* The workers that have to give a token of window k back.
Owing(k) == {w \in Workers : pc[w] = "over" /\ win[w] = k}

\* However the steps of the workers mix, and whoever is killed between incr and
\* decr, no more than Rate requests are charged to a window while its counter has
\* not expired ("the aggregate request rate per domain can never exceed the
\* budget", throttle.py).  A worker that stalls past the expiry voids this.
BudgetKept == \A k \in Windows \ lapsed : granted[k] <= Rate

\* Nobody is turned away from a window that still has a slot: the tokens other
\* workers take in excess, and those a killed worker never gives back, cost no
\* slot of the window.
NoSlotWasted ==
  \A w \in Workers : pc[w] = "over" /\ win[w] \notin lapsed => granted[win[w]] = Rate

\* The counter covers the slots taken and the tokens still to be given back.
CounterCovers ==
  \A k \in live \ lapsed : count[k] >= granted[k] + Cardinality(Owing(k))

\* What acquire_slot promises of a window while its counter lives: no slot
\* too many, none withheld, and a counter that says at least what it has to.
Metered == BudgetKept /\ NoSlotWasted /\ CounterCovers
=============================================================================
