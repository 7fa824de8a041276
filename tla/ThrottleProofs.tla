----------------------------- MODULE ThrottleProofs -----------------------------
(***************************************************************************)
(* Theorems about Throttle, for any workers, rate and number of windows,   *)
(* and about the fetches of PoliteFetch that go through it.                *)
(***************************************************************************)
EXTENDS PoliteFetch, FiniteSetTheorems, WellFoundedInduction, TLAPS

-----------------------------------------------------------------------------
\* The initial state is well typed, and every step keeps the types.
LEMMA TypeInit == Init => TypeOK
  BY ThrottleAssumption DEF Init, TypeOK, Windows, Outcomes

LEMMA TypeNext == TypeOK /\ [Next]_vars => TypeOK'
<1> SUFFICES ASSUME TypeOK, [Next]_vars PROVE TypeOK'
  OBVIOUS
<1> USE DEF TypeOK, Outcomes, Goto, Forget, cacheVars
<1>0. 0 \in Windows
  BY ThrottleAssumption DEF Windows
<1>1. ASSUME NEW w \in Workers, Worker(w) PROVE TypeOK'
  <2>1. CASE Call(w)
    BY <1>0, <2>1 DEF Call
  <2>2. CASE ReadClock(w)
    BY <1>0, <2>2 DEF ReadClock
  <2>3. CASE AddCounter(w)
    BY <1>0, <2>3 DEF AddCounter
  <2>4. CASE Grant(w)
    <3>1. win[w] \in Windows /\ count[win[w]] + 1 \in Int /\ granted[win[w]] + 1 \in Nat
      OBVIOUS
    <3> QED
      BY <1>0, <2>4, <3>1 DEF Grant
  <2>5. CASE Exceed(w)
    BY <1>0, <2>5 DEF Exceed
  <2>6. CASE Missing(w)
    BY <1>0, <2>6 DEF Missing
  <2>7. CASE GiveBack(w)
    BY <1>0, <2>7 DEF GiveBack
  <2>8. CASE Poll(w)
    BY <1>0, <2>8 DEF Poll
  <2>9. CASE BackendFails(w)
    BY <1>0, <2>9 DEF BackendFails
  <2>10. CASE Leave(w)
    BY <1>0, <2>10 DEF Leave
  <2> QED
    BY <1>1, <2>1, <2>2, <2>3, <2>4, <2>5, <2>6, <2>7, <2>8, <2>9, <2>10 DEF Worker
<1>2. CASE Tick
  BY <1>2, ThrottleAssumption DEF Tick, Windows
<1>3. ASSUME NEW k \in Windows, Expire(k) PROVE TypeOK'
  BY <1>3 DEF Expire
<1>4. CASE UNCHANGED vars
  BY <1>4 DEF vars
<1> QED
  BY <1>1, <1>2, <1>3, <1>4 DEF Next

\* Every reachable state of acquire_slot is well typed, stalling workers or not.
THEOREM TypeCorrect == Spec => []TypeOK
  BY TypeInit, TypeNext, PTL DEF Spec

-----------------------------------------------------------------------------
(* The inductive invariant.  BudgetKept and NoSlotWasted depend on each other:  *)
(* a token in excess is only taken from a full window, and giving it back       *)
(* never opens a full window, because the counter covers the tokens owed.       *)

\* The workers that have used a counter found it, whether or not it is still there.
KnownWindows ==
  \A w \in Workers : pc[w] \in {"incr", "over"} => win[w] \in live \cup lapsed

\* A window nobody has used is empty.
UnusedEmpty ==
  \A k \in Windows : k \notin live \cup lapsed => count[k] = 0 /\ granted[k] = 0

\* A counter that differs from the number of slots taken belongs to a full window.
ExactOrFull ==
  \A k \in live \ lapsed : count[k] = granted[k] \/ granted[k] = Rate

IInv ==
  /\ KnownWindows
  /\ UnusedEmpty
  /\ ExactOrFull
  /\ BudgetKept
  /\ NoSlotWasted
  /\ CounterCovers

\* The tokens owed to a window are finitely many.
LEMMA OwingFinite ==
  ASSUME NEW k
  PROVE  IsFiniteSet(Owing(k)) /\ Cardinality(Owing(k)) \in Nat
<1>1. IsFiniteSet(Owing(k))
  BY ThrottleAssumption, FS_Subset DEF Owing
<1> QED
  BY <1>1, FS_CardinalityType

\* A step after which no worker owes a token it did not owe before.
LEMMA OwingShrinks ==
  ASSUME NEW k, Owing(k)' \subseteq Owing(k)
  PROVE  Cardinality(Owing(k)') <= Cardinality(Owing(k)) /\ Cardinality(Owing(k)') \in Nat
  BY OwingFinite, FS_Subset, FS_CardinalityType

\* Init establishes the invariant.
LEMMA InvInit == Init => IInv
  BY ThrottleAssumption
  DEF Init, IInv, KnownWindows, UnusedEmpty, ExactOrFull, BudgetKept, NoSlotWasted,
      CounterCovers, Windows

\* A step of one worker that writes no counter and takes no token in excess.
LEMMA QuietStep ==
  ASSUME TypeOK, IInv, NEW w \in Workers, UNCHANGED cacheVars,
         \E p : p \notin {"incr", "over"} /\ pc' = [pc EXCEPT ![w] = p],
         \A v \in Workers : v # w => win'[v] = win[v]
  PROVE  IInv'
<1> USE DEF TypeOK, IInv, cacheVars
<1>1. KnownWindows'
  BY DEF KnownWindows
<1>2. UnusedEmpty' /\ ExactOrFull' /\ BudgetKept'
  BY DEF UnusedEmpty, ExactOrFull, BudgetKept
<1>3. NoSlotWasted'
  BY DEF NoSlotWasted
<1>4. ASSUME NEW k \in Windows PROVE Owing(k)' \subseteq Owing(k)
  BY DEF Owing
<1>5. CounterCovers'
  <2> SUFFICES ASSUME NEW k \in live \ lapsed
               PROVE  count[k] >= granted[k] + Cardinality(Owing(k)')
    BY DEF CounterCovers
  <2>1. k \in Windows /\ count[k] \in Int /\ granted[k] \in Nat
    OBVIOUS
  <2>2. count[k] >= granted[k] + Cardinality(Owing(k))
    BY DEF CounterCovers
  <2> QED
    BY <2>1, <2>2, <1>4, OwingShrinks, OwingFinite
<1> QED
  BY <1>1, <1>2, <1>3, <1>5

\* AddCounter: a new counter starts at zero in a window nobody has used.
LEMMA AddStep ==
  ASSUME TypeOK, IInv, NEW w \in Workers, AddCounter(w)
  PROVE  IInv'
<1> USE DEF TypeOK, IInv, AddCounter, Goto
<1>1. KnownWindows' /\ UnusedEmpty'
  BY DEF KnownWindows, UnusedEmpty
<1>2. ExactOrFull' /\ BudgetKept' /\ NoSlotWasted'
  BY DEF UnusedEmpty, ExactOrFull, BudgetKept, NoSlotWasted
<1>3. CounterCovers'
  <2> SUFFICES ASSUME NEW k \in (live \ lapsed)'
               PROVE  count[k] >= granted[k] + Cardinality(Owing(k)')
    BY DEF CounterCovers
  <2>1. Owing(k)' = Owing(k)
    BY DEF Owing
  <2>2. CASE k \in live
    BY <2>1, <2>2 DEF CounterCovers
  <2>3. CASE k \notin live
    <3>1. count[k] = 0 /\ granted[k] = 0
      BY <2>3 DEF UnusedEmpty
    <3>2. Owing(k) = {}
      BY <2>3 DEF Owing, KnownWindows
    <3> QED
      BY <2>1, <3>1, <3>2, FS_EmptySet
  <2> QED
    BY <2>2, <2>3
<1> QED
  BY <1>1, <1>2, <1>3

\* Grant: the counter was exact, so there is a slot left to take.
LEMMA GrantStep ==
  ASSUME TypeOK, IInv, NEW w \in Workers, Grant(w)
  PROVE  IInv'
<1> USE ThrottleAssumption DEF TypeOK, IInv, Grant, Forget
<1> DEFINE k == win[w]
<1>1. k \in Windows /\ count[k] \in Int /\ granted[k] \in Nat
  OBVIOUS
<1>2. ASSUME k \notin lapsed
      PROVE  count[k] >= granted[k] /\ count[k] = granted[k] /\ granted[k] + 1 <= Rate
  <2>1. count[k] >= granted[k] + Cardinality(Owing(k))
    BY <1>2 DEF CounterCovers
  <2>2. count[k] >= granted[k]
    BY <1>1, <2>1, OwingFinite
  <2> QED
    BY <1>1, <1>2, <2>2 DEF ExactOrFull
<1>3. KnownWindows' /\ UnusedEmpty'
  BY DEF KnownWindows, UnusedEmpty
<1>4. ExactOrFull' /\ BudgetKept'
  BY <1>1, <1>2 DEF ExactOrFull, BudgetKept
<1>5. NoSlotWasted'
  <2> SUFFICES ASSUME NEW v \in Workers, pc'[v] = "over", win'[v] \notin lapsed
               PROVE  granted'[win'[v]] = Rate
    BY DEF NoSlotWasted
  <2>1. v # w /\ win'[v] = win[v] /\ granted[win[v]] = Rate
    BY DEF NoSlotWasted
  <2> QED
    BY <1>1, <1>2, <2>1
<1>6. CounterCovers'
  <2> SUFFICES ASSUME NEW j \in live \ lapsed
               PROVE  count'[j] >= granted'[j] + Cardinality(Owing(j)')
    BY DEF CounterCovers
  <2>1. Owing(j)' \subseteq Owing(j)
    BY DEF Owing
  <2>2. Cardinality(Owing(j)') <= Cardinality(Owing(j)) /\ Cardinality(Owing(j)') \in Nat
    BY <2>1, OwingShrinks
  <2>3. count[j] >= granted[j] + Cardinality(Owing(j)) /\ j \in Windows
        /\ count[j] \in Int /\ granted[j] \in Nat
    BY DEF CounterCovers
  <2>4. count'[j] - granted'[j] = count[j] - granted[j]
        /\ count'[j] \in Int /\ granted'[j] \in Nat
    BY <1>1, <2>3
  <2> QED
    BY <2>2, <2>3, <2>4, OwingFinite
<1> QED
  BY <1>3, <1>4, <1>5, <1>6

\* Exceed: the window is full, and the counter now covers one more token.
LEMMA ExceedStep ==
  ASSUME TypeOK, IInv, NEW w \in Workers, Exceed(w)
  PROVE  IInv'
<1> USE ThrottleAssumption DEF TypeOK, IInv, Exceed, Goto
<1> DEFINE k == win[w]
<1>1. k \in Windows /\ count[k] \in Int /\ granted[k] \in Nat
  OBVIOUS
<1>2. ASSUME k \notin lapsed PROVE granted[k] = Rate
  BY <1>1, <1>2 DEF ExactOrFull, BudgetKept
<1>3. KnownWindows' /\ UnusedEmpty' /\ BudgetKept'
  BY DEF KnownWindows, UnusedEmpty, BudgetKept
<1>4. ExactOrFull'
  BY <1>1, <1>2 DEF ExactOrFull
<1>5. NoSlotWasted'
  BY <1>2 DEF NoSlotWasted
<1>6. CounterCovers'
  <2> SUFFICES ASSUME NEW j \in live \ lapsed
               PROVE  count'[j] >= granted[j] + Cardinality(Owing(j)')
    BY DEF CounterCovers
  <2>1. count[j] >= granted[j] + Cardinality(Owing(j)) /\ j \in Windows
        /\ count[j] \in Int /\ granted[j] \in Nat /\ Cardinality(Owing(j)) \in Nat
    BY OwingFinite DEF CounterCovers
  <2>2. CASE j = k
    <3>1. Owing(j)' = Owing(j) \cup {w} /\ w \notin Owing(j)
      BY <2>2 DEF Owing
    <3>2. Cardinality(Owing(j)') = Cardinality(Owing(j)) + 1
      BY <3>1, OwingFinite, FS_AddElement
    <3>3. count'[j] = count[j] + 1
      BY <2>1, <2>2
    <3> QED
      BY <2>1, <3>2, <3>3
  <2>3. CASE j # k
    <3>1. Owing(j)' = Owing(j) /\ count'[j] = count[j]
      BY <2>1, <2>3 DEF Owing
    <3> QED
      BY <2>1, <3>1
  <2> QED
    BY <2>2, <2>3
<1> QED
  BY <1>3, <1>4, <1>5, <1>6

\* GiveBack: a token was owed, so the counter still covers the slots and the rest.
LEMMA GiveBackStep ==
  ASSUME TypeOK, IInv, NEW w \in Workers, GiveBack(w)
  PROVE  IInv'
<1> USE ThrottleAssumption DEF TypeOK, IInv, GiveBack, Forget
<1> DEFINE k == win[w]
<1>1. k \in Windows /\ count[k] \in Int /\ granted[k] \in Nat
  OBVIOUS
<1>2. ASSUME k \notin lapsed PROVE granted[k] = Rate
  BY <1>2 DEF NoSlotWasted
<1>3. KnownWindows' /\ UnusedEmpty' /\ BudgetKept' /\ NoSlotWasted'
  BY DEF KnownWindows, UnusedEmpty, BudgetKept, NoSlotWasted
<1>4. ExactOrFull'
  BY <1>1, <1>2 DEF ExactOrFull
<1>5. CounterCovers'
  <2> SUFFICES ASSUME NEW j \in live \ lapsed
               PROVE  count'[j] >= granted[j] + Cardinality(Owing(j)')
    BY DEF CounterCovers
  <2>1. count[j] >= granted[j] + Cardinality(Owing(j)) /\ j \in Windows
        /\ count[j] \in Int /\ granted[j] \in Nat /\ Cardinality(Owing(j)) \in Nat
    BY OwingFinite DEF CounterCovers
  <2>2. CASE j = k
    <3>1. Owing(j)' = Owing(j) \ {w} /\ w \in Owing(j)
      BY <2>2 DEF Owing
    <3>2. Cardinality(Owing(j)') = Cardinality(Owing(j)) - 1
      <4>1. IsFiniteSet(Owing(j))
        BY OwingFinite
      <4>2. Cardinality(Owing(j) \ {w}) = Cardinality(Owing(j)) - 1
        BY ONLY <3>1, <4>1, FS_RemoveElement
      <4> QED
        BY <3>1, <4>2
    <3>3. count'[j] = count[j] - 1
      BY <2>1, <2>2
    <3> QED
      BY <2>1, <3>2, <3>3
  <2>3. CASE j # k
    <3>1. Owing(j)' = Owing(j) /\ count'[j] = count[j]
      BY <2>1, <2>3 DEF Owing
    <3> QED
      BY <2>1, <3>1
  <2> QED
    BY <2>2, <2>3
<1> QED
  BY <1>3, <1>4, <1>5

\* Expire: an expired window is known and no longer spoken of.
LEMMA ExpireStep ==
  ASSUME TypeOK, IInv, NEW k \in Windows, Expire(k)
  PROVE  IInv'
<1> USE DEF TypeOK, IInv, Expire
<1>1. KnownWindows' /\ UnusedEmpty' /\ ExactOrFull' /\ BudgetKept' /\ NoSlotWasted'
  BY DEF KnownWindows, UnusedEmpty, ExactOrFull, BudgetKept, NoSlotWasted
<1>2. CounterCovers'
  <2> SUFFICES ASSUME NEW j \in live \ lapsed, j # k
               PROVE  count'[j] >= granted[j] + Cardinality(Owing(j)')
    BY DEF CounterCovers
  <2>1. Owing(j)' = Owing(j) /\ count'[j] = count[j]
    BY DEF Owing
  <2> QED
    BY <2>1 DEF CounterCovers
<1> QED
  BY <1>1, <1>2

\* A step that changes neither the counters nor what the workers owe.
LEMMA IdleStep ==
  ASSUME IInv, UNCHANGED <<cacheVars, pc, win>>
  PROVE  IInv'
  BY DEF IInv, KnownWindows, UnusedEmpty, ExactOrFull, BudgetKept, NoSlotWasted,
         CounterCovers, Owing, cacheVars

\* Every step preserves the invariant.
LEMMA InvNext == TypeOK /\ IInv /\ [Next]_vars => IInv'
<1> SUFFICES ASSUME TypeOK, IInv, [Next]_vars PROVE IInv'
  OBVIOUS
<1>1. ASSUME NEW w \in Workers, Worker(w) PROVE IInv'
  <2>1. CASE Call(w)
    BY <2>1, QuietStep DEF Call, Goto
  <2>2. CASE ReadClock(w)
    BY <2>2, QuietStep DEF ReadClock, TypeOK
  <2>3. CASE AddCounter(w)
    BY <2>3, AddStep
  <2>4. CASE Grant(w)
    BY <2>4, GrantStep
  <2>5. CASE Exceed(w)
    BY <2>5, ExceedStep
  <2>6. CASE Missing(w)
    BY <2>6, QuietStep DEF Missing, Forget, TypeOK
  <2>7. CASE GiveBack(w)
    BY <2>7, GiveBackStep
  <2>8. CASE Poll(w)
    BY <2>8, QuietStep DEF Poll, Goto
  <2>9. CASE BackendFails(w)
    BY <2>9, QuietStep DEF BackendFails, Forget, TypeOK
  <2>10. CASE Leave(w)
    BY <2>10, QuietStep DEF Leave, Forget, TypeOK
  <2> QED
    BY <1>1, <2>1, <2>2, <2>3, <2>4, <2>5, <2>6, <2>7, <2>8, <2>9, <2>10 DEF Worker
<1>2. CASE Tick
  BY <1>2, IdleStep DEF Tick
<1>3. ASSUME NEW k \in Windows, Expire(k) PROVE IInv'
  BY <1>3, ExpireStep
<1>4. CASE UNCHANGED vars
  BY <1>4, IdleStep DEF vars
<1> QED
  BY <1>1, <1>2, <1>3, <1>4 DEF Next

\* While its counter has not expired, a window never has more than Rate requests
\* charged to it; a worker is only turned away from a full window; and the counter
\* covers the slots taken and the tokens owed.  For any workers and any rate,
\* whoever stalls or is killed in other windows.
THEOREM ThrottleIsSound == Spec => []Metered
<1>1. Init => IInv
  BY InvInit
<1>2. TypeOK /\ IInv /\ [Next]_vars => IInv'
  BY InvNext
<1>3. IInv => Metered
  BY DEF IInv, Metered
<1> QED
  BY <1>1, <1>2, <1>3, TypeCorrect, PTL DEF Spec

-----------------------------------------------------------------------------
(* What the exception costs *)

\* Nobody is about to use a counter that has expired, and no window is over its rate.
NobodyLate ==
  /\ \A k \in lapsed : window >= k + 2
  /\ \A k \in lapsed, w \in Workers : ~Uses(w, k)
  /\ \A k \in Windows : granted[k] <= Rate

LEMMA NobodyLateNext ==
  ASSUME Stallers = {}
  PROVE  TypeOK /\ IInv /\ NobodyLate /\ [Next]_vars /\ IInv' => NobodyLate'
<1> SUFFICES ASSUME TypeOK, IInv, NobodyLate, [Next]_vars, IInv' PROVE NobodyLate'
  OBVIOUS
<1>1. ASSUME UNCHANGED <<window, lapsed, granted>>,
             \A w \in Workers, k \in lapsed : Uses(w, k)' => Uses(w, k)
      PROVE  NobodyLate'
  BY <1>1 DEF NobodyLate
<1>2. ASSUME NEW w \in Workers, Worker(w) PROVE NobodyLate'
  <2> USE DEF TypeOK
  <2>1. CASE ReadClock(w)
    <3>1. UNCHANGED <<window, lapsed, granted>> /\ pc' = [pc EXCEPT ![w] = "add"]
          /\ win' = [win EXCEPT ![w] = window]
      BY <2>1 DEF ReadClock, cacheVars
    <3>2. \A k \in lapsed : k # window
      BY DEF NobodyLate, Windows
    <3>3. \A o \in Workers, k \in lapsed : Uses(o, k)' => Uses(o, k)
      BY <3>1, <3>2 DEF Uses
    <3> QED BY <1>1, <3>1, <3>3
  <2>2. CASE Grant(w)
    <3>1. /\ UNCHANGED <<window, lapsed>> /\ Uses(w, win[w])
          /\ pc' = [pc EXCEPT ![w] = "slot"] /\ win' = [win EXCEPT ![w] = 0]
          /\ granted' = [granted EXCEPT ![win[w]] = @ + 1]
      BY <2>2 DEF Grant, Forget, Uses
    <3>2. \A o \in Workers, k \in lapsed : Uses(o, k)' => Uses(o, k)
      BY <3>1 DEF Uses
    <3>3. win[w] \in Windows \ lapsed'
      BY <3>1 DEF NobodyLate
    <3>4. granted'[win[w]] <= Rate
      BY <3>3 DEF IInv, BudgetKept
    <3>5. \A k \in Windows : granted'[k] <= Rate
      BY <3>1, <3>4 DEF NobodyLate
    <3> QED BY <3>1, <3>2, <3>5 DEF NobodyLate
  <2>3. CASE Call(w)
    BY <1>1, <2>3 DEF Call, Goto, Uses, cacheVars
  <2>4. CASE AddCounter(w)
    BY <1>1, <2>4 DEF AddCounter, Goto, Uses
  <2>5. CASE Exceed(w)
    BY <1>1, <2>5 DEF Exceed, Goto, Uses
  <2>6. CASE Missing(w)
    BY <1>1, <2>6 DEF Missing, Forget, Uses, cacheVars
  <2>7. CASE GiveBack(w)
    BY <1>1, <2>7 DEF GiveBack, Forget, Uses
  <2>8. CASE Poll(w)
    BY <1>1, <2>8 DEF Poll, Goto, Uses, cacheVars
  <2>9. CASE BackendFails(w)
    BY <1>1, <2>9 DEF BackendFails, Forget, Uses, cacheVars
  <2>10. CASE Leave(w)
    BY <1>1, <2>10 DEF Leave, Forget, Uses, cacheVars
  <2> QED
    BY <1>2, <2>1, <2>2, <2>3, <2>4, <2>5, <2>6, <2>7, <2>8, <2>9, <2>10 DEF Worker
<1>3. CASE Tick
  BY <1>3 DEF Tick, NobodyLate, Uses, TypeOK, Windows, cacheVars
<1>4. ASSUME NEW k \in Windows, Expire(k) PROVE NobodyLate'
  BY <1>4 DEF Expire, NobodyLate, Uses
<1>5. CASE UNCHANGED vars
  BY <1>1, <1>5 DEF vars, cacheVars, Uses
<1> QED
  BY <1>2, <1>3, <1>4, <1>5 DEF Next

\* If no worker is ever suspended past the two windows that a counter lives, no
\* window is charged more than Rate requests, expired or not: the time to live
\* (throttle.py) is long enough.  For any workers, any rate, and any kills.
THEOREM BudgetKeptForGood ==
  ASSUME Stallers = {}
  PROVE  Spec => [](\A k \in Windows : granted[k] <= Rate)
<1>1. Init => NobodyLate
  BY ThrottleAssumption DEF Init, NobodyLate
<1>2. TypeOK /\ IInv /\ NobodyLate /\ [Next]_vars /\ IInv' => NobodyLate'
  BY NobodyLateNext
<1>3. NobodyLate => \A k \in Windows : granted[k] <= Rate
  BY DEF NobodyLate
<1>4. Spec => []IInv
  BY InvInit, InvNext, TypeCorrect, PTL DEF Spec
<1> QED
  BY <1>1, <1>2, <1>3, <1>4, TypeCorrect, PTL DEF Spec

-----------------------------------------------------------------------------
(* The fetches *)

\* What the fetches of the workers do to the throttle are steps of the throttle.
LEMMA FetchIsThrottled == FetchSpec => Spec
<1>1. FetchInit => Init
  BY DEF FetchInit
<1>2. [FetchNext]_fetchVars => [Next]_vars
  <2> SUFFICES ASSUME [FetchNext]_fetchVars PROVE [Next]_vars
    OBVIOUS
  <2>1. ASSUME NEW w \in Workers, InSlot(w) PROVE Next
    BY <2>1 DEF InSlot, Next, Worker
  <2>2. ASSUME NEW w \in Crawlers, FetchStep(w) PROVE [Next]_vars
    <3>1. w \in Workers
      BY PoliteFetchAssumption
    <3>2. UNCHANGED vars \/ Call(w) \/ Leave(w)
      BY <2>2 DEF FetchStep, Begin, UseCopy, ReadRobots, RobotsAnswer, RobotsFails, Refuse,
                  Admit, Get, GetAgain, NoSlot, Kill
    <3> QED BY <3>1, <3>2 DEF Next, Worker
  <2>3. ASSUME NEW w \in Workers, Other(w) PROVE Next
    BY <2>3 DEF Other, Next, Worker
  <2> QED BY <2>1, <2>2, <2>3 DEF FetchNext, Next, fetchVars
<1> QED BY <1>1, <1>2, PTL DEF FetchSpec, Spec

\* Every fetch, and every reading of robots.txt, is metered.
THEOREM FetchesAreMetered == FetchSpec => []Metered
  BY FetchIsThrottled, ThrottleIsSound, PTL

\* The types, and that nobody began to read robots.txt in a window to come.
Copies == [body : Bodies \cup {Unreadable}, at : Int, answered : Int]

FetchInv ==
  /\ FetchTypeOK
  /\ cache \in [Crawlers -> Copies]
  /\ \A w \in Crawlers : asked[w] <= window

LEMMA FetchInvInit == FetchInit => FetchInv
<1> SUFFICES ASSUME FetchInit PROVE FetchInv
  OBVIOUS
<1>1. AnyPath \in Paths /\ 0 \in Windows /\ Crawlers \subseteq Workers
  BY ThrottleAssumption, PoliteFetchAssumption DEF AnyPath, Windows
<1> QED
  BY <1>1 DEF FetchInit, Init, FetchInv, FetchTypeOK, Kinds, NoCopy, Copies

Stages == {"idle", "check", "reading", "verdict", "slot"}

\* What the steps of a worker do to where it is: it waits for a slot where it asks for one.
LEMMA FetchWaits ==
  ASSUME TypeOK, FetchInv, NEW w \in Crawlers, FetchStep(w)
  PROVE  /\ stage' \in [Crawlers -> Stages] /\ pc' \in [Workers -> Outcomes \cup {"out", "clock",
              "add", "incr", "over", "poll"}]
         /\ \A v \in Crawlers \ {w} : stage'[v] = stage[v] /\ pc'[v] = pc[v]
         /\ pc'[w] # "out" <=> stage'[w] \in {"reading", "slot"}
         /\ window' = window
<1>0. /\ stage \in [Crawlers -> Stages]
      /\ pc \in [Workers -> Outcomes \cup {"out", "clock", "add", "incr", "over", "poll"}]
      /\ w \in Workers /\ Crawlers \subseteq Workers
      /\ pc[w] # "out" <=> stage[w] \in {"reading", "slot"}
  BY PoliteFetchAssumption DEF TypeOK, FetchInv, FetchTypeOK, Stages
<1> USE DEF Stages, Finish, Stage, callVars, vars
<1>1. CASE Begin(w)
  BY <1>0, <1>1 DEF Begin
<1>2. CASE UseCopy(w)
  BY <1>0, <1>2 DEF UseCopy
<1>3. CASE ReadRobots(w)
  BY <1>0, <1>3 DEF ReadRobots, Call, Goto
<1>4. CASE RobotsAnswer(w)
  BY <1>0, <1>4 DEF RobotsAnswer, Leave, Forget
<1>5. CASE RobotsFails(w)
  BY <1>0, <1>5 DEF RobotsFails, Leave, Forget
<1>6. CASE Refuse(w)
  BY <1>0, <1>6 DEF Refuse
<1>7. CASE Admit(w)
  BY <1>0, <1>7 DEF Admit, Call, Goto
<1>8. CASE Get(w) \/ GetAgain(w) \/ NoSlot(w)
  BY <1>0, <1>8 DEF Get, GetAgain, NoSlot, Leave, Forget
<1>9. CASE Kill(w)
  BY <1>0, <1>9 DEF Kill, Leave, Forget
<1> QED
  BY <1>1, <1>2, <1>3, <1>4, <1>5, <1>6, <1>7, <1>8, <1>9 DEF FetchStep

LEMMA FetchInvNext == TypeOK /\ FetchInv /\ [FetchNext]_fetchVars => FetchInv'
<1> SUFFICES ASSUME TypeOK, FetchInv, [FetchNext]_fetchVars PROVE FetchInv'
  OBVIOUS
<1>0. /\ stage \in [Crawlers -> Stages] /\ kind \in [Crawlers -> Kinds]
      /\ path \in [Crawlers -> Paths] /\ asked \in [Crawlers -> Windows]
      /\ cache \in [Crawlers -> Copies]
      /\ window \in Windows /\ window \in Nat /\ Windows \subseteq Nat /\ 0 \in Windows
      /\ \A w \in Crawlers : asked[w] <= window
      /\ \A w \in Crawlers : -1 <= cache[w].at /\ cache[w].at <= cache[w].answered
                            /\ cache[w].answered <= window
      /\ AnyPath \in Paths /\ Kinds = {"fetch", "escalate", "render"}
  BY ThrottleAssumption, PoliteFetchAssumption
  DEF TypeOK, FetchInv, FetchTypeOK, Stages, Windows, AnyPath, Kinds
<1> DEFINE Goal ==
      /\ kind' \in [Crawlers -> Kinds] /\ path' \in [Crawlers -> Paths]
      /\ asked' \in [Crawlers -> Windows] /\ cache' \in [Crawlers -> Copies]
      /\ \A w \in Crawlers : asked'[w] <= window'
      /\ \A w \in Crawlers : -1 <= cache'[w].at /\ cache'[w].at <= cache'[w].answered
                            /\ cache'[w].answered <= window'
<1>1. ASSUME NEW w \in Crawlers, FetchStep(w) PROVE Goal
  <2>0. window' = window
    BY <1>1, FetchWaits
  <2>1. CASE UNCHANGED <<asked, cache>> /\ path' \in [Crawlers -> Paths]
             /\ kind' \in [Crawlers -> Kinds]
    BY <1>0, <2>0, <2>1
  <2>2. CASE Begin(w)
    BY <1>0, <2>1, <2>2 DEF Begin
  <2>3. CASE UseCopy(w) \/ Admit(w)
    BY <1>0, <2>1, <2>3 DEF UseCopy, Admit, Stage
  <2>4. CASE ReadRobots(w)
    BY <1>0, <2>0, <2>4 DEF ReadRobots
  <2>5. ASSUME asked' = [asked EXCEPT ![w] = 0], kind' \in [Crawlers -> Kinds],
               path' \in [Crawlers -> Paths], cache' = cache
        PROVE  Goal
    BY <1>0, <2>0, <2>5
  <2>6. Finish(w) => /\ asked' = [asked EXCEPT ![w] = 0]
                     /\ kind' \in [Crawlers -> Kinds] /\ path' \in [Crawlers -> Paths]
    BY <1>0 DEF Finish
  <2>7. CASE RobotsAnswer(w)
    <3>1. PICK body \in Bodies \cup {Unreadable} :
            cache' = [cache EXCEPT ![w] = [body |-> body, at |-> asked[w], answered |-> window]]
      BY <2>7 DEF RobotsAnswer
    <3>2. asked[w] \in Nat /\ [body |-> body, at |-> asked[w], answered |-> window] \in Copies
      <4>1. asked \in [Crawlers -> Windows] /\ Windows \subseteq Nat /\ window \in Nat
        BY <1>0
      <4>2. asked[w] \in Nat
        BY ONLY <4>1, w \in Crawlers
      <4> QED BY <4>1, <4>2 DEF Copies
    <3>3. cache' \in [Crawlers -> Copies]
      BY <1>0, <3>1, <3>2
    <3> QED BY <1>0, <2>0, <2>7, <3>1, <3>2, <3>3 DEF RobotsAnswer
  <2>8. CASE RobotsFails(w) \/ Refuse(w) \/ Get(w) \/ NoSlot(w)
    BY <2>5, <2>6, <2>8 DEF RobotsFails, Refuse, Get, NoSlot
  <2>9. CASE GetAgain(w)
    BY <1>0, <2>1, <2>9 DEF GetAgain
  <2>10. CASE Kill(w)
    <3>1. cache' = [cache EXCEPT ![w] = NoCopy] /\ NoCopy \in Copies
          /\ NoCopy.at = -1 /\ NoCopy.answered = -1
      BY <2>10 DEF Kill, NoCopy, Copies
    <3>2. Finish(w)
      BY <2>10 DEF Kill
    <3> QED BY <1>0, <2>0, <2>6, <3>1, <3>2
  <2> QED
    BY <1>1, <2>2, <2>3, <2>4, <2>7, <2>8, <2>9, <2>10 DEF FetchStep
<1>2. ASSUME NEW w \in Crawlers, FetchStep(w) PROVE FetchInv'
  BY <1>0, <1>1, <1>2, FetchWaits DEF FetchInv, FetchTypeOK, Stages, Copies
<1>3. ASSUME UNCHANGED <<callVars, cache>>, window' >= window, window' \in Nat,
             \A v \in Crawlers : pc'[v] # "out" <=> pc[v] # "out"
      PROVE  FetchInv'
  <2>1. UNCHANGED <<stage, kind, path, asked, cache>>
    BY <1>3 DEF callVars
  <2>2. \A w \in Crawlers : asked'[w] <= window'
    <3>1. \A w \in Crawlers : asked[w] \in Nat
      BY <1>0
    <3> QED BY <1>0, <1>3, <2>1, <3>1
  <2>3. \A w \in Crawlers : -1 <= cache'[w].at /\ cache'[w].at <= cache'[w].answered
                         /\ cache'[w].answered <= window'
    <3>1. \A w \in Crawlers : cache[w].answered \in Int
      BY <1>0 DEF Copies
    <3> QED BY <1>0, <1>3, <2>1, <3>1
  <2>4. \A v \in Crawlers : pc'[v] # "out" <=> stage'[v] \in {"reading", "slot"}
    BY <1>3, <2>1 DEF FetchInv, FetchTypeOK
  <2>5. \A v \in Crawlers : cache'[v].body \in Bodies \cup {Unreadable}
    BY <2>1 DEF FetchInv, FetchTypeOK
  <2> QED BY <1>0, <2>1, <2>2, <2>3, <2>4, <2>5 DEF FetchInv, FetchTypeOK, Stages
<1>4. ASSUME NEW w \in Workers, InSlot(w) PROVE FetchInv'
  <2>1. /\ UNCHANGED <<callVars, cache, window>>
        /\ \A v \in Workers : pc'[v] # "out" <=> pc[v] # "out"
    BY <1>4 DEF InSlot, ReadClock, AddCounter, Grant, Exceed, Missing, GiveBack, Poll,
                BackendFails, Goto, Forget, TypeOK
  <2> QED BY <1>0, <1>3, <2>1, PoliteFetchAssumption
<1>5. ASSUME NEW w \in Workers \ Crawlers, Other(w) PROVE FetchInv'
  <2>1. /\ UNCHANGED <<callVars, cache, window>>
        /\ \A v \in Crawlers : pc'[v] = pc[v]
    BY <1>5, PoliteFetchAssumption DEF Other, Call, Leave, Goto, Forget, TypeOK
  <2> QED BY <1>0, <1>3, <2>1
<1>6. CASE Tick /\ UNCHANGED <<callVars, cache>>
  <2>1. window' = window + 1 /\ pc' = pc
    BY <1>6 DEF Tick
  <2> QED BY <1>0, <1>3, <1>6, <2>1
<1>7. ASSUME NEW k \in Windows, Expire(k), UNCHANGED <<callVars, cache>> PROVE FetchInv'
  BY <1>0, <1>3, <1>7 DEF Expire
<1>8. CASE UNCHANGED fetchVars
  BY <1>0, <1>3, <1>8 DEF fetchVars, vars
<1> QED
  BY <1>2, <1>4, <1>5, <1>6, <1>7, <1>8 DEF FetchNext

\* Every reachable state of the fetches is well typed.
THEOREM FetchTypeCorrect == FetchSpec => []FetchTypeOK
<1>1. FetchInv => FetchTypeOK
  BY DEF FetchInv
<1> QED
  BY <1>1, FetchInvInit, FetchInvNext, FetchIsThrottled, TypeCorrect, PTL DEF FetchSpec

-----------------------------------------------------------------------------
(* Induction.  A set of numbers stands for the predicate it is the extension  *)
(* of, and loops are functions that make one step for every number.           *)

\* A set of numbers up to n that has 0 and, with a number below n, the next one, has them all.
LEMMA UpTo ==
  ASSUME NEW n \in Nat, NEW T, 0 \in T,
         \A k \in 0..n : k < n /\ k \in T => k + 1 \in T
  PROVE  0..n \subseteq T
<1> SUFFICES ASSUME NEW z \in (0..n) \ T PROVE FALSE
  OBVIOUS
<1> DEFINE Below == {0..k : k \in (0..n) \ T}
<1>1. Below \subseteq FiniteSubsetsOf(0..n) /\ Below # {}
  <2>1. IsFiniteSet(0..n)
    BY FS_Interval
  <2>2. \A k \in 0..n : 0..k \in SUBSET (0..n)
    OBVIOUS
  <2> QED BY <2>1, <2>2, FS_Subset DEF FiniteSubsetsOf
<1>2. PICK K \in Below : \A J \in Below : <<J, K>> \notin StrictSubsetOrdering(0..n)
  <2> HIDE DEF Below
  <2> QED BY <1>1, WFMin, FS_StrictSubsetOrderingWellFounded
<1>3. PICK k \in (0..n) \ T : K = 0..k
  OBVIOUS
<1>4. k # 0 /\ k - 1 \in 0..n /\ k - 1 < n /\ k = (k - 1) + 1
  OBVIOUS
<1>5. k - 1 \in (0..n) \ T
  BY <1>4
<1>6. 0..(k - 1) \in Below
  BY <1>5
<1>7. <<0..(k - 1), 0..k>> \in StrictSubsetOrdering(0..n)
  <2>1. 0..(k - 1) \subseteq 0..k /\ 0..(k-1) \subseteq 0..n /\ 0..k \subseteq 0..n
    BY <1>4
  <2>2. k \in 0..k /\ k \notin 0..(k - 1)
    BY <1>4
  <2> QED BY <2>1, <2>2 DEF StrictSubsetOrdering
<1> QED BY <1>2, <1>3, <1>6, <1>7

\* f takes n steps from base, the i-th of them from its value after i - 1.
Computes(f, n, S, base, step) ==
  /\ f \in [0..n -> S]
  /\ f[0] = base
  /\ \A i \in 1..n : f[i] = step[<<i, f[i - 1]>>]

LEMMA Computation ==
  ASSUME NEW n \in Nat, NEW S, NEW base \in S, NEW step \in [(1..n) \X S -> S]
  PROVE  \E f : Computes(f, n, S, base, step)
<1> DEFINE T == {m \in 0..n : \E f : Computes(f, m, S, base, step)}
<1>1. 0 \in T
  <2> DEFINE g == [i \in 0..0 |-> base]
  <2>1. g \in [0..0 -> S] /\ g[0] = base /\ 0 \in 0..n
    OBVIOUS
  <2>2. Computes(g, 0, S, base, step)
    BY <2>1 DEF Computes
  <2> HIDE DEF g
  <2> QED BY <2>1, <2>2
<1>2. ASSUME NEW m \in 0..n, m < n, m \in T PROVE m + 1 \in T
  <2>1. PICK f : Computes(f, m, S, base, step)
    BY <1>2
  <2> DEFINE g == [i \in 0..(m + 1) |-> IF i = m + 1 THEN step[<<m + 1, f[m]>>] ELSE f[i]]
  <2>2. m \in 0..m /\ f \in [0..m -> S] /\ f[m] \in S /\ m + 1 \in 1..n /\ m + 1 \in Nat
    BY <1>2, <2>1 DEF Computes
  <2>3. step[<<m + 1, f[m]>>] \in S
    BY <2>2
  <2>4. g \in [0..(m + 1) -> S]
    <3>1. \A i \in 0..(m + 1) : i # m + 1 => i \in 0..m
      BY <2>2
    <3> QED BY <2>2, <2>3, <3>1
  <2>5. g[0] = base
    BY <2>1, <2>2 DEF Computes
  <2>6. \A i \in 1..(m + 1) : g[i] = step[<<i, g[i - 1]>>]
    <3> SUFFICES ASSUME NEW i \in 1..(m + 1) PROVE g[i] = step[<<i, g[i - 1]>>]
      OBVIOUS
    <3>1. i - 1 \in 0..m /\ i \in 0..(m + 1) /\ i - 1 \in 0..(m + 1) /\ i - 1 # m + 1
      BY <2>2
    <3>2. g[i - 1] = f[i - 1]
      BY <3>1
    <3>3. CASE i = m + 1
      BY <2>2, <3>1, <3>2, <3>3
    <3>4. CASE i # m + 1
      <4>1. i \in 1..m
        BY <2>2, <3>4
      <4>2. f[i] = step[<<i, f[i - 1]>>]
        BY <2>1, <4>1 DEF Computes
      <4> QED BY <3>1, <3>2, <3>4, <4>2
    <3> QED BY <3>3, <3>4
  <2>7. Computes(g, m + 1, S, base, step)
    BY <2>4, <2>5, <2>6 DEF Computes
  <2>8. m + 1 \in 0..n
    BY <2>2
  <2> HIDE DEF g
  <2> QED BY <2>7, <2>8
<1>3. n \in T
  <2> HIDE DEF T
  <2> QED BY <1>1, <1>2, UpTo
<1> QED BY <1>3

\* A function whose values are those of the steps, as far as they are defined, is one
\* that takes them.
LEMMA Unfolds ==
  ASSUME NEW n \in Nat, NEW S, NEW base \in S, NEW step \in [(1..n) \X S -> S], NEW f,
         f = [i \in 0..n |-> f[i]],
         f[0] = base,
         \A i \in 1..n : f[i - 1] \in S => f[i] = step[<<i, f[i - 1]>>]
  PROVE  Computes(f, n, S, base, step)
<1> DEFINE T == {i \in 0..n : f[i] \in S}
<1>1. 0 \in T
  OBVIOUS
<1>2. ASSUME NEW k \in 0..n, k < n, k \in T PROVE k + 1 \in T
  <2>1. k + 1 \in 1..n /\ k + 1 \in 0..n /\ (k + 1) - 1 = k
    BY <1>2
  <2>2. step[<<k + 1, f[k]>>] \in S
    BY <1>2, <2>1
  <2> QED BY <1>2, <2>1, <2>2
<1>3. 0..n \subseteq T
  <2> HIDE DEF T
  <2> QED BY <1>1, <1>2, UpTo
<1>4. f \in [0..n -> S]
  BY <1>3
<1>5. \A i \in 1..n : i - 1 \in 0..n
  OBVIOUS
<1> QED BY <1>3, <1>4, <1>5 DEF Computes

\* A nonempty set of numbers up to n has a greatest one.
LEMMA Greatest ==
  ASSUME NEW n \in Nat, NEW T, T \subseteq 0..n, T # {}
  PROVE  \E x \in T : \A y \in T : y <= x
<1> SUFFICES ASSUME \A x \in T : \E y \in T : ~(y <= x) PROVE FALSE
  OBVIOUS
<1> DEFINE U == {m \in 0..n : \E x \in T : m <= x}
<1>1. 0 \in U
  <2>1. PICK x \in T : TRUE
    OBVIOUS
  <2>2. 0 <= x /\ 0 \in 0..n
    OBVIOUS
  <2> QED BY <2>2
<1>2. ASSUME NEW m \in 0..n, m < n, m \in U PROVE m + 1 \in U
  <2>1. PICK x \in T : m <= x
    BY <1>2
  <2>2. PICK y \in T : ~(y <= x)
    OBVIOUS
  <2> QED BY <1>2, <2>1, <2>2
<1>3. 0..n \subseteq U
  <2> HIDE DEF U
  <2> QED BY <1>1, <1>2, UpTo
<1>4. PICK x \in T : n <= x
  BY <1>3
<1>5. PICK y \in T : ~(y <= x)
  OBVIOUS
<1> QED BY <1>4, <1>5

-----------------------------------------------------------------------------
(* The parser of robots.txt (Robots): what it does with a body of a form it    *)
(* is meant for, by induction over the lines of the body.                     *)

\* The form of a block.
RulesBlocks == [agents : Seq(Words), allow : Seq(Words), disallow : Seq(Words)]

\* The names are made of pieces.
LEMMA BotTyped == Star \in Words /\ Bot \in Words /\ Len(Bot) = 4 /\ Bot # <<>> /\ Star # <<>> /\ Bot[1] # "*"
<1>1. "*" \in Pieces /\ "study" \in Pieces /\ "tracker" \in Pieces /\ "bot" \in Pieces /\ "/1.0" \in Pieces
  BY RobotsAssumption
<1> QED BY <1>1 DEF Star, Bot, Words

\* What _most_specific has after n rules.
LEMMA MostSpecificSteps ==
  ASSUME NEW p \in Words, NEW rules \in Seq(Words)
  PROVE  \E best \in [0..Len(rules) -> Words] :
           /\ best[0] = <<>>
           /\ \A n \in 1..Len(rules) :
                best[n] = IF IsPrefix(rules[n], p) THEN rules[n] ELSE best[n - 1]
           /\ MostSpecific(p, rules) = best[Len(rules)]
<1> DEFINE L == Len(rules)
<1> DEFINE step == [q \in (1..L) \X Words |-> IF IsPrefix(rules[q[1]], p) THEN rules[q[1]] ELSE q[2]]
<1> DEFINE Is(f) == f = [n \in 0..L |-> CASE n = 0 -> <<>>
                                          [] n > 0 /\ IsPrefix(rules[n], p) -> rules[n]
                                          [] OTHER -> f[n - 1]]
<1>0. L \in Nat /\ <<>> \in Words /\ \A n \in 1..L : rules[n] \in Words
  BY DEF Words
<1>1. step \in [(1..L) \X Words -> Words]
  BY <1>0
<1>2. PICK f : Computes(f, L, Words, <<>>, step)
  <2> HIDE DEF step, L
  <2> QED BY <1>0, <1>1, Computation
<1>3. Is(f)
  <2>1. f \in [0..L -> Words] /\ f[0] = <<>> /\ \A i \in 1..L : f[i] = step[<<i, f[i - 1]>>]
    <3> HIDE DEF step, L
    <3> QED BY <1>2 DEF Computes
  <2>2. \A i \in 1..L : f[i] = IF IsPrefix(rules[i], p) THEN rules[i] ELSE f[i - 1]
    <3> SUFFICES ASSUME NEW i \in 1..L
                 PROVE f[i] = IF IsPrefix(rules[i], p) THEN rules[i] ELSE f[i - 1]
      OBVIOUS
    <3>1. i - 1 \in 0..L /\ f[i - 1] \in Words
      BY <1>0, <2>1
    <3> QED BY <2>1, <3>1
  <2>3. \A n \in 0..L : f[n] = CASE n = 0 -> <<>>
                                 [] n > 0 /\ IsPrefix(rules[n], p) -> rules[n]
                                 [] OTHER -> f[n - 1]
    BY <1>0, <2>1, <2>2
  <2>4. f = [n \in 0..L |-> f[n]]
    BY <2>1
  <2> HIDE DEF L
  <2> QED BY <2>3, <2>4
<1> DEFINE g == CHOOSE f1 : Is(f1)
<1>5. Is(g)
  BY <1>3
<1>6. MostSpecific(p, rules) = g[L]
  BY DEF MostSpecific
<1> HIDE DEF g
<1>7. g[0] = <<>> /\ \A n \in 1..L : g[n] = IF IsPrefix(rules[n], p) THEN rules[n] ELSE g[n - 1]
  <2>1. \A n \in 0..L : g[n] = CASE n = 0 -> <<>>
                                 [] n > 0 /\ IsPrefix(rules[n], p) -> rules[n]
                                 [] OTHER -> g[n - 1]
    <3> HIDE DEF L
    <3> QED BY <1>5
  <2>2. \A n \in 1..L : n \in 0..L /\ n > 0 /\ n # 0
    BY <1>0
  <2>3. 0 \in 0..L
    BY <1>0
  <2> HIDE DEF L
  <2> QED BY <2>1, <2>2, <2>3
<1>8. g \in [0..L -> Words]
  <2>1. g = [n \in 0..L |-> g[n]]
    BY <1>5
  <2>2. \A i \in 1..L : g[i - 1] \in Words => g[i] = step[<<i, g[i - 1]>>]
    BY <1>7
  <2>3. <<>> \in Words /\ L \in Nat /\ g[0] = <<>>
    BY <1>0, <1>7
  <2>4. Computes(g, L, Words, <<>>, step)
    <3> HIDE DEF step, L
    <3> QED BY <1>1, <2>1, <2>2, <2>3, Unfolds
  <2> QED BY <2>4 DEF Computes
<1> QED BY <1>6, <1>7, <1>8

\* RulesBlock.matches of a block that has one agent.
LEMMA MatchOne ==
  ASSUME NEW block, NEW v \in Words, NEW agent \in Words, block.agents = <<v>>
  PROVE  Match(block, agent) = IF v = Star \/ IsPrefix(v, agent) THEN v ELSE <<>>
<1> DEFINE fits == v = Star \/ IsPrefix(v, agent)
<1> DEFINE Is(f) == f = [n \in 0..1 |->
                           CASE n = 0 -> <<>>
                             [] n > 0 /\ fits /\ Longer(f[n - 1], v) -> v
                             [] OTHER -> f[n - 1]]
<1> DEFINE IsToo(f) == f = [n \in 0..Len(block.agents) |->
                           CASE n = 0 -> <<>>
                             [] n > 0 /\ (block.agents[n] = Star \/ IsPrefix(block.agents[n], agent))
                                /\ Longer(f[n - 1], block.agents[n]) -> block.agents[n]
                             [] OTHER -> f[n - 1]]
<1>1. Len(block.agents) = 1 /\ 0..1 = {0, 1} /\ \A n \in 0..1 : n > 0 => block.agents[n] = v
  OBVIOUS
<1>2. Longer(<<>>, v)
  BY DEF Longer
<1>3. Is([n \in 0..1 |-> IF n = 0 THEN <<>> ELSE IF fits THEN v ELSE <<>>])
  <2> DEFINE g == [n \in 0..1 |-> IF n = 0 THEN <<>> ELSE IF fits THEN v ELSE <<>>]
  <2>1. g[0] = <<>> /\ g[1] = IF fits THEN v ELSE <<>>
    OBVIOUS
  <2>2. \A n \in 0..1 : g[n] = CASE n = 0 -> <<>>
                                 [] n > 0 /\ fits /\ Longer(g[n - 1], v) -> v
                                 [] OTHER -> g[n - 1]
    <3> HIDE DEF g, fits
    <3>1. 1 - 1 = 0
      OBVIOUS
    <3> QED BY <1>1, <1>2, <2>1, <3>1
  <2>3. g = [n \in 0..1 |-> g[n]]
    OBVIOUS
  <2> HIDE DEF g, fits
  <2>4. Is(g)
    BY <2>2, <2>3
  <2> QED BY <2>4 DEF g
<1>4. ASSUME NEW f PROVE Is(f) <=> IsToo(f)
  <2>1. \A n \in 0..1 :
          (CASE n = 0 -> <<>>
             [] n > 0 /\ fits /\ Longer(f[n - 1], v) -> v
             [] OTHER -> f[n - 1])
          = (CASE n = 0 -> <<>>
             [] n > 0 /\ (block.agents[n] = Star \/ IsPrefix(block.agents[n], agent))
                /\ Longer(f[n - 1], block.agents[n]) -> block.agents[n]
             [] OTHER -> f[n - 1])
    BY <1>1
  <2> QED BY <1>1, <2>1
<1> DEFINE g == CHOOSE f : IsToo(f)
<1>5. Match(block, agent) = g[Len(block.agents)]
  BY DEF Match
<1>6. Is(g)
  <2> HIDE DEF Is, IsToo
  <2> QED BY <1>3, <1>4
<1> HIDE DEF g, IsToo, fits
<1>7. g[0] = <<>> /\ g[1] = IF fits THEN v ELSE <<>>
  <2>1. \A n \in 0..1 : g[n] = CASE n = 0 -> <<>>
                                 [] n > 0 /\ fits /\ Longer(g[n - 1], v) -> v
                                 [] OTHER -> g[n - 1]
    BY <1>6
  <2>2. 0 \in 0..1 /\ 1 \in 0..1 /\ 1 - 1 = 0 /\ 1 > 0 /\ 1 # 0
    OBVIOUS
  <2> QED BY <1>2, <2>1, <2>2
<1> QED BY <1>1, <1>5, <1>7 DEF fits

\* The parser makes blocks of the right form.
LEMMA ParseLineType ==
  ASSUME NEW bs \in Seq(RulesBlocks), NEW line \in Lines
  PROVE  ParseLine(bs, line) \in Seq(RulesBlocks)
<1>1. ASSUME NEW b \in RulesBlocks PROVE ApplyRule(b, line) \in RulesBlocks
  <2>1. line.value \in Words
    BY DEF Lines
  <2>2. b.allow \in Seq(Words) /\ b.disallow \in Seq(Words) /\ b.agents \in Seq(Words)
    BY DEF RulesBlocks
  <2>3. Append(b.allow, line.value) \in Seq(Words) /\ Append(b.disallow, line.value) \in Seq(Words)
    BY <2>1, <2>2
  <2>4. \A x \in Seq(Words) : /\ [b EXCEPT !.allow = x] \in RulesBlocks
                              /\ [b EXCEPT !.disallow = x] \in RulesBlocks
    BY DEF RulesBlocks
  <2>5. /\ [b EXCEPT !.allow = Append(@, line.value)] \in RulesBlocks
        /\ [b EXCEPT !.disallow = Append(@, line.value)] \in RulesBlocks
    BY <2>3, <2>4
  <2> QED BY <2>5 DEF ApplyRule
<1>2. ASSUME NEW v \in Words PROVE Block(<<v>>) \in RulesBlocks
  <2>1. <<v>> \in Seq(Words) /\ <<>> \in Seq(Words)
    OBVIOUS
  <2> QED BY <2>1 DEF Block, RulesBlocks
<1>3. Star \in Words /\ line.value \in Words
  BY BotTyped DEF Lines
<1>4. AddRule(bs, line) \in Seq(RulesBlocks)
  <2>1. CASE bs = <<>>
    BY <1>1, <1>2, <1>3, <2>1 DEF AddRule
  <2>2. CASE bs # <<>>
    <3>1. Len(bs) \in 1..Len(bs) /\ bs[Len(bs)] \in RulesBlocks
      BY <2>2
    <3> QED BY <1>1, <2>2, <3>1 DEF AddRule
  <2> QED BY <2>1, <2>2
<1> QED BY <1>2, <1>3, <1>4 DEF ParseLine, NameAgent

\* What _parse_body has after n lines.
LEMMA ParseSteps ==
  ASSUME NEW body \in Seq(Lines)
  PROVE  \E blocks \in [0..Len(body) -> Seq(RulesBlocks)] :
           /\ blocks[0] = <<>>
           /\ \A n \in 1..Len(body) : blocks[n] = ParseLine(blocks[n - 1], body[n])
           /\ Parse(body) = blocks[Len(body)]
<1> DEFINE L == Len(body)
<1> DEFINE S == Seq(RulesBlocks)
<1> DEFINE step == [q \in (1..L) \X S |-> ParseLine(q[2], body[q[1]])]
<1> DEFINE Is(f) == f = [n \in 0..L |-> IF n = 0 THEN <<>> ELSE ParseLine(f[n - 1], body[n])]
<1>0. L \in Nat /\ <<>> \in S /\ \A n \in 1..L : body[n] \in Lines
  OBVIOUS
<1>1. step \in [(1..L) \X S -> S]
  BY <1>0, ParseLineType
<1>2. PICK f : Computes(f, L, S, <<>>, step)
  <2> HIDE DEF step, L, S
  <2> QED BY <1>0, <1>1, Computation
<1>3. Is(f)
  <2>1. f \in [0..L -> S] /\ f[0] = <<>> /\ \A i \in 1..L : f[i] = step[<<i, f[i - 1]>>]
    <3> HIDE DEF step, L, S
    <3> QED BY <1>2 DEF Computes
  <2>2. \A i \in 1..L : f[i] = ParseLine(f[i - 1], body[i])
    <3> SUFFICES ASSUME NEW i \in 1..L PROVE f[i] = ParseLine(f[i - 1], body[i])
      OBVIOUS
    <3>1. i - 1 \in 0..L /\ f[i - 1] \in S
      BY <1>0, <2>1
    <3> QED BY <2>1, <3>1
  <2>3. f = [n \in 0..L |-> f[n]]
    BY <2>1
  <2>4. \A n \in 0..L : n # 0 => n \in 1..L
    BY <1>0
  <2> HIDE DEF L, S
  <2> QED BY <2>1, <2>2, <2>3, <2>4
<1> DEFINE g == CHOOSE f1 : Is(f1)
<1>5. Is(g)
  BY <1>3
<1>6. Parse(body) = g[L]
  BY DEF Parse
<1> HIDE DEF g
<1>7. g[0] = <<>> /\ \A n \in 1..L : g[n] = ParseLine(g[n - 1], body[n])
  <2>1. \A n \in 0..L : g[n] = IF n = 0 THEN <<>> ELSE ParseLine(g[n - 1], body[n])
    <3> HIDE DEF L
    <3> QED BY <1>5
  <2>2. \A n \in 1..L : n \in 0..L /\ n # 0
    BY <1>0
  <2>3. 0 \in 0..L
    BY <1>0
  <2> HIDE DEF L
  <2> QED BY <2>1, <2>2, <2>3
<1>8. g \in [0..L -> S]
  <2>1. g = [n \in 0..L |-> g[n]]
    BY <1>5
  <2>2. \A i \in 1..L : g[i - 1] \in S => g[i] = step[<<i, g[i - 1]>>]
    BY <1>7
  <2>3. Computes(g, L, S, <<>>, step)
    <3> HIDE DEF step, L, S
    <3> QED BY <1>0, <1>1, <1>7, <2>1, <2>2, Unfolds
  <2> QED BY <2>3 DEF Computes
<1> QED BY <1>6, <1>7, <1>8

\* _most_specific returns the last of the rules that begins the path, if one does.
LEMMA MostSpecificIs ==
  ASSUME NEW p \in Words, NEW rules \in Seq(Words)
  PROVE  /\ MostSpecific(p, rules) \in Words
         /\ \/ /\ MostSpecific(p, rules) = <<>>
               /\ \A j \in 1..Len(rules) : ~IsPrefix(rules[j], p)
            \/ \E k \in 1..Len(rules) :
                 /\ MostSpecific(p, rules) = rules[k]
                 /\ IsPrefix(rules[k], p)
                 /\ \A j \in 1..Len(rules) : k < j => ~IsPrefix(rules[j], p)
<1>1. PICK best \in [0..Len(rules) -> Words] :
         /\ best[0] = <<>>
         /\ \A n \in 1..Len(rules) :
              best[n] = IF IsPrefix(rules[n], p) THEN rules[n] ELSE best[n - 1]
         /\ MostSpecific(p, rules) = best[Len(rules)]
  BY MostSpecificSteps
<1> DEFINE LastFit(n) ==
      \/ best[n] = <<>> /\ \A j \in 1..n : ~IsPrefix(rules[j], p)
      \/ \E k \in 1..n : /\ best[n] = rules[k]
                         /\ IsPrefix(rules[k], p)
                         /\ \A j \in 1..n : k < j => ~IsPrefix(rules[j], p)
<1> DEFINE T == {n \in 0..Len(rules) : LastFit(n)}
<1>2. Len(rules) \in Nat
  OBVIOUS
<1>3. 0 \in T
  BY <1>1, <1>2
<1>4. ASSUME NEW n \in 0..Len(rules), n < Len(rules), LastFit(n) PROVE LastFit(n + 1)
  <2>1. n + 1 \in 1..Len(rules) /\ (n + 1) - 1 = n /\ n \in Nat
    BY <1>2, <1>4
  <2>2. best[n + 1] = IF IsPrefix(rules[n + 1], p) THEN rules[n + 1] ELSE best[n]
    BY <1>1, <2>1
  <2>3. \A j \in 1..(n + 1) : j \in 1..n \/ j = n + 1
    BY <2>1
  <2>4. CASE IsPrefix(rules[n + 1], p)
    <3>1. n + 1 \in 1..(n + 1) /\ \A j \in 1..(n + 1) : ~(n + 1 < j)
      BY <2>1
    <3> QED BY <2>2, <2>4, <3>1
  <2>5. CASE ~IsPrefix(rules[n + 1], p)
    <3>1. best[n + 1] = best[n]
      BY <2>2, <2>5
    <3>2. CASE best[n] = <<>> /\ \A j \in 1..n : ~IsPrefix(rules[j], p)
      BY <2>3, <2>5, <3>1, <3>2
    <3>3. ASSUME NEW k \in 1..n, best[n] = rules[k], IsPrefix(rules[k], p),
                 \A j \in 1..n : k < j => ~IsPrefix(rules[j], p)
          PROVE  LastFit(n + 1)
      <4>1. k \in 1..(n + 1)
        BY <2>1
      <4> QED BY <2>3, <2>5, <3>1, <3>3, <4>1
    <3> QED BY <1>4, <3>2, <3>3
  <2> QED BY <2>4, <2>5
<1>5. \A n \in 0..Len(rules) : n < Len(rules) /\ n \in T => n + 1 \in T
  <2>1. \A n \in 0..Len(rules) : n < Len(rules) => n + 1 \in 0..Len(rules)
    BY <1>2
  <2> HIDE DEF LastFit
  <2> QED BY <1>4, <2>1
<1>6. Len(rules) \in T
  <2>1. PICK n \in Nat : n = Len(rules)
    BY <1>2
  <2>2. \A k \in 0..n : k < n /\ k \in T => k + 1 \in T
    BY <1>5, <2>1
  <2>3. 0..n \subseteq T
    <3> HIDE DEF T
    <3> QED BY <1>3, <2>2, UpTo
  <2> QED BY <2>1, <2>3
<1>7. best[Len(rules)] \in Words
  BY <1>2
<1> QED BY <1>1, <1>6, <1>7

\* The rules that begin a path.
Fitting(p, rules) == {rules[j] : j \in {k \in 1..Len(rules) : IsPrefix(rules[k], p)}}

\* The rules come shortest first, and none is blank.
InOrder(rules) ==
  /\ \A j \in 1..Len(rules) : Len(rules[j]) > 0
  /\ \A j, k \in 1..Len(rules) : j < k => Len(rules[j]) <= Len(rules[k])

\* Of rules that come shortest first it is the longest that begins the path.
LEMMA MostSpecificLongest ==
  ASSUME NEW p \in Words, NEW rules \in Seq(Words), InOrder(rules)
  PROVE  /\ Len(MostSpecific(p, rules)) \in Nat
         /\ MostSpecific(p, rules) = <<>> => Fitting(p, rules) = {}
         /\ MostSpecific(p, rules) # <<>> => MostSpecific(p, rules) \in Fitting(p, rules)
         /\ \A r \in Fitting(p, rules) : Len(r) > 0 /\ Len(r) \in Nat
                                            /\ Len(r) <= Len(MostSpecific(p, rules))
<1> DEFINE m == MostSpecific(p, rules)
<1>0. \A j \in 1..Len(rules) : rules[j] \in Words /\ Len(rules[j]) \in Nat
  BY DEF Words
<1>1. m \in Words /\ Len(m) \in Nat
  BY MostSpecificIs DEF Words
<1>2. CASE m = <<>> /\ \A j \in 1..Len(rules) : ~IsPrefix(rules[j], p)
  BY <1>1, <1>2 DEF Fitting
<1>3. ASSUME NEW k \in 1..Len(rules), m = rules[k], IsPrefix(rules[k], p),
             \A j \in 1..Len(rules) : k < j => ~IsPrefix(rules[j], p)
      PROVE  /\ m # <<>> /\ m \in Fitting(p, rules)
             /\ \A r \in Fitting(p, rules) : Len(r) > 0 /\ Len(r) \in Nat /\ Len(r) <= Len(m)
  <2>1. m # <<>>
    <3>1. Len(m) > 0 /\ Len(<<>>) = 0
      BY <1>3 DEF InOrder
    <3> QED BY <3>1
  <2>2. m \in Fitting(p, rules)
    BY <1>3 DEF Fitting
  <2>3. ASSUME NEW j \in 1..Len(rules), IsPrefix(rules[j], p)
        PROVE  Len(rules[j]) > 0 /\ Len(rules[j]) \in Nat /\ Len(rules[j]) <= Len(m)
    <3>1. j < k \/ j = k
      BY <1>3, <2>3
    <3>2. Len(rules[j]) > 0 /\ (j < k => Len(rules[j]) <= Len(rules[k]))
      BY DEF InOrder
    <3> QED BY <1>0, <1>3, <3>1, <3>2
  <2> QED BY <2>1, <2>2, <2>3 DEF Fitting
<1>4. CASE \E k \in 1..Len(rules) : /\ m = rules[k]
                                    /\ IsPrefix(rules[k], p)
                                    /\ \A j \in 1..Len(rules) : k < j => ~IsPrefix(rules[j], p)
  <2>1. PICK k \in 1..Len(rules) : /\ m = rules[k]
                                   /\ IsPrefix(rules[k], p)
                                   /\ \A j \in 1..Len(rules) : k < j => ~IsPrefix(rules[j], p)
    BY <1>4
  <2>2. /\ m # <<>> /\ m \in Fitting(p, rules)
        /\ \A r \in Fitting(p, rules) : Len(r) > 0 /\ Len(r) \in Nat /\ Len(r) <= Len(m)
    BY <1>3, <2>1
  <2> QED BY <1>1, <2>2
<1> QED BY <1>2, <1>4, MostSpecificIs

\* The verdict of a block whose rules come shortest first is that of its rules: the
\* longest that begins the path wins, and Disallow a tie.
LEMMA BlockVerdict ==
  ASSUME NEW p \in Words, NEW b \in RulesBlocks, InOrder(b.allow), InOrder(b.disallow)
  PROVE  BlockAllows(b, p) <=> \A d \in Fitting(p, b.disallow) :
                                    \E a \in Fitting(p, b.allow) : Len(a) > Len(d)
<1> DEFINE A == Fitting(p, b.allow)
           D == Fitting(p, b.disallow)
           al == MostSpecific(p, b.allow)
           di == MostSpecific(p, b.disallow)
<1>0. b.allow \in Seq(Words) /\ b.disallow \in Seq(Words)
  BY DEF RulesBlocks
<1>1. /\ Len(al) \in Nat
      /\ al = <<>> => A = {}
      /\ al # <<>> => al \in A
      /\ \A r \in A : Len(r) > 0 /\ Len(r) \in Nat /\ Len(r) <= Len(al)
  BY <1>0, MostSpecificLongest
<1>2. /\ Len(di) \in Nat
      /\ di = <<>> => D = {}
      /\ di # <<>> => di \in D
      /\ \A r \in D : Len(r) > 0 /\ Len(r) \in Nat /\ Len(r) <= Len(di)
  BY <1>0, MostSpecificLongest
<1>3. BlockAllows(b, p) <=> (di = <<>> \/ Len(al) > Len(di))
  BY DEF BlockAllows
<1> HIDE DEF A, D, al, di
<1>4. CASE di = <<>>
  BY <1>2, <1>3, <1>4 DEF A, D
<1>5. CASE di # <<>>
  <2>1. ASSUME Len(al) > Len(di), NEW d \in D PROVE \E a \in A : Len(a) > Len(d)
    <3>1. Len(d) \in Nat /\ Len(d) <= Len(di)
      BY <1>2
    <3>2. Len(al) > 0 /\ Len(al) > Len(d)
      BY <1>1, <1>2, <2>1, <3>1
    <3>3. al # <<>>
      <4>1. Len(<<>>) = 0
        OBVIOUS
      <4> QED BY <3>2, <4>1
    <3> QED BY <1>1, <3>2, <3>3
  <2>2. ASSUME NEW a \in A, Len(a) > Len(di) PROVE Len(al) > Len(di)
    <3>1. Len(a) \in Nat /\ Len(a) <= Len(al)
      BY <1>1
    <3> QED BY <1>1, <1>2, <2>2, <3>1
  <2>3. di \in D
    BY <1>2, <1>5
  <2> QED BY <1>3, <1>5, <2>1, <2>2, <2>3 DEF A, D
<1> QED BY <1>4, <1>5


\* Line i comes after agent line a and before the next one.
Owns(body, a, i) == a < i /\ \A j \in AgentLines(body) : ~(a < j /\ j < i)

\* The rules of agent line a with this key, in the first n lines.
Listed(body, n, a, key) ==
  {i \in RuleLines(body) : i <= n /\ body[i].key = key /\ Owns(body, a, i)}

\* A list of rules holds what these lines say, shortest first.
Lists(body, n, a, key, rules) ==
  /\ InOrder(rules)
  /\ \A j \in 1..Len(rules) : \E i \in Listed(body, n, a, key) : rules[j] = body[i].value
  /\ \A i \in Listed(body, n, a, key) : \E j \in 1..Len(rules) : rules[j] = body[i].value

\* A block holds the first n lines' rules of agent line a; the block for rules before
\* any agent is that of line 0, and holds none.
Reads(body, n, a, b) ==
  /\ a = 0 => b = Block(<<Star>>)
  /\ a # 0 => /\ a \in AgentLines(body)
              /\ b.agents = <<body[a].value>>
              /\ Lists(body, n, a, "allow", b.allow)
              /\ Lists(body, n, a, "disallow", b.disallow)

\* The blocks of the first n lines: one for every agent line, in their order.
Parsed(body, n, bs, at) ==
  /\ bs \in Seq(RulesBlocks)
  /\ at \in [1..Len(bs) -> 0..n]
  /\ \A k \in 1..Len(bs) : Reads(body, n, at[k], bs[k])
  /\ \A j, k \in 1..Len(bs) : j < k => at[j] < at[k]
  /\ \A a \in AgentLines(body) : a <= n => \E k \in 1..Len(bs) : at[k] = a

\* The kinds of lines.
LEMMA LineKinds ==
  ASSUME NEW body \in Seq(Lines), Plain(body), NEW i \in 1..Len(body)
  PROVE  /\ body[i].value \in Words
         /\ i \in AgentLines(body) <=> body[i].key = "user-agent" /\ body[i].value # <<>>
         /\ i \in RuleLines(body) <=> body[i].key \in {"allow", "disallow"} /\ body[i].value # <<>>
         /\ body[i].key = "allow" => body[i].value # <<>>
         /\ i \notin AgentLines(body) => body[i].key = "sitemap" \/ \E a \in AgentLines(body) : a < i
         /\ DOMAIN body = 1..Len(body)
<1>1. DOMAIN body = 1..Len(body) /\ body[i] \in Lines
  OBVIOUS
<1>2. body[i].value \in Words
  BY <1>1 DEF Lines
<1> QED BY <1>1, <1>2 DEF AgentLines, RuleLines, Plain

\* An agent line owns no more lines when one that is no rule follows, or another agent's.
LEMMA ReadsOn ==
  ASSUME NEW body \in Seq(Lines), NEW n \in Nat, NEW a \in Nat, NEW b, Reads(body, n, a, b),
         n + 1 \in RuleLines(body) => ~Owns(body, a, n + 1)
  PROVE  Reads(body, n + 1, a, b)
<1>1. ASSUME NEW key PROVE Listed(body, n + 1, a, key) = Listed(body, n, a, key)
  <2>1. RuleLines(body) \subseteq Nat
    BY DEF RuleLines
  <2>2. \A i \in RuleLines(body) : (i <= n + 1 <=> i <= n \/ i = n + 1) /\ (i = n + 1 => ~(i <= n))
    BY <2>1
  <2> QED BY <2>2 DEF Listed
<1> QED BY <1>1 DEF Reads, Lists


\* A rule that its agent line owns goes to the end of its list.
LEMMA ListsMore ==
  ASSUME NEW body \in Seq(Lines), Plain(body), NEW n \in Nat, NEW a \in Nat, NEW key,
         NEW rules \in Seq(Words), Lists(body, n, a, key, rules),
         n + 1 \in RuleLines(body), body[n + 1].key = key, Owns(body, a, n + 1)
  PROVE  Lists(body, n + 1, a, key, Append(rules, body[n + 1].value))
<1> DEFINE v == body[n + 1].value
           more == Append(rules, v)
<1>1. n + 1 \in 1..Len(body) /\ v \in Words /\ v # <<>>
  BY LineKinds DEF RuleLines
<1>2. /\ more \in Seq(Words) /\ Len(rules) \in Nat /\ Len(more) = Len(rules) + 1
      /\ more[Len(rules) + 1] = v /\ \A j \in 1..Len(rules) : more[j] = rules[j]
  BY <1>1
<1>3. \A j \in 1..Len(more) : j \in 1..Len(rules) \/ j = Len(rules) + 1
  BY <1>2
<1>4. Listed(body, n + 1, a, key) = Listed(body, n, a, key) \cup {n + 1}
  <2>1. RuleLines(body) \subseteq Nat
    BY DEF RuleLines
  <2>2. \A i \in RuleLines(body) : (i <= n + 1 <=> i <= n \/ i = n + 1)
    BY <2>1
  <2> QED BY <2>2 DEF Listed
<1>5. ASSUME NEW i \in Listed(body, n, a, key) PROVE Len(body[i].value) <= Len(v)
  <2>1. i \in RuleLines(body) /\ i \in Nat /\ i <= n /\ body[i].key = key /\ Owns(body, a, i)
    BY DEF Listed, RuleLines
  <2>2. i < n + 1 /\ a < i /\ a \in Nat
    BY <2>1 DEF Owns
  <2>3. ~\E c \in AgentLines(body) : i < c /\ c < n + 1
    <3> SUFFICES ASSUME NEW c \in AgentLines(body), i < c, c < n + 1 PROVE FALSE
      OBVIOUS
    <3>1. c \in Nat
      BY DEF AgentLines
    <3>2. a < c
      BY <2>1, <2>2, <3>1
    <3> QED BY <3>2 DEF Owns
  <2>4. \/ Len(body[i].value) <= Len(body[n + 1].value)
        \/ \E c \in AgentLines(body) : i < c /\ c < n + 1
    BY <2>1, <2>2 DEF Plain
  <2> QED BY <2>3, <2>4
<1>6. InOrder(more)
  <2>0. /\ \A j \in 1..Len(rules) : Len(rules[j]) > 0
        /\ \A j, k \in 1..Len(rules) : j < k => Len(rules[j]) <= Len(rules[k])
    BY DEF Lists, InOrder
  <2>1. Len(v) > 0
    BY <1>1 DEF Words
  <2>2. \A j \in 1..Len(rules) : Len(rules[j]) <= Len(v)
    BY <1>5 DEF Lists
  <2> HIDE DEF more, v
  <2>3. \A j \in 1..Len(more) : Len(more[j]) > 0
    BY <1>2, <1>3, <2>0, <2>1
  <2>4. ASSUME NEW j \in 1..Len(more), NEW k \in 1..Len(more), j < k
        PROVE  Len(more[j]) <= Len(more[k])
    <3>1. j \in 1..Len(rules) /\ (k \in 1..Len(rules) \/ k = Len(rules) + 1)
      BY <1>2, <1>3, <2>4
    <3> QED BY <1>2, <2>0, <2>2, <2>4, <3>1
  <2> QED BY <2>3, <2>4 DEF InOrder
<1>7. \A j \in 1..Len(more) : \E i \in Listed(body, n + 1, a, key) : more[j] = body[i].value
  <2>1. \A j \in 1..Len(rules) : \E i \in Listed(body, n, a, key) : rules[j] = body[i].value
    BY DEF Lists
  <2>2. v = body[n + 1].value
    OBVIOUS
  <2> HIDE DEF more, v
  <2> QED BY <1>2, <1>3, <1>4, <2>1, <2>2
<1>8. \A i \in Listed(body, n + 1, a, key) : \E j \in 1..Len(more) : more[j] = body[i].value
  <2>1. \A i \in Listed(body, n, a, key) : \E j \in 1..Len(rules) : rules[j] = body[i].value
    BY DEF Lists
  <2>2. v = body[n + 1].value
    OBVIOUS
  <2>3. Len(rules) + 1 \in 1..Len(more) /\ \A j \in 1..Len(rules) : j \in 1..Len(more)
    BY <1>2
  <2> HIDE DEF more, v
  <2> QED BY <1>2, <1>4, <2>1, <2>2, <2>3
<1> QED BY <1>6, <1>7, <1>8 DEF Lists

\* An agent line opens a block.
LEMMA ParsedAgent ==
  ASSUME NEW body \in Seq(Lines), Plain(body), NEW n \in Nat, NEW bs, NEW at,
         Parsed(body, n, bs, at), n + 1 \in AgentLines(body)
  PROVE  \E to : Parsed(body, n + 1, ParseLine(bs, body[n + 1]), to)
<1> DEFINE v == body[n + 1].value
           K == Len(bs)
           to == [k \in 1..(K + 1) |-> IF k = K + 1 THEN n + 1 ELSE at[k]]
           cs == Append(bs, Block(<<v>>))
<1>1. /\ n + 1 \in 1..Len(body) /\ v \in Words
      /\ body[n + 1].key = "user-agent" /\ body[n + 1].value # <<>> /\ n + 1 \notin RuleLines(body)
  BY LineKinds DEF AgentLines, RuleLines
<1>2. ParseLine(bs, body[n + 1]) = cs
  BY <1>1 DEF ParseLine, NameAgent
<1>3. Block(<<v>>) \in RulesBlocks
  <2>1. <<v>> \in Seq(Words) /\ <<>> \in Seq(Words)
    BY <1>1
  <2> QED BY <2>1 DEF Block, RulesBlocks
<1>4. /\ bs \in Seq(RulesBlocks) /\ K \in Nat /\ at \in [1..K -> 0..n]
      /\ \A k \in 1..K : Reads(body, n, at[k], bs[k])
      /\ \A j, k \in 1..K : j < k => at[j] < at[k]
      /\ \A a \in AgentLines(body) : a <= n => \E k \in 1..K : at[k] = a
  BY DEF Parsed
<1>5. /\ cs \in Seq(RulesBlocks) /\ Len(cs) = K + 1 /\ cs[K + 1] = Block(<<v>>)
      /\ \A k \in 1..K : cs[k] = bs[k]
  BY <1>3, <1>4
<1>6. /\ to \in [1..(K + 1) -> 0..(n + 1)] /\ to[K + 1] = n + 1
      /\ \A k \in 1..K : to[k] = at[k] /\ at[k] \in 0..n
  <2>1. \A k \in 1..(K + 1) : k # K + 1 => k \in 1..K
    BY <1>4
  <2>2. \A k \in 1..K : at[k] \in 0..n /\ at[k] \in 0..(n + 1) /\ k \in 1..(K + 1) /\ k # K + 1
    BY <1>4
  <2>3. K + 1 \in 1..(K + 1)
    BY <1>4
  <2> QED BY <2>1, <2>2, <2>3
<1>7. Reads(body, n + 1, n + 1, Block(<<v>>))
  <2>1. ASSUME NEW key PROVE Listed(body, n + 1, n + 1, key) = {}
    <3>1. \A i \in RuleLines(body) : i \in Nat
      BY DEF RuleLines
    <3> QED BY <3>1 DEF Listed, Owns
  <2>2. /\ Block(<<v>>).agents = <<v>> /\ Block(<<v>>).allow = <<>> /\ Block(<<v>>).disallow = <<>>
        /\ 1..Len(<<>>) = {} /\ n + 1 # 0
    BY DEF Block
  <2>3. \A key : Lists(body, n + 1, n + 1, key, <<>>)
    BY <2>1, <2>2 DEF Lists, InOrder
  <2> QED BY <2>2, <2>3 DEF Reads
<1> HIDE DEF v, K, to, cs
<1>8. \A k \in 1..(K + 1) : k \in 1..K \/ k = K + 1
  BY <1>4
<1>9. \A k \in 1..(K + 1) : Reads(body, n + 1, to[k], cs[k])
  <2>1. ASSUME NEW k \in 1..K PROVE Reads(body, n + 1, at[k], bs[k])
    BY <1>1, <1>4, <1>6, ReadsOn
  <2> QED BY <1>5, <1>6, <1>7, <1>8, <2>1
<1>10. \A j, k \in 1..(K + 1) : j < k => to[j] < to[k]
  <2> SUFFICES ASSUME NEW j \in 1..(K + 1), NEW k \in 1..(K + 1), j < k PROVE to[j] < to[k]
    OBVIOUS
  <2>1. j \in 1..K
    BY <1>4
  <2>2. to[j] = at[j] /\ to[j] < n + 1
    BY <1>6, <2>1
  <2>3. CASE k \in 1..K
    BY <1>4, <1>6, <2>1, <2>2, <2>3
  <2>4. CASE k = K + 1
    BY <1>6, <2>2, <2>4
  <2> QED BY <1>8, <2>3, <2>4
<1>11. \A a \in AgentLines(body) : a <= n + 1 => \E k \in 1..(K + 1) : to[k] = a
  <2>1. \A a \in AgentLines(body) : a \in Nat
    BY DEF AgentLines
  <2>2. K + 1 \in 1..(K + 1) /\ \A k \in 1..K : k \in 1..(K + 1)
    BY <1>4
  <2> SUFFICES ASSUME NEW a \in AgentLines(body), a <= n + 1
               PROVE  \E k \in 1..(K + 1) : to[k] = a
    OBVIOUS
  <2>3. CASE a <= n
    BY <1>4, <1>6, <2>2, <2>3
  <2>4. CASE a = n + 1
    BY <1>6, <2>2, <2>4
  <2> QED BY <2>1, <2>3, <2>4
<1>12. Parsed(body, n + 1, cs, to)
  <2>1. Len(cs) = K + 1 /\ cs \in Seq(RulesBlocks) /\ to \in [1..(K + 1) -> 0..(n + 1)]
    BY <1>5, <1>6
  <2> QED BY <1>9, <1>10, <1>11, <2>1 DEF Parsed
<1> QED BY <1>2, <1>12


\* A line that is neither an agent's nor a rule opens at most the block for rules before
\* any agent, and puts nothing in it.
LEMMA ParsedNothing ==
  ASSUME NEW body \in Seq(Lines), Plain(body), NEW n \in Nat, NEW bs, NEW at,
         Parsed(body, n, bs, at), n + 1 \in 1..Len(body),
         n + 1 \notin AgentLines(body), n + 1 \notin RuleLines(body)
  PROVE  \E to : Parsed(body, n + 1, ParseLine(bs, body[n + 1]), to)
<1> DEFINE line == body[n + 1]
<1>1. /\ ~(line.key = "user-agent" /\ line.value # <<>>)
      /\ ~(line.key \in {"allow", "disallow"} /\ line.value # <<>>)
      /\ line.key = "allow" => line.value # <<>>
      /\ line.key = "sitemap" \/ \E a \in AgentLines(body) : a < n + 1
  BY LineKinds
<1>2. \A b : ApplyRule(b, line) = b
  BY <1>1 DEF ApplyRule
<1>3. /\ bs \in Seq(RulesBlocks) /\ Len(bs) \in Nat /\ at \in [1..Len(bs) -> 0..n]
      /\ \A k \in 1..Len(bs) : Reads(body, n, at[k], bs[k])
      /\ \A j, k \in 1..Len(bs) : j < k => at[j] < at[k]
      /\ \A a \in AgentLines(body) : a <= n => \E k \in 1..Len(bs) : at[k] = a
  BY DEF Parsed
<1>4. \A a \in AgentLines(body) : a \in Nat /\ (a <= n + 1 <=> a <= n) /\ (a < n + 1 => a <= n)
  <2>1. \A a \in AgentLines(body) : a \in Nat /\ a # n + 1
    BY DEF AgentLines
  <2> QED BY <2>1
<1> HIDE DEF line
<1>5. CASE ParseLine(bs, line) = bs
  <2>1. at \in [1..Len(bs) -> 0..(n + 1)]
    <3>1. \A k \in 1..Len(bs) : at[k] \in 0..(n + 1)
      BY <1>3
    <3> QED BY <1>3, <3>1
  <2>2. ASSUME NEW k \in 1..Len(bs) PROVE Reads(body, n + 1, at[k], bs[k])
    <3>1. at[k] \in Nat
      BY <1>3
    <3> QED BY <1>3, <3>1, ReadsOn
  <2>3. Parsed(body, n + 1, bs, at)
    BY <1>3, <1>4, <2>1, <2>2 DEF Parsed
  <2> QED BY <1>5, <2>3 DEF line
<1>6. CASE ParseLine(bs, line) # bs
  <2>1. ParseLine(bs, line) = AddRule(bs, line)
    BY <1>1, <1>6 DEF ParseLine
  <2>2. bs = <<>>
    <3> SUFFICES ASSUME bs # <<>> PROVE FALSE
      OBVIOUS
    <3>1. [bs EXCEPT ![Len(bs)] = ApplyRule(@, line)] = bs
      BY <1>2, <1>3
    <3> QED BY <1>6, <2>1, <3>1 DEF AddRule
  <2>3. ParseLine(bs, line) = <<Block(<<Star>>)>>
    BY <1>2, <2>1, <2>2 DEF AddRule
  <2>4. ~\E a \in AgentLines(body) : a <= n
    <3>1. 1..Len(bs) = {}
      BY <2>2
    <3> QED BY <1>3, <3>1
  <2> DEFINE cs == <<Block(<<Star>>)>>
             to == [k \in 1..1 |-> 0]
  <2>5. cs \in Seq(RulesBlocks) /\ Len(cs) = 1 /\ cs[1] = Block(<<Star>>)
    <3>1. <<Star>> \in Seq(Words) /\ <<>> \in Seq(Words)
      BY BotTyped
    <3>2. Block(<<Star>>) \in RulesBlocks
      BY <3>1 DEF Block, RulesBlocks
    <3> QED BY <3>2
  <2>6. to \in [1..1 -> 0..(n + 1)] /\ to[1] = 0 /\ \A k \in 1..1 : k = 1
    OBVIOUS
  <2> HIDE DEF cs, to
  <2>7. \A k \in 1..1 : Reads(body, n + 1, to[k], cs[k])
    BY <2>5, <2>6 DEF Reads
  <2>8. \A j, k \in 1..1 : ~(j < k)
    OBVIOUS
  <2>9. Parsed(body, n + 1, cs, to)
    BY <1>4, <2>4, <2>5, <2>6, <2>7, <2>8 DEF Parsed
  <2> QED BY <2>3, <2>9 DEF cs, line
<1> QED BY <1>5, <1>6

\* A rule goes to the block of the last agent line before it, which is the one it
\* belongs to.
LEMMA ParsedRule ==
  ASSUME NEW body \in Seq(Lines), Plain(body), NEW n \in Nat, NEW bs, NEW at,
         Parsed(body, n, bs, at), n + 1 \in RuleLines(body)
  PROVE  \E to : Parsed(body, n + 1, ParseLine(bs, body[n + 1]), to)
<1> DEFINE line == body[n + 1]
           K == Len(bs)
           cs == [bs EXCEPT ![K] = ApplyRule(@, line)]
<1>1. n + 1 \in 1..Len(body) /\ line.key \in {"allow", "disallow"} /\ line.value # <<>>
      /\ line.value \in Words
  BY LineKinds DEF RuleLines
<1>2. n + 1 \notin AgentLines(body) /\ \E a \in AgentLines(body) : a < n + 1
  BY <1>1, LineKinds
<1>3. /\ bs \in Seq(RulesBlocks) /\ K \in Nat /\ at \in [1..K -> 0..n]
      /\ \A k \in 1..K : Reads(body, n, at[k], bs[k])
      /\ \A j, k \in 1..K : j < k => at[j] < at[k]
      /\ \A a \in AgentLines(body) : a <= n => \E k \in 1..K : at[k] = a
  BY DEF Parsed
<1>4. \A a \in AgentLines(body) : a \in Nat /\ a # 0 /\ (a <= n + 1 <=> a <= n) /\ (a < n + 1 => a <= n)
  <2>1. \A a \in AgentLines(body) : a \in Nat /\ a # 0 /\ a # n + 1
    BY <1>2 DEF AgentLines
  <2> QED BY <2>1
<1> HIDE DEF line, K, cs
<1>5. K \in 1..K /\ bs # <<>>
  <2>1. 1..K # {}
    BY <1>2, <1>3, <1>4
  <2> QED BY <1>3, <2>1 DEF K
<1>6. ParseLine(bs, line) = cs
  BY <1>1, <1>5 DEF ParseLine, AddRule, cs, K
<1>7. \A j \in 1..K : j # K => j < K
  BY <1>3
<1>8. at[K] \in AgentLines(body) /\ at[K] \in Nat /\ at[K] # 0 /\ at[K] <= n
  <2>1. PICK a \in AgentLines(body) : a <= n
    BY <1>2, <1>4
  <2>2. PICK k \in 1..K : at[k] = a
    BY <1>3, <2>1
  <2>3. at[k] \in Nat /\ at[k] # 0 /\ at[K] \in Nat /\ at[K] <= n
    BY <1>3, <1>4, <1>5, <2>1, <2>2
  <2>4. at[K] # 0
    BY <1>3, <1>5, <1>7, <2>2, <2>3
  <2> QED BY <1>3, <1>5, <2>3, <2>4 DEF Reads
<1>9. Owns(body, at[K], n + 1)
  <2>1. ASSUME NEW c \in AgentLines(body), at[K] < c, c < n + 1 PROVE FALSE
    <3>1. PICK k \in 1..K : at[k] = c
      BY <1>3, <1>4, <2>1
    <3>2. k = K \/ at[k] < at[K]
      BY <1>3, <1>5, <1>7
    <3> QED BY <1>4, <1>8, <2>1, <3>1, <3>2
  <2> QED BY <1>8, <2>1 DEF Owns
<1>10. ASSUME NEW k \in 1..K, k # K PROVE ~Owns(body, at[k], n + 1)
  <2>1. at[k] < at[K] /\ at[K] < n + 1
    BY <1>3, <1>5, <1>7, <1>8, <1>10
  <2> QED BY <1>8, <2>1 DEF Owns
<1>11. bs[K] \in RulesBlocks /\ bs[K].allow \in Seq(Words) /\ bs[K].disallow \in Seq(Words)
       /\ bs[K].agents \in Seq(Words)
  <2>1. bs[K] \in RulesBlocks
    BY <1>3, <1>5 DEF K
  <2> QED BY <2>1 DEF RulesBlocks
<1>12. /\ bs[K].agents = <<body[at[K]].value>>
       /\ Lists(body, n, at[K], "allow", bs[K].allow)
       /\ Lists(body, n, at[K], "disallow", bs[K].disallow)
  BY <1>3, <1>5, <1>8 DEF Reads
<1>13. ASSUME NEW key, NEW rules, Lists(body, n, at[K], key, rules), line.key # key
       PROVE  Lists(body, n + 1, at[K], key, rules)
  <2>1. Listed(body, n + 1, at[K], key) = Listed(body, n, at[K], key)
    <3>1. RuleLines(body) \subseteq Nat
      BY DEF RuleLines
    <3>2. \A i \in RuleLines(body) : (i <= n + 1 <=> i <= n \/ i = n + 1) /\ (i = n + 1 => ~(i <= n))
      BY <3>1
    <3> QED BY <1>13, <3>2 DEF Listed, line
  <2> QED BY <1>13, <2>1 DEF Lists
<1>14. ASSUME NEW key, NEW rules \in Seq(Words), Lists(body, n, at[K], key, rules), line.key = key
       PROVE  Lists(body, n + 1, at[K], key, Append(rules, line.value))
  BY <1>8, <1>9, <1>14, ListsMore DEF line
<1>15. ApplyRule(bs[K], line) \in RulesBlocks /\ Reads(body, n + 1, at[K], ApplyRule(bs[K], line))
  <2>1. CASE line.key = "allow"
    <3> DEFINE b == [bs[K] EXCEPT !.allow = Append(@, line.value)]
    <3>1. ApplyRule(bs[K], line) = b
      BY <2>1 DEF ApplyRule
    <3>2. Append(bs[K].allow, line.value) \in Seq(Words)
      BY <1>1, <1>11
    <3>3. /\ b \in RulesBlocks /\ b.agents = bs[K].agents
          /\ b.allow = Append(bs[K].allow, line.value) /\ b.disallow = bs[K].disallow
      BY <1>11, <3>2 DEF RulesBlocks
    <3>4. /\ Lists(body, n + 1, at[K], "allow", Append(bs[K].allow, line.value))
          /\ Lists(body, n + 1, at[K], "disallow", bs[K].disallow)
      BY <1>11, <1>12, <1>13, <1>14, <2>1
    <3> HIDE DEF b
    <3> QED BY <1>8, <1>12, <3>1, <3>3, <3>4 DEF Reads
  <2>2. CASE line.key = "disallow"
    <3> DEFINE b == [bs[K] EXCEPT !.disallow = Append(@, line.value)]
    <3>1. ApplyRule(bs[K], line) = b
      BY <1>1, <2>2 DEF ApplyRule
    <3>2. Append(bs[K].disallow, line.value) \in Seq(Words)
      BY <1>1, <1>11
    <3>3. /\ b \in RulesBlocks /\ b.agents = bs[K].agents
          /\ b.disallow = Append(bs[K].disallow, line.value) /\ b.allow = bs[K].allow
      BY <1>11, <3>2 DEF RulesBlocks
    <3>4. /\ Lists(body, n + 1, at[K], "disallow", Append(bs[K].disallow, line.value))
          /\ Lists(body, n + 1, at[K], "allow", bs[K].allow)
      BY <1>11, <1>12, <1>13, <1>14, <2>2
    <3> HIDE DEF b
    <3> QED BY <1>8, <1>12, <3>1, <3>3, <3>4 DEF Reads
  <2> QED BY <1>1, <2>1, <2>2
<1>16. /\ cs \in Seq(RulesBlocks) /\ Len(cs) = K /\ cs[K] = ApplyRule(bs[K], line)
       /\ \A k \in 1..K : k # K => cs[k] = bs[k]
  BY <1>3, <1>5, <1>15 DEF cs, K
<1>17. \A k \in 1..K : Reads(body, n + 1, at[k], cs[k])
  <2>1. ASSUME NEW k \in 1..K, k # K PROVE Reads(body, n + 1, at[k], cs[k])
    <3>1. at[k] \in Nat
      BY <1>3
    <3>2. Reads(body, n + 1, at[k], bs[k])
      BY <1>3, <1>10, <2>1, <3>1, ReadsOn
    <3> QED BY <1>16, <2>1, <3>2
  <2> QED BY <1>15, <1>16, <2>1
<1>18. at \in [1..K -> 0..(n + 1)]
  <2>1. \A k \in 1..K : at[k] \in 0..(n + 1)
    BY <1>3
  <2> QED BY <1>3, <2>1
<1>19. Parsed(body, n + 1, cs, at)
  BY <1>3, <1>4, <1>16, <1>17, <1>18 DEF Parsed
<1> QED BY <1>6, <1>19 DEF line

\* The blocks of a body of a form the parser is meant for are its agent lines' rules.
LEMMA ParseIs ==
  ASSUME NEW body \in Seq(Lines), Plain(body)
  PROVE  \E at : Parsed(body, Len(body), Parse(body), at)
<1>1. PICK blocks \in [0..Len(body) -> Seq(RulesBlocks)] :
         /\ blocks[0] = <<>>
         /\ \A n \in 1..Len(body) : blocks[n] = ParseLine(blocks[n - 1], body[n])
         /\ Parse(body) = blocks[Len(body)]
  BY ParseSteps
<1>2. PICK L \in Nat : L = Len(body)
  OBVIOUS
<1> DEFINE T == {n \in 0..L : \E at : Parsed(body, n, blocks[n], at)}
<1>3. 0 \in T
  <2> DEFINE to == [k \in 1..0 |-> 0]
  <2>1. to \in [1..0 -> 0..0] /\ 1..Len(<<>>) = {} /\ 1..0 = {} /\ <<>> \in Seq(RulesBlocks) /\ 0 \in 0..L
    BY <1>2
  <2>2. \A a \in AgentLines(body) : ~(a <= 0)
    BY DEF AgentLines
  <2> HIDE DEF to
  <2>3. Parsed(body, 0, <<>>, to)
    BY <2>1, <2>2 DEF Parsed
  <2> QED BY <1>1, <2>1, <2>3
<1>4. ASSUME NEW n \in 0..L, n < L, n \in T PROVE n + 1 \in T
  <2>1. PICK at : Parsed(body, n, blocks[n], at)
    BY <1>4
  <2>2. n \in Nat /\ n + 1 \in 1..Len(body) /\ n + 1 \in 0..L /\ (n + 1) - 1 = n
    BY <1>2, <1>4
  <2>3. blocks[n + 1] = ParseLine(blocks[n], body[n + 1])
    BY <1>1, <2>2
  <2>4. \E to : Parsed(body, n + 1, ParseLine(blocks[n], body[n + 1]), to)
    BY <2>1, <2>2, ParsedAgent, ParsedNothing, ParsedRule
  <2> QED BY <2>2, <2>3, <2>4
<1>5. 0..L \subseteq T
  <2> HIDE DEF T
  <2> QED BY <1>3, <1>4, UpTo
<1> QED BY <1>1, <1>2, <1>5


\* Two beginnings of a word that are as long are the same.
LEMMA SamePrefix ==
  ASSUME NEW s \in Words, NEW t \in Words, NEW p \in Words,
         IsPrefix(s, p), IsPrefix(t, p), Len(s) = Len(t)
  PROVE  s = t
  BY DEF IsPrefix, Words

\* "*" does not begin the name of this program.
LEMMA StarNoPrefix == ~IsPrefix(Star, Bot)
<1>1. Len(Star) = 1 /\ Star[1] = "*" /\ Bot[1] = "study" /\ Len(Bot) = 4
  BY DEF Star, Bot
<1>2. Star \in Words /\ Bot \in Words
  BY BotTyped
<1>3. SubSeq(Star, 1, 1)[1] = Star[1] /\ SubSeq(Bot, 1, 1)[1] = Bot[1]
  BY <1>1, <1>2 DEF Words
<1> QED BY <1>1, <1>3 DEF IsPrefix

\* A word that begins the name of this program is no longer than it.
LEMMA PrefixShort ==
  ASSUME NEW s \in Words, IsPrefix(s, Bot)
  PROVE  Len(s) \in 0..4 /\ s # Star
<1>1. Len(s) <= 4 /\ Len(s) \in Nat
  BY BotTyped DEF IsPrefix, Words
<1>2. PICK n \in Nat : n = Len(s)
  BY <1>1
<1>3. n <= 4
  BY ONLY <1>1, <1>2
<1>4. n \in 0..4
  BY ONLY <1>3, n \in Nat
<1> QED BY <1>2, <1>4, StarNoPrefix

\* Which blocks match the name of this program, and with what.
LEMMA BlockMatch ==
  ASSUME NEW body \in Seq(Lines), Plain(body), NEW n, NEW a, NEW b, Reads(body, n, a, b)
  PROVE  /\ a = 0 => Match(b, Bot) = Star
         /\ a # 0 =>
              /\ body[a].value \in Words /\ body[a].value # <<>>
              /\ Match(b, Bot) = IF body[a].value = Star \/ IsPrefix(body[a].value, Bot)
                                 THEN body[a].value ELSE <<>>
<1>1. CASE a = 0
  <2>1. b.agents = <<Star>>
    BY <1>1 DEF Reads, Block
  <2> QED BY <1>1, <2>1, BotTyped, MatchOne
<1>2. CASE a # 0
  <2>1. a \in AgentLines(body) /\ b.agents = <<body[a].value>>
    BY <1>2 DEF Reads
  <2>2. a \in 1..Len(body)
    BY <2>1 DEF AgentLines
  <2>3. body[a].value \in Words /\ body[a].value # <<>>
    BY <2>1, <2>2, LineKinds
  <2> QED BY <1>2, <2>1, <2>3, BotTyped, MatchOne
<1> QED BY <1>1, <1>2

\* The block selected is that of the one agent line that addresses this program, if
\* there is one, and has no rules if there is none.
LEMMA Selected ==
  ASSUME NEW body \in Seq(Lines), Plain(body), NEW bs, NEW at, Parsed(body, Len(body), bs, at)
  PROVE  \/ Addressed(body) = {} /\ Select(bs, Bot).disallow = <<>>
         \/ \E k \in 1..Len(bs) : /\ Select(bs, Bot) = bs[k]
                                  /\ at[k] # 0
                                  /\ Addressed(body) = {at[k]}
<1> DEFINE K == Len(bs)
           m(i) == Match(bs[i], Bot)
           named == {i \in DOMAIN bs : m(i) \notin {<<>>, Star}}
           longest == {i \in named : \A j \in named : Len(m(j)) <= Len(m(i))}
           stars == {i \in DOMAIN bs : m(i) = Star}
           A == AgentLines(body)
           called == {a \in A : IsPrefix(body[a].value, Bot)}
           best == {a \in called : \A c \in called : Len(body[c].value) <= Len(body[a].value)}
           all == {a \in A : body[a].value = Star}
<1>1. /\ DOMAIN bs = 1..K /\ K \in Nat /\ at \in [1..K -> Nat]
      /\ \A k \in 1..K : Reads(body, Len(body), at[k], bs[k])
      /\ \A j, k \in 1..K : j < k => at[j] < at[k]
      /\ \A a \in A : \E k \in 1..K : at[k] = a
  <2>1. \A a \in A : a <= Len(body)
    BY DEF AgentLines
  <2>2. DOMAIN bs = 1..K /\ K \in Nat /\ at \in [1..K -> 0..Len(body)]
    BY DEF Parsed
  <2>3. at \in [1..K -> Nat]
    <3>1. \A k \in 1..K : at[k] \in Nat
      BY <2>2
    <3> QED BY <2>2, <3>1
  <2> QED BY <2>1, <2>2, <2>3 DEF Parsed
<1>2. Select(bs, Bot) =
        CASE named # {} -> bs[Min(longest)]
          [] named = {} /\ stars # {} -> bs[Max(stars)]
          [] named = {} /\ stars = {} /\ bs # <<>> -> bs[1]
          [] OTHER -> Block(<<>>)
  BY DEF Select
<1>3. Addressed(body) = IF called # {} THEN best ELSE all
  BY DEF Addressed
<1>4. \A k \in 1..K : at[k] = 0 => bs[k] = Block(<<Star>>) /\ m(k) = Star
  BY <1>1, BlockMatch DEF Reads
<1>5. \A k \in 1..K : at[k] # 0 =>
        /\ at[k] \in A /\ body[at[k]].value \in Words /\ body[at[k]].value # <<>>
        /\ m(k) = IF body[at[k]].value = Star \/ IsPrefix(body[at[k]].value, Bot)
                  THEN body[at[k]].value ELSE <<>>
  <2>1. \A k \in 1..K : at[k] # 0 => at[k] \in A
    BY <1>1 DEF Reads
  <2> SUFFICES ASSUME NEW k \in 1..K, at[k] # 0
               PROVE  /\ body[at[k]].value \in Words /\ body[at[k]].value # <<>>
                      /\ m(k) = IF body[at[k]].value = Star \/ IsPrefix(body[at[k]].value, Bot)
                                THEN body[at[k]].value ELSE <<>>
    BY <2>1
  <2>2. Reads(body, Len(body), at[k], bs[k])
    BY <1>1
  <2> QED BY <2>2, BlockMatch
<1>6. \A a, c \in A : a < c => body[a].value # body[c].value
  BY DEF Plain
<1>7. A # {} => Addressed(body) # {}
  BY DEF Plain
<1>8. \A a \in A : a \in Nat /\ a # 0
  BY DEF AgentLines
<1>9. Star # <<>> /\ \A a \in A : body[a].value = Star => ~IsPrefix(body[a].value, Bot)
  BY BotTyped, StarNoPrefix
<1> HIDE DEF K, m, A
<1>10. \A j, k \in 1..K : at[j] = at[k] => j = k
  <2> SUFFICES ASSUME NEW j \in 1..K, NEW k \in 1..K, at[j] = at[k], j # k PROVE FALSE
    OBVIOUS
  <2>1. j < k \/ k < j
    BY <1>1
  <2> QED BY <1>1, <2>1
<1>11. \A a, c \in A : body[a].value = body[c].value => a = c
  <2> SUFFICES ASSUME NEW a \in A, NEW c \in A, body[a].value = body[c].value, a # c PROVE FALSE
    OBVIOUS
  <2>1. a < c \/ c < a
    BY <1>8
  <2> QED BY <1>6, <2>1
<1>12. \A k \in 1..K : k \in named <=> at[k] # 0 /\ IsPrefix(body[at[k]].value, Bot)
  BY <1>1, <1>4, <1>5, <1>9
<1>13. \A k \in named : k \in 1..K /\ at[k] \in called /\ m(k) = body[at[k]].value
  BY <1>1, <1>5, <1>12
<1>14. \A a \in called : \E k \in named : at[k] = a
  BY <1>1, <1>8, <1>12
<1>15. \A k \in 1..K : k \in stars <=> at[k] = 0 \/ (at[k] \in A /\ body[at[k]].value = Star)
  BY <1>1, <1>4, <1>5, <1>8, <1>9
<1> HIDE DEF named, stars
<1>16. CASE named # {}
  <2>1. called # {}
    BY <1>13, <1>16
  <2>2. \A a \in called : body[a].value \in Words /\ Len(body[a].value) \in 0..4
    BY <1>5, <1>8, <1>13, <1>14, PrefixShort
  <2>3. \E a \in called : \A c \in called : Len(body[c].value) <= Len(body[a].value)
    <3> DEFINE lens == {Len(body[a].value) : a \in called}
    <3>1. lens \subseteq 0..4 /\ lens # {}
      BY <2>1, <2>2
    <3>2. \E x \in lens : \A y \in lens : y <= x
      <4> HIDE DEF lens
      <4> QED BY <3>1, Greatest
    <3> QED BY <3>2
  <2>4. PICK a \in best : TRUE
    BY <2>3
  <2>5. \A c \in best : c = a
    <3> SUFFICES ASSUME NEW c \in best PROVE body[c].value = body[a].value
      BY <1>11
    <3>1. Len(body[c].value) <= Len(body[a].value) /\ Len(body[a].value) <= Len(body[c].value)
      BY <2>4
    <3>2. Len(body[c].value) = Len(body[a].value)
      BY <2>2, <3>1
    <3> QED BY <2>2, <3>2, BotTyped, SamePrefix
  <2>6. PICK k \in named : at[k] = a
    BY <1>14
  <2>7. longest = {k}
    <3>1. \A j \in named : Len(m(j)) <= Len(m(k))
      BY <1>13, <2>4, <2>6
    <3>2. ASSUME NEW i \in longest PROVE i = k
      <4>1. i \in named /\ \A j \in named : Len(m(j)) <= Len(m(i))
        OBVIOUS
      <4>2. at[i] \in best
        <5>1. at[i] \in called
          BY <1>13, <4>1
        <5>2. \A c \in called : Len(body[c].value) <= Len(body[at[i]].value)
          <6> SUFFICES ASSUME NEW c \in called
                       PROVE  Len(body[c].value) <= Len(body[at[i]].value)
            OBVIOUS
          <6>1. PICK j \in named : at[j] = c
            BY <1>14
          <6>2. m(j) = body[c].value /\ m(i) = body[at[i]].value
            BY <1>13, <4>1, <6>1
          <6> QED BY <4>1, <6>2
        <5> QED BY <5>1, <5>2
      <4> QED BY <1>10, <1>13, <2>5, <2>6, <4>1, <4>2
    <3> QED BY <3>1, <3>2
  <2>8. Min(longest) = k
    <3> HIDE DEF longest
    <3>1. k \in Nat /\ k <= k
      BY <1>13
    <3>2. Min({k}) = k
      BY <3>1 DEF Min
    <3> QED BY <2>7, <3>2
  <2>9. Select(bs, Bot) = bs[k]
    <3> HIDE DEF longest
    <3> QED BY <1>2, <1>16, <2>8
  <2>10. Addressed(body) = {at[k]} /\ at[k] # 0 /\ k \in 1..K
    BY <1>3, <1>12, <1>13, <2>1, <2>4, <2>5, <2>6
  <2> QED BY <2>9, <2>10 DEF K
<1>17. CASE named = {}
  <2>1. called = {} /\ Addressed(body) = all
    BY <1>3, <1>14, <1>17
  <2>2. CASE all # {}
    <3>1. PICK a \in all : TRUE
      BY <2>2
    <3>2. all = {a}
      BY <1>11
    <3>3. PICK k \in 1..K : at[k] = a
      BY <1>1
    <3>4. k \in stars /\ at[k] # 0
      BY <1>8, <1>15, <3>3
    <3>5. \A j \in stars : j \in 1..K /\ (j = k \/ at[j] = 0)
      <4>1. \A j \in stars : j \in 1..K
        BY <1>1 DEF stars
      <4> QED BY <1>10, <1>15, <3>2, <3>3, <4>1
    <3>6. \A j \in stars : j <= k
      <4> SUFFICES ASSUME NEW j \in stars, j # k PROVE j <= k
        BY <1>1, <3>4, <3>5
      <4>1. at[j] = 0 /\ j \in 1..K
        BY <3>5
      <4>2. ~(k < j)
        BY <1>1, <3>3, <3>4, <4>1
      <4> QED BY <1>1, <4>1, <4>2
    <3>7. Max(stars) = k
      <4>1. \A x \in stars : (\A y \in stars : x >= y) => x = k
        <5> SUFFICES ASSUME NEW x \in stars, \A y \in stars : x >= y PROVE x = k
          OBVIOUS
        <5>1. x <= k /\ x >= k /\ x \in Nat /\ k \in Nat
          BY <1>1, <3>4, <3>5, <3>6
        <5> QED BY <5>1
      <4>2. \A y \in stars : k >= y
        BY <1>1, <3>5, <3>6
      <4> QED BY <3>4, <4>1, <4>2 DEF Max
    <3>8. Select(bs, Bot) = bs[k]
      BY <1>2, <1>17, <3>4, <3>7
    <3> QED BY <2>1, <3>2, <3>3, <3>4, <3>8 DEF K
  <2>3. CASE all = {}
    <3>1. A = {}
      BY <1>7, <2>1, <2>3
    <3>2. \A k \in 1..K : at[k] = 0
      BY <1>5, <3>1
    <3>3. \A k \in 1..K : k = 1 /\ bs[k] = Block(<<Star>>) /\ k \in stars
      <4>1. \A k \in 1..K : k = 1
        <5> SUFFICES ASSUME NEW k \in 1..K, k # 1 PROVE FALSE
          OBVIOUS
        <5>1. 1 \in 1..K
          BY <1>1
        <5> QED BY <1>10, <3>2, <5>1
      <4> QED BY <1>4, <1>15, <3>2, <4>1
    <3>4. CASE stars # {}
      <4>1. stars = {1} /\ bs[1] = Block(<<Star>>)
        BY <1>1, <3>3, <3>4 DEF stars
      <4>2. Max({1}) = 1
        BY DEF Max
      <4>3. Select(bs, Bot) = bs[1]
        BY <1>2, <1>17, <3>4, <4>1, <4>2
      <4> QED BY <2>1, <2>3, <4>1, <4>3 DEF Block
    <3>5. CASE stars = {}
      <4>1. 1..K = {}
        BY <3>3, <3>5
      <4>2. bs = <<>>
        <5>1. K = 0 /\ bs \in Seq(RulesBlocks)
          <6>1. K = 0
            BY ONLY <1>1, <4>1
          <6> QED BY <6>1 DEF Parsed
        <5> QED BY <5>1 DEF K
      <4>3. Select(bs, Bot) = Block(<<>>)
        BY <1>2, <1>17, <3>5, <4>2
      <4> QED BY <2>1, <2>3, <4>3 DEF Block
    <3> QED BY <3>4, <3>5
  <2> QED BY <2>2, <2>3
<1> QED BY <1>16, <1>17

\* A body of a form the parser is meant for is read as its rules say: for every body and
\* every path.
THEOREM ParserAgrees ==
  ASSUME NEW body \in Seq(Lines), Plain(body), NEW p \in Words
  PROVE  IsAllowed(body, p) <=> Admits(body, p)
<1>1. PICK at : Parsed(body, Len(body), Parse(body), at)
  BY ParseIs
<1> DEFINE bs == Parse(body)
<1>2. IsAllowed(body, p) <=> BlockAllows(Select(bs, Bot), p)
  BY DEF IsAllowed
<1> HIDE DEF bs
<1>3. CASE Addressed(body) = {} /\ Select(bs, Bot).disallow = <<>>
  <2>1. MostSpecific(p, <<>>) = <<>>
    <3>1. <<>> \in Seq(Words) /\ 1..Len(<<>>) = {}
      OBVIOUS
    <3> QED BY <3>1, MostSpecificIs
  <2>2. BlockAllows(Select(bs, Bot), p)
    BY <1>3, <2>1 DEF BlockAllows
  <2>3. Applicable(body, p, "disallow") = {}
    BY <1>3 DEF Applicable
  <2> QED BY <1>2, <2>2, <2>3 DEF Admits
<1>4. ASSUME NEW k \in 1..Len(bs), Select(bs, Bot) = bs[k], at[k] # 0, Addressed(body) = {at[k]}
      PROVE  IsAllowed(body, p) <=> Admits(body, p)
  <2> DEFINE a == at[k]
             b == bs[k]
  <2>1. /\ b \in RulesBlocks /\ a \in AgentLines(body)
        /\ Lists(body, Len(body), a, "allow", b.allow)
        /\ Lists(body, Len(body), a, "disallow", b.disallow)
    BY <1>1, <1>4 DEF Parsed, Reads, bs
  <2> HIDE DEF a, b
  <2>2. \A r \in RuleLines(body) : r \in Nat /\ r <= Len(body) /\ (Governs(body, a, r) <=> Owns(body, a, r))
    <3> SUFFICES ASSUME NEW r \in RuleLines(body)
                 PROVE r \in Nat /\ r <= Len(body) /\ (Governs(body, a, r) <=> Owns(body, a, r))
      OBVIOUS
    <3>1. r \in Nat /\ r <= Len(body)
      BY DEF RuleLines
    <3>2. \A j \in AgentLines(body) : a < j => \E i \in RuleLines(body) : a < i /\ i < j
      BY <2>1 DEF Plain
    <3> QED BY <3>1, <3>2 DEF Governs, Owns
  <2>3. ASSUME NEW key, NEW rules \in Seq(Words), Lists(body, Len(body), a, key, rules)
        PROVE  Applicable(body, p, key) = Fitting(p, rules)
    <3>1. Applicable(body, p, key) =
            {body[i].value : i \in {r \in Listed(body, Len(body), a, key) : IsPrefix(body[r].value, p)}}
      BY <1>4, <2>2 DEF Applicable, Listed, a
    <3>2. /\ \A j \in 1..Len(rules) : \E i \in Listed(body, Len(body), a, key) : rules[j] = body[i].value
          /\ \A i \in Listed(body, Len(body), a, key) : \E j \in 1..Len(rules) : rules[j] = body[i].value
      BY <2>3 DEF Lists
    <3>3. ASSUME NEW x \in Applicable(body, p, key) PROVE x \in Fitting(p, rules)
      BY <3>1, <3>2 DEF Fitting
    <3>4. ASSUME NEW x \in Fitting(p, rules) PROVE x \in Applicable(body, p, key)
      BY <3>1, <3>2 DEF Fitting
    <3> QED BY <3>3, <3>4
  <2>4. b.allow \in Seq(Words) /\ b.disallow \in Seq(Words)
    BY <2>1 DEF RulesBlocks
  <2>5. /\ Applicable(body, p, "allow") = Fitting(p, b.allow)
        /\ Applicable(body, p, "disallow") = Fitting(p, b.disallow)
    BY <2>1, <2>3, <2>4
  <2>6. BlockAllows(b, p) <=> \A d \in Fitting(p, b.disallow) :
                                   \E c \in Fitting(p, b.allow) : Len(c) > Len(d)
    BY <2>1, BlockVerdict DEF Lists
  <2> QED BY <1>2, <1>4, <2>5, <2>6 DEF Admits, b
<1> QED BY <1>1, <1>3, <1>4, Selected DEF bs

-----------------------------------------------------------------------------
(* What the fetches keep of robots.txt. *)

\* The parser reads every sample of a form it is meant for as its rules say.
THEOREM ParserIsRight == FetchSpec => []Agreement
<1>1. ASSUME NEW body \in SampleBodies, NEW p \in SamplePaths, Plain(body)
      PROVE  IsAllowed(body, p) = Admits(body, p)
  <2>1. body \in Seq(Lines) /\ p \in Words
    BY PoliteFetchAssumption
  <2>2. IsAllowed(body, p) \in BOOLEAN /\ Admits(body, p) \in BOOLEAN
    BY DEF IsAllowed, BlockAllows, Admits
  <2> QED BY <1>1, <2>1, <2>2, ParserAgrees
<1>2. Agreement
  BY <1>1 DEF Agreement, Misread
<1> QED BY <1>2, PTL

\* A worker goes by a copy of robots.txt only while it is fresh, and to the slot of its page
\* only if the rules of the copy admit the path, whatever the bodies served that have a
\* form the parser is meant for.
THEOREM RobotsAreHonoured == FetchSpec => RobotsHonoured
<1> DEFINE Honours(w) ==
      /\ stage[w] = "check" /\ stage'[w] = "verdict" => window - cache'[w].answered <= RobotsTTL
      /\ stage[w] = "verdict" /\ stage'[w] = "slot" =>
           \/ cache[w].body = Unreadable
           \/ ~Plain(cache[w].body)
           \/ Admits(cache[w].body, path[w])
<1>1. TypeOK /\ FetchInv /\ [FetchNext]_fetchVars => [\A w \in Crawlers : Honours(w)]_fetchVars
  <2> SUFFICES ASSUME TypeOK, FetchInv, FetchNext, NEW w \in Crawlers PROVE Honours(w)
    BY DEF fetchVars
  <2>0. /\ cache[w] \in Copies /\ cache[w].at <= cache[w].answered
        /\ path[w] \in Paths /\ window \in Nat /\ RobotsTTL \in Nat
        /\ stage \in [Crawlers -> Stages]
    BY ThrottleAssumption, PoliteFetchAssumption
    DEF TypeOK, FetchInv, FetchTypeOK, Stages, Windows
  <2>1. CASE stage'[w] = stage[w]
    BY <2>1
  <2>2. CASE UseCopy(w)
    <3>1. cache' = cache /\ window - cache[w].at <= RobotsTTL
      BY <2>2 DEF UseCopy, Fresh
    <3>2. window - cache[w].answered <= RobotsTTL
      BY <2>0, <3>1 DEF Copies
    <3>3. stage[w] # "verdict"
      BY <2>2 DEF UseCopy
    <3> QED BY <3>1, <3>2, <3>3
  <2>3. CASE Admit(w)
    <3>1. stage[w] = "verdict" /\ IsAllowed(Text(cache[w].body), path[w])
      BY <2>3 DEF Admit
    <3>2. CASE cache[w].body # Unreadable /\ Plain(cache[w].body)
      <4>1. cache[w].body \in Bodies /\ Text(cache[w].body) = cache[w].body
        BY <2>0, <3>2 DEF Copies, Text
      <4>2. IsAllowed(cache[w].body, path[w]) = Admits(cache[w].body, path[w])
        <5>1. cache[w].body \in Seq(Lines) /\ path[w] \in Words
          BY <2>0, <4>1, PoliteFetchAssumption
        <5>2. IsAllowed(cache[w].body, path[w]) <=> Admits(cache[w].body, path[w])
          BY <3>2, <5>1, ParserAgrees
        <5>3. IsAllowed(cache[w].body, path[w]) \in BOOLEAN /\ Admits(cache[w].body, path[w]) \in BOOLEAN
          BY DEF IsAllowed, BlockAllows, Admits
        <5> QED BY <5>2, <5>3
      <4> QED BY <3>1, <4>1, <4>2
    <3> QED BY <3>1, <3>2
  <2>4. CASE FetchStep(w) /\ ~UseCopy(w) /\ ~Admit(w)
    <3>1. \/ stage[w] \notin {"check", "verdict"}
          \/ stage'[w] \notin {"verdict", "slot"}
      BY <2>0, <2>4 DEF FetchStep, Begin, ReadRobots, RobotsAnswer, RobotsFails, Refuse, Get,
                        GetAgain, NoSlot, Kill, Finish, Stages
    <3> QED BY <3>1
  <2>5. ASSUME NEW v \in Crawlers, v # w, FetchStep(v) PROVE stage'[w] = stage[w]
    BY <2>5, FetchWaits
  <2>6. \/ \E v \in Crawlers : FetchStep(v)
        \/ UNCHANGED stage
    BY DEF FetchNext, InSlot, Other, callVars
  <2> QED BY <2>1, <2>2, <2>3, <2>4, <2>5, <2>6
<1> QED
  BY <1>1, FetchInvInit, FetchInvNext, FetchIsThrottled, TypeCorrect, PTL
  DEF FetchSpec, RobotsHonoured
=============================================================================
