------------------------- MODULE CompanyScheduleProofs -------------------------
(***************************************************************************)
(* Theorems about CompanySchedule, for any workers, requests and bounds,   *)
(* and about RedisLock, for any clients: the two sides of Lease.           *)
(***************************************************************************)
EXTENDS CompanySchedule, RedisLock, TLAPS

-----------------------------------------------------------------------------
(* The operators on rows *)

\* Records of this shape, whatever the columns hold, survive the updates that
\* the operators make.
LEMMA Updates ==
  ASSUME NEW B, NEW H, NEW F, NEW N,
         NEW r \in [active: B, deleted: B, verified: B, health: H, failures: F, next: N],
         NEW b \in B, NEW h \in H, NEW f \in F, NEW n \in N
  PROVE  LET R == [active: B, deleted: B, verified: B, health: H, failures: F, next: N]
         IN  /\ [r EXCEPT !.failures = f, !.health = h, !.next = n] \in R
             /\ [r EXCEPT !.active = b, !.health = h, !.next = n] \in R
             /\ [r EXCEPT !.active = b, !.health = h, !.failures = f, !.next = n] \in R
             /\ [r EXCEPT !.verified = b, !.health = h, !.failures = f, !.next = n] \in R
             /\ [r EXCEPT !.verified = b, !.next = n] \in R
             /\ [r EXCEPT !.failures = f, !.health = h] \in R
  OBVIOUS

\* The row of an unverified company is one.
LEMMA FirstRows == MainWebsiteRow \in Row /\ \A b \in BOOLEAN : DirectRow(b) \in Row
<1>1. 0 \in 0..MaxFailures /\ "unknown" \in Health
  BY BoundsAssumption DEF Health
<1>2. MainWebsiteRow \in Row
  BY ONLY <1>1 DEF MainWebsiteRow, Row
<1>3. ASSUME NEW b \in BOOLEAN PROVE DirectRow(b) \in Row
  BY ONLY <1>1, <1>2, Updates DEF DirectRow, Row
<1> QED
  BY <1>2, <1>3

\* Every operator returns a row when it is given one.
LEMMA RowTypes ==
  ASSUME NEW r \in Row, NEW c \in Row
  PROVE  /\ Succeeded(r) \in Row
         /\ Paused(r) \in Row
         /\ Resumed(r) \in Row
         /\ Verified(r) \in Row
         /\ Reset(r, c) \in Row
<1>1. 0 \in 0..MaxFailures /\ {"unknown", "healthy", "paused"} \subseteq Health
  BY BoundsAssumption DEF Health
<1>2. Succeeded(r) \in Row
  BY ONLY <1>1, Updates, r \in Row DEF Succeeded, Row
<1>3. Paused(r) \in Row
  BY ONLY <1>1, Updates, r \in Row DEF Paused, Row
<1>4. Resumed(r) \in Row
  BY ONLY <1>1, Updates, r \in Row DEF Resumed, Row
<1>5. Verified(r) \in Row
  BY ONLY <1>1, Updates, r \in Row DEF Verified, Row
<1>6. Reset(r, c) \in Row
  BY ONLY <1>1, Updates, r \in Row DEF Reset, Row
<1> QED
  BY ONLY <1>2, <1>3, <1>4, <1>5, <1>6

\* So do a failure within the bound, and the narrow saves.
LEMMA FailedType ==
  ASSUME NEW r \in Row, r.failures < MaxFailures
  PROVE  Failed(r) \in Row
  BY BoundsAssumption DEF Row, Health, Failed

LEMMA NarrowTypes ==
  ASSUME NEW r \in Row
  PROVE  /\ \A n \in {"never", "later", "due"} : [r EXCEPT !.next = n] \in Row
         /\ \A b \in BOOLEAN : /\ [r EXCEPT !.deleted = b] \in Row
                               /\ [r EXCEPT !.verified = b] \in Row
  BY DEF Row

-----------------------------------------------------------------------------
(* Type correctness *)

LEMMA TypeInit == Init => TypeOK
<1> SUFFICES ASSUME Init PROVE TypeOK
  OBVIOUS
<1>1. MainWebsiteRow \in Row /\ DirectRow(TRUE) \in Row /\ DirectRow(FALSE) \in Row
  BY FirstRows
<1> QED
  BY <1>1 DEF Init, TypeOK, Queues

\* A dispatcher step keeps the types.
LEMMA TypeDispatcher == TypeOK /\ Dispatcher => TypeOK'
<1> SUFFICES ASSUME TypeOK, Dispatcher PROVE TypeOK'
  OBVIOUS
<1> USE DEF TypeOK, Busy, workerVars, adminVars
<1>1. CASE TimePasses
  BY <1>1, NarrowTypes DEF TimePasses
<1>2. CASE Refresh
  BY <1>2 DEF Refresh, Queues
<1>3. CASE LockExpires
  BY <1>3 DEF LockExpires
<1> QED
  BY <1>1, <1>2, <1>3 DEF Dispatcher

\* A message more in a queue, and a worker set free, keep the types.
LEMMA QueueType ==
  ASSUME TypeOK, NEW q \in Queues
  PROVE  [queue EXCEPT ![q] = @ + 1] \in [Queues -> Nat]
<1>1. queue \in [Queues -> Nat] /\ queue[q] + 1 \in Nat
  BY DEF TypeOK
<1> QED
  BY <1>1

LEMMA RequeueType ==
  ASSUME TypeOK, NEW w \in Workers, Requeue(w)
  PROVE  queue' \in [Queues -> Nat]
<1> DEFINE q == IF w \in forced THEN "scraping_browser" ELSE "scraping"
<1>1. q \in Queues
  BY DEF Queues
<1>2. [queue EXCEPT ![q] = @ + 1] \in [Queues -> Nat]
  BY ONLY <1>1, QueueType, TypeOK
<1> QED
  BY <1>2 DEF Requeue

LEMMA IdleType ==
  ASSUME TypeOK, NEW w \in Workers, Idle(w)
  PROVE  /\ phase' \in [Workers -> {"idle", "loaded", "run", "saved", "done"}]
         /\ inst' \in [Workers -> Row]
         /\ forced' \subseteq Workers
         /\ outdated' \subseteq Busy' \cup held
<1>1. MainWebsiteRow \in Row
  BY FirstRows
<1> QED
  BY <1>1 DEF TypeOK, Idle, Busy

\* A task step keeps the types.
LEMMA TypeTask ==
  ASSUME TypeOK, NEW w \in Workers, Task(w)
  PROVE  TypeOK'
<1>0. MainWebsiteRow \in Row
  BY FirstRows
<1>a. inst[w] \in Row /\ row \in Row
  BY DEF TypeOK
<1>1. ASSUME NEW q \in Queues, Take(w, q) PROVE TypeOK'
  BY <1>0, <1>a, <1>1 DEF Take, TypeOK, Busy, adminVars
<1>2. CASE Lock(w)
  BY <1>2 DEF Lock, TypeOK, Busy, adminVars
<1>3. CASE Skip(w)
  BY <1>3, IdleType DEF Skip, TypeOK, adminVars
<1>4. CASE RunSucceeds(w)
  <2>1. Succeeded(inst[w]) \in Row
    BY <1>a, RowTypes
  <2> QED
    BY <1>4, <2>1 DEF RunSucceeds, SaveInstance, TypeOK, Busy, adminVars
<1>5. CASE RunFindsNothing(w)
  <2>1. [Failed(inst[w]) EXCEPT !.next = "later"] \in Row
    BY <1>5, <1>a, FailedType, NarrowTypes DEF RunFindsNothing
  <2> QED
    BY <1>5, <2>1 DEF RunFindsNothing, SaveInstance, TypeOK, Busy, adminVars
<1>6. CASE RunFails(w)
  <2>1. Failed(inst[w]) \in Row
    BY <1>6, <1>a, FailedType DEF RunFails
  <2> QED
    BY <1>6, <2>1 DEF RunFails, SaveInstance, TypeOK, Busy, adminVars
<1>7. CASE Adapt(w)
  BY <1>7, <1>a, NarrowTypes DEF Adapt, TypeOK, Busy, adminVars
<1>8. CASE Defer(w)
  <2>1. row' \in Row
    BY <1>8, <1>a, NarrowTypes DEF Defer
  <2>2. queue' \in [Queues -> Nat]
    BY <1>8, QueueType DEF Defer, Queues
  <2> QED
    BY <1>8, <2>1, <2>2, IdleType DEF Defer, TypeOK, adminVars
<1>9. CASE FetchRetry(w)
  BY <1>9, IdleType, RequeueType DEF FetchRetry, TypeOK, adminVars
<1>10. CASE Finish(w)
  BY <1>10, IdleType DEF Finish, TypeOK, adminVars
<1>11. CASE Crash(w)
  BY <1>11, IdleType, RequeueType DEF Crash, TypeOK, adminVars
<1> QED
  BY <1>1, <1>2, <1>3, <1>4, <1>5, <1>6, <1>7, <1>8, <1>9, <1>10, <1>11 DEF Task

\* A request writes a row and gives up its instance.
LEMMA TypeAnswer ==
  ASSUME TypeOK, NEW a \in Requests, NEW r \in Row, Answer(a, r),
         outdated' \subseteq (Busy \cup held) \ {a}
  PROVE  TypeOK'
<1>1. Busy' = Busy
  BY DEF Answer, Busy, workerVars
<1> QED
  BY <1>1, FirstRows DEF TypeOK, Answer, workerVars

\* What each request makes of the row, when it decides and when it does not.
LEMMA RequestCases ==
  ASSUME TypeOK, NEW a \in Requests, Request(a)
  PROVE  \/ AdminLoad(a)
         \/ \E r \in Row : Decide(a, r)
         \/ \E r \in Row : DecideNot(a, r)
<1> USE RowTypes, NarrowTypes DEF TypeOK
<1>1. CASE PauseCompany(a)
  BY <1>1 DEF PauseCompany
<1>2. CASE ResumeCompany(a)
  BY <1>2 DEF ResumeCompany
<1>3. CASE ArchiveCompany(a)
  BY <1>3 DEF ArchiveCompany
<1>4. CASE UnarchiveCompany(a)
  BY <1>4 DEF UnarchiveCompany
<1>5. CASE UnverifyCompany(a)
  BY <1>5 DEF UnverifyCompany
<1>6. CASE ApproveCandidate(a)
  BY <1>6 DEF ApproveCandidate
<1>7. CASE SetManualUrl(a)
  BY <1>7 DEF SetManualUrl
<1>8. CASE ResetFailures(a)
  BY <1>8 DEF ResetFailures
<1>9. CASE ChangeInterval(a)
  BY <1>9 DEF ChangeInterval
<1>10. CASE AdminLeave(a)
  BY <1>10 DEF AdminLeave
<1> QED
  BY <1>1, <1>2, <1>3, <1>4, <1>5, <1>6, <1>7, <1>8, <1>9, <1>10 DEF Request

LEMMA TypeRequest ==
  ASSUME TypeOK, NEW a \in Requests, Request(a)
  PROVE  TypeOK'
<1>1. CASE AdminLoad(a)
  BY <1>1 DEF AdminLoad, TypeOK, Busy, workerVars
<1>2. ASSUME NEW r \in Row, Decide(a, r) PROVE TypeOK'
  BY <1>2, TypeAnswer DEF Decide, TypeOK
<1>3. ASSUME NEW r \in Row, DecideNot(a, r) PROVE TypeOK'
  BY <1>3, TypeAnswer DEF DecideNot, TypeOK
<1> QED
  BY <1>1, <1>2, <1>3, RequestCases

LEMMA TypeNext == TypeOK /\ [Next]_vars => TypeOK'
<1> SUFFICES ASSUME TypeOK, [Next]_vars PROVE TypeOK'
  OBVIOUS
<1>1. CASE UNCHANGED vars
  BY <1>1 DEF vars, workerVars, adminVars, TypeOK, Busy
<1> QED
  BY <1>1, TypeDispatcher, TypeTask, TypeRequest DEF Next

\* Every reachable state is well typed.
THEOREM TypeCorrect == Spec => []TypeOK
  BY TypeInit, TypeNext, PTL DEF Spec

-----------------------------------------------------------------------------
(* What a step does to the row and to the instances *)

\* The row that a run of worker w leaves when it saves its instance.
Saves(w) == {Succeeded(inst[w]), Failed(inst[w]), [Failed(inst[w]) EXCEPT !.next = "later"]}

\* Worker v keeps its instance, has made it the row, or has none.
Follows(v) ==
  \/ inst'[v] = inst[v] /\ (v \in Busy' \ outdated' => v \in Busy \ outdated)
  \/ inst'[v] = row'
  \/ inst'[v] = MainWebsiteRow /\ phase'[v] = "idle"

\* The task of worker w has saved its instance.  If that was outdated, so are
\* all the others now.
Saved(w) ==
  /\ w \in Busy
  /\ row' \in Saves(w)
  /\ inst'[w] = row'
  /\ w \in outdated => (Busy' \cup held) \ outdated' \subseteq {w}

\* Only the instance of a busy worker is saved.
LEMMA TaskRows ==
  ASSUME TypeOK, NEW w \in Workers, Task(w)
  PROVE  /\ UNCHANGED <<held, copy>>
         /\ row' \in {row, [row EXCEPT !.next = "later"]} \/ Saved(w)
         /\ \A v \in Workers : Follows(v)
         /\ held \ outdated' \subseteq held \ outdated
<1> DEFINE Narrow == row' \in {row, [row EXCEPT !.next = "later"]}
           Others == /\ UNCHANGED <<held, copy>>
                     /\ \A v \in Workers : Follows(v)
                     /\ held \ outdated' \subseteq held \ outdated
<1>0. w \notin held
  BY ProcessAssumption DEF TypeOK
<1>1. ASSUME NEW q \in Queues, Take(w, q) PROVE row' = row /\ Others
  BY <1>0, <1>1 DEF Take, TypeOK, Busy, Follows, adminVars
<1>2. CASE Lock(w)
  BY <1>2 DEF Lock, TypeOK, Busy, Follows, adminVars
<1>3. ASSUME Idle(w), UNCHANGED adminVars PROVE Others
  BY <1>0, <1>3 DEF Idle, TypeOK, Busy, Follows, adminVars
<1>4. ASSUME NEW r \in Saves(w), NEW p \in {"saved", "done"}, w \in Busy, SaveInstance(w, r, p)
      PROVE  Saved(w) /\ Others
  <2>1. Busy' = Busy /\ UNCHANGED <<held, copy>> /\ row' = r /\ inst'[w] = r
    BY <1>4 DEF SaveInstance, TypeOK, Busy, adminVars
  <2>2. row' \in Saves(w)
    BY <2>1
  <2>3. Saved(w)
    BY <1>4, <2>1, <2>2 DEF SaveInstance, Saved
  <2>4. ASSUME NEW v \in Workers PROVE Follows(v)
    <3>1. CASE v = w
      BY <2>1, <3>1 DEF Follows
    <3>2. CASE v # w
      BY <1>4, <2>1, <3>2 DEF SaveInstance, Follows, TypeOK
    <3> QED
      BY <3>1, <3>2
  <2>5. held \ outdated' \subseteq held \ outdated
    BY <1>0, <1>4 DEF SaveInstance
  <2> QED
    BY <2>1, <2>3, <2>4, <2>5
<1>5. CASE RunSucceeds(w) \/ RunFindsNothing(w) \/ RunFails(w)
  BY <1>4, <1>5 DEF RunSucceeds, RunFindsNothing, RunFails, Saves, Busy
<1>6. CASE Adapt(w)
  BY <1>6 DEF Adapt, TypeOK, Busy, Follows, adminVars
<1>7. CASE Skip(w) \/ Defer(w) \/ FetchRetry(w) \/ Finish(w) \/ Crash(w)
  BY <1>3, <1>7 DEF Skip, Defer, FetchRetry, Finish, Crash
<1> QED
  BY <1>1, <1>2, <1>5, <1>6, <1>7 DEF Task

-----------------------------------------------------------------------------
(* The health columns and next_scrape_at *)

\* What both invariants ask of one row.
RowFit(r) == HealthFits(r) /\ (r.active /\ r.verified => r.next # "never")

\* The columns that decide it, after each operator.
LEMMA SucceededFits == ASSUME NEW r \in Row PROVE RowFit(Succeeded(r))
<1>1. Succeeded(r).health = "healthy" /\ Succeeded(r).failures = 0 /\ Succeeded(r).next = "later"
  BY DEF Succeeded, Row
<1> QED
  BY <1>1 DEF RowFit, HealthFits

LEMMA PausedFits == ASSUME NEW r \in Row PROVE RowFit(Paused(r))
<1>1. Paused(r).health = "paused" /\ Paused(r).active = FALSE
  BY DEF Paused, Row
<1> QED
  BY <1>1 DEF RowFit, HealthFits

LEMMA ResumedFits == ASSUME NEW r \in Row PROVE RowFit(Resumed(r))
<1>1. Resumed(r).health = "unknown" /\ Resumed(r).failures = 0 /\ Resumed(r).next = "later"
  BY DEF Resumed, Row
<1> QED
  BY <1>1 DEF RowFit, HealthFits

LEMMA VerifiedFits == ASSUME NEW r \in Row PROVE RowFit(Verified(r))
<1>1. Verified(r).health = "unknown" /\ Verified(r).failures = 0 /\ Verified(r).next = "later"
  BY DEF Verified, Row
<1> QED
  BY <1>1 DEF RowFit, HealthFits

LEMMA ResetFits ==
  ASSUME NEW r \in Row, RowFit(r), NEW c \in Row
  PROVE  RowFit(Reset(r, c))
<1>1. /\ Reset(r, c).health \in {"paused", "unknown"}
      /\ Reset(r, c).failures = 0
  BY DEF Reset, Row
<1>2. /\ Reset(r, c).next = r.next
      /\ Reset(r, c).active = r.active
      /\ Reset(r, c).verified = r.verified
  BY DEF Reset, Row
<1> QED
  BY <1>1, <1>2 DEF RowFit, HealthFits

\* The only operator that counts.
LEMMA FailedFits ==
  ASSUME NEW r \in Row, RowFit(r)
  PROVE  RowFit(Failed(r))
<1>1. HealthFits(Failed(r))
  BY DEF RowFit, HealthFits, Failed, Row, Health
<1>2. /\ Failed(r).next = r.next
      /\ Failed(r).active = r.active
      /\ Failed(r).verified = r.verified
  BY DEF Failed
<1> QED
  BY <1>1, <1>2 DEF RowFit

\* The narrow saves, over a row that fits or over a failed one.
LEMMA NarrowFits ==
  ASSUME NEW r, r \in Row \/ \E c \in Row : r = Failed(c), RowFit(r)
  PROVE  /\ RowFit([r EXCEPT !.next = "later"])
         /\ RowFit([r EXCEPT !.next = "due"])
         /\ \A b \in BOOLEAN : RowFit([r EXCEPT !.deleted = b])
         /\ RowFit([r EXCEPT !.verified = FALSE])
<1>1. r = [active |-> r.active, deleted |-> r.deleted, verified |-> r.verified,
           health |-> r.health, failures |-> r.failures, next |-> r.next]
  BY DEF Row, Failed
<1>2. \A n \in {"later", "due"} : /\ [r EXCEPT !.next = n].health = r.health
                                  /\ [r EXCEPT !.next = n].failures = r.failures
                                  /\ [r EXCEPT !.next = n].next = n
  BY ONLY <1>1
<1>3. \A b \in BOOLEAN : /\ [r EXCEPT !.deleted = b].health = r.health
                         /\ [r EXCEPT !.deleted = b].failures = r.failures
                         /\ [r EXCEPT !.deleted = b].next = r.next
                         /\ [r EXCEPT !.deleted = b].active = r.active
                         /\ [r EXCEPT !.deleted = b].verified = r.verified
  BY ONLY <1>1
<1>4. /\ [r EXCEPT !.verified = FALSE].health = r.health
      /\ [r EXCEPT !.verified = FALSE].failures = r.failures
      /\ [r EXCEPT !.verified = FALSE].verified = FALSE
  BY ONLY <1>1
<1> QED
  BY <1>2, <1>3, <1>4 DEF RowFit, HealthFits

\* The row and every instance of it fit: any of them may be saved next.
AllFit ==
  /\ RowFit(row)
  /\ \A w \in Workers : RowFit(inst[w])
  /\ \A a \in Requests : RowFit(copy[a])

LEMMA FitInit == Init => AllFit
<1>1. /\ MainWebsiteRow.health = "unknown"
      /\ MainWebsiteRow.failures = 0
      /\ MainWebsiteRow.verified = FALSE
  BY DEF MainWebsiteRow
<1>2. \A b \in BOOLEAN : /\ DirectRow(b).health = "unknown"
                         /\ DirectRow(b).failures = 0
                         /\ DirectRow(b).next = "later"
  BY DEF DirectRow, MainWebsiteRow
<1>3. RowFit(MainWebsiteRow) /\ \A b \in BOOLEAN : RowFit(DirectRow(b))
  BY <1>1, <1>2 DEF RowFit, HealthFits
<1> QED
  BY <1>3 DEF Init, AllFit

LEMMA FitTask ==
  ASSUME TypeOK, AllFit, NEW w \in Workers, Task(w)
  PROVE  AllFit'
<1>0. row \in Row /\ inst[w] \in Row /\ RowFit(row) /\ RowFit(inst[w])
  BY DEF TypeOK, AllFit
<1>1. RowFit(MainWebsiteRow)
  BY DEF MainWebsiteRow, RowFit, HealthFits
<1>2. ASSUME row' \in Saves(w) PROVE RowFit(row')
  BY <1>0, <1>2, SucceededFits, FailedFits, NarrowFits DEF Saves
<1>3. RowFit(row')
  BY <1>0, <1>2, TaskRows, NarrowFits DEF Saved
<1>4. ASSUME NEW v \in Workers PROVE RowFit(inst'[v])
  BY <1>1, <1>3, TaskRows DEF Follows, AllFit
<1>5. ASSUME NEW a \in Requests PROVE RowFit(copy'[a])
  BY TaskRows DEF AllFit
<1> QED
  BY <1>3, <1>4, <1>5 DEF AllFit

\* The rows that a request leaves.
LEMMA RequestFits ==
  ASSUME TypeOK, AllFit, NEW a \in Requests, Request(a)
  PROVE  AdminLoad(a) \/ \E r : RowFit(r) /\ Answer(a, r)
<1>0. /\ row \in Row /\ copy[a] \in Row
      /\ RowFit(row) /\ RowFit(copy[a])
  BY DEF TypeOK, AllFit
<1> USE <1>0
<1>1. CASE PauseCompany(a)
  BY <1>1, PausedFits DEF PauseCompany, Decide
<1>2. CASE ResumeCompany(a)
  BY <1>2, ResumedFits DEF ResumeCompany, Decide
<1>3. CASE ArchiveCompany(a)
  BY <1>3, NarrowFits DEF ArchiveCompany, Decide
<1>4. CASE UnarchiveCompany(a)
  BY <1>4, NarrowFits DEF UnarchiveCompany, Decide
<1>5. CASE UnverifyCompany(a)
  BY <1>5, NarrowFits DEF UnverifyCompany, Decide
<1>6. CASE ApproveCandidate(a)
  BY <1>6, VerifiedFits DEF ApproveCandidate, Decide
<1>7. CASE SetManualUrl(a)
  BY <1>7, VerifiedFits DEF SetManualUrl, Decide
<1>8. CASE ResetFailures(a)
  BY <1>8, ResetFits DEF ResetFailures, DecideNot
<1>9. CASE ChangeInterval(a)
  BY <1>9, NarrowFits DEF ChangeInterval, DecideNot
<1>10. CASE AdminLeave(a)
  BY <1>10 DEF AdminLeave, DecideNot
<1> QED
  BY <1>1, <1>2, <1>3, <1>4, <1>5, <1>6, <1>7, <1>8, <1>9, <1>10 DEF Request

LEMMA FitRequest ==
  ASSUME TypeOK, AllFit, NEW a \in Requests, Request(a)
  PROVE  AllFit'
<1>1. CASE AdminLoad(a)
  BY <1>1 DEF AdminLoad, AllFit, TypeOK, workerVars
<1>2. ASSUME NEW r, RowFit(r), Answer(a, r) PROVE AllFit'
  <2>1. RowFit(MainWebsiteRow)
    BY DEF MainWebsiteRow, RowFit, HealthFits
  <2> QED
    BY <1>2, <2>1 DEF Answer, AllFit, TypeOK, workerVars
<1> QED
  BY <1>1, <1>2, RequestFits

LEMMA FitNext == TypeOK /\ AllFit /\ [Next]_vars => AllFit'
<1> SUFFICES ASSUME TypeOK, AllFit, [Next]_vars PROVE AllFit'
  OBVIOUS
<1>1. CASE UNCHANGED vars
  BY <1>1 DEF vars, workerVars, adminVars, AllFit
<1>2. CASE Dispatcher
  <2>1. CASE TimePasses
    <3>1. RowFit(row')
      BY <2>1, NarrowFits DEF TimePasses, TypeOK, AllFit
    <3> QED
      BY <2>1, <3>1 DEF TimePasses, AllFit, workerVars, adminVars
  <2>2. CASE Refresh
    BY <2>2 DEF Refresh, AllFit, adminVars
  <2>3. CASE LockExpires
    BY <2>3 DEF LockExpires, AllFit, adminVars
  <2> QED
    BY <1>2, <2>1, <2>2, <2>3 DEF Dispatcher
<1> QED
  BY <1>1, <1>2, FitTask, FitRequest DEF Next

\* Health and failure counter never contradict each other.
THEOREM HealthAlwaysMatches == Spec => []HealthMatchesFailures
<1>1. AllFit => HealthMatchesFailures
  BY DEF AllFit, RowFit, HealthMatchesFailures
<1> QED
  BY <1>1, FitInit, FitNext, TypeCorrect, PTL DEF Spec

\* No active, verified company is out of the dispatcher's sight for ever.
THEOREM NoneIsForgotten == Spec => []NoneForgotten
<1>1. AllFit => NoneForgotten
  BY DEF AllFit, RowFit, NoneForgotten
<1> QED
  BY <1>1, FitInit, FitNext, TypeCorrect, PTL DEF Spec

-----------------------------------------------------------------------------
(* The decisions of admins *)

\* r and s agree on what only admins decide.
SameDecisions(r, s) ==
  /\ r.active = s.active
  /\ r.deleted = s.deleted
  /\ r.verified = s.verified

\* The instances that are not outdated carry the decisions of the row.
AllAgree ==
  /\ \A w \in Busy \ outdated : SameDecisions(inst[w], row)
  /\ \A a \in held \ outdated : SameDecisions(copy[a], row)

\* A task writes back the decisions of its instance.
LEMMA SavesKeepDecisions ==
  ASSUME NEW w \in Workers, inst[w] \in Row, NEW r \in Saves(w)
  PROVE  SameDecisions(r, inst[w])
<1>1. SameDecisions(Succeeded(inst[w]), inst[w])
  BY DEF Succeeded, Row, SameDecisions
<1>2. SameDecisions(Failed(inst[w]), inst[w])
  BY DEF Failed, SameDecisions
<1>3. SameDecisions([Failed(inst[w]) EXCEPT !.next = "later"], inst[w])
  BY DEF Failed, SameDecisions
<1> QED
  BY ONLY <1>1, <1>2, <1>3, r \in Saves(w) DEF Saves

LEMMA NarrowKeepsDecisions ==
  ASSUME NEW r \in Row, NEW c \in Row
  PROVE  /\ SameDecisions([r EXCEPT !.next = "later"], r)
         /\ SameDecisions([r EXCEPT !.next = "due"], r)
         /\ SameDecisions(Reset(r, c), r)
  BY DEF Row, Reset, SameDecisions

LEMMA DecisionsTask ==
  ASSUME TypeOK, AllAgree, NEW w \in Workers \ outdated, Task(w)
  PROVE  SameDecisions(row', row)
<1>0. row \in Row /\ inst[w] \in Row
  BY DEF TypeOK
<1>1. CASE row' \in {row, [row EXCEPT !.next = "later"]}
  BY <1>0, <1>1, NarrowKeepsDecisions DEF SameDecisions
<1>2. CASE Saved(w)
  <2>1. SameDecisions(row', inst[w])
    BY <1>0, <1>2, SavesKeepDecisions DEF Saved
  <2>2. SameDecisions(inst[w], row)
    BY <1>2 DEF AllAgree, Saved
  <2> QED
    BY <2>1, <2>2 DEF SameDecisions
<1> QED
  BY <1>1, <1>2, TaskRows

\* An outdated save leaves only its own instance up to date.
LEMMA AgreeTask ==
  ASSUME TypeOK, AllAgree, NEW w \in Workers, Task(w)
  PROVE  AllAgree'
<1>0. held' = held /\ copy' = copy /\ row \in Row
  BY TaskRows DEF TypeOK
<1>1. CASE w \in outdated /\ Saved(w)
  <2>1. ASSUME NEW v \in Busy' \ outdated' PROVE SameDecisions(inst'[v], row')
    BY <1>1, <2>1 DEF Saved, SameDecisions
  <2>2. held \ outdated' = {}
    BY <1>1, ProcessAssumption DEF Saved, TypeOK
  <2> QED
    BY <1>0, <2>1, <2>2 DEF AllAgree
<1>2. CASE ~(w \in outdated /\ Saved(w))
  <2>1. SameDecisions(row', row)
    <3>1. CASE w \notin outdated
      BY <3>1, DecisionsTask
    <3>2. CASE w \in outdated
      BY <1>0, <1>2, <3>2, TaskRows, NarrowKeepsDecisions DEF SameDecisions
    <3> QED
      BY <3>1, <3>2
  <2>2. ASSUME NEW v \in Busy' \ outdated' PROVE SameDecisions(inst'[v], row')
    <3>0. v \in Workers /\ phase'[v] # "idle"
      BY DEF Busy
    <3>1. CASE inst'[v] = inst[v] /\ v \in Busy \ outdated
      BY <2>1, <3>1 DEF AllAgree, SameDecisions
    <3>2. CASE inst'[v] = row'
      BY <3>2 DEF SameDecisions
    <3> QED
      BY <2>2, <3>0, <3>1, <3>2, TaskRows DEF Follows
  <2>3. ASSUME NEW a \in held \ outdated' PROVE SameDecisions(copy[a], row')
    BY <2>1, TaskRows DEF AllAgree, SameDecisions
  <2> QED
    BY <1>0, <2>2, <2>3 DEF AllAgree
<1> QED
  BY <1>1, <1>2

\* A request that decides leaves only outdated instances behind; the others
\* keep the decisions of the row.
LEMMA AgreeRequest ==
  ASSUME TypeOK, AllAgree, NEW a \in Requests, Request(a)
  PROVE  AllAgree'
<1>0. row \in Row /\ copy[a] \in Row /\ a \notin Busy
  BY ProcessAssumption DEF TypeOK, Busy
<1>1. CASE AdminLoad(a)
  BY <1>1 DEF AdminLoad, AllAgree, Busy, SameDecisions, TypeOK, workerVars
<1>2. ASSUME NEW r, Decide(a, r) PROVE AllAgree'
  <2>1. Busy' = Busy /\ held' = held \ {a} /\ outdated' = (Busy \cup held) \ {a}
    BY <1>2 DEF Decide, Answer, Busy, workerVars
  <2> QED
    BY <1>0, <2>1 DEF AllAgree
<1>3. ASSUME NEW r, SameDecisions(r, row), DecideNot(a, r) PROVE AllAgree'
  <2>1. Busy' = Busy /\ held' = held \ {a} /\ outdated' = outdated \ {a} /\ inst' = inst /\ row' = r
    BY <1>3 DEF DecideNot, Answer, Busy, workerVars
  <2>2. \A b \in held' : copy'[b] = copy[b]
    BY <1>3, <2>1 DEF DecideNot, Answer, TypeOK
  <2> QED
    BY <1>0, <1>3, <2>1, <2>2 DEF AllAgree, SameDecisions
<1>4. \/ AdminLoad(a)
      \/ \E r : Decide(a, r)
      \/ \E r : SameDecisions(r, row) /\ DecideNot(a, r)
  <2>1. CASE ResetFailures(a)
    BY <1>0, <2>1, NarrowKeepsDecisions DEF ResetFailures
  <2>2. CASE ChangeInterval(a)
    BY <1>0, <2>2, NarrowKeepsDecisions DEF ChangeInterval
  <2>3. CASE AdminLeave(a)
    BY <2>3 DEF AdminLeave, SameDecisions
  <2> QED
    BY <2>1, <2>2, <2>3 DEF Request, PauseCompany, ResumeCompany, ArchiveCompany, UnarchiveCompany,
       UnverifyCompany, ApproveCandidate, SetManualUrl
<1> QED
  BY <1>1, <1>2, <1>3, <1>4

LEMMA AgreeNext == TypeOK /\ AllAgree /\ [Next]_vars => AllAgree'
<1> SUFFICES ASSUME TypeOK, AllAgree, [Next]_vars PROVE AllAgree'
  OBVIOUS
<1>1. CASE UNCHANGED vars
  BY <1>1 DEF vars, workerVars, adminVars, AllAgree, Busy
<1>2. CASE TimePasses
  <2>1. SameDecisions(row', row)
    BY <1>2, NarrowKeepsDecisions DEF TimePasses, TypeOK
  <2> QED
    BY <1>2, <2>1 DEF TimePasses, AllAgree, Busy, SameDecisions, workerVars, adminVars
<1>3. CASE Refresh
  BY <1>3 DEF Refresh, AllAgree, Busy, adminVars
<1>4. CASE LockExpires
  BY <1>4 DEF LockExpires, AllAgree, Busy, adminVars
<1> QED
  BY <1>1, <1>2, <1>3, <1>4, AgreeTask, AgreeRequest DEF Next, Dispatcher

\* Whether a company is active, archived and verified is the admins' alone to
\* decide: a task writes over such a decision only what it has loaded before it.
THEOREM TasksDecideNothing == Spec => DecisionsStand
<1>1. Init => AllAgree
  BY DEF Init, AllAgree, Busy
<1>2. ASSUME TypeOK, AllAgree, NEW w \in Workers \ outdated, Task(w)
      PROVE  /\ row'.deleted = row.deleted
             /\ row'.verified = row.verified
             /\ row'.active = row.active
  BY <1>2, DecisionsTask DEF SameDecisions
<1>3. TypeOK /\ AllAgree /\ [Next]_vars
      => [\A w \in Workers \ outdated : Task(w) =>
            /\ row'.deleted = row.deleted
            /\ row'.verified = row.verified
            /\ row'.active => row.active
            /\ row.active /\ ~row'.active => row'.failures >= 5]_vars
  BY <1>2
<1> QED
  BY <1>1, <1>3, AgreeNext, TypeCorrect, PTL DEF Spec, DecisionsStand

-----------------------------------------------------------------------------
(* The lock scrape:<id> *)

\* At most one run, and none without the lock.
OneLockedRun ==
  /\ \A v, w \in Running : v = w
  /\ Running # {} => locked

LEMMA LeaseTask ==
  ASSUME TypeOK, OneLockedRun, NEW w \in Workers, Task(w)
  PROVE  /\ OneLockedRun'
         /\ [ScrapeLease!Next]_<<Running, locked>>
<1> DEFINE Goal == OneLockedRun' /\ [ScrapeLease!Next]_<<Running, locked>>
<1>1. ASSUME UNCHANGED locked, Running' = Running PROVE Goal
  BY <1>1 DEF OneLockedRun
<1>2. ASSUME w \in Running, Running' = Running \ {w}, locked' \in {locked, FALSE} PROVE Goal
  <2>1. Running = {w} /\ Running' = {} /\ locked' \in {TRUE, FALSE}
    BY <1>2 DEF OneLockedRun, TypeOK
  <2> QED
    BY <2>1 DEF OneLockedRun, ScrapeLease!Next, ScrapeLease!Leave
<1>3. ASSUME Idle(w) PROVE Running' = Running \ {w}
  BY <1>3 DEF Idle, Running, TypeOK
<1>4. ASSUME NEW q \in Queues, Take(w, q) PROVE Goal
  <2>1. Running' = Running
    BY <1>4 DEF Take, Running, TypeOK
  <2> QED
    BY <1>1, <1>4, <2>1 DEF Take
<1>5. CASE Lock(w)
  <2>1. Running = {} /\ Running' = {w}
    BY <1>5 DEF Lock, Running, OneLockedRun, TypeOK
  <2> QED
    BY <1>5, <2>1 DEF Lock, OneLockedRun, ScrapeLease!Next, ScrapeLease!Enter
<1>6. CASE Skip(w)
  BY <1>1, <1>3, <1>6 DEF Skip, Running
<1>7. CASE RunSucceeds(w) \/ RunFindsNothing(w) \/ RunFails(w) \/ Adapt(w)
  <2>1. Running' = Running /\ locked' = locked
    BY <1>7 DEF RunSucceeds, RunFindsNothing, RunFails, Adapt, SaveInstance, Running, TypeOK
  <2> QED
    BY <1>1, <2>1
<1>8. CASE Defer(w)
  BY <1>2, <1>3, <1>8 DEF Defer, Running
<1>9. CASE FetchRetry(w)
  BY <1>2, <1>3, <1>9 DEF FetchRetry, Running
<1>10. CASE Finish(w)
  BY <1>2, <1>3, <1>10 DEF Finish
<1>11. CASE Crash(w)
  <2>1. CASE w \in Running
    BY <1>2, <1>3, <1>11, <2>1 DEF Crash
  <2>2. CASE w \notin Running
    BY <1>1, <1>3, <1>11, <2>2 DEF Crash
  <2> QED
    BY <2>1, <2>2
<1> QED
  BY <1>4, <1>5, <1>6, <1>7, <1>8, <1>9, <1>10, <1>11 DEF Task

LEMMA LeaseNext ==
  ASSUME TypeOK, OneLockedRun, [Next]_vars
  PROVE  /\ OneLockedRun'
         /\ [ScrapeLease!Next]_<<Running, locked>>
<1>1. CASE UNCHANGED <<phase, locked>>
  <2>1. Running' = Running
    BY <1>1 DEF Running
  <2> QED
    BY <1>1, <2>1 DEF OneLockedRun
<1>2. CASE LockExpires
  <2>1. Running = {} /\ Running' = {}
    BY <1>2 DEF LockExpires, Running
  <2> QED
    BY <1>2, <2>1 DEF LockExpires, OneLockedRun, ScrapeLease!Next, ScrapeLease!Free
<1>3. ASSUME NEW a \in Requests, Request(a) PROVE UNCHANGED <<phase, locked>>
  BY <1>3 DEF Request, AdminLoad, PauseCompany, ResumeCompany, ArchiveCompany, UnarchiveCompany,
     UnverifyCompany, ApproveCandidate, SetManualUrl, ResetFailures, ChangeInterval, AdminLeave,
     Decide, DecideNot, Answer, workerVars
<1> QED
  BY <1>1, <1>2, <1>3, LeaseTask
  DEF Next, Dispatcher, TimePasses, Refresh, vars, workerVars

\* The scrape tasks of a company use its lock as the lease allows.
THEOREM ScrapesKeepTheLease == Spec => KeepsLease
<1>1. Init => OneLockedRun /\ ScrapeLease!Init
  BY DEF Init, OneLockedRun, Running, ScrapeLease!Init
<1> QED
  BY <1>1, LeaseNext, TypeCorrect, PTL DEF Spec, KeepsLease, ScrapeLease!Spec
-----------------------------------------------------------------------------
(***************************************************************************)
(* redis_lock, for any number of clients: the other side of Lease.         *)
(***************************************************************************)

\* The initial state is well typed, and every step keeps the types.
LEMMA LockTypeInit == LockInit => LockTypeOK
  BY DEF LockInit, LockTypeOK

LEMMA LockTypeNext == LockTypeOK /\ [LockNext]_lockVars => LockTypeOK'
<1> SUFFICES ASSUME LockTypeOK, [LockNext]_lockVars PROVE LockTypeOK'
  OBVIOUS
<1> USE DEF LockTypeOK, Goto
<1>1. CASE Expire
  BY <1>1 DEF Expire
<1>2. ASSUME NEW c \in Clients, Client(c) PROVE LockTypeOK'
  <2>1. CASE Call(c)
    BY <2>1 DEF Call
  <2>2. CASE Acquire(c)
    BY <2>2 DEF Acquire
  <2>3. CASE GiveUp(c)
    BY <2>3 DEF GiveUp
  <2>4. CASE Leave(c)
    BY <2>4 DEF Leave
  <2>5. CASE Compare(c)
    BY <2>5 DEF Compare
  <2>6. CASE Delete(c)
    BY <2>6 DEF Delete
  <2>7. CASE Abandon(c)
    BY <2>7 DEF Abandon
  <2> QED
    BY <1>2, <2>1, <2>2, <2>3, <2>4, <2>5, <2>6, <2>7 DEF Client
<1>3. CASE UNCHANGED lockVars
  BY <1>3 DEF lockVars
<1> QED
  BY <1>1, <1>2, <1>3 DEF LockNext

\* Every reachable state of redis_lock is well typed, overstaying clients or not.
THEOREM LockTypeCorrect == LockSpec => []LockTypeOK
  BY LockTypeInit, LockTypeNext, PTL DEF LockSpec

-----------------------------------------------------------------------------
\* The clients that rely on their token being under the key.
Owner(c) == pc[c] \in {"in", "leaving", "checked"}

\* When no client overstays, a step keeps the tokens of its owners: the key only
\* changes when nobody owns it, or when its owner deletes it.
LEMMA OwnersNext ==
  ASSUME Overstays = {}, LockTypeOK, HoldersOwnTheKey, [LockNext]_lockVars
  PROVE  HoldersOwnTheKey'
<1> SUFFICES ASSUME NEW d \in Clients, Owner(d)' PROVE key' = d
  BY DEF HoldersOwnTheKey, Owner
<1> USE ClientsAssumption DEF LockTypeOK, HoldersOwnTheKey, Owner, Goto
<1>1. CASE Expire
  BY <1>1 DEF Expire
<1>2. ASSUME NEW c \in Clients, Client(c) PROVE key' = d
  <2>1. CASE Call(c)
    BY <2>1 DEF Call
  <2>2. CASE Acquire(c)
    BY <2>2 DEF Acquire
  <2>3. CASE GiveUp(c)
    BY <2>3 DEF GiveUp
  <2>4. CASE Leave(c)
    BY <2>4 DEF Leave
  <2>5. CASE Compare(c)
    BY <2>5 DEF Compare
  <2>6. CASE Delete(c)
    BY <2>6 DEF Delete
  <2>7. CASE Abandon(c)
    BY <2>7 DEF Abandon
  <2> QED
    BY <1>2, <2>1, <2>2, <2>3, <2>4, <2>5, <2>6, <2>7 DEF Client
<1>3. CASE UNCHANGED lockVars
  BY <1>3 DEF lockVars
<1> QED
  BY <1>1, <1>2, <1>3 DEF LockNext

\* When no client overstays, whoever works or is about to delete the key still
\* has its token there: nobody else works, and no release frees a lock of others.
THEOREM OwnersKeepTheKey == ASSUME Overstays = {} PROVE LockSpec => []HoldersOwnTheKey
<1>1. LockInit => HoldersOwnTheKey
  BY DEF LockInit, HoldersOwnTheKey
<1> QED
  BY <1>1, LockTypeCorrect, OwnersNext, PTL DEF LockSpec

-----------------------------------------------------------------------------
\* Each step of redis_lock is a step of the lease or is invisible to it.
LEMMA LockLeaseNext ==
  ASSUME Overstays = {}, LockTypeOK, HoldersOwnTheKey, [LockNext]_lockVars
  PROVE  [Abstract!Next]_<<Working, key # None>>
<1> USE ClientsAssumption DEF LockTypeOK, HoldersOwnTheKey, Goto, Working
<1>1. CASE Expire
  <2>1. Working = {} /\ Working' = {}
    BY <1>1 DEF Expire
  <2> QED
    BY <1>1, <2>1 DEF Expire, Abstract!Next, Abstract!Free
<1>2. ASSUME NEW c \in Clients, Client(c)
      PROVE  [Abstract!Next]_<<Working, key # None>>
  <2>1. CASE Call(c)
    BY <2>1 DEF Call
  <2>2. CASE Acquire(c)
    <3>1. Working = {} /\ Working' = {c}
      BY <2>2 DEF Acquire
    <3> QED
      BY <2>2, <3>1 DEF Acquire, Abstract!Next, Abstract!Enter
  <2>3. CASE GiveUp(c)
    BY <2>3 DEF GiveUp
  <2>4. CASE Leave(c)
    <3>1. Working = {c} /\ Working' = {}
      BY <2>4 DEF Leave
    <3> QED
      BY <2>4, <3>1 DEF Leave, Abstract!Next, Abstract!Leave
  <2>5. CASE Compare(c)
    BY <2>5 DEF Compare
  <2>6. CASE Delete(c)
    <3>1. Working = {} /\ Working' = {}
      BY <2>6 DEF Delete
    <3> QED
      BY <2>6, <3>1 DEF Delete, Abstract!Next, Abstract!Free
  <2>7. CASE Abandon(c)
    <3>1. CASE pc[c] = "in"
      <4>1. Working = {c} /\ Working' = {}
        BY <2>7, <3>1 DEF Abandon
      <4> QED
        BY <2>7, <3>1, <4>1 DEF Abandon, Abstract!Next, Abstract!Leave
    <3>2. CASE pc[c] # "in"
      BY <2>7, <3>2 DEF Abandon
    <3> QED
      BY <3>1, <3>2
  <2> QED
    BY <1>2, <2>1, <2>2, <2>3, <2>4, <2>5, <2>6, <2>7 DEF Client
<1>3. CASE UNCHANGED lockVars
  BY <1>3 DEF lockVars
<1> QED
  BY <1>1, <1>2, <1>3 DEF LockNext

\* When no client overstays, redis_lock implements the lease that the scrape
\* tasks and the dispatcher rely on, although its release takes two steps.
THEOREM LeaseImplemented == ASSUME Overstays = {} PROVE LockSpec => ImplementsLease
<1>1. LockInit => Abstract!Init
  BY DEF LockInit, Abstract!Init, Working
<1> QED
  BY <1>1, LockTypeCorrect, OwnersKeepTheKey, LockLeaseNext, PTL
     DEF LockSpec, ImplementsLease, Abstract!Spec
=============================================================================
