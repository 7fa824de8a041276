---------------------------- MODULE CompanySchedule ----------------------------
(***************************************************************************)
(* The scheduling and health columns of ONE company row, and everything    *)
(* that writes them: the ten-minute dispatcher and the scrape tasks of     *)
(* src/apps/scraping/tasks.py, and the admin services of                   *)
(* src/apps/companies/services.py.                                         *)
(*                                                                         *)
(* A task loads the company BEFORE it takes the lock scrape:<id>, works on *)
(* that instance for minutes, and writes every column of it back with a    *)
(* bare save().  An admin request also works on an instance it loaded,     *)
(* but mostly writes only the columns it names.                            *)
(***************************************************************************)
EXTENDS Integers, FiniteSets

CONSTANTS
  Workers,     \* celery worker processes
  Requests,    \* concurrent admin requests
  MaxTasks,    \* bound: scrape tasks of this company queued or being run,
               \* and messages for it in the queue scraping_browser
  MaxFailures  \* bound: largest consecutive_failures that is explored

ASSUME ProcessAssumption == Workers \cap Requests = {}
ASSUME BoundsAssumption == MaxTasks \in Nat /\ MaxFailures \in Nat /\ MaxFailures >= 5

VARIABLES
  row,     \* the columns of the company in the database
  queue,   \* queue[q]: scrape_company messages waiting in celery queue q
  locked,  \* the key lock:scrape:<id> exists in Redis
  phase,   \* phase[w]: how far worker w is with a scrape_company task
  inst,    \* inst[w]: its instance of the company
  forced,  \* the workers whose task has force_browser set
  held,    \* the admin requests that hold an instance
  copy,    \* copy[a]: that instance
  outdated \* history: the workers and requests whose instance was loaded before
           \* another's decision, or before an outdated instance was saved

workerVars == <<queue, locked, phase, inst, forced>>
adminVars  == <<held, copy>>
vars       == <<row, workerVars, adminVars, outdated>>

-----------------------------------------------------------------------------
(* Rows.  An operator Op_Fault is Op with a fault that some property catches. *)

Health == {"unknown", "healthy", "degraded", "failing", "paused"}
Queues == {"scraping", "scraping_browser"}

\* next is next_scrape_at: NULL, in the future, or past.
Row == [active: BOOLEAN, deleted: BOOLEAN, verified: BOOLEAN,
        health: Health, failures: 0..MaxFailures, next: {"never", "later", "due"}]

\* What add_company_from_main_website inserts: nothing to scrape yet.
MainWebsiteRow ==
  [active |-> TRUE, deleted |-> FALSE, verified |-> FALSE,
   health |-> "unknown", failures |-> 0, next |-> "never"]

\* What add_company_from_direct_career_url inserts.
DirectRow(verify) == [MainWebsiteRow EXCEPT !.verified = verify, !.next = "later"]

\* _update_company_health, and step 11 of a run that found nothing.
Failed(r) ==
  [active   |-> r.active,
   deleted  |-> r.deleted,
   verified |-> r.verified,
   health   |-> IF r.failures + 1 >= 5 THEN "failing"
                ELSE IF r.failures + 1 >= 2 THEN "degraded" ELSE r.health,
   failures |-> r.failures + 1,
   next     |-> r.next]

\* record_scrape_outcome of a success, and step 11 of a run that found jobs.
Succeeded_Resumes(r) ==
  [r EXCEPT !.active = TRUE, !.failures = 0, !.health = "healthy", !.next = "later"]
Succeeded(r) == [r EXCEPT !.failures = 0, !.health = "healthy", !.next = "later"]

\* What the admin services write over the row r.
Paused_KeepsActive(r) == [r EXCEPT !.health = "paused", !.next = "never"]
Paused(r) == [r EXCEPT !.active = FALSE, !.health = "paused", !.next = "never"]
Resumed_KeepsFailures(r) == [r EXCEPT !.active = TRUE, !.health = "unknown", !.next = "later"]
Resumed(r) == [r EXCEPT !.active = TRUE, !.health = "unknown", !.failures = 0, !.next = "later"]
Verified(r) == [r EXCEPT !.verified = TRUE, !.health = "unknown", !.failures = 0, !.next = "later"]

\* reset_scrape_failures decides by the instance c what to write over r.
Reset(r, c) ==
  [r EXCEPT !.failures = 0, !.health = IF c.health = "paused" THEN "paused" ELSE "unknown"]

\* The rows refresh_all_companies dispatches.
Dispatchable(r) ==
  /\ r.verified
  /\ r.active
  /\ ~r.deleted
  /\ r.health # "failing"
  /\ r.next = "due"

-----------------------------------------------------------------------------
\* The workers with a task, and those inside the lock.
Busy == {w \in Workers : phase[w] # "idle"}
Running == {w \in Workers : phase[w] \in {"run", "saved", "done"}}

Init ==
  /\ row \in {MainWebsiteRow, DirectRow(TRUE), DirectRow(FALSE)}
  /\ queue = [q \in Queues |-> 0]
  /\ locked = FALSE
  /\ phase = [w \in Workers |-> "idle"]
  /\ inst = [w \in Workers |-> MainWebsiteRow]
  /\ forced = {}
  /\ held = {}
  /\ copy = [a \in Requests |-> MainWebsiteRow]
  /\ outdated = {}

-----------------------------------------------------------------------------
(* Time and the dispatcher *)

\* next_scrape_at passes.
TimePasses ==
  /\ row.next = "later"
  /\ row' = [row EXCEPT !.next = "due"]
  /\ UNCHANGED <<workerVars, adminVars, outdated>>

\* Messages for this company in the queue scraping, and tasks under way.
Tasks == queue["scraping"] + Cardinality(Busy)

\* refresh_all_companies reaches this company.  It does not look whether a
\* message for the company is already queued.
Refresh ==
  /\ Dispatchable(row)
  /\ Tasks < MaxTasks
  /\ queue' = [queue EXCEPT !["scraping"] = @ + 1]
  /\ UNCHANGED <<row, locked, phase, inst, forced, adminVars, outdated>>

-----------------------------------------------------------------------------
(* A scrape_company task on worker w *)

\* Worker w drops its instance and is free for another task.
Idle(w) ==
  /\ phase' = [phase EXCEPT ![w] = "idle"]
  /\ inst' = [inst EXCEPT ![w] = MainWebsiteRow]
  /\ forced' = forced \ {w}
  /\ outdated' = outdated \ {w}

\* Its message goes back to its queue.
Requeue(w) ==
  LET q == IF w \in forced THEN "scraping_browser" ELSE "scraping"
  IN  queue' = [queue EXCEPT ![q] = @ + 1]

\* The task starts and loads the company, which the manager only finds alive.
Take(w, q) ==
  /\ phase[w] = "idle"
  /\ queue[q] > 0
  /\ queue' = [queue EXCEPT ![q] = @ - 1]
  /\ IF row.deleted
     THEN UNCHANGED <<phase, inst, forced>>
     ELSE /\ phase' = [phase EXCEPT ![w] = "loaded"]
          /\ inst' = [inst EXCEPT ![w] = row]
          /\ forced' = IF q = "scraping_browser" THEN forced \cup {w} ELSE forced
  /\ UNCHANGED <<row, locked, adminVars, outdated>>

Lock(w) ==
  /\ phase[w] = "loaded"
  /\ ~locked
  /\ locked' = TRUE
  /\ phase' = [phase EXCEPT ![w] = "run"]
  /\ UNCHANGED <<row, queue, inst, forced, adminVars, outdated>>

\* LockNotAcquired: the task is over.
Skip_Releases(w) ==
  /\ phase[w] = "loaded"
  /\ locked
  /\ locked' = FALSE
  /\ Idle(w)
  /\ UNCHANGED <<row, queue, adminVars>>

Skip(w) ==
  /\ phase[w] = "loaded"
  /\ locked
  /\ Idle(w)
  /\ UNCHANGED <<row, queue, locked, adminVars>>

\* Worker w saves every column of its instance, as r, and is then in phase p.
SaveInstance(w, r, p) ==
  /\ row' = r
  /\ inst' = [inst EXCEPT ![w] = r]
  /\ phase' = [phase EXCEPT ![w] = p]
  /\ outdated' = IF w \in outdated THEN (Busy \cup held) \ {w} ELSE outdated
  /\ UNCHANGED <<queue, locked, forced, adminVars>>

\* The page was not modified, or jobs were found on it.
RunSucceeds(w) ==
  /\ phase[w] = "run"
  /\ SaveInstance(w, Succeeded(inst[w]), "saved")

\* The run fetched and parsed the page, and no job came of it.
RunFindsNothing(w) ==
  /\ phase[w] = "run"
  /\ inst[w].failures < MaxFailures
  /\ SaveInstance(w, [Failed(inst[w]) EXCEPT !.next = "later"], "saved")

\* A permanent fetch error, a parse error, or any exception, also after the
\* company was saved: next_scrape_at is left as the instance has it.
RunFails(w) ==
  /\ phase[w] \in {"run", "saved"}
  /\ inst[w].failures < MaxFailures
  /\ SaveInstance(w, Failed(inst[w]), "done")

\* A trusted run that has found jobs changes the interval, in a narrow save.
Adapt(w) ==
  /\ phase[w] = "saved"
  /\ inst[w].health = "healthy"
  /\ w \notin forced
  /\ row' = [row EXCEPT !.next = "later"]
  /\ phase' = [phase EXCEPT ![w] = "done"]
  /\ UNCHANGED <<queue, locked, inst, forced, adminVars, outdated>>

\* The page needs a browser: try again in half an hour, and hand the company
\* to the browser queue.
Defer(w) ==
  /\ phase[w] = "run"
  /\ w \notin forced
  /\ queue["scraping_browser"] < MaxTasks
  /\ row' = [row EXCEPT !.next = "later"]
  /\ queue' = [queue EXCEPT !["scraping_browser"] = @ + 1]
  /\ locked' = FALSE
  /\ Idle(w)
  /\ UNCHANGED adminVars

\* A transient fetch error: celery retries the task, from its first line.
FetchRetry(w) ==
  /\ phase[w] = "run"
  /\ Requeue(w)
  /\ locked' = FALSE
  /\ Idle(w)
  /\ UNCHANGED <<row, adminVars>>

\* The task returns: after its saves, or early, with neither parser nor URL
\* for the source type, having saved nothing.
Finish(w) ==
  /\ w \in Running
  /\ locked' = FALSE
  /\ Idle(w)
  /\ UNCHANGED <<row, queue, adminVars>>

\* The worker is killed.  With acks_late its message is delivered again; the
\* lock, if it had it, stays.
Crash(w) ==
  /\ w \in Busy
  /\ Requeue(w)
  /\ Idle(w)
  /\ UNCHANGED <<row, locked, adminVars>>

\* The lock of a dead run expires.  A live one never does: its hour is ten
\* times the task's time limit.
LockExpires_Never == FALSE /\ UNCHANGED vars

LockExpires ==
  /\ locked
  /\ Running = {}
  /\ locked' = FALSE
  /\ UNCHANGED <<row, queue, phase, inst, forced, adminVars, outdated>>

-----------------------------------------------------------------------------
(* Admin requests *)

AdminLoad(a) ==
  /\ a \notin held
  /\ held' = held \cup {a}
  /\ copy' = [copy EXCEPT ![a] = row]
  /\ UNCHANGED <<row, workerVars, outdated>>

\* Request a ends having made r of the row.
Answer(a, r) ==
  /\ a \in held
  /\ row' = r
  /\ held' = held \ {a}
  /\ copy' = [copy EXCEPT ![a] = MainWebsiteRow]
  /\ UNCHANGED workerVars

\* ... and has decided whether the company is to be scraped.
Decide(a, r) ==
  /\ Answer(a, r)
  /\ outdated' = (Busy \cup held) \ {a}

\* ... and has decided nothing of the kind.
DecideNot(a, r) ==
  /\ Answer(a, r)
  /\ outdated' = outdated \ {a}

PauseCompany(a) == Decide(a, Paused(row))
ResumeCompany(a) == Decide(a, Resumed(row))
ArchiveCompany(a) == Decide(a, [row EXCEPT !.deleted = TRUE])
UnarchiveCompany(a) == Decide(a, [row EXCEPT !.deleted = FALSE])
UnverifyCompany(a) == Decide(a, [row EXCEPT !.verified = FALSE])

\* approve_career_candidate names its columns.
ApproveCandidate(a) == Decide(a, Verified(row))

\* set_manual_career_url saves the whole instance.
SetManualUrl(a) == Decide(a, Verified(copy[a]))

ResetFailures(a) == DecideNot(a, Reset(row, copy[a]))

\* update_scrape_interval, called for an admin.
ChangeInterval(a) == DecideNot(a, [row EXCEPT !.next = "later"])

\* The request ends without touching these columns.
AdminLeave(a) == DecideNot(a, row)

-----------------------------------------------------------------------------
Dispatcher == TimePasses \/ Refresh \/ LockExpires

Task(w) ==
  \/ \E q \in Queues : Take(w, q)
  \/ Lock(w)
  \/ Skip(w)
  \/ RunSucceeds(w)
  \/ RunFindsNothing(w)
  \/ RunFails(w)
  \/ Adapt(w)
  \/ Defer(w)
  \/ FetchRetry(w)
  \/ Finish(w)
  \/ Crash(w)

Request(a) ==
  \/ AdminLoad(a)
  \/ PauseCompany(a)
  \/ ResumeCompany(a)
  \/ ArchiveCompany(a)
  \/ UnarchiveCompany(a)
  \/ UnverifyCompany(a)
  \/ ApproveCandidate(a)
  \/ SetManualUrl(a)
  \/ ResetFailures(a)
  \/ ChangeInterval(a)
  \/ AdminLeave(a)

Next == \/ Dispatcher
        \/ \E w \in Workers : Task(w)
        \/ \E a \in Requests : Request(a)

Spec == Init /\ [][Next]_vars

\* The task is over: at the latest, the hard time limit kills it.
Ends(w) == Defer(w) \/ FetchRetry(w) \/ Finish(w) \/ Crash(w)

\* Time passes, beat keeps sending refresh_all_companies, a lock nobody holds
\* expires, a free worker of the queue scraping takes a message, a worker is not
\* killed each time it has loaded the company and is about to ask for the lock,
\* and a task ends.  Nothing is assumed of admins, nor of the queue scraping_browser, which no
\* worker of docker-compose.yml consumes.
Fairness ==
  /\ WF_vars(TimePasses)
  /\ WF_vars(Refresh)
  /\ WF_vars(LockExpires)
  /\ \A w \in Workers : /\ WF_vars(Take(w, "scraping"))
                        /\ SF_vars(Lock(w) \/ Skip(w))
                        /\ WF_vars(w \in Running /\ Ends(w))

FairSpec == Spec /\ Fairness
-----------------------------------------------------------------------------
(* Properties *)

\* Type invariant: every column, instance and bookkeeping variable keeps its type.
TypeOK ==
  /\ row \in Row
  /\ queue \in [Queues -> Nat]
  /\ locked \in BOOLEAN
  /\ phase \in [Workers -> {"idle", "loaded", "run", "saved", "done"}]
  /\ inst \in [Workers -> Row]
  /\ forced \subseteq Workers
  /\ held \subseteq Requests
  /\ copy \in [Requests -> Row]
  /\ outdated \subseteq Busy \cup held

\* The health that a row with r.failures failures in a row may show.  The ladder
\* of the tasks (2-4 degraded, from 5 on failing) is not the documented one (1-2
\* degraded, 3-4 failing, from 5 on paused): this is what either allows.
HealthFits(r) ==
  \/ r.health = "paused"
  \/ r.health \in {"unknown", "healthy"} /\ r.failures <= 1
  \/ r.health = "degraded" /\ r.failures \in 1..4
  \/ r.health = "failing" /\ r.failures >= 3

\* Although runs, retries and admin requests write scrape_health and
\* consecutive_failures from instances that may be outdated, the two columns
\* never contradict each other on both ladders: no company that has failed twice
\* in a row looks as if it had not, and none looks troubled that has not failed.
HealthMatchesFailures == HealthFits(row)

\* The dispatcher does not see rows whose next_scrape_at is NULL
\* (next_scrape_at__lte).  None that is verified and active has it, whatever
\* stale instance was saved last: such a row would never be scraped again.
NoneForgotten == row.active /\ row.verified => row.next # "never"

\* Only admins archive, verify and resume a company: a run whose instance is not
\* outdated changes none of that, however old its message is, and makes the
\* company inactive at five failures at most (the documented auto-pause, which
\* the tasks do not apply: FivePauses).
DecisionsStand ==
  [][\A w \in Workers \ outdated : Task(w) =>
        /\ row'.deleted = row.deleted
        /\ row'.verified = row.verified
        /\ row'.active => row.active
        /\ row.active /\ ~row'.active => row'.failures >= 5]_vars

\* A row the dispatcher would take now or when its time has come.
Scheduled == Dispatchable([row EXCEPT !.next = IF @ = "later" THEN "due" ELSE @])

(* The lock scrape:<id>, as every caller of redis_lock may rely on it *)

ScrapeLease == INSTANCE Lease WITH Clients <- Workers, working <- Running, taken <- locked

\* Tasks use the lock as Lease allows: a run starts only when no other is under
\* way and the lock is free, and a lock is freed only when its run is over.
KeepsLease == ScrapeLease!Spec

\* A scheduled company is eventually scraped, unless it stops being scheduled:
\* neither a lock left behind by a killed worker nor a message that was
\* skipped because of it can silence the company for ever.
ScheduledIsScraped == Scheduled ~> (Running # {} \/ ~Scheduled)

(* What the documentation says (docs/domain-model.md, section 4) *)

\* ">= 5: PAUSED, is_active=False, next_scrape_at=None (needs a human)".
FivePauses == row.failures >= 5 => row.health = "paused" /\ ~row.active /\ row.next = "never"
=============================================================================
