---------------------------- MODULE CareerDetection ----------------------------
(***************************************************************************)
(* How one company gets its career URL: detection runs propose candidates  *)
(* (src/apps/career_detection/services.py), admins approve one, reject the *)
(* others, or set a URL by hand (src/apps/companies/services.py), and a    *)
(* scrape task writes back the instance of the company it has held.        *)
(***************************************************************************)
CONSTANTS
  Urls,       \* the (normalized) URLs that matter for this company
  Detectors,  \* workers that run detection
  Requests,   \* concurrent admin requests
  Scrapes,    \* scrape tasks
  None        \* no URL (career_url = ""), no owner of the lock

ASSUME NoneAssumption == None \notin Urls \cup Detectors

VARIABLES
  company,  \* the columns of the company row
  cand,     \* cand[u]: status of the CareerCandidateUrl row for u, if any
  source,   \* source[u]: the CompanySource row for u, if any
  pc,       \* pc[d]: how far detector d is with a run
  lock,     \* the owner of the key detect:<id>
  held,     \* the admin requests that have loaded their objects
  pick,     \* pick[a]: the candidate it has loaded, or None for the company
  copy,     \* copy[a]: its instance of the company
  approving, \* the request whose approval is between its statements, if any
  swept,    \* the candidates that approval has rejected and not committed
  open,     \* the scrape tasks that hold an instance
  inst,     \* inst[t]: that instance
  stale,    \* history: a scrape task has written back an outdated instance
  late      \* history, up to then: candidates proposed between the statements of an approval

detectVars == <<pc, lock>>
adminVars  == <<held, pick, copy, approving, swept>>
scrapeVars == <<open, inst, stale, late>>
vars == <<company, cand, source, detectVars, adminVars, scrapeVars>>

-----------------------------------------------------------------------------
(* Rows.  An operator Op_Fault is Op with a fault that some property catches. *)

Company == [verified: BOOLEAN, deleted: BOOLEAN, url: Urls \cup {None},
            status: {"pending", "skipped", "verified", "manual", "needs_review", "not_found",
                     "failed", "candidates_found", "no_candidates"}]

\* What add_company_from_main_website inserts.
NewCompany == [verified |-> FALSE, deleted |-> FALSE, url |-> None, status |-> "pending"]

Pending == {u \in Urls : cand[u] = "pending"}

\* Nothing is left to detect.
Settled(c) == c.deleted \/ (c.verified /\ c.url # None)

\* The pending candidates are rejected.
RejectPending == [u \in Urls |-> IF cand[u] = "pending" THEN "rejected" ELSE cand[u]]

\* u becomes the current source and the one before is retired.
NewSource_KeepsOld(u) == [source EXCEPT ![u] = "current"]
NewSource_Replaces(u) == [v \in Urls |-> IF v = u THEN "current" ELSE "none"]
NewSource(u) ==
  [v \in Urls |-> IF v = u THEN "current" ELSE IF source[v] = "none" THEN "none" ELSE "retired"]

Init ==
  /\ \/ company = NewCompany /\ source = [u \in Urls |-> "none"]
     \* add_company_from_direct_career_url
     \/ \E u \in Urls, verify \in BOOLEAN :
          /\ company = [verified |-> verify, deleted |-> FALSE, url |-> u, status |-> "skipped"]
          /\ source = [v \in Urls |-> IF v = u THEN "current" ELSE "none"]
  /\ cand = [u \in Urls |-> "none"]
  /\ pc = [d \in Detectors |-> "idle"]
  /\ lock = None
  /\ held = {}
  /\ pick = [a \in Requests |-> None]
  /\ copy = [a \in Requests |-> NewCompany]
  /\ approving = {}
  /\ swept = {}
  /\ open = {}
  /\ inst = [t \in Scrapes |-> NewCompany]
  /\ stale = FALSE
  /\ late = {}

-----------------------------------------------------------------------------
(* Detection by d *)

\* run_detection takes the lock, and finds the company eligible in a short
\* transaction that inserts the DetectionRun as RUNNING.  The task that admins
\* and beat send skips some companies before; the management command does not.
Start(d) ==
  /\ pc[d] = "idle"
  /\ lock = None
  /\ ~Settled(company)
  /\ lock' = d
  /\ pc' = [pc EXCEPT ![d] = "run"]
  /\ UNCHANGED <<company, cand, source, adminVars, scrapeVars>>

\* After minutes of fetching, _persist_results reads the company again: the
\* run is superseded, or goes on to write.
Recheck(d) ==
  /\ pc[d] = "run"
  /\ pc' = [pc EXCEPT ![d] = IF Settled(company) THEN "done" ELSE "write"]
  /\ UNCHANGED <<company, cand, source, lock, adminVars, scrapeVars>>

\* _upsert_candidate: known candidates are updated, but their status is not.
Upserted(found) == [u \in Urls |-> IF u \in found /\ cand[u] = "none" THEN "pending" ELSE cand[u]]

\* The candidates that an approval between its statements has decided: their
\* rows are locked until it commits.
Locked == swept \cup {pick[a] : a \in approving}

\* History: what a run proposes while an approval is between its statements.
Late(found) ==
  IF approving = {} \/ stale THEN late ELSE late \cup {u \in found : cand[u] = "none"}

\* The run has ended as a row; it has found the URLs of found.  (Updating a
\* locked candidate, it would wait for an approval that waits for the company
\* row this transaction has locked: one of the two fails.)
Persist_Reopens(d, found, status) ==
  /\ pc[d] = "write"
  /\ found \cap Locked = {}
  /\ pc' = [pc EXCEPT ![d] = "done"]
  /\ company' = [company EXCEPT !.status = status]
  /\ cand' = [u \in Urls |-> IF u \in found THEN "pending" ELSE cand[u]]
  /\ UNCHANGED <<source, lock, adminVars, scrapeVars>>

Persist_KeepsStatus(d, found, status) ==
  /\ pc[d] = "write"
  /\ found \cap Locked = {}
  /\ pc' = [pc EXCEPT ![d] = "done"]
  /\ cand' = Upserted(found)
  /\ late' = Late(found)
  /\ UNCHANGED <<company, source, lock, adminVars, open, inst, stale>>

Persist(d, found, status) ==
  /\ pc[d] = "write"
  /\ found \cap Locked = {}
  /\ pc' = [pc EXCEPT ![d] = "done"]
  /\ company' = [company EXCEPT !.status = status]
  /\ cand' = Upserted(found)
  /\ late' = Late(found)
  /\ UNCHANGED <<source, lock, adminVars, open, inst, stale>>

\* The homepage could not be fetched, or what was found decides.  The runs share
\* the enumeration DetectionStatus with the companies, but not all its values.
Outcomes(found) ==
  {"failed", IF found = {} THEN "no_candidates" ELSE "candidates_found"}

\* An exception fails the run and, unless it is archived, the company.
Fail(d) ==
  /\ pc[d] \in {"run", "write"}
  /\ pc' = [pc EXCEPT ![d] = "done"]
  /\ company' = IF company.deleted THEN company ELSE [company EXCEPT !.status = "failed"]
  /\ UNCHANGED <<cand, source, lock, adminVars, scrapeVars>>

\* ... but not one raised while the results of a run whose budget was
\* exhausted are ranked and saved: the run stays RUNNING.
Escape(d) ==
  /\ pc[d] \in {"run", "write"}
  /\ pc' = [pc EXCEPT ![d] = "done"]
  /\ UNCHANGED <<company, cand, source, lock, adminVars, scrapeVars>>

\* The lock is released, by its owner only.
Release(d) ==
  /\ pc[d] = "done"
  /\ pc' = [pc EXCEPT ![d] = "idle"]
  /\ lock' = IF lock = d THEN None ELSE lock
  /\ UNCHANGED <<company, cand, source, adminVars, scrapeVars>>

\* The worker is killed.
Crash(d) ==
  /\ pc[d] # "idle"
  /\ pc' = [pc EXCEPT ![d] = "idle"]
  /\ UNCHANGED <<company, cand, source, lock, adminVars, scrapeVars>>

\* The lock's 300 seconds are the budget of the fetches alone.
LockExpires ==
  /\ lock # None
  /\ lock' = None
  /\ UNCHANGED <<company, cand, source, pc, adminVars, scrapeVars>>

Detect(d) ==
  \/ Start(d)
  \/ Recheck(d)
  \/ \E found \in SUBSET Urls : \E status \in Outcomes(found) : Persist(d, found, status)
  \/ Fail(d)
  \/ Escape(d)
  \/ Release(d)
  \/ Crash(d)

-----------------------------------------------------------------------------
(* Admin requests *)

\* A request loads a candidate together with its company, or the company.  Of
\* a decided candidate it goes no further.
Load(a, u) ==
  /\ a \notin held
  /\ u = None \/ u \in Pending
  /\ held' = held \cup {a}
  /\ pick' = [pick EXCEPT ![a] = u]
  /\ copy' = [copy EXCEPT ![a] = company]
  /\ UNCHANGED <<company, cand, source, approving, swept, detectVars, scrapeVars>>

\* Request a ends, and with it the approval it was in.
Leaves(a) ==
  /\ a \in held
  /\ approving' = approving \ {a}
  /\ swept' = IF a \in approving THEN {} ELSE swept
  /\ held' = held \ {a}
  /\ pick' = [pick EXCEPT ![a] = None]
  /\ copy' = [copy EXCEPT ![a] = NewCompany]

\* approve_career_candidate, first statements: its instance is what its guards
\* look at, the unique constraints look at the rows (a second approval waits for
\* the first).  Of the other candidates those that are pending are rejected;
\* nobody sees any of it before the commit.  (Its instance is done with: the
\* columns to be saved are set, not kept.)
ApproveDecide(a) ==
  LET u == pick[a] IN
  /\ a \in held
  /\ u # None
  /\ approving = {}
  /\ copy[a].verified => copy[a].url \in {None, u}
  /\ \A v \in Urls \ {u} : cand[v] # "approved"
  /\ approving' = {a}
  /\ swept' = Pending \ {u}
  /\ copy' = [copy EXCEPT ![a] = NewCompany]
  /\ UNCHANGED <<company, cand, source, held, pick, detectVars, scrapeVars>>

\* The candidates when the approval of u commits.
Decided(u) ==
  [v \in Urls |-> IF v = u THEN "approved" ELSE IF v \in swept THEN "rejected" ELSE cand[v]]

\* ... last statements, and the commit.  The isolation is READ COMMITTED: what
\* others have committed since the first statements stays.
ApproveSave_NoSource(a) ==
  LET u == pick[a] IN
  /\ a \in approving
  /\ u # None
  /\ source[u] = "none"
  /\ cand' = Decided(u)
  /\ company' = [company EXCEPT !.url = u, !.status = "verified", !.verified = TRUE]
  /\ Leaves(a)
  /\ UNCHANGED <<source, detectVars, scrapeVars>>

ApproveSave(a) ==
  LET u == pick[a] IN
  /\ a \in approving
  /\ u # None
  /\ source[u] = "none"
  /\ cand' = Decided(u)
  /\ company' = [company EXCEPT !.url = u, !.status = "verified", !.verified = TRUE]
  /\ source' = NewSource(u)
  /\ Leaves(a)
  /\ UNCHANGED <<detectVars, scrapeVars>>

\* reject_career_candidate; it waits for a locked row.
Reject(a) ==
  LET u == pick[a] IN
  /\ u # None
  /\ u \notin Locked
  /\ cand' = [cand EXCEPT ![u] = "rejected"]
  /\ company' = IF copy[a].status = "needs_review" /\ Pending \subseteq {u}
                THEN [company EXCEPT !.status = "not_found"]
                ELSE company
  /\ Leaves(a)
  /\ UNCHANGED <<source, detectVars, scrapeVars>>

\* set_manual_career_url saves the whole instance, unless u has been a source
\* of this company before: then inserting it raises.
SetManualUrl(a, u) ==
  /\ pick[a] = None
  /\ IF source[u] = "none"
     THEN /\ source' = NewSource(u)
          /\ company' = [copy[a] EXCEPT !.url = u, !.status = "manual", !.verified = TRUE]
     ELSE UNCHANGED <<company, source>>
  /\ Leaves(a)
  /\ UNCHANGED <<cand, detectVars, scrapeVars>>

\* verify_selected of the company admin, the one caller.
VerifySelected(a) == copy[a].url # None /\ SetManualUrl(a, copy[a].url)

\* request_redetection.
Redetect(a) ==
  /\ pick[a] = None
  /\ Pending \cap Locked = {}
  /\ cand' = RejectPending
  /\ company' = [company EXCEPT !.status = "pending"]
  /\ Leaves(a)
  /\ UNCHANGED <<source, detectVars, scrapeVars>>

\* The services that save a column or two of the company.
Narrow(a, c) ==
  /\ pick[a] = None
  /\ company' = c
  /\ Leaves(a)
  /\ UNCHANGED <<cand, source, detectVars, scrapeVars>>

Unverify(a) == Narrow(a, [company EXCEPT !.verified = FALSE])
Archive(a) == Narrow(a, [company EXCEPT !.deleted = TRUE])
Unarchive(a) == Narrow(a, [company EXCEPT !.deleted = FALSE])

\* The request does something else, or its transaction is rolled back.
Leave(a) ==
  /\ Leaves(a)
  /\ UNCHANGED <<company, cand, source, detectVars, scrapeVars>>

Request(a) ==
  \/ \E u \in Urls \cup {None} : Load(a, u)
  \/ ApproveDecide(a)
  \/ ApproveSave(a)
  \/ Reject(a)
  \/ \E u \in Urls : SetManualUrl(a, u)
  \/ Redetect(a)
  \/ Unverify(a)
  \/ Archive(a)
  \/ Unarchive(a)
  \/ Leave(a)

-----------------------------------------------------------------------------
(* Scrape task t *)

ScrapeLoad(t) ==
  /\ t \notin open
  /\ ~company.deleted
  /\ open' = open \cup {t}
  /\ inst' = [inst EXCEPT ![t] = company]
  /\ UNCHANGED <<company, cand, source, stale, late, detectVars, adminVars>>

\* Every column of the instance is saved, those it never changed included.
ScrapeSave(t) ==
  /\ t \in open
  /\ company' = inst[t]
  /\ stale' = (stale \/ company # inst[t])
  /\ late' = IF stale' THEN {} ELSE late
  /\ UNCHANGED <<cand, source, open, inst, detectVars, adminVars>>

ScrapeEnd(t) ==
  /\ t \in open
  /\ open' = open \ {t}
  /\ inst' = [inst EXCEPT ![t] = NewCompany]
  /\ UNCHANGED <<company, cand, source, stale, late, detectVars, adminVars>>

Scrape(t) == ScrapeLoad(t) \/ ScrapeSave(t) \/ ScrapeEnd(t)

-----------------------------------------------------------------------------
Next ==
  \/ LockExpires
  \/ \E d \in Detectors : Detect(d)
  \/ \E a \in Requests : Request(a)
  \/ \E t \in Scrapes : Scrape(t)

Spec == Init /\ [][Next]_vars
-----------------------------------------------------------------------------
(* Properties *)

\* Type invariant: rows, instances and bookkeeping keep their types.
TypeOK ==
  /\ company \in Company
  /\ cand \in [Urls -> {"none", "pending", "approved", "rejected"}]
  /\ source \in [Urls -> {"none", "current", "retired"}]
  /\ pc \in [Detectors -> {"idle", "run", "write", "done"}]
  /\ lock \in Detectors \cup {None}
  /\ held \subseteq Requests
  /\ pick \in [Requests -> Urls \cup {None}]
  /\ copy \in [Requests -> Company]
  /\ approving \subseteq Requests
  /\ swept \subseteq Urls
  /\ open \subseteq Scrapes
  /\ inst \in [Scrapes -> Company]
  /\ stale \in BOOLEAN
  /\ late \subseteq Urls

\* The append-only history is complete: the career URL, even one that an
\* outdated instance brought back, and an approved candidate are in it.
HistoryComplete ==
  /\ company.url # None => source[company.url] # "none"
  /\ \A u \in Urls : cand[u] = "approved" => source[u] # "none"

\* As long as no scrape has written an outdated instance back, the current
\* source, if any, is the career URL, and there is one only.
CurrentIsCareerUrl == ~stale => \A u \in Urls : source[u] = "current" <=> company.url = u

\* As long as no scrape has written an outdated instance back, a company whose
\* candidate an admin approved (VERIFIED) has a career URL, and the only
\* candidates that wait for a decision are those a detection run committed
\* between the statements of an approval, after it had rejected the others: any
\* other run under way shows what it adds in detection_status.
ApprovalSettles ==
  ~stale /\ company.status = "verified" => company.url # None /\ Pending \subseteq late

\* Detection only proposes: whatever it finds, and however often, it changes
\* neither the company's URL and verification nor a decided candidate, and
\* only admins approve.
DetectionProposes ==
  [][\A d \in Detectors : Detect(d) =>
       /\ company'.url = company.url
       /\ company'.verified = company.verified
       /\ \A u \in Urls : cand'[u] # cand[u] => cand[u] = "none" /\ cand'[u] = "pending"]_vars
=============================================================================
