------------------------------- MODULE JobReview -------------------------------
(***************************************************************************)
(* One job row between its company's scrapes, the admins who publish,      *)
(* review and edit it, and the users who bookmark and report it            *)
(* (src/apps/jobs/services.py, views.py, admin.py).  Its status is the     *)
(* matter of JobLifecycle and may be any here, and report_count is left    *)
(* out, which is counted as save_count is.                                 *)
(*                                                                         *)
(* The scrape and an admin act on an instance they loaded before.  A bare  *)
(* save writes every column of it back, counters and flags that users have *)
(* changed meanwhile included; the history variable lost says which.       *)
(***************************************************************************)
EXTENDS Integers, FiniteSets

CONSTANTS
  Admins,      \* concurrent admin requests
  Users,       \* signed-in users
  Scraper,     \* the company's scrape
  Titles,      \* what the career page may call the job
  Threshold,   \* open reports that send a job to review
  MaxLost      \* bound: the columns outdated instances may overwrite

ASSUME ReviewAssumption ==
  /\ IsFiniteSet(Users)
  /\ Scraper \notin Admins
  /\ "edited" \notin Titles
  /\ Threshold \in Nat \ {0}
  /\ MaxLost \in Nat

Holders == Admins \cup {Scraper}

VARIABLES
  ats,     \* the company has a board
  row,     \* the columns of the job
  report,  \* report[u]: the newest JobReport of user u
  saved,   \* the users with a SavedJob row
  held,    \* the holders with an instance of the job
  copy,    \* copy[h]: the instance of holder h
  lost,    \* history: the columns an outdated instance has overwritten
  wanted,  \* history: what the last admin decision made of is_published, as far as
           \* it was about that
  decided  \* history: an admin has reviewed the job since users sent it to review

instances == <<held, copy, lost>>
history == <<wanted, decided>>
vars == <<ats, row, report, saved, instances, history>>

Columns == {"pub", "review", "title", "saves"}

\* title holds what manually_edited_fields protects: "edited" once an admin has.
Row == [pub : BOOLEAN, review : BOOLEAN, title : Titles \cup {"edited"},
        saves : 0..Cardinality(Users)]

\* _create_job: published if the company has a board and the confidence is 70 at
\* least, else queued for review.
Created(title, auto) ==
  [pub |-> auto, review |-> ~auto, title |-> title, saves |-> 0]

Init ==
  /\ ats \in BOOLEAN
  /\ \E title \in Titles, sure \in BOOLEAN : row = Created(title, ats /\ sure)
  /\ report = [u \in Users |-> "none"]
  /\ saved = {}
  /\ held = {}
  /\ copy = [h \in Holders |-> row]
  /\ lost = {}
  /\ wanted = "none"
  /\ decided = FALSE

-----------------------------------------------------------------------------
(* Instances *)

\* Where nobody holds an instance there is nothing to tell apart.
Drop(h) ==
  /\ held' = held \ {h}
  /\ copy' = [copy EXCEPT ![h] = row']

\* The columns in which the instance of h is outdated.
Outdated(h) == {c \in Columns : copy[h][c] # row[c]}

Lose(cols) ==
  /\ Cardinality(lost \cup cols) <= MaxLost
  /\ lost' = lost \cup cols

Load(h) ==
  /\ h \notin held
  /\ held' = held \cup {h}
  /\ copy' = [copy EXCEPT ![h] = row]
  /\ UNCHANGED <<ats, row, report, saved, lost, history>>

\* job.save(update_fields=cols), with the values of new.
SaveColumns(h, new, cols) ==
  /\ row' = [c \in Columns |-> IF c \in cols THEN new[c] ELSE row[c]]
  /\ Drop(h)
  /\ lost' = lost

\* job.save(): all columns but those in own are written as they were loaded.

SaveAll(h, new, own) ==
  /\ row' = new
  /\ Drop(h)
  /\ Lose(Outdated(h) \ own)

\* The handler finds nothing to write: if its instance is outdated that is a loss too.
SaveNothing(h, cols) ==
  /\ row' = row
  /\ Drop(h)
  /\ Lose(Outdated(h) \cap cols)

-----------------------------------------------------------------------------
(* The scrape *)

Retitled_Overwrites(job, title) == [job EXCEPT !.title = title]

\* _update_values leaves the fields alone that an admin has edited.
Retitled(job, title) == IF job.title = "edited" THEN job ELSE [job EXCEPT !.title = title]

\* _update_job with a payload that has a new title, differs otherwise (in content or
\* not), or brings the job back.  New content of a company without a board goes to
\* review; it stays published.
Sight_Hides(title, content) ==
  /\ Scraper \in held
  /\ LET job == Retitled(copy[Scraper], title)
         queued == ~ats /\ (content \/ job.title # copy[Scraper].title)
     IN SaveAll(Scraper, [job EXCEPT !.review = @ \/ queued, !.pub = @ /\ ~queued],
                {c \in {"review", "pub"} : queued})
  /\ UNCHANGED <<ats, report, saved, history>>

Sight(title, content) ==
  /\ Scraper \in held
  /\ LET job == Retitled(copy[Scraper], title)
         queued == ~ats /\ (content \/ job.title # copy[Scraper].title)
     IN SaveAll(Scraper, [job EXCEPT !.review = @ \/ queued], {c \in {"review"} : queued})
  /\ UNCHANGED <<ats, report, saved, history>>

\* The payload is what the row has: only last_seen_at and missing_count are written.
SightUnchanged ==
  /\ Scraper \in held
  /\ SaveNothing(Scraper, {})
  /\ UNCHANGED <<ats, report, saved, history>>

-----------------------------------------------------------------------------
(* Admins *)

Publish(a) ==
  /\ a \in held \cap Admins
  /\ IF copy[a].pub THEN SaveNothing(a, {"pub"})
     ELSE SaveColumns(a, [copy[a] EXCEPT !.pub = TRUE], {"pub"})
  /\ wanted' = "public"
  /\ UNCHANGED <<ats, report, saved, decided>>

\* By itself, or for every job of a company that is archived.
Unpublish(a) ==
  /\ a \in held \cap Admins
  /\ IF copy[a].pub THEN SaveColumns(a, [copy[a] EXCEPT !.pub = FALSE], {"pub"})
     ELSE SaveNothing(a, {"pub"})
  /\ wanted' = "hidden"
  /\ UNCHANGED <<ats, report, saved, decided>>

\* The row of the canonical job is left alone; the cycle check is the caller's error.
MarkDuplicate(a) ==
  /\ a \in held \cap Admins
  /\ SaveColumns(a, [copy[a] EXCEPT !.pub = FALSE], {"pub"})
  /\ wanted' = "hidden"
  /\ UNCHANGED <<ats, report, saved, decided>>

\* edit_job_fields takes the job out of the review queue as well.
Edit(a) ==
  /\ a \in held \cap Admins
  /\ SaveAll(a, [copy[a] EXCEPT !.title = "edited", !.review = FALSE], {"title", "review"})
  /\ decided' = TRUE
  /\ UNCHANGED <<ats, report, saved, wanted>>

Approve(a) ==
  /\ a \in held \cap Admins
  /\ SaveAll(a, [copy[a] EXCEPT !.review = FALSE, !.pub = TRUE], {"review", "pub"})
  /\ wanted' = "public"
  /\ decided' = TRUE
  /\ UNCHANGED <<ats, report, saved>>

\* The job stays published if it was, and unpublished if it was not.  Which of the
\* two a rejection means to make of a published job, code and label disagree on.
Reject(a) ==
  /\ a \in held \cap Admins
  /\ SaveAll(a, [copy[a] EXCEPT !.review = FALSE], {"review"})
  /\ decided' = TRUE
  /\ wanted' = IF wanted = "public" THEN "none" ELSE wanted
  /\ UNCHANGED <<ats, report, saved>>

\* resolve_report does not ask whether the report is open.
Resolve(u) ==
  /\ report[u] \in {"open", "resolved"}
  /\ report' = [report EXCEPT ![u] = "resolved"]
  /\ UNCHANGED <<ats, row, saved, instances, history>>

Leave(h) ==
  /\ h \in held
  /\ SaveNothing(h, {})
  /\ UNCHANGED <<ats, report, saved, history>>

-----------------------------------------------------------------------------
(* Users *)

\* SaveJobView answers "not found" unless the job is published, open and not deleted.
Live == row.pub

\* save_job and unsave_job count with F(), in the transaction of the bookmark.

Save(u) ==
  /\ Live
  /\ u \notin saved
  /\ saved' = saved \cup {u}
  /\ row' = [row EXCEPT !.saves = IF @ < Cardinality(Users) THEN @ + 1 ELSE @]
  /\ UNCHANGED <<ats, report, held, copy, lost, history>>

Unsave_NoCount(u) ==
  /\ Live
  /\ u \in saved
  /\ saved' = saved \ {u}
  /\ UNCHANGED <<ats, row, report, instances, history>>

Unsave(u) ==
  /\ Live
  /\ u \in saved
  /\ saved' = saved \ {u}
  /\ row' = [row EXCEPT !.saves = IF @ > 0 THEN @ - 1 ELSE @]
  /\ UNCHANGED <<ats, report, held, copy, lost, history>>

\* submit_job_report inserts the report, which others do not see before the commit.
Report(u) ==
  /\ row.pub
  /\ report[u] \in {"none", "resolved"}
  /\ report' = [report EXCEPT ![u] = "inserted"]
  /\ UNCHANGED <<ats, row, saved, instances, wanted, decided>>

Open(u) == {v \in Users : report[v] = "open"} \cup {u}

CountReport_Before(u) ==
  /\ report[u] = "inserted"
  /\ report' = [report EXCEPT ![u] = "open"]
  /\ row' = [row EXCEPT !.review = @ \/ Cardinality(Open(u) \ {u}) >= Threshold]
  /\ decided' = (decided /\ Cardinality(Open(u)) < Threshold)
  /\ UNCHANGED <<ats, saved, held, copy, lost, wanted>>

\* The increment of report_count locks the job, so the transactions count the open
\* reports one after the other, each seeing those committed before.
CountReport(u) ==
  /\ report[u] = "inserted"
  /\ report' = [report EXCEPT ![u] = "open"]
  /\ row' = [row EXCEPT !.review = @ \/ Cardinality(Open(u)) >= Threshold]
  /\ decided' = (decided /\ Cardinality(Open(u)) < Threshold)
  /\ UNCHANGED <<ats, saved, held, copy, lost, wanted>>

Admin(a) ==
  \/ Load(a)
  \/ Publish(a)
  \/ Unpublish(a)
  \/ MarkDuplicate(a)
  \/ Edit(a)
  \/ Approve(a)
  \/ Reject(a)
  \/ Leave(a)

User(u) ==
  \/ Save(u)
  \/ Unsave(u)
  \/ Report(u)
  \/ CountReport(u)
  \/ Resolve(u)

Next ==
  \/ Load(Scraper)
  \/ \E title \in Titles, content \in BOOLEAN : Sight(title, content)
  \/ SightUnchanged
  \/ \E a \in Admins : Admin(a)
  \/ \E u \in Users : User(u)

Spec == Init /\ [][Next]_vars
-----------------------------------------------------------------------------
(* Properties *)

\* Type invariant: the columns, the instances and what users have done.
TypeOK ==
  /\ ats \in BOOLEAN
  /\ row \in Row
  /\ report \in [Users -> {"none", "inserted", "open", "resolved"}]
  /\ saved \subseteq Users
  /\ held \subseteq Holders
  /\ copy \in [Holders -> Row]
  /\ lost \subseteq Columns
  /\ wanted \in {"none", "public", "hidden"}
  /\ decided \in BOOLEAN

\* save_count is the number of bookmarks, unless an outdated instance has overwritten it.
Counted == "saves" \notin lost => row.saves = Cardinality(saved)

\* A job with as many open reports as the threshold is in the review queue until an
\* admin decides, however the transactions of the reporters overlap.
ReportsReachReview ==
  Cardinality({u \in Users : report[u] = "open"}) >= Threshold /\ "review" \notin lost =>
    row.review \/ decided

\* What users do is heard: their bookmarks are counted and their reports reviewed.
UsersHeard == Counted /\ ReportsReachReview

\* What an admin has withdrawn stays so, and what one has published as long as no
\* review rejects it, whatever the scrape, the other reviews and the users do, unless
\* an outdated instance undoes it: new content sends a job to review and hides nothing.
PublicationFollowsAdmins ==
  "pub" \notin lost =>
    /\ wanted = "hidden" => ~row.pub
    /\ wanted = "public" => row.pub

\* Whatever the scrapes find, an edited field stays as the admin left it
\* (manually_edited_fields: "scraper never" overwrites it, domain-model.md).
EditsKept == [][row.title = "edited" /\ "title" \notin lost' => row'.title = "edited"]_vars

(* What the admin site says (src/apps/jobs/admin.py) *)

\* "Reject review (unpublished)": a job that waits for review is hidden when an admin
\* rejects it.
RejectionHides == [][\A a \in Admins : copy[a].review /\ Reject(a) => ~row'.pub]_vars
=============================================================================
