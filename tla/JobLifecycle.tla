---------------------------- MODULE JobLifecycle ----------------------------
(***************************************************************************)
(* The status life cycle of the job rows of ONE company                    *)
(* (src/apps/jobs/services.py), driven by the company's scrape run         *)
(* (src/apps/scraping/tasks.py, serialised by the lock scrape:company:id)  *)
(* and by admins working on the same rows at the same time.                *)
(*                                                                         *)
(* No handler re-reads or locks a row inside its transaction: each works   *)
(* on a model INSTANCE loaded earlier and writes back either the columns   *)
(* named in update_fields or, with a bare save(), every column.  A handler *)
(* is therefore two steps here, the load and the write, and the instance   *)
(* in between is part of the state.                                        *)
(***************************************************************************)
EXTENDS Integers

CONSTANTS
  Jobs,    \* identities of postings (what upsert_job matches a payload to)
  Admins,  \* concurrent admin requests
  None     \* "no job": an admin request that has loaded nothing

ASSUME NoneIsNoJob == None \notin Jobs

VARIABLES
  row,     \* row[j]: the lifecycle columns of job j in the database
  stored,  \* the jobs that have a row
  logged,  \* logged[j]: to_status of the newest JobStatusEvent of j
  phase,   \* where the scrape run is
  listing, \* the postings of the fetched page still to be upserted
  seen,    \* seen_job_ids: the postings upserted so far
  batch,   \* the rows the run holds instances of
  inst,    \* inst[j]: the run's instance of row j, for j in batch
  held,    \* held[a]: the job admin request a has loaded, or None
  copy,    \* copy[a]: its instance of that row
  torn     \* history: jobs for which a write or a timeline entry was based
           \* on an instance that no longer matched the row, or was lost

dbVars      == <<row, stored, logged>>
scraperVars == <<phase, listing, seen, batch, inst>>
adminVars   == <<held, copy>>
vars        == <<dbVars, scraperVars, adminVars, torn>>

-----------------------------------------------------------------------------
(* Rows.  An operator Op_Fault is Op with a fault that some property catches. *)

Status     == {"draft", "open", "possibly_closed", "likely_closed", "closed"}
MaxMissing == 3
Rung       == <<"possibly_closed", "likely_closed", "closed">>

\* The lifecycle columns.  closedAt says whether closed_at is set.
Row == [status: Status, missing: 0..MaxMissing, manual: BOOLEAN, closedAt: BOOLEAN]

\* The column defaults, which stand for "no instance" wherever none is held.
DefaultRow == [status |-> "draft", missing |-> 0, manual |-> FALSE, closedAt |-> FALSE]

\* What _create_job inserts.
CreatedRow == [DefaultRow EXCEPT !.status = "open"]

\* The columns mark_job_closed writes, and those reopen_job writes: all four.
Closed(r) == [r EXCEPT !.status = "closed", !.closedAt = TRUE, !.manual = TRUE]
Reopened_KeepsManual(r) == [CreatedRow EXCEPT !.manual = r.manual]
Reopened(r) == CreatedRow

\* The statuses upsert_job brings back to open, unless an admin set them.
Reopens_Any(r) == r.status \in {"possibly_closed", "likely_closed", "closed"}
Reopens(r) == /\ r.status \in {"possibly_closed", "likely_closed", "closed"}
              /\ ~r.manual

\* The instance _update_job saves: sighted, and reopened when it may be.
Sighted_KeepsClosedAt(r) ==
  [r EXCEPT !.status = IF Reopens(r) THEN "open" ELSE @, !.missing = 0]
Sighted_KeepsMissing(r) ==
  [r EXCEPT !.status = IF Reopens(r) THEN "open" ELSE @, !.closedAt = @ /\ ~Reopens(r)]
Sighted(r) ==
  [status   |-> IF Reopens(r) THEN "open" ELSE r.status,
   missing  |-> 0,
   manual   |-> r.manual,
   closedAt |-> r.closedAt /\ ~Reopens(r)]

\* The rows a strike round is about.
InScope(r) == /\ r.status \in {"open", "possibly_closed", "likely_closed"}
              /\ ~r.manual

\* An instance struck for the n-th time in a row.
StruckTimes(r, n) ==
  [status   |-> Rung[n],
   missing  |-> n,
   manual   |-> r.manual,
   closedAt |-> r.closedAt \/ Rung[n] = "closed"]

\* One strike against an instance.
Struck_TwoStrikes(r) == StruckTimes(r, IF r.missing = 0 THEN 1 ELSE MaxMissing)
Struck(r) ==
  StruckTimes(r, IF r.missing + 1 > MaxMissing THEN MaxMissing ELSE r.missing + 1)

\* What bulk_update makes of a row: it writes the other columns of the instance
\* but leaves is_manual_status as the database has it.
StruckOver(current, r) == [r EXCEPT !.manual = current.manual]

\* A strike that gets a timeline entry.
Moves_OnClose(r) == Struck(r).status = "closed"
Moves(r) == Struck(r).status # r.status

-----------------------------------------------------------------------------
Init ==
  /\ row = [j \in Jobs |-> DefaultRow]
  /\ stored = {}
  /\ logged = [j \in Jobs |-> "draft"]
  /\ phase = "idle"
  /\ listing = {}
  /\ seen = {}
  /\ batch = {}
  /\ inst = [j \in Jobs |-> DefaultRow]
  /\ held = [a \in Admins |-> None]
  /\ copy = [a \in Admins |-> DefaultRow]
  /\ torn = {}

-----------------------------------------------------------------------------
(* The scrape run *)

\* The run stops holding instances.
Release == /\ batch' = {}
           /\ inst' = [j \in Jobs |-> DefaultRow]

\* The run is over: nothing of it survives outside the database.
Finish == /\ phase' = "idle"
          /\ listing' = {}
          /\ seen' = {}
          /\ Release

\* A run has fetched and parsed the page and found the postings L on it.
ScrapeStart(L) ==
  /\ phase = "idle"
  /\ phase' = "upsert"
  /\ listing' = L
  /\ UNCHANGED <<dbVars, seen, batch, inst, adminVars, torn>>

\* upsert_job finds no match: _create_job inserts row and event in one
\* transaction.
UpsertCreate(j) ==
  /\ phase = "upsert"
  /\ j \in listing \ stored
  /\ stored' = stored \cup {j}
  /\ row' = [row EXCEPT ![j] = CreatedRow]
  /\ logged' = [logged EXCEPT ![j] = "open"]
  /\ seen' = seen \cup {j}
  /\ listing' = listing \ {j}
  /\ UNCHANGED <<phase, batch, inst, adminVars, torn>>

\* upsert_job finds a match and has its instance in hand.
UpsertLoad(j) ==
  /\ phase = "upsert"
  /\ j \in listing \cap stored
  /\ phase' = "save"
  /\ batch' = {j}
  /\ inst' = [inst EXCEPT ![j] = row[j]]
  /\ UNCHANGED <<dbVars, listing, seen, adminVars, torn>>

\* The posting j has been dealt with; back to the loop.
NextPosting(j) ==
  /\ phase' = "upsert"
  /\ listing' = listing \ {j}
  /\ Release

\* An open posting whose payload says nothing new: a narrow update of
\* missing_count (and last_seen_at).
UpsertUnchanged(j) ==
  /\ phase = "save"
  /\ j \in batch
  /\ inst[j].status = "open"
  /\ row' = [row EXCEPT ![j].missing = 0]
  /\ torn' = IF inst[j] = row[j] THEN torn ELSE torn \cup {j}
  /\ seen' = seen \cup {j}
  /\ NextPosting(j)
  /\ UNCHANGED <<stored, logged, adminVars>>

\* Anything else: the whole instance is saved, with a timeline entry in the
\* same transaction when it reopened.
UpsertSave(j) ==
  /\ phase = "save"
  /\ j \in batch
  /\ row' = [row EXCEPT ![j] = Sighted(inst[j])]
  /\ logged' = IF Reopens(inst[j]) THEN [logged EXCEPT ![j] = "open"] ELSE logged
  /\ torn' = IF inst[j] = row[j] THEN torn ELSE torn \cup {j}
  /\ seen' = seen \cup {j}
  /\ NextPosting(j)
  /\ UNCHANGED <<stored, adminVars>>

\* upsert_job raises, before or in its own transaction: the loop goes on,
\* and the posting is not among those seen.
UpsertFails(j) ==
  /\ phase = "upsert"
  /\ j \in listing
  /\ NextPosting(j)
  /\ UNCHANGED <<dbVars, seen, adminVars, torn>>

\* The run's verdict is not TRUSTED: strikes are skipped.
Distrust ==
  /\ phase = "upsert"
  /\ listing = {}
  /\ Finish
  /\ UNCHANGED <<dbVars, adminVars, torn>>

\* The verdict is TRUSTED: apply_missing_strikes loads the rows in scope.
\* With rows in scope and nothing seen, the empty-result guard gives up.
StrikeLoad ==
  LET scope == {j \in stored : InScope(row[j])}
  IN  /\ phase = "upsert"
      /\ listing = {}
      /\ IF (seen = {} /\ scope # {}) \/ scope \subseteq seen
         THEN Finish
         ELSE /\ phase' = "strike"
              /\ batch' = scope \ seen
              /\ inst' = [j \in Jobs |-> IF j \in scope \ seen THEN row[j] ELSE DefaultRow]
              /\ seen' = {}
              /\ UNCHANGED listing
      /\ UNCHANGED <<dbVars, adminVars, torn>>

\* bulk_update writes the batch.  The instances of rows that changed status
\* stay in the batch until their timeline entries are written.
StrikeWrite ==
  LET moved == {j \in batch : Moves(inst[j])}
  IN  /\ phase = "strike"
      /\ row' = [j \in Jobs |-> IF j \in batch THEN StruckOver(row[j], Struck(inst[j]))
                                               ELSE row[j]]
      /\ torn' = torn \cup {j \in batch : inst[j] # row[j]}
      /\ IF moved = {} THEN Finish
         ELSE /\ phase' = "log"
              /\ batch' = moved
              /\ inst' = [j \in Jobs |-> IF j \in moved THEN Struck(inst[j]) ELSE DefaultRow]
              /\ UNCHANGED <<listing, seen>>
      /\ UNCHANGED <<stored, logged, adminVars>>

\* bulk_create writes the timeline entries, in a statement of its own.
StrikeLog ==
  /\ phase = "log"
  /\ logged' = [j \in Jobs |-> IF j \in batch THEN inst[j].status ELSE logged[j]]
  /\ torn' = torn \cup {j \in batch : inst[j] # row[j]}
  /\ Finish
  /\ UNCHANGED <<row, stored, adminVars>>

\* The worker is killed, or the strike round raises and is swallowed: what
\* the database has not been told is forgotten.
Crash ==
  /\ phase # "idle"
  /\ Finish
  /\ torn' = IF phase = "log" THEN torn \cup batch ELSE torn
  /\ UNCHANGED <<dbVars, adminVars>>

-----------------------------------------------------------------------------
(* Admin requests *)

\* An admin view or action loads row j.
AdminLoad(a, j) ==
  /\ held[a] = None
  /\ j \in stored
  /\ held' = [held EXCEPT ![a] = j]
  /\ copy' = [copy EXCEPT ![a] = row[j]]
  /\ UNCHANGED <<dbVars, scraperVars, torn>>

Done(a) == /\ held' = [held EXCEPT ![a] = None]
           /\ copy' = [copy EXCEPT ![a] = DefaultRow]

\* What a write from request a's instance does to the history.
Writes(a) == torn' = IF copy[a] = row[held[a]] THEN torn ELSE torn \cup {held[a]}

\* The request ends without a write of these columns: it fails, or it is
\* publish_job or unpublish_job, whose update_fields name none of them.
AdminLeave(a) ==
  /\ held[a] # None
  /\ Done(a)
  /\ UNCHANGED <<dbVars, scraperVars, torn>>

\* mark_job_closed, also called by resolve_report: a closed instance is left
\* alone, with whatever is_manual_status it has.
AdminClose(a) ==
  /\ held[a] # None
  /\ IF copy[a].status = "closed"
     THEN UNCHANGED <<row, logged, torn>>
     ELSE /\ row' = [row EXCEPT ![held[a]] = Closed(@)]
          /\ logged' = [logged EXCEPT ![held[a]] = "closed"]
          /\ Writes(a)
  /\ Done(a)
  /\ UNCHANGED <<stored, scraperVars>>

\* reopen_job.
AdminReopen(a) ==
  /\ held[a] # None
  /\ row' = [row EXCEPT ![held[a]] = Reopened(@)]
  /\ logged' = [logged EXCEPT ![held[a]] = "open"]
  /\ Writes(a)
  /\ Done(a)
  /\ UNCHANGED <<stored, scraperVars>>

\* edit_job_fields, approve_job_review and reject_job_review change no
\* lifecycle column, but their bare save() writes every one of them back.
AdminSave(a) ==
  /\ held[a] # None
  /\ row' = [row EXCEPT ![held[a]] = copy[a]]
  /\ Writes(a)
  /\ Done(a)
  /\ UNCHANGED <<stored, logged, scraperVars>>

-----------------------------------------------------------------------------
Scraper ==
  \/ \E L \in SUBSET Jobs : ScrapeStart(L)
  \/ \E j \in Jobs : \/ UpsertCreate(j)
                     \/ UpsertLoad(j)
                     \/ UpsertUnchanged(j)
                     \/ UpsertSave(j)
                     \/ UpsertFails(j)
  \/ Distrust
  \/ StrikeLoad
  \/ StrikeWrite
  \/ StrikeLog
  \/ Crash

Admin ==
  \E a \in Admins :
    \/ \E j \in Jobs : AdminLoad(a, j)
    \/ AdminLeave(a)
    \/ AdminClose(a)
    \/ AdminReopen(a)
    \/ AdminSave(a)

Next == Scraper \/ Admin

Spec == Init /\ [][Next]_vars
-----------------------------------------------------------------------------
(* Properties *)

Phases == {"idle", "upsert", "save", "strike", "log"}

\* Type invariant: every column, instance and bookkeeping variable keeps its type.
TypeOK ==
  /\ row \in [Jobs -> Row]
  /\ stored \subseteq Jobs
  /\ logged \in [Jobs -> Status]
  /\ phase \in Phases
  /\ listing \subseteq Jobs
  /\ seen \subseteq Jobs
  /\ batch \subseteq Jobs
  /\ inst \in [Jobs -> Row]
  /\ held \in [Admins -> Jobs \cup {None}]
  /\ copy \in [Admins -> Row]
  /\ torn \subseteq Jobs

\* However requests and runs overlap, closed_at is set exactly on closed rows:
\* the check constraint closed_job_requires_closed_at never fires in a writer,
\* and no open row carries the closing time of an earlier life.
ClosedAtAgrees == \A j \in Jobs : row[j].closedAt <=> row[j].status = "closed"

\* However they overlap, an open row is never marked is_manual_status: if it
\* were, the ladder would skip it and it would stay open for ever.
OpenIsLadderable == \A j \in Jobs : row[j].manual => row[j].status # "open"

\* No save, however old its instance, leaves a row that contradicts itself.
RowsFit == ClosedAtAgrees /\ OpenIsLadderable

\* The jobs no writer has touched through an outdated instance.
Untorn == stored \ torn

\* On those jobs status and missing_count say the same: each status is the rung
\* of its number of missed rounds, and only closed rows belong to an admin.
OnLadder(r) == IF r.manual THEN r.status = "closed"
               ELSE r.status = IF r.missing = 0 THEN "open" ELSE Rung[r.missing]

LadderAgrees == \A j \in Untorn : OnLadder(row[j])

\* On those jobs the newest timeline entry is the status of the row, except
\* between the two statements of a strike round.
TimelineAgrees ==
  \A j \in Untorn : (phase = "log" /\ j \in batch) \/ logged[j] = row[j].status

\* A job none of whose updates was lost tells one story: its status, its count of
\* missed rounds and its timeline (apply_missing_strikes, upsert_job) agree.
RowsAgree == LadderAgrees /\ TimelineAgrees

\* On those jobs no step of a run moves a row that an admin closed, and none
\* takes it away from the admin.
AdminDecisionStands ==
  [][Scraper => \A j \in stored \ torn' :
        row[j].manual => row'[j].manual /\ row'[j].status = "closed"]_vars

(* The promise the life cycle keeps, up to lost updates *)

standing ==
  [j \in Jobs |-> IF j \in torn THEN "lost"
                 ELSE IF j \notin stored THEN "unknown"
                 ELSE IF row[j].manual THEN "pinned"
                 ELSE row[j].status]

Promise == INSTANCE ThreeStrikes

\* Whatever runs and requests do, and however they overlap, each job moves as
\* ThreeStrikes allows until one of its updates is lost.
KeepsPromise == Promise!Spec
=============================================================================
