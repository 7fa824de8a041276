------------------------------ MODULE JobMatching ------------------------------
(***************************************************************************)
(* Which row a posting is: the postings of one company's board, what the   *)
(* parsers of src/apps/scraping/parsers make of them, and the lookup of    *)
(* upsert_job (src/apps/jobs/services.py): by the id of the board, then by *)
(* URL, then by a hash of the content.                                     *)
(*                                                                         *)
(* A board gives each posting an id and a URL of its own, written p for    *)
(* both.  Statuses are the matter of JobLifecycle, and what an admin saves *)
(* while an upsert is under way that of JobReview: an upsert is one step.  *)
(***************************************************************************)
EXTENDS Naturals, Sequences

CONSTANTS
  Postings,   \* the postings the board may show
  Contents,   \* what they may say: records of a heading, the title with the location,
              \* and a body, the description
  Padded,     \* the headings that begin or end in blanks
  NoContent,  \* no content: a posting the board does not show
  NoBody      \* a description the parser does not find

\* No posting has the title that an admin gives its job.
ASSUME ContentsAssumption ==
  /\ \A c \in Contents : c = [heading |-> c.heading, body |-> c.body] /\ c.heading # "edited"
  /\ NoContent \notin Contents

\* What the boards' parsers make of a listing differs in one respect: SmartRecruiters
\* has no descriptions in it.  Lever and Ashby are as Greenhouse is.
Boards == {"greenhouse", "smartrecruiters"}

VARIABLES
  board,  \* the company's board
  page,   \* page[p]: the content of posting p, or NoContent
  jobs,   \* the company's jobs, the oldest first_seen_at first
  scrape, \* the run under way
  calm    \* history: the complete runs, two at most, since the page changed

matchingVars == <<board, page, jobs, scrape, calm>>

\* _payload_hash.  The title is stripped where a posting is looked up and created, and
\* taken as it is where a row is updated.
PayloadHash(heading, body, stripped) ==
  [heading |-> heading, body |-> body, padded |-> heading \in Padded /\ ~stripped]

\* The payload of a posting.
Payload(content) ==
  IF board = "smartrecruiters" THEN [content EXCEPT !.body = NoBody] ELSE content

\* Every posting of the listing becomes a payload with its id and its URL.
Shown == {p \in Postings : page[p] # NoContent}

\* seen has the ids of the jobs in seen_job_ids.
NoScrape == [open |-> FALSE, todo |-> {}, seen |-> {}, failed |-> {}]

MatchingInit ==
  /\ board \in Boards
  /\ page = [p \in Postings |-> NoContent]
  /\ jobs = <<>>
  /\ scrape = NoScrape
  /\ calm = 0

-----------------------------------------------------------------------------
(* The lookup *)

ById(p) == {i \in DOMAIN jobs : jobs[i].id = p}
ByUrl(p) == {i \in DOMAIN jobs : jobs[i].url = p}

ByContent(payload) ==
  LET hash == PayloadHash(payload.heading, payload.body, TRUE)
      same == {i \in DOMAIN jobs : jobs[i].hash = hash}
  IN {i \in same : \A j \in same : i <= j}

\* The content decides before the URL does.
Matches_ContentFirst(p, payload) ==
  CASE ById(p) # {} -> ById(p)
    [] ById(p) = {} /\ ByContent(payload) # {} -> ByContent(payload)
    [] OTHER -> ByUrl(p)

\* Content and URL decide before the id does.
Matches_IdLast(p, payload) ==
  CASE ByContent(payload) # {} -> ByContent(payload)
    [] ByContent(payload) = {} /\ ByUrl(p) # {} -> ByUrl(p)
    [] OTHER -> ById(p)

Matches(p, payload) ==
  CASE ById(p) # {} -> ById(p)
    [] ById(p) = {} /\ ByUrl(p) # {} -> ByUrl(p)
    [] OTHER -> ByContent(payload)

Created(p, payload) ==
  [id |-> p, url |-> p, heading |-> payload.heading, body |-> payload.body,
   hash |-> PayloadHash(payload.heading, payload.body, TRUE)]

\* _UPDATABLE_FIELDS, and manually_edited_fields.
Updatable == {"heading", "body"}
ManuallyEdited(row) == IF row.heading = "edited" THEN {"heading"} ELSE {}

UpdateValues(row, payload) ==
  LET written == Updatable \ ManuallyEdited(row)
  IN  [f \in DOMAIN row |-> IF f \in written THEN payload[f] ELSE row[f]]

\* The URL of a row that changes hands stays.
Updated_KeepsUrl(row, p, payload) ==
  LET now == UpdateValues(row, payload)
  IN [now EXCEPT !.hash = PayloadHash(now.heading, now.body, FALSE)]

\* The row keeps its id, and what an admin has edited.
Updated(row, p, payload) ==
  LET now == UpdateValues(row, payload)
  IN [now EXCEPT !.url = p, !.hash = PayloadHash(now.heading, now.body, FALSE)]

-----------------------------------------------------------------------------
(* A scrape *)

StartScrape ==
  /\ ~scrape.open
  /\ scrape' = [NoScrape EXCEPT !.open = TRUE, !.todo = Shown]
  /\ UNCHANGED <<board, page, jobs, calm>>

Upsert(p) ==
  LET payload == Payload(page[p])
      found == Matches(p, payload)
  IN /\ p \in scrape.todo
     /\ \/ /\ found = {}
           /\ jobs' = Append(jobs, Created(p, payload))
           /\ scrape' = [scrape EXCEPT !.todo = @ \ {p}, !.seen = @ \cup {p}]
        \/ \E i \in found :
             /\ jobs' = [jobs EXCEPT ![i] = Updated(@, p, payload)]
             /\ scrape' = [scrape EXCEPT !.todo = @ \ {p}, !.seen = @ \cup {jobs[i].id}]
     /\ UNCHANGED <<board, page, calm>>

\* The posting cannot be parsed, or its upsert raises: the run goes on without it.
Fails(p) ==
  /\ p \in scrape.todo
  /\ scrape' = [scrape EXCEPT !.todo = @ \ {p}, !.failed = @ \cup {p}]
  /\ UNCHANGED <<board, page, jobs, calm>>

\* The strike round goes by scrape.seen; the run ends.
End ==
  /\ scrape.open /\ scrape.todo = {}
  /\ scrape' = NoScrape
  /\ calm' = IF scrape.failed = {} THEN IF calm < 2 THEN calm + 1 ELSE 2 ELSE 0
  /\ UNCHANGED <<board, page, jobs>>

\* The worker is killed, or the run reaches its time limit.
Crash ==
  /\ scrape.open
  /\ scrape' = NoScrape
  /\ UNCHANGED <<board, page, jobs, calm>>

-----------------------------------------------------------------------------
(* Around it *)

\* A posting is published, rewritten, or withdrawn, under the same id.  A run goes by
\* the page it has fetched: a change during one is as if it came after it.
PageChanges(p) ==
  /\ ~scrape.open
  /\ \E content \in Contents \cup {NoContent} :
       /\ content # page[p]
       /\ page' = [page EXCEPT ![p] = content]
  /\ calm' = 0
  /\ UNCHANGED <<board, jobs, scrape>>

\* edit_job_fields gives a job another title.
EditTitle(i) ==
  /\ jobs' = [jobs EXCEPT ![i].heading = "edited",
                          ![i].hash = PayloadHash("edited", jobs[i].body, FALSE)]
  /\ UNCHANGED <<board, page, scrape, calm>>

MatchingNext ==
  \/ StartScrape \/ End \/ Crash
  \/ \E p \in Postings : Upsert(p) \/ Fails(p) \/ PageChanges(p)
  \/ \E i \in DOMAIN jobs : EditTitle(i)

MatchingSpec == MatchingInit /\ [][MatchingNext]_matchingVars

-----------------------------------------------------------------------------
\* uniq_company_source_job_id and, whatever the titles, uniq_company_title_sourceurl:
\* no upsert asks the database for a row it would refuse.
NoClash ==
  \A i, j \in DOMAIN jobs :
    jobs[i].id = jobs[j].id \/ jobs[i].url = jobs[j].url => i = j

\* The strike round of a run spares every job whose posting the run has found, also when
\* another job has its URL or its content by now.
FoundAreSeen ==
  scrape.open /\ scrape.todo = {} =>
    \A i \in DOMAIN jobs : jobs[i].id \in Shown \ scrape.failed => jobs[i].id \in scrape.seen

\* After two complete runs over a page that does not change and has no two postings alike,
\* each posting has a job with its URL and its content, an edited title apart.
Settled ==
  LET alike == \E p, q \in Shown : p # q /\ Payload(page[p]) = Payload(page[q])
  IN calm = 2 /\ ~alike =>
       \A p \in Shown : \E i \in DOMAIN jobs :
         /\ jobs[i].url = p
         /\ jobs[i].heading \in {Payload(page[p]).heading, "edited"}
         /\ jobs[i].body = Payload(page[p]).body

\* Together: the catalogue comes to mirror the board.
Mirrored == NoClash /\ FoundAreSeen /\ Settled
=============================================================================
