------------------------------- MODULE Registry -------------------------------
(***************************************************************************)
(* The register of tracked companies: the add, override, approve, archive, *)
(* unarchive and unverify services of src/apps/companies/services.py on    *)
(* several company rows at once, against the partial unique constraints of *)
(* src/apps/companies/models.py, and what visitors see of archived rows.   *)
(*                                                                         *)
(* A service first looks for a company that is already tracked and writes  *)
(* in a later transaction; a scrape and an override save a whole instance  *)
(* that they loaded long before.  A URL is a page and how it is stored:    *)
(* the services look for normalized URLs but store them as typed.          *)
(***************************************************************************)
EXTENDS Integers, FiniteSets

CONSTANTS
  Companies,  \* company rows; bound: rows ever inserted
  Services,   \* concurrent calls of the services
  Sites,      \* career pages on a site of their own, each on its own domain
  Boards,     \* the addresses of ONE organisation's board on an ATS with identifiers
  Tenants,    \* pages on an ATS without identifiers (Workday)
  None,       \* NULL, or the empty string
  Mistyped,   \* bound: pages that admins also give in a form that is not normalized
  MaxScrapes  \* bound: scrapes under way at a time

Pages == Sites \cup Boards \cup Tenants

ASSUME PagesAssumption ==
  /\ Sites \cap (Boards \cup Tenants) = {}
  /\ Boards \cap Tenants = {}
  /\ None \notin Pages
  /\ MaxScrapes \in Nat

VARIABLES
  rows,      \* rows[c]: a company
  service,   \* service[r]: what call r has checked and will write
  scraping,  \* the companies with a scrape under way
  inst,      \* inst[c]: the instance that the scrape of c loaded
  shown,     \* the companies with a published open job
  archiving, \* the companies whose archiving has listed its published jobs
  late       \* the companies for which a job was published since then, or which
             \* were archived while a scrape could still do so

registryVars == <<rows, service, scraping, inst, shown, archiving, late>>

-----------------------------------------------------------------------------
(* Rows.  An operator Op_Fault is Op with a fault that some property catches. *)

\* typed: the URL is stored in a form that normalize_url would change.
Url == [page: Pages, typed: BOOLEAN]
NoUrl == [page |-> None, typed |-> FALSE]

\* The URLs that admins give.
Given == {u \in Url : u.typed => u.page \in Mistyped}

CompanyRow == [state: {"none", "tracked", "archived"}, domain: Sites \cup {None},
               url: Url \cup {NoUrl}, verified: BOOLEAN]
NoCompany == [state |-> "none", domain |-> None, url |-> NoUrl, verified |-> FALSE]

Tracked == {c \in Companies : rows[c].state = "tracked"}
Shadowed == {c \in Companies : rows[c].state = "archived"}

\* The domain of a page: NULL when its host is an ATS.
Domain(p) == IF p \in Sites THEN p ELSE None

\* (career_source_type, ats_identifier) of a row, None when the latter is empty.
Identity(row) == IF row.url.page \in Boards THEN "organisation" ELSE None

\* Rows that the partial unique constraints forbid side by side.
SameDomain(a, b) == a.domain # None /\ a.domain = b.domain
SameUrl(a, b) == a.url # NoUrl /\ a.url = b.url
SameIdentity(a, b) == Identity(a) # None /\ Identity(a) = Identity(b)
Clash(a, b) == SameDomain(a, b) \/ SameUrl(a, b) \/ SameIdentity(a, b)

\* The database accepts row as the row of c.
Accepts_NoIndex(c, row) == TRUE
Accepts(c, row) ==
  row.state = "tracked" => \A o \in Tracked \ {c} : ~Clash(row, rows[o])

NoService == [op |-> "idle", company |-> None, row |-> NoCompany, raced |-> FALSE]

RegistryInit ==
  /\ rows = [c \in Companies |-> NoCompany]
  /\ service = [r \in Services |-> NoService]
  /\ scraping = {}
  /\ inst = rows
  /\ shown = {}
  /\ archiving = {}
  /\ late = {}

-----------------------------------------------------------------------------
(* The two transactions of a service *)

Checks(r, op, c, row) ==
  /\ service[r] = NoService
  /\ service' = [service EXCEPT ![r] = [op |-> op, company |-> c, row |-> row, raced |-> FALSE]]
  /\ UNCHANGED <<rows, scraping, inst, shown, archiving, late>>

\* Writing row to c ends the calls in over; the others are raced.  What the
\* database refuses is an IntegrityError, and nothing is written.
Writes(c, row, over) ==
  /\ rows' = IF Accepts(c, row) THEN [rows EXCEPT ![c] = row] ELSE rows
  /\ service' = [r \in Services |->
       IF r \in over \/ service[r] = NoService THEN NoService
       ELSE [service[r] EXCEPT !.raced = TRUE]]

\* ... and a company that is not archived any more has nothing late.
Forgets == late' = {c \in late : c \in archiving \/ rows'[c].state = "archived"}

\* _dedupe_company: no tracked company has the identity or the domain of row,
\* nor its URL in normalized form.
Dedupe_ByUrlOnly(row) ==
  \A o \in Tracked : rows[o].url # [row.url EXCEPT !.typed = FALSE]

Dedupe(row) ==
  /\ \A o \in Tracked : ~SameIdentity(row, rows[o])
  /\ \A o \in Tracked : ~SameDomain(row, rows[o])
  /\ row.url # NoUrl => \A o \in Tracked : rows[o].url # [row.url EXCEPT !.typed = FALSE]

-----------------------------------------------------------------------------
(* Adding a company *)

\* add_company_from_main_website: not scrapable until a URL is approved.
MainRow(d) == [NoCompany EXCEPT !.state = "tracked", !.domain = d]

MainCheck(r, d) == Dedupe(MainRow(d)) /\ Checks(r, "main", None, MainRow(d))

\* add_company_from_direct_career_url, which every caller lets verify.
DirectRow(u) ==
  [state |-> "tracked", domain |-> Domain(u.page), url |-> u, verified |-> TRUE]

DirectCheck(r, u) == Dedupe(DirectRow(u)) /\ Checks(r, "direct", None, DirectRow(u))

Insert(r, c) ==
  /\ service[r].op \in {"main", "direct"}
  /\ rows[c].state = "none"
  /\ Writes(c, service[r].row, {r})
  /\ UNCHANGED <<scraping, inst, shown, archiving, late>>

-----------------------------------------------------------------------------
(* Changing the URL of a company *)

\* set_manual_career_url only looks for the URL, in normalized form, and will
\* save the whole instance it was given.

ManualCheck(r, c, u) ==
  /\ c \in Tracked
  /\ \A o \in Tracked \ {c} : rows[o].url # [u EXCEPT !.typed = FALSE]
  /\ Checks(r, "manual", c, [rows[c] EXCEPT !.url = u, !.verified = TRUE])

ManualSave(r) ==
  LET c == service[r].company
  IN  /\ service[r].op = "manual"
      /\ c \notin archiving
      /\ Writes(c, service[r].row, {r})
      /\ Forgets
      /\ UNCHANGED <<scraping, inst, shown, archiving>>

\* approve_career_candidate looks for nothing.  A candidate's URL is normalized.
\* Interleavings within it are CareerDetection's subject.
Approve(c, p) ==
  /\ c \in Tracked \ archiving
  /\ rows[c].verified => rows[c].url.page = p
  /\ Writes(c, [rows[c] EXCEPT !.url = [page |-> p, typed |-> FALSE], !.verified = TRUE], {})
  /\ UNCHANGED <<scraping, inst, shown, archiving, late>>

Unverify(c) ==
  /\ c \in Tracked \ archiving
  /\ rows[c].verified
  /\ Writes(c, [rows[c] EXCEPT !.verified = FALSE], {})
  /\ UNCHANGED <<scraping, inst, shown, archiving, late>>

-----------------------------------------------------------------------------
(* Archiving *)

\* archive_company lists the published jobs in a transaction that has written,
\* and so locked, the row of the company: no other step writes it meanwhile.
ArchiveList(c) ==
  /\ c \in Tracked \ archiving
  /\ archiving' = archiving \cup {c}
  /\ UNCHANGED <<rows, service, scraping, inst, shown, late>>

\* Then it has unpublished the jobs it listed, deletes the company softly, and
\* commits.
ArchiveCommit_KeepsJobs(c) ==
  /\ c \in archiving
  /\ Writes(c, [rows[c] EXCEPT !.state = "archived"], {})
  /\ archiving' = archiving \ {c}
  /\ late' = late \cup (scraping \cap {c})
  /\ UNCHANGED <<scraping, inst, shown>>

ArchiveCommit(c) ==
  /\ c \in archiving
  /\ Writes(c, [rows[c] EXCEPT !.state = "archived"], {})
  /\ shown' = shown \ ({c} \ late)
  /\ archiving' = archiving \ {c}
  /\ late' = late \cup (scraping \cap {c})
  /\ UNCHANGED <<scraping, inst>>

\* unarchive_company looks for nothing and republishes nothing.
Unarchive(c) ==
  /\ c \in Shadowed
  /\ Writes(c, [rows[c] EXCEPT !.state = "tracked"], {})
  /\ Forgets
  /\ UNCHANGED <<scraping, inst, shown, archiving>>

-----------------------------------------------------------------------------
(* A scrape *)

\* scrape_company loads the company, which the manager only finds alive.  It was
\* verified when it was dispatched, and need not be any more.
ScrapeStart(c) ==
  /\ c \in Tracked \ scraping
  /\ Cardinality(scraping) < MaxScrapes
  /\ rows[c].url # NoUrl
  /\ scraping' = scraping \cup {c}
  /\ inst' = [inst EXCEPT ![c] = rows[c]]
  /\ UNCHANGED <<rows, service, shown, archiving, late>>

\* A job of c is published.
Publishes(c) ==
  /\ shown' = shown \cup {c}
  /\ UNCHANGED <<rows, service, scraping, inst, archiving>>

\* upsert_job creates a job; it is published at once when it comes from an ATS.
ScrapePublishes(c) ==
  /\ c \in scraping
  /\ inst[c].url.page \notin Sites
  /\ Publishes(c)
  /\ late' = late \cup (archiving \cap {c})

\* The run saves the whole instance, or fails to.
ScrapeEnds(c) ==
  /\ c \in scraping \ archiving
  /\ Writes(c, inst[c], {})
  /\ scraping' = scraping \ {c}
  /\ inst' = [inst EXCEPT ![c] = NoCompany]
  /\ Forgets
  /\ UNCHANGED <<shown, archiving>>

\* publish_job, approve_job_review and the job form look at no company: they
\* publish a job that a scrape left unpublished, of one that is being archived, or
\* is archived, as of any other.
AdminPublishes(c) ==
  /\ rows[c].url # NoUrl
  /\ Publishes(c)
  /\ late' = late \cup ((archiving \cup Shadowed) \cap {c})

RegistryNext ==
  \/ \E r \in Services :
       \/ \E d \in Sites : MainCheck(r, d)
       \/ \E u \in Given : DirectCheck(r, u)
       \/ \E c \in Companies : Insert(r, c)
       \/ \E c \in Companies, u \in Given : ManualCheck(r, c, u)
       \/ ManualSave(r)
  \/ \E c \in Companies :
       \/ \E p \in Pages : Approve(c, p)
       \/ Unverify(c)
       \/ ArchiveList(c)
       \/ ArchiveCommit(c)
       \/ Unarchive(c)
       \/ ScrapeStart(c)
       \/ ScrapePublishes(c)
       \/ ScrapeEnds(c)
       \/ AdminPublishes(c)

RegistrySpec == RegistryInit /\ [][RegistryNext]_registryVars

-----------------------------------------------------------------------------
(* Properties *)

\* Type invariant: rows, instances and calls keep their types.
RegistryTypeOK ==
  /\ rows \in [Companies -> CompanyRow]
  /\ inst \in [Companies -> CompanyRow]
  /\ \A r \in Services : service[r] = NoService \/ service[r].row.state = "tracked"
  /\ scraping \subseteq Companies
  /\ shown \subseteq Companies
  /\ archiving \subseteq Companies
  /\ late \subseteq Companies

\* No two tracked companies share a domain, a stored URL or an ATS identity,
\* however calls, scrapes that save old instances and unarchiving interleave:
\* the checks of the services alone would not do.
NoTwins == \A a, b \in Tracked : a # b => ~Clash(rows[a], rows[b])

\* A service whose check passed is not refused by the database afterwards,
\* unless a row was written in between, or the twin's URL is stored as typed, or
\* an override takes the ATS identity of another company by a second address of
\* its board.  A company added by its main website never is.
ChecksSuffice ==
  \A r \in Services, o \in Tracked :
    (/\ service[r] # NoService
     /\ ~service[r].raced
     /\ o # service[r].company
     /\ Clash(service[r].row, rows[o]))
    => \/ rows[o].url.typed /\ service[r].op # "main"
       \/ service[r].op = "manual" /\ ~SameUrl(service[r].row, rows[o])

\* "Unpublish every job so nothing orphaned stays visible" (archive_company):
\* an archived company shows no job, unless a scrape that had begun before goes
\* on publishing, or a scrape or a jobs admin has published one since its jobs
\* were listed.
ArchivedHidden == \A c \in Shadowed \ late : c \notin shown

=============================================================================
