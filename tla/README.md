# Study Tracker in TLA+

Study Tracker is a job and exam portal for students.  Admins register
companies; celery workers find each company's career page, scrape it every few
hours and keep a table of job postings whose status (open, possibly closed,
likely closed, closed) is the product.  The parts that are hard to get right
are not the pages: they are the rows that scrape tasks, retries, crashed
workers, users and admins write at the same time, most of them through Django
model instances that were loaded minutes earlier, and the states (a lock, a
stored hash, a run history, a queue of tokens) that one run leaves for the next.
This directory models those parts.

Paths are relative to the repository; `docs/domain-model.md` is the
repository's own description of its rules.

## 1. The system

| component | state | operations | interacts with |
| --- | --- | --- | --- |
| Job life cycle (`apps/jobs/services.py`) | `Job.status`, `missing_count`, `is_manual_status`, `closed_at`; `JobStatusEvent` | `upsert_job`, `apply_missing_strikes`, `mark_job_closed`, `reopen_job` | called by the scrape task and by the admin site |
| Job identity (`apps/jobs/services.py`) | `source_job_id`, `normalized_source_url`, `content_hash`, `manually_edited_fields`; two unique constraints | the lookup of `upsert_job`, `edit_job_fields` | decides which row a posting of the parsers updates, and so which rows a strike round spares |
| Job publication and review (`apps/jobs/services.py`, `views.py`, `admin.py`) | `is_published`, `needs_review`, `manually_edited_fields`, counters, `JobReport`, `SavedJob` | `publish_job` ... `resolve_report`, `edit_job_fields`, the bookmark and report views | same rows as the life cycle; a bare `save()` writes all columns |
| Company scheduling (`apps/companies/services.py`) | `is_active`, `is_deleted`, `is_verified`, `scrape_health`, `consecutive_failures`, `next_scrape_at` | approve, pause, resume, archive, reset, override | read by the dispatcher, written by scrape tasks |
| Company register (`apps/companies/services.py`, `models.py`) | domain, career URL and ATS identity of all companies; partial unique constraints | add (three ways), override, approve, unverify, archive, unarchive | a scrape publishes jobs of, and saves, a company an admin archives; the jobs admin publishes jobs of any company |
| Scrape tasks (`apps/scraping/tasks.py`) | celery queues, the lock `scrape:<id>` | `refresh_all_companies` every ten minutes, `scrape_company` | calls both services, the fetching layer, the parsers |
| Run history (`apps/scraping/sanity.py`, `tasks.py`) | `ScrapeRun.status`, `verdict`, counts; `scrape_interval_minutes` | `evaluate_run`, `compute_adaptive_interval` | decides whether a strike round takes place, and when the next run is |
| Fetching (`apps/scraping/fetching.py`) | `SourceFetchState` (validators, body hash) | conditional GET, escalation to a browser, clearing | a 'not modified' answer skips the parser; detections fetch the same URLs |
| Politeness (`throttle.py`, `robots.py`) | a counter per domain and minute in the cache; a copy of robots.txt per process | `acquire_slot`, `is_allowed` | before every request of the fetching layer |
| Lock (`core/locks.py`) | a cache key with a token and a time to live | `redis_lock` | scrape tasks, dispatcher, detection |
| Detection (`apps/career_detection`) | `DetectionRun`, `CareerCandidateUrl`, `Company.detection_status`; the context of a run | eight strategies, scoring, verification; approve, reject, redetect | writes the company rows, fetches through the fetching layer |
| Accounts (`apps/accounts`) | users, outstanding and blacklisted refresh tokens | register, login, refresh, logout, change password, profile; the user forms of the admin site | the API's authentication |
| Exams (`apps/exams`) | cycles, `ExamDateChange` | `update_exam_cycle`, admin forms, age limits | public API |
| Audit log, public API, parsers, commands, web front end | see `PROJECT.json` | | |

What makes them hard:

* **Stale instances.**  PostgreSQL runs in READ COMMITTED, `ATOMIC_REQUESTS` is
  off, and hardly any handler locks a row.  A handler loads an instance,
  computes on it, and writes either the columns it names or, with a bare
  `save()`, all of them.  The scrape task even loads the company before it
  waits for its lock, and keeps the instance for the length of the run.
* **Checks before writes.**  Duplicate checks, blacklist checks and eligibility
  checks read in one statement what a later one relies on.
* **Crashes.**  `acks_late` and `reject_on_worker_lost` redeliver the message
  of a killed worker; its lock, its half-written batch, its `ScrapeRun` row and
  the validators it stored stay as they were.
* **Order.**  Messages may be delayed and duplicated, since the dispatcher does
  not know what is already queued.

What makes each part correct is stated in its module under *Properties*.  The
hazards, each at its line, and the properties that answer them are listed in
`PROJECT.json`.

## 2. Modules

| module | models |
| --- | --- |
| `JobLifecycle` | the job rows of one company, one scrape run at a time, concurrent admin requests |
| `ThreeStrikes` | what the documentation promises of a job's status; `JobLifecycle` implements it through `standing` |
| `JobMatching` | the postings of one board, the payloads of its parser, and the rows they are matched with |
| `CompanySchedule` | one company row, the dispatcher, any number of workers and admin requests |
| `Lease` | what a caller of `redis_lock` relies on; implemented by `RedisLock`, and used as it allows by `CompanySchedule` |
| `RedisLock` | one key of `core/locks.py` |
| `CareerDetection` | one company's URL: detection runs, candidates, decisions, source history, scrapes that save outdated companies |
| `DetectionPipeline` | one detection run over one site: strategies, budget, evidence, rubric, verification, ranking |
| `Throttle` | the workers of one domain and their window counters |
| `Robots` | the parser of robots.txt beside what robots.txt says |
| `PoliteFetch` | the calls of the fetching layer on top of `Throttle` and `Robots` |
| `Fetching` | the conditional GET state of one URL under scrapes and detections |
| `ScrapeHistory` | the `ScrapeRun` rows of a company, verdict and interval |
| `JobReview` | one job under a scrape, admins, and users who bookmark and report |
| `Duplicates` | the links between jobs that repeat each other, under calls of `mark_duplicate` and handlers that save whole jobs |
| `Registry` | several companies against the unique constraints |
| `Tokens` | accounts and refresh tokens, query by query |
| `Exams` | a cycle, the log of its dates, the age limits |
| `MC*` | instances for TLC; `MCJobLifecycle`, `MCLeases`, `MCCareerDetection`, `MCScrapeHistory`, `MCJobReview` and `MCRegistryTokens` put two modules side by side |
| `JobLifecycleProofs` | theorems about `JobLifecycle` and `Exams` |
| `CompanyScheduleProofs` | theorems about `CompanySchedule` and `RedisLock` |
| `CareerDetectionProofs` | theorems about `CareerDetection` and `DetectionPipeline` |
| `ThrottleProofs` | theorems about `Throttle`, `Robots` and `PoliteFetch` |
| `ScrapeHistoryProofs` | theorems about `ScrapeHistory`, `JobMatching` and `Fetching` |
| `JobReviewProofs` | theorems about `JobReview` and `Duplicates` |
| `RegistryProofs`, `TokensProofs` | theorems about the module of that name |

`PoliteFetch` composes `Throttle` and `Robots` (it extends both: a worker
inside a call of the layer is a worker of the throttle).  `MCLeases` runs
`RedisLock` and the tasks of `CompanySchedule`, the two sides of `Lease`;
`MCJobLifecycle` runs `JobLifecycle` and `Exams`; `MCCareerDetection` runs
`CareerDetection` and `DetectionPipeline`; `MCScrapeHistory` runs
`ScrapeHistory` and `JobMatching`; `MCJobReview` runs `JobReview` and
`Duplicates`; and `MCRegistryTokens` runs `Registry` and `Tokens`.  In each the two halves share no variable,
and a behaviour is one of either, so that a property of one half says of that
half what it would say alone.  A module of theorems that extends several
modules reasons about the specification of each, one at a time; the constants
and definitions of those modules have names of their own for that reason
(`PipelineInit`, `FetchingNext`, `MatchingSpec`, ...).

An operator `Op_Fault` next to `Op` is `Op` with a plausible bug; no
specification uses it.  It documents which mistake a property would catch.

Most properties have an exception, because the code has one: a history variable
(`torn`, `outdated`, `stale`, `lost`, `lapses`, `excluded`, `late`, `contested`,
`raced`, `bypassed`, `doubted`, `crossed`) records exactly when the code does what its
documents do not promise, and the property claims all the rest.  Section 5 says
what each exception costs.

### JobLifecycle

A run is `idle`, `upsert` (walking the postings of the page), `save` (it holds
the instance of one job), `strike` (it holds the batch that
`apply_missing_strikes` loaded) or `log` (statuses written, timeline entries
not yet).  A strike round that has nothing to do and the empty-result guard
both end the run in `StrikeLoad`.  The verdict is a free choice between
`Distrust` and `StrikeLoad`; `ScrapeHistory` says how it is made.  `Crash`
covers a killed worker and the exception that `_execute_scrape` swallows around
the strike round.

`torn` records the jobs for which a write or a timeline entry was made from an
instance that no longer equalled the row.  `RowsFit` (`closed_at` and
`is_manual_status` never contradict the status) holds of **every** row; the
documented contract (`RowsAgree`, `AdminDecisionStands`, `KeepsPromise`) of the
rest.

### JobMatching

A board gives each posting an id and a URL, both written as the posting itself;
its content is a heading (title and location) and a body (description), which
the listing of SmartRecruiters lacks.  `Matches` is the lookup: by id, then by
URL, then the oldest row with the same hash.  A row that is found by URL or
content keeps its own id and takes the posting's URL and content, so that
several postings may take turns on one row.  The hash is made of the stripped
title when a posting is looked up or created, and of the title as it is when a
row is updated, so `Padded` headings have two.  Postings are published,
rewritten and withdrawn; an upsert may raise, a run may die.  `calm` counts the
complete runs since the page last changed.  The contents, the `Padded`
headings among theirs, and the description of a listing that has none
(`NoBody`) are constants.

`Mirrored` has three parts: no two rows share an id or a URL (`NoClash`, which
is more than the unique constraints ask); the strike round spares every job
whose own posting the run has found (`FoundAreSeen`); and after two complete
runs over a page without twins every posting has a job with its URL and content
(`Settled`).  One run is not enough: a posting whose job belongs by id to
another one loses it when that one returns, and gets a job of its own in the
next run.

### CompanySchedule

A worker is `idle`, `loaded` (it has the company but not the lock), `run`
(inside the lock), `saved` (the company was saved, the run is being finalised)
or `done`.  Time is abstracted to NULL, future and past.  `RunFails` is possible in
`run` and in `saved`, because the outer `except` of `_execute_scrape` also
covers the code after step 11.  Queued messages are counted per queue;
`force_browser` tasks are the ones of `scraping_browser`.  `Crash` puts the
message back and leaves the lock; `LockExpires` frees a lock nobody works under
(its time to live is one hour, the hard time limit of the task six minutes).
`outdated` are the tasks and requests whose instance was loaded before another's
decision, or before an outdated instance was saved.  A task that starts after a
decision, from however old a message, is not one of them.

The code has two ladders: the documented one, `record_scrape_outcome`
(1-2 failures DEGRADED, 3-4 FAILING, from 5 on paused), whose failure branch
nothing but a test calls, and that of the tasks (2-4 DEGRADED, from 5 on FAILING).
`HealthMatchesFailures` allows what either does, and `DecisionsStand` allows a
pause at five failures; that the tasks do not follow the documented ladder is
the violation `FivePauses`.

### RedisLock

`Overstays` are the clients that may work, or be slow to release, past the time
to live.  With none, which is the case of scrape tasks, the key is a `Lease`.
The Lua compare-and-delete is not modelled because it is never reached:
`getattr(caches["default"], "client", None)` is `None` for Django's
`RedisCache`, so `_release` takes the `get`-then-`delete` branch.

### CareerDetection

A detector is `idle`, `run` (the `DetectionRun` row exists, strategies fetch;
no transaction is open), `write` (`_persist_results` has found the company
eligible and will write) or `done` (the run has ended, the lock has not been
released).  `Recheck` and `Persist` are two steps of one transaction, which is
READ COMMITTED and locks nothing, so others commit in between.  So are the two
parts of an approval: `ApproveDecide` finds the other pending candidates to
reject (`swept`), `ApproveSave` verifies the company and commits, and `late` are the
candidates that a detection committed in between, which stay pending.  What the
strategies find is any set of URLs.  `Persist` also stands for runs whose
budget was exhausted; `Escape` for the exception that nothing catches there.
`Release` deletes the key of its owner only: the race of the release is the
subject of `RedisLock`.

Admins act through `copy`, the instance their request loaded: guards look at
it, writes name columns, except that `set_manual_career_url` saves them all.
The unique constraints look at rows, and a violated constraint rolls the
request back, so it is a guard of `Approve` and the `ELSE` of `SetManualUrl`.
Its one caller passes the URL the company has; the action takes any URL, as
the docstring does, and `VerifySelected` is the call that is made.  `stale`
becomes true when a scrape's full save changes the row; two properties hold
before only.

### DetectionPipeline

One behaviour is one run: a site is chosen at first and stays.  A URL is what
the rubric reads off it (`Traits`), a page the evidence it shows, and an answer
one of six kinds, among them pages with validators, which the fetching layer
answers *not modified* the second time (`known`).  The strategies run in the
order of `_execute`, each request charged to the budget as `spend()` does
(it counts before it compares), and the verification visits the candidates,
raises their scores and collects those it rejects.  `Score` is the rubric,
`Merged` what becomes of two findings of one URL.  `Sorted(S, R)` lists a set
in a strict order: its element `i` is the one that `i - 1` come before, which
can be reasoned about where a sort of the library cannot; for the same reason
`Total` writes its sum out.  `PipelineAssumption` types the constants and says
two things of the inputs: what a page shows is not what its URL shows (`Traits`
and `Flags` are apart), and a page that is a single posting declares a posting
(`strategies.py:578` asks for exactly one).

### Throttle, Robots, PoliteFetch

`Throttle` has a step per cache operation: a worker reads the clock, adds the
counter, increments it, gives the token back, polls, or is killed in between.
Counters expire; a worker in `Stallers` may be suspended for so long that its
counter expires under it, and `lapsed` records those windows.

`Robots` parses a sequence of lines as `_parse_body` does and evaluates it as
`_block_allows` does, and states beside that what the lines say by the rules
the file's comments appeal to: groups of agents, longest match.  Names and
paths are sequences of pieces, taken from the constant `Pieces`; a line is a
key and such a sequence.  The parser's loops are recursive functions of a
position, so that section 4 can reason about them.

`PoliteFetch` follows some workers (`Crawlers`) through `fetch`, `head_ok` and
`fetch_with_escalation`: the robots check, the reading of robots.txt through
the throttle, the slot of the page, the browser's second pass through both.

### Fetching

Content is a version number.  A row holds the versions its entity tag and its
body hash stand for.  The scraper and the detectors load the row, ask, and
store what they got before anybody looks at it; the scraper then parses,
distrusts, applies or fails, and clears the state where the code does.
`applied` is the last version whose postings were all applied.  `lapses` names
the six ways in which the stored hash may stand for something else: the run was
killed, a detector fetched the page, the clearing missed the row, some
postings failed, the answer was never recorded, the company was added again.
`excluded` says that the dispatcher leaves the company out, because five runs
have failed or an admin paused it: a failing run may set it, an applied one or
an admin clears it.

### ScrapeHistory

The table of runs, as far as its two readers see it: `baseline` (the last row
with status success) and the three newest trusted rows, of which `unended` have
no `finished_at` and come first.  A run is judged, then ends, retries, is
deferred or killed.

### JobReview

One row with four columns; its status is the subject of `JobLifecycle`.  The
scrape and the admins act on instances (`held`, `copy`); the users' views
update single columns with `F()` expressions.  A report is inserted and counted
in two steps of one transaction.  `lost` are the columns an outdated instance
has overwritten.  `wanted` is what the admins last decided of the publication; a
rejected review leaves it open, since the admin site says that it unpublishes
and the service does not (`RejectionHides`).

### Duplicates

`mark_duplicate` follows `duplicate_of` from the canonical job, one row a step:
`walk` is where each call is, `next` the link it has read last.  It refuses if
the links lead back to the job, or to a row it has seen, and saves when they
end.  Nothing is locked, so a link may change behind a call (`outrun`), and a
bare `save()` writes the link its instance was loaded with; `crossed` says that
a link was saved by such a call or brought back by such an instance.
`Acyclic` says that no set of jobs is closed under the links.

### Registry

A URL is a page and whether it is stored in a form `normalize_url` would
change.  A request checks (`_dedupe_company`) and writes later; the partial
unique constraints are the predicate `Accepts`, and a write that violates them
is rolled back.  Scrapes load a company, publish jobs and save the instance.
`raced` marks requests whose check was followed by another write.  An archiving
lists the published jobs in a transaction that has written, and so locked, the
company (`archiving`), and commits later; a job created or published in between
is not listed.  `AdminPublishes` is the jobs admin, which looks at no company.
`late` are the companies for which a job was published after the listing, or a
scrape was under way at the commit.

### Tokens

Every query of a view is a step.  A token has an owner, the session (login) it
descends from, the number of password changes that login had seen, and whether
it is recorded and blacklisted.  `late` tokens were issued to an older session
after a password change had listed the tokens; `contested` sessions had two
requests use one token.  The profile endpoint and the two pages of Django's user
admin (the user form, the password form) load a row and save all of it;
`latest` is what was last decided of it, and `stale` are the users for whom such
a save met a row that had changed since it was read.  What simplejwt does is external and modelled from how
the views and settings use it.

### Exams

Editors hold instances of the cycle and save all of it, through
`update_exam_cycle` or the forms; `bypassed` are the fields whose date was last
written without a row of the log.  `Extra` is the relaxation of
the age limit.

## 3. Runs

| run | instance | shows |
| --- | --- | --- |
| `job_lifecycle` | 2 jobs, 1 admin request; 1 cycle, 2 editors, 2 date fields, dates up to 2 | no row contradicts itself; the ladder's contract and its refinement of `ThreeStrikes` up to lost updates; the log of exam dates leads to the dates, and what `update_exam_cycle` accepts the database accepts |
| `company_admin` | 1 worker, 1 admin request, 1 task, failures up to 6 | health and counter agree on both ladders, no company is forgotten, only admins decide but for outdated instances |
| `leases` | 3 lock clients, none overstays; 2 workers, 2 tasks, fair | the key is a lease, tasks use it as one; a scheduled company is eventually scraped |
| `five_failures` | 1 worker | **violated**: five failures do not pause a company |
| `detection` | 2 URLs, 1 detector, 1 admin request, 1 scrape; or 4 URLs, every site of a family of some twenty thousand, a budget of 12 checks | the history is complete, its current source is the URL, approval settles the queue, detection decides nothing; the budget is kept, evidence is not forgotten, foreign answers are rejected, good leads are reported |
| `offsite_hops` | the same sites | **violated**: a page that redirects to another site is dead |
| `polite_fetch` | 2 workers, one of which may stall; rate 1, 3 windows; every robots.txt of up to four lines | the throttle meters, robots.txt is read as written and honoured |
| `fetching` | 1 scraper, 1 detector, 3 versions, one of them empty, fair | a stored hash vouches for applied content; a board that stays is applied, or the company is excluded |
| `scrape_history` | listings of up to 4 jobs, 1 retry; 3 postings, 3 contents | one truncated listing strikes nobody; only quiet runs lengthen the interval, busy ones shorten it; the jobs come to mirror the board |
| `job_review` | 1 admin, 2 users, threshold 2; 3 jobs, 2 calls of `mark_duplicate`, 1 whole save | bookmarks counted, reports reach the queue, publication and edits stay; duplicates form no cycle without a race |
| `rejected_published` | 1 admin, 1 user | **violated**: a rejected job is unpublished |
| `registry_tokens` | 2 companies, 1 service call, 1 site, 2 addresses of a board, 1 scrape; 1 user, 2 requests, 3 tokens, 2 passwords | no twins, checks suffice up to two gaps, archived companies are hidden; a password change ends sessions, sessions are linear, decisions are kept up to whole rows |

**Bounds.**  Two jobs are enough for a batch in which one job is seen and one
is not, or one row is torn and one is not; jobs do not interact otherwise.
`MaxFailures = 6` goes past the last threshold (5).  `MaxTasks` bounds the
messages and tasks of one company: two give the duplicate dispatch, one is
enough where a single worker races an admin.  Two URLs give a candidate that is
decided beside one that is rejected with it; a detection, a request and a scrape
of the company meet two at a time there (`Crowded`).  One column of a job may be
lost to outdated instances (`MaxLost`): the properties of the others are then
still claimed.  A rate of one makes every second
worker of a window exceed it; three windows let a counter expire under a
stalled worker and a robots copy grow older than its time to live (one window).
Three versions let a board change, change back and be empty.  `MaxFound = 4`
with a baseline of 2 has listings on both sides of the 50% rule and of the
minimum; the run history has all lengths its queries can see (three).  Three
postings let two take turns on the row of a third, and let two rows have one
hash when the third looks for it; of the three contents two differ only in the
description, and one heading of two has blanks around it.  Two
reporters with a threshold of two are the race of the last two reports.  Three
jobs let a chain be followed that another call, or an outdated instance, bends
meanwhile.  Three
tokens are a login, its rotation and a second rotation or login beside a
password change.  Two companies are the smallest register with twins; two
addresses of one board are what makes an ATS identity clash without a URL
clash; one of the pages is also given in a form that is not normalized
(`Mistyped`), and no service waits to write while a company is being
archived (`Apart`).  The proofs of section 4 cover every instance of every module, so
that these bounds matter to what is left to TLC: the two liveness properties, and
that the properties and the assumptions on the constants are about something,
which the mutants listed in `PROJECT.json` show.

**Type invariants** are proved, for every instance, in every module but
`Robots`, which has no state.  None of them is among the properties of the
runs.

**Deadlock** is not checked where the system may legitimately stop: a company
nobody dispatches and no admin touches (`company_admin`, `leases`,
`five_failures`), a queue with nothing left to decide or a run that is finished
(`detection`, `offsite_hops`), and bounds that are used up (`registry_tokens`).

**Symmetry** is used in the runs whose cfg says so, over processes, URLs and
rows that nothing tells apart.  In `registry_tokens` companies and the requests
on accounts are swapped together, which halves the symmetry of each but keeps
it one group; only one of the two halves is moving.

**Fairness.**  `CompanySchedule!Fairness`, which `MCLeases` repeats for the
composed state (`TasksScrape` is `ScheduledIsScraped` under it): time passes, beat keeps sending the dispatcher, an unused lock
expires, workers of the queue `scraping` take messages, and a task ends, if
only because the hard time limit kills it.  Strong fairness of "asks for the
lock" says that a worker is not killed every single time between loading the
company and asking.  Nothing is assumed of admins, fetches or the queue
`scraping_browser`, which no worker of `docker-compose.yml` consumes.
`Fetching!Fairness`: beat keeps dispatching the company **while it is not
excluded** (weak fairness of `Dispatched`: five failed runs exclude it for good,
and `KeepsUp` says so in its conclusion), a run that has its answer goes on to an end, and, strongly, a board that is
asked again and again is at some time answered, read and applied.  The site, the
detectors and admins are free.

## 4. Proofs

Eight modules of theorems.  Every safety invariant, action property and
refinement that a run checks is one of them.  No assumption is used but the
named ones of the modules and those stated in six theorems.  Two are of the lock,
whose clients are not to overstay (`OwnersKeepTheKey`, `LeaseImplemented`: with
one that does, the properties fail).  Four say **what an exception costs**: a
property that excepts a race is proved as it is, for every interleaving, and a
second theorem says what holds without that race, so that the exception hides
nothing else: `BudgetKeptForGood` (no worker stalls for two windows),
`RunsAloneLoseNoUpdate` (no admin), `OneRequestAtATime` (requests do not
overlap), `OneAfterTheOtherIsSafe` (calls of `mark_duplicate` do not overlap).

Two patterns recur.  A write may bring back
an instance of any age, so what a property says of a row is, in the inductive
invariant, said **of every instance in flight** too, or of the difference
between the two.  And most actions are one of a few ways to write a row, or to
add to a set; a lemma says what each way keeps, and the proof of a step finds
out which way it is.

* `JobLifecycleProofs`.  `TypeCorrect`; `RowsAlwaysFit` (`RowsFit`, through
  `AllFit`: rows and instances fit); `ContractHolds` and its part
  `AdminDecisionsStand` (`RowsAgree`, `AdminDecisionStands`, through `Contract`:
  what a run knows of its batch between load and write); `PromiseKept`
  (`KeepsPromise`: each step, mapped by `standing`, is a step of `ThreeStrikes`
  or a stutter, for each job whose updates are not lost); `RunsAloneLoseNoUpdate`
  (without admins every row is on the ladder, and a job is only ever torn by a
  kill between the two statements of a strike round).  Of `Exams`:
  `ExamsTypeCorrect`;
  `ServiceAlwaysSuffices` (what `update_exam_cycle` accepts, the constraint
  accepts, since no instance in flight violates it); `DatesAlwaysLogged` (the
  old date of an entry is the instance's, and an instance that differs from the
  row differs in `bypassed` fields only); `StatusAlwaysHelps` (no status costs a
  candidate years, for all natural relaxations), which follows from definitions.
* `CompanyScheduleProofs`.  `TypeCorrect`; `HealthAlwaysMatches` and
  `NoneIsForgotten` (each operator on rows keeps a fitting instance fitting);
  `TasksDecideNothing` (`DecisionsStand`: every instance that is not `outdated`
  agrees with the row on the columns only admins decide);
  `ScrapesKeepTheLease` (`KeepsLease`, the refinement of `Lease` by the tasks:
  at most one worker runs, and none without the lock).  Of `RedisLock`:
  `LockTypeCorrect`; `OwnersKeepTheKey` (`HoldersOwnTheKey`) and
  `LeaseImplemented` (`ImplementsLease`), if no client overstays.
* `CareerDetectionProofs`.  `TypeCorrect`; `HistoryIsComplete` (the row and
  every instance have their URL in the history); `CurrentSourceIsUsed`;
  `ApprovalIsSettled` (`ApprovalSettles`, through `Deciding`: while an
  approval is between its statements, what is pending is its candidate, `swept`
  or `late`); `DetectionOnlyProposes`.  Of `DetectionPipeline`:
  `PipelineTypesHold`; `BudgetIsKept` (`Budget`: checks made and guesses left
  together are bounded, and a short circuit leaves one target); `EvidenceIsKept`
  (every step adds to the candidates, but the last of the verification);
  `ForeignAnswersAreRejected` (`ForeignAnswersRejected`, through `Judged`: rejected are
  exactly the visited pages that a foreign host answers; a redirect to a blocked
  domain is not among them, see `OffCompanyHopsDead` in section 5); `LeadsAreFound`, which needs all of these, `Clean` (no
  candidate is marked bad before `json_ld`, nor in a short run), `Linked` (the
  header's links stay) and the lemmas that more evidence never lowers a score
  and that the ranking lists what it ranks, each once.
* `ScrapeHistoryProofs`.  `HistoryTypeCorrect`; `StrikesAreConfirmed` (the
  baseline is the last trusted listing, or a later quarantined one);
  `IntervalAlwaysFollows`.  Of `JobMatching`: `MatchingTypeCorrect`;
  `BoardMirrored` (`Mirrored`).  `RowsDistinct` strengthens `NoClash`: no job has
  the id of another's URL, or two jobs could be given one URL.  `Settled`
  holds because the jobs of the postings a run has dealt with belong to them
  until the page changes.  Of `Fetching`: `FetchingTypeCorrect`; `HashVouches`
  and `OnlyAppliedIsSkipped`.  The tag and the hash of a row are of one version
  (`Clean`), the row of a company's own page is cleared before its hash is used
  (`OwnPage`), and a board's is the one its scraper has loaded (`OfBoard`).
* `JobReviewProofs`.  `ReviewTypeCorrect`; `BookmarksAreCounted`;
  `ReportsAreReviewed`; `AdminsDecidePublication`; `EditsAreKept`: a save of a
  whole instance changes a column it does not mean to only if `lost` has it.
  `UsersAreHeard` (`UsersHeard`) joins the second and the third, which one run
  checks together.  Of `Duplicates`: `DuplicatesTypeCorrect`;
  `NoCyclesWithoutRaces` (`CyclesNeedRaces`, through `Chains`: the links a call
  has read lead from the canonical job to where it is, and not through the job
  it marks; then a set that the new link closes would, cut down to that chain,
  have been closed before); `WalksEnd` (each round reads a job the call has not
  read, so the loop ends even on the cycles of a race); and
  `OneAfterTheOtherIsSafe`: without overlapping calls and whole saves there is
  never a cycle.
* `ThrottleProofs`.  `TypeCorrect`; `ThrottleIsSound` (`Metered`).  Its three
  parts depend on each other.  The invariant adds that a counter differs from
  the slots taken only in a full window (`ExactOrFull`), so that a token in
  excess is only taken from a full one, and that giving it back never opens it;
  the cardinality of the set of workers that owe a token is followed through
  each step.  `BudgetKeptForGood`: without a staller no window is charged more
  than the rate even after its counter has expired, however workers are killed.
  Of `PoliteFetch`: each of its steps is a step of `Throttle` or
  leaves its variables alone (`FetchIsThrottled`), hence `FetchesAreMetered`;
  `FetchTypeCorrect`.  Of `Robots`: `ParserAgrees`, for a robots.txt of **any**
  length made of any pieces: if its lines avoid the forms `Plain` names, the
  parser decides every path as the rules say.  Hence `ParserIsRight`
  (`Agreement`, which the run checks for its samples) and `RobotsAreHonoured`
  (`RobotsHonoured`), without an assumption on what sites serve.  The parser is a
  loop over the lines, and the library's induction theorems take an operator,
  which the provers cannot instantiate; so the module derives an induction over
  **sets** from the well-foundedness of strict inclusion (`UpTo`), and from
  it that a function defined by recursion on a position exists and obeys its
  definition (`Computation`, `Unfolds`).  The loop invariant (`ParseIs`, by
  `ReadsOn`) says after each prefix of the lines what the current block's agents
  and rules are; `Greatest` is why the longest match exists.
* `TokensProofs`.  `TypesHold`; `ChangesEndSessions` (`ChangeEndsSessions`: a
  request that has listed the tokens holds every usable older one that is not
  late, or it is blacklisted already); `DecisionsAreKept` (`WritesKept`: a row that
  was saved over nobody's decision is the one last decided, the forms of the admin
  site included);
  `SessionsAreLinear` (`SessionLinear` counts; `AllLinear` says without
  counting that no two usable tokens, no two rotations, and no token beside a
  rotation are of one session); `OneRequestAtATime` (one at a time, no token older
  than the last answered change can be used, late or not, and no session is
  contested: what a request has read is still so when it writes, `Fresh`).
* `RegistryProofs`.  `TypesHold`; `NoTwinsEver` (`NoTwins`, from the
  constraints alone); `ChecksAreEnough` (`ChecksSuffice`: every write marks the
  requests that are under way as raced, so what a check has seen need only hold
  while the rows stay); `ArchivedAreHidden` (`ArchivedHidden`; `Hidden` says in
  addition that an archived company that is still being scraped is `late`, and
  that one being archived is not archived yet).

Checked by TLC only:

* what needs fairness, which is out of the prover's reach: `TasksScrape` (a
  scheduled company is eventually scraped) and `KeepsUp` (a board that stays is
  eventually applied);
* the violations of section 5.

## 5. Findings

With a run that TLC finds violated:

* Five failures never pause a company (`five_failures`; `tasks.py:585`,
  `docs/domain-model.md:149`).  The ladders differ below five too: one failure
  leaves the health as it is and 3-4 make it DEGRADED in the tasks, where
  `domain-model.md:147-148`, `record_scrape_outcome` (`services.py:653`) and
  `tests/test_companies_scrape_outcome.py:51` have DEGRADED and FAILING.
* A careers page that redirects to a blocked domain, LinkedIn being the example
  of the code's own comment, is reported (`offsite_hops`;
  `strategies.py:535`, `:521`): `fetch` raises on the redirect, and the
  verification keeps a candidate whose fetch raises.
* The admin action "Reject review (unpublished)" leaves a published job
  published (`rejected_published`; `jobs/services.py:627`, `jobs/admin.py:392`).
  The test of that name rejects a job that was not published.

The modules contain the following too, as actions, guards or the exceptions in
properties.  Each is read off the code; most could be shown by dropping an
exception.

*Jobs and companies*

* A strike round overwrites an admin's closing (`jobs/services.py:438`; "the
  ladder must never override an admin's decision", `docs/domain-model.md:132`).
* A pause, an archiving or an unverification during a scrape is undone by the
  task's full save (`tasks.py:473`; `domain-model.md:206`).
* `domain-model.md:147` backs off after one failure; a failing run leaves
  `next_scrape_at` as it is (`RunFails`, `tasks.py:588`), so it is repeated
  every ten minutes.
* `companies/querysets.py:1` says that the scheduler reads through its helpers;
  the dispatcher does not, and excludes FAILING companies for ever while
  `due()` lists them (`tasks.py:640`).
* `jobs/models.py:237` promises a timeline entry per transition; a crash
  between the two statements of a strike round leaves none (`torn`).
* The release of a lock can delete another worker's (`core/locks.py:109`), if a
  holder overstays.
* Two admins who mark two jobs as duplicates of each other at the same time
  make a cycle (`jobs/services.py:544`; "cycle-guarded", `domain-model.md:18`);
  so does a bare `save()` that brings back an old link (`crossed`).

*Postings and jobs*

* A posting with a new id and the content of another is taken for it
  (`jobs/services.py:205`), also when both are on the page: they share one job,
  whose URL changes with every run.  On SmartRecruiters, whose listing has no
  descriptions, the same title at the same location is enough.  `Settled` asks
  for a page without such twins.
* The title is hashed stripped in `upsert_job` and as it is in `_hash_for`
  (`:142`), so a posting whose title has blanks around it changes on its second
  sighting, and a repost of it is not found by its content.
* `static_jobs` defines `extract` and no `parse` (`tasks.py:309` calls `parse`):
  every scrape of a company's own page ends as a parse failure.

*Detection and approval*

* An approval rejects the other candidates in one statement and verifies the
  company in a later one (`companies/services.py:333`, `:356`), in READ COMMITTED:
  a detection that finds a new URL and commits in between leaves a verified
  company with a pending candidate (`late`).
* A rejection from an old instance turns an approved candidate into a rejected
  one, and the company stays verified (`companies/services.py:403`; `:402` says
  "PENDING -> REJECTED").
* *Verify selected* raises on the source history for every company it is meant
  for (`companies/admin.py:413`, `services.py:449`).
* `companies/services.py:402` promises that the last rejection flips the
  company to NOT_FOUND; that takes a NEEDS_REVIEW which only demo data has
  (`Reject`).
* `career_detection/services.py:3` promises that every run is finished; an
  error while a partial run is saved is caught by nobody (`Escape`).  Line 65
  takes the lock's time to live for comfortably longer than the budget; both are
  300 seconds.  Line 257 announces a race guard that the handlers of a failed
  run lack (`Fail`).  Line 162 overwrites SUPERSEDED with SUCCESS.
* A rejected hop is only dropped when the verification loop ends
  (`strategies.py:517`): a budget that ends inside it leaves it reported.  A
  link that answers 404 stays a candidate (`strategies.py:534`; line 522 says
  "dead - never scored, never persisted").
* The second request for a page with validators is answered *not modified*:
  JSON-LD then scores nothing, and a *not modified* on the escalated fetch makes
  the verification skip the page.  Merging keeps the first HTTP status, though
  `scoring.py` speaks of the final one.
* The `www.` fallback is not charged, and does not clear `homepage_error`: a
  run that finds candidates there ends FAILED.  `MAX_ATS_GUESSES` leaves the
  second slug without a guess.  The last check of the budget is never made
  (`types.py:66`).  A short circuit on a board that is then dead reports nothing.

*Fetching*

* Validators are stored before anything is parsed (`fetching.py:421`): a run
  killed afterwards loses the content until the board changes; so do postings
  whose upsert failed, a detection that fetched first, a URL whose raw form
  differs from its normal one (`tasks.py:86`), a row that survives archiving and
  re-adding (`lapses`).  An empty board is never trusted, hence `Versions \ Empty`
  in `KeepsUp`.  A company's own page has no parser and is never applied.
* `robots.py:67`: the last matching rule wins, so a blank `Allow` after a longer
  one refuses; in a group of several agents only the last hears the rules
  (`:178`); without a group for anybody the first block counts (`:97`); a
  failure to read robots.txt allows everything for an hour.  `Plain` excludes
  these forms.  Redirect targets are neither checked nor charged.
* `head_ok` promises to return on failure and raises from its robots check and
  slot (`fetching.py:465`); `fetch_with_escalation` renders whenever
  `FETCH_ALLOW_DYNAMIC` is on, not only "if a SPA is detected" (`:500`).
* A token of the throttle leaks when its `decr` raises; `FetchBudgetExceeded` is
  not transient (`exceptions.py:77`), so a busy shared ATS domain drives
  companies to FAILING.

*Run history*

* Rows left `running` keep the verdict TRUSTED and sort first: three of them let
  every run lengthen the interval (`unended`).  A deferred run becomes a
  baseline of 0, a quarantined one with jobs becomes the baseline (`doubted`),
  and a run killed after it was judged is none.  An admin's change of the
  interval during a scrape is lost to its full save.  The third rule of
  `evaluate_run` is never reached.

*Review*

* `_update_job`, the reviews and `edit_job_fields` save
  whole instances (`lost`); `edit_job_fields` takes an unpublished job out of
  the review queue; `_update_job` never updates `title_normalized`.

*Accounts*

* The profile endpoint saves the whole user row (`accounts/views.py:112`) and
  can bring back an old password or reactivate an account (`stale`).  So do the
  user form and the password form of Django's admin, of which `UserAdmin`
  (`accounts/admin.py:14`) overrides nothing.
* A login or refresh under way during a password change keeps a usable token
  (`late`); a change killed before the blacklisting leaves all of them, though
  the API promises "all tokens blacklisted".  Two refreshes of one token fork
  the session, a logout beside a refresh does not end it (`contested`).
* `refresh/` is routed to the stock view (`accounts/urls.py:16`): the project's
  `RefreshView` and its throttle are unused.  A password set in the Django admin
  blacklists nothing.  Two concurrent registrations, or two of the same e-mail,
  end in an `IntegrityError`.

*Register*

* The duplicate check compares normalized URLs with raw ones
  (`companies/services.py:150`, `:264`): a twin is tracked, or the insert fails
  on the constraint.  Approving, unarchiving and an ATS identity set by an
  override are not checked at all (`ChecksSuffice` names the gaps).
* A scrape under way publishes jobs of a company that was archived, and the jobs
  admin publishes them without a look at the company (`jobs/services.py:447`,
  `:606`; both are `late`; "nothing orphaned stays visible",
  `companies/services.py:561`).  The scrape's full save revives the company with all
  its jobs unpublished; unarchiving republishes nothing.

*Exams and the audit log*

* The ops forms write dates without an `ExamDateChange`, and an old instance
  takes dates back or unpublishes (`bypassed`).  `update_exam_cycle` and
  `compute_effective_max_age` are called by tests only.
* Saving an exam again after unsaving it raises an `IntegrityError`, though
  `docs/api_v1_exams.md:61` calls it idempotent; the list of saved exams shows
  unsaved ones (`exams/views.py:174`).
* `record()` swallows database errors inside atomic blocks
  (`audit_logs/services.py:64`), after which the transaction is broken.

## 6. Not modelled, and what is left

* **Parsers, spiders, `extract.py`**: HTML and JSON to payloads, beyond the
  fields `JobMatching` identifies a posting by.  A wrong parse is a data error
  without protocol state.  A board that lists a posting without a URL, or with
  an id of another, is outside `JobMatching`.
* **Audit log, public API, SEO, management commands, seed data, migrations,
  web front end**: rows nobody reads back, read-only queries and serialisation,
  and one-shot scripts that call the services modelled here.
* **HTTP, TLS, redirects, artifacts; expiry and access tokens; slugs, logos and
  renaming; saved exams, stages, the exam calendar and the PDF parser**: left out
  of modules that model the rest of their component, as `PROJECT.json` says of each.

What is left: an abstract approval queue that `CareerDetection` implements, once
the decisions that a late rejection undoes are set apart; an abstract catalogue
that `Registry` implements up to `late`; and theorems on what the remaining
exceptions cost (`bypassed`, `doubted`, `lapses`, `outdated`).
