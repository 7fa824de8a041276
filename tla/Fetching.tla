-------------------------------- MODULE Fetching --------------------------------
(***************************************************************************)
(* The conditional GET state of one URL (SourceFetchState) and everybody   *)
(* who reads or writes it: fetch and fetch_with_escalation of              *)
(* src/apps/scraping/fetching.py, the scrape task that decides what the    *)
(* content was worth (src/apps/scraping/tasks.py), and the detection runs  *)
(* that fetch the same page.                                               *)
(*                                                                         *)
(* Content is a version number.  A row holds the versions its entity tag   *)
(* and its body hash stand for; 0 is a blank field, and a missing row is   *)
(* one with two blank fields.  The lock of the company allows one scrape   *)
(* at a time (RedisLock), so there is one scraper.                         *)
(***************************************************************************)
EXTENDS Integers, FiniteSets

CONSTANTS
  Scraper,    \* the scrape task of the company
  Detectors,  \* detection runs that fetch the URL
  MaxVersion, \* how many versions the page has
  Empty       \* the versions that list no posting

ASSUME FetchingAssumption ==
  /\ IsFiniteSet(Detectors)
  /\ Scraper \notin Detectors
  /\ MaxVersion \in Nat \ {0}
  /\ Empty \subseteq 1..MaxVersion

Clients == {Scraper} \cup Detectors
Versions == 1..MaxVersion
Stamps == 0..MaxVersion

VARIABLES
  source,    \* "ats": a JSON board; "own": the company's page
  canonical, \* the URL as it is stored is its normal form
  etags,     \* the site sends validators and answers 304
  site,      \* the version the site serves
  stored,    \* the row of SourceFetchState
  applied,   \* history: the last version whose postings were all applied
  lapses,    \* history: why the hash in the row may stand for an unapplied version
  deferred,  \* a forced run is in the queue scraping_browser
  excluded,  \* the dispatcher leaves the company out: it is FAILING, or
             \* admins have paused, archived or unverified it
  pc,        \* pc[c]: where client c is
  seen,      \* seen[c]: the row it loaded before its request
  got        \* got[c]: the result of its request

siteVars == <<source, canonical, etags, site>>
clientVars == <<pc, seen, got>>
fetchingVars == <<siteVars, stored, applied, lapses, deferred, excluded, clientVars>>

Blank == [etag |-> 0, hash |-> 0]
Stamped(v) == [etag |-> IF etags THEN v ELSE 0, hash |-> v]

\* ver: the version of the content; notmod: not_modified; page: there is a body;
\* browse: the browser is tried next or was used; why: escalation_reason is not empty.
Nothing == [ver |-> 0, notmod |-> FALSE, page |-> FALSE, browse |-> FALSE, why |-> FALSE]

FetchingInit ==
  /\ source \in {"ats", "own"}
  /\ canonical \in BOOLEAN
  /\ source = "ats" => canonical
  /\ etags \in BOOLEAN
  /\ site = 1
  /\ stored = Blank
  /\ applied = 0
  /\ lapses = {}
  /\ deferred = FALSE
  /\ excluded \in BOOLEAN
  /\ pc = [c \in Clients |-> "idle"]
  /\ seen = [c \in Clients |-> Blank]
  /\ got = [c \in Clients |-> Nothing]

Goto(c, p) == pc' = [pc EXCEPT ![c] = p]
Receive(c, r) == got' = [got EXCEPT ![c] = r]
Reset(c) ==
  /\ Goto(c, "idle")
  /\ seen' = [seen EXCEPT ![c] = Blank]
  /\ Receive(c, Nothing)

\* Detection runs share a URL with the scraper only if it is the company's own.
MayFetch(c) == c \in Detectors => source = "own"

-----------------------------------------------------------------------------
(* The row *)

\* update_or_create with new validators: nothing vouches for the old content any
\* more, and a detection run applies nothing.
Record(c, v) ==
  /\ stored' = Stamped(v)
  /\ lapses' = IF c = Scraper THEN {} ELSE {"detector"}

\* _clear_validators_for_url and _clear_fetch_state hash the URL as it is stored,
\* fetch hashes its normal form: they miss the row unless the two are the same.
Clear ==
  /\ stored' = IF canonical THEN Blank ELSE stored
  /\ lapses' = IF canonical THEN {} ELSE lapses \cup {"uncleared"}

-----------------------------------------------------------------------------
(* The dispatcher *)

\* A failed run may be the fifth in a row, which makes the company FAILING; a
\* successful one ends that.  CompanySchedule counts.
Failure == excluded' \in {excluded, TRUE}
Success == excluded' \in {excluded, FALSE}

-----------------------------------------------------------------------------
(* fetch *)

\* Blocked hosts, robots and the throttle come first; then the row is loaded.
Prepare(c, browse) ==
  /\ pc[c] = "idle"
  /\ MayFetch(c)
  /\ c = Scraper => browse = (source = "own")
  /\ Goto(c, "asking")
  /\ seen' = [seen EXCEPT ![c] = stored]
  /\ Receive(c, [Nothing EXCEPT !.browse = browse])
  /\ UNCHANGED <<siteVars, stored, applied, lapses, deferred, excluded>>

\* 304: a result without body; only the hit count of the row changes.
NotModified(c) ==
  /\ pc[c] = "asking"
  /\ etags /\ seen[c].etag = site
  /\ Goto(c, "fetched")
  /\ Receive(c, [got[c] EXCEPT !.ver = site, !.notmod = TRUE])
  /\ UNCHANGED <<siteVars, stored, applied, lapses, deferred, excluded, seen>>

\* 200: the body is here, its hash is not compared yet.
Answer(c) ==
  /\ pc[c] = "asking"
  /\ ~(etags /\ seen[c].etag = site)
  /\ Goto(c, "answered")
  /\ Receive(c, [got[c] EXCEPT !.ver = site, !.page = TRUE])
  /\ UNCHANGED <<siteVars, stored, applied, lapses, deferred, excluded, seen>>

\* Another 2xx is returned as it is, and the row is left alone.
AnswerOther(c) ==
  /\ pc[c] = "asking"
  /\ Goto(c, "fetched")
  /\ Receive(c, [got[c] EXCEPT !.ver = site, !.page = TRUE])
  /\ UNCHANGED <<siteVars, stored, applied, lapses, deferred, excluded, seen>>

SameBody_AnyHash(c) ==
  /\ pc[c] = "answered"
  /\ seen[c].hash # 0
  /\ Goto(c, "fetched")
  /\ Receive(c, [got[c] EXCEPT !.notmod = TRUE])
  /\ UNCHANGED <<siteVars, stored, applied, lapses, deferred, excluded, seen>>

\* The hash is the one of the row loaded before the request: not modified either,
\* but the body is kept.
SameBody(c) ==
  /\ pc[c] = "answered"
  /\ seen[c].hash # 0 /\ seen[c].hash = got[c].ver
  /\ Goto(c, "fetched")
  /\ Receive(c, [got[c] EXCEPT !.notmod = TRUE])
  /\ UNCHANGED <<siteVars, stored, applied, lapses, deferred, excluded, seen>>

NewBody(c) ==
  /\ pc[c] = "answered"
  /\ seen[c].hash # got[c].ver
  /\ Record(c, got[c].ver)
  /\ Goto(c, "fetched")
  /\ UNCHANGED <<siteVars, applied, deferred, excluded, seen, got>>

\* FetchError: before the request, in it, or for its status or size.
\* A scrape clears the state, whether it retries, gives up or fails for good.
FetchFails(c) ==
  /\ pc[c] = "asking"
  /\ Reset(c)
  /\ IF c = Scraper THEN Clear /\ Failure ELSE UNCHANGED <<stored, lapses, excluded>>
  /\ UNCHANGED <<siteVars, applied, deferred>>

-----------------------------------------------------------------------------
(* fetch_with_escalation *)

\* fetch was called by itself: its result is the caller's.
Plain(c) ==
  /\ pc[c] = "fetched"
  /\ ~got[c].browse
  /\ Goto(c, "returned")
  /\ UNCHANGED <<siteVars, stored, applied, lapses, deferred, excluded, seen, got>>

\* result.links() without a selector raises AttributeError: the outer handler of
\* the scrape clears the state and fails the run, a detection run carries on.
NoSelector(c) ==
  /\ pc[c] = "fetched"
  /\ got[c].browse /\ ~got[c].page
  /\ Reset(c)
  /\ IF c = Scraper THEN Clear /\ Failure ELSE UNCHANGED <<stored, lapses, excluded>>
  /\ UNCHANGED <<siteVars, applied, deferred>>

\* FETCH_ALLOW_DYNAMIC is set, so every page goes to the browser, with or without
\* a reason, and its validators are cleared first.
Escalate(c) ==
  /\ pc[c] = "fetched"
  /\ got[c].browse /\ got[c].page
  /\ Clear
  /\ Goto(c, "browsing")
  /\ \E w \in BOOLEAN : Receive(c, [got[c] EXCEPT !.why = w])
  /\ UNCHANGED <<siteVars, applied, deferred, excluded, seen>>

\* The browser's result replaces the plain one, but for the reasons.
Rendered(c) ==
  /\ pc[c] = "browsing"
  /\ Goto(c, "returned")
  /\ Receive(c, [got[c] EXCEPT !.ver = site, !.notmod = FALSE, !.page = TRUE])
  /\ UNCHANGED <<siteVars, stored, applied, lapses, deferred, excluded, seen>>

\* The plain result is returned, which has no reasons.  A forced run has none
\* either, and fails.
NotRendered(c) ==
  /\ pc[c] = "browsing"
  /\ IF got[c].page
     THEN /\ Goto(c, "returned")
          /\ Receive(c, [got[c] EXCEPT !.why = FALSE])
          /\ UNCHANGED <<stored, lapses, excluded, seen>>
     ELSE Clear /\ Failure /\ Reset(c)
  /\ UNCHANGED <<siteVars, applied, deferred>>

-----------------------------------------------------------------------------
(* The scrape *)

\* A run with force_browser asks the browser only.
ForcedRun ==
  /\ pc[Scraper] = "idle"
  /\ deferred
  /\ deferred' = FALSE
  /\ Goto(Scraper, "browsing")
  /\ UNCHANGED <<siteVars, stored, applied, lapses, excluded, seen, got>>

\* The HTTP result is dropped, and a forced run is queued.
Defer ==
  /\ pc[Scraper] = "returned"
  /\ got[Scraper].why
  /\ deferred' = TRUE
  /\ Reset(Scraper)
  /\ UNCHANGED <<siteVars, stored, applied, lapses, excluded>>

\* The run succeeds without parsing: every open job counts as seen.
Skip ==
  /\ pc[Scraper] = "returned"
  /\ ~got[Scraper].why /\ got[Scraper].notmod
  /\ Success
  /\ Reset(Scraper)
  /\ UNCHANGED <<siteVars, stored, applied, lapses, deferred>>

ToParse ==
  /\ pc[Scraper] = "returned"
  /\ ~got[Scraper].why /\ ~got[Scraper].notmod

\* A parser of a board may raise.  spiders/static_jobs.py, which PARSER_MAP names
\* for the company's own page, has no function parse at all.
ParseFails_KeepsState ==
  /\ ToParse
  /\ Failure
  /\ Reset(Scraper)
  /\ UNCHANGED <<siteVars, stored, applied, lapses, deferred>>

ParseFails ==
  /\ ToParse
  /\ Clear
  /\ Failure
  /\ Reset(Scraper)
  /\ UNCHANGED <<siteVars, applied, deferred>>

\* The postings are stored.  If the verdict is UNTRUSTED or QUARANTINED the state
\* is cleared, so that the next run reads the same content again.
Distrust ==
  /\ ToParse
  /\ source = "ats"
  /\ Clear
  /\ IF got[Scraper].ver \in Empty THEN Failure ELSE Success
  /\ Reset(Scraper)
  /\ UNCHANGED <<siteVars, applied, deferred>>

\* TRUSTED, which a page without postings never is: postings stored, strikes applied.
\* What came with another 2xx is not what the row stands for.
Apply_NewerOnly ==
  /\ ToParse
  /\ source = "ats"
  /\ got[Scraper].ver \notin Empty
  /\ got[Scraper].ver > applied
  /\ applied' = got[Scraper].ver
  /\ lapses' = IF stored.hash \in {0, got[Scraper].ver} THEN lapses ELSE lapses \cup {"unrecorded"}
  /\ Success
  /\ Reset(Scraper)
  /\ UNCHANGED <<siteVars, stored, deferred>>

Apply ==
  /\ ToParse
  /\ source = "ats"
  /\ got[Scraper].ver \notin Empty
  /\ applied' = got[Scraper].ver
  /\ lapses' = IF stored.hash \in {0, got[Scraper].ver} THEN lapses ELSE lapses \cup {"unrecorded"}
  /\ Success
  /\ Reset(Scraper)
  /\ UNCHANGED <<siteVars, stored, deferred>>

\* TRUSTED as well, but a posting or the strikes raised: that is logged, and the
\* state stays.
ApplyPartly ==
  /\ ToParse
  /\ source = "ats"
  /\ got[Scraper].ver \notin Empty
  /\ lapses' = lapses \cup {"incomplete"}
  /\ Success
  /\ Reset(Scraper)
  /\ UNCHANGED <<siteVars, stored, applied, deferred>>

\* Any other exception reaches the outer handler of the task.
Unexpected ==
  /\ pc[Scraper] \in {"asking", "answered", "fetched", "browsing", "returned"}
  /\ Clear
  /\ Failure
  /\ Reset(Scraper)
  /\ UNCHANGED <<siteVars, applied, deferred>>

\* The hard time limit, or the host: nothing is cleared.  If the content was on
\* its way its hash is in the row already.
KillScrape ==
  /\ pc[Scraper] # "idle"
  /\ lapses' = IF pc[Scraper] \in {"fetched", "returned"} /\ ~got[Scraper].notmod
               THEN lapses \cup {"killed"} ELSE lapses
  /\ Reset(Scraper)
  /\ UNCHANGED <<siteVars, stored, applied, deferred, excluded>>

-----------------------------------------------------------------------------
\* A detection run has looked at its result, has failed, or is killed.
Look(d) ==
  /\ pc[d] # "idle"
  /\ Reset(d)
  /\ UNCHANGED <<siteVars, stored, applied, lapses, deferred, excluded>>

\* The company is archived and its page added again as a new company, which has no
\* postings yet: the row is keyed by the URL and stays.
Readd ==
  /\ pc[Scraper] = "idle"
  /\ applied # 0
  /\ applied' = 0
  /\ lapses' = IF stored.hash # 0 THEN lapses \cup {"inherited"} ELSE lapses
  /\ UNCHANGED <<siteVars, stored, deferred, excluded, clientVars>>

\* Admins decide whether the company is scraped.
Decide ==
  /\ excluded' = ~excluded
  /\ UNCHANGED <<siteVars, stored, applied, lapses, deferred, clientVars>>

\* The page changes, maybe back to what it was.  Whether a page of the company's
\* own lists postings makes no difference to anything here.
Publish ==
  /\ site' \in Versions \ {site}
  /\ source = "own" => site' \notin Empty
  /\ UNCHANGED <<source, canonical, etags, stored, applied, lapses, deferred, excluded, clientVars>>

Fetch(c) ==
  \/ \E browse \in BOOLEAN : Prepare(c, browse)
  \/ NotModified(c)
  \/ Answer(c)
  \/ AnswerOther(c)
  \/ SameBody(c)
  \/ NewBody(c)
  \/ FetchFails(c)
  \/ Plain(c)
  \/ NoSelector(c)
  \/ Escalate(c)
  \/ Rendered(c)
  \/ NotRendered(c)

Scrape ==
  \/ ForcedRun
  \/ Defer
  \/ Skip
  \/ ParseFails
  \/ Distrust
  \/ Apply
  \/ ApplyPartly
  \/ Unexpected
  \/ KillScrape

FetchingNext ==
  \/ \E c \in Clients : Fetch(c)
  \/ Scrape
  \/ \E d \in Detectors : Look(d)
  \/ Readd
  \/ Decide
  \/ Publish

FetchingSpec == FetchingInit /\ [][FetchingNext]_fetchingVars

\* celery-beat keeps dispatching a company that is not excluded, a run ends, and a
\* board that is asked again and again is read and trusted at some time.  A message
\* that was queued before the company was excluded may still run, or not.
Dispatched == ~excluded /\ \E browse \in BOOLEAN : Prepare(Scraper, browse)

Fairness ==
  /\ WF_fetchingVars(Dispatched)
  /\ WF_fetchingVars(NotModified(Scraper))
  /\ SF_fetchingVars(Plain(Scraper))
  /\ WF_fetchingVars(Skip \/ ParseFails \/ Distrust)
  /\ SF_fetchingVars(Answer(Scraper))
  /\ SF_fetchingVars(SameBody(Scraper))
  /\ SF_fetchingVars(NewBody(Scraper))
  /\ SF_fetchingVars(Apply)

LiveSpec == FetchingSpec /\ Fairness
-----------------------------------------------------------------------------
(* Properties *)

\* Type invariant: what the row, the clients and the histories can hold.
FetchingTypeOK ==
  /\ source \in {"ats", "own"} /\ canonical \in BOOLEAN /\ etags \in BOOLEAN
  /\ site \in Versions
  /\ stored \in [etag : Stamps, hash : Stamps]
  /\ applied \in Stamps
  /\ lapses \subseteq {"killed", "detector", "uncleared", "incomplete", "unrecorded", "inherited"}
  /\ deferred \in BOOLEAN
  /\ excluded \in BOOLEAN
  /\ pc \in [Clients -> {"idle", "asking", "answered", "fetched", "browsing", "returned"}]
  /\ seen \in [Clients -> [etag : Stamps, hash : Stamps]]
  /\ got \in [Clients -> [ver : Stamps, notmod : BOOLEAN, page : BOOLEAN,
                          browse : BOOLEAN, why : BOOLEAN]]

\* Between two runs the hash in the row stands for content that was applied, so
\* that skipping it loses nothing; the six ways the code has to break this are
\* those of lapses.  The row is written before anything is parsed (fetching.py),
\* and all the error paths of tasks.py have to make up for that.
Vouched ==
  pc[Scraper] = "idle" /\ stored.hash # 0 => applied = stored.hash \/ lapses # {}

\* A run on a board that ends as not_modified, which marks every open job as seen,
\* has skipped content that was applied, or one of the lapses tells why not: the site may
\* go back to an old version, and the row loaded before the request may be stale.
SkipsOnlyApplied ==
  source = "ats" /\ pc[Scraper] = "returned" /\ got[Scraper].notmod =>
    applied = got[Scraper].ver \/ lapses # {}

\* Once a board that lists postings stays as it is, its content is applied, unless a
\* lapse stands, which only another change of the board mends, or the company is
\* excluded from dispatch: five failed runs exclude it for ever, although the board
\* may have recovered, and nobody but an admin brings it back.
KeepsUp ==
  <>[][FALSE]_site /\ source = "ats"
    => []<>(applied = site \/ site \in Empty \/ lapses # {} \/ excluded)
=============================================================================
