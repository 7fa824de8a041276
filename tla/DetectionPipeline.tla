--------------------------- MODULE DetectionPipeline ---------------------------
(***************************************************************************)
(* One run of career-URL detection from the first request to the ranking   *)
(* (_execute and _rank of src/apps/career_detection/services.py, the eight *)
(* strategies of strategies.py, the context of types.py and the rubric of  *)
(* scoring.py).  What becomes of the ranking is the matter of              *)
(* CareerDetection.                                                        *)
(*                                                                         *)
(* The company's site does not change during the run.  A URL is known by   *)
(* what the rubric reads off it (Traits), a page by the evidence it shows, *)
(* and a request by how the fetching layer answers it, the conditional GET *)
(* state it keeps included.                                                *)
(***************************************************************************)
EXTENDS Integers, Sequences, FiniteSets, Functions

CONSTANTS
  UrlOrder,     \* the URLs that may become candidates, the shortest first
  Traits,       \* Traits[u]: the rules of the rubric that hold of u itself
  Guesses,      \* board URLs built from the domain, in the order of their probes
  Paths,        \* the common paths of the site
  Subdomains,   \* the common subdomains
  Sites,        \* the sites to explore
  MaxChecks,    \* DETECTION_MAX_URL_CHECKS
  MaxDocs,      \* SITEMAP_MAX_DOCS
  MaxProbes,    \* how many provisional candidates json_ld probes
  MaxCandidates,\* DETECTION_MAX_CANDIDATES
  MinScore,     \* DETECTION_MIN_CANDIDATE_SCORE
  ShortCircuit  \* DETECTION_ATS_SHORTCIRCUIT_SCORE

Url == Range(UrlOrder)

Points ==
  [ats_host |-> 40, json_ld_jobposting |-> 30, career_path_keyword |-> 25,
   multiple_job_links |-> 20, career_subdomain |-> 18, nav_header |-> 15,
   title_keyword |-> 15, nav_footer |-> 10, in_sitemap |-> 10, http_200 |-> 5,
   explicit_no_openings |-> 5, pdf_or_asset |-> -40, noise_path |-> -30,
   workday |-> -20, single_posting |-> -15, deep_path |-> -10, query_heavy |-> -5]

Disqualifying == {"blocked_domain", "foreign_host"}

\* Evidence a page itself may show; "handle" is the company's name in its text.
Content == {"json_ld_jobposting", "multiple_job_links", "title_keyword",
            "explicit_no_openings", "single_posting"}
Flags == Content \cup {"nav_header", "nav_footer", "http_200"}

\* "tagged": sends validators; "walled": answers plain requests with 401, browsers
\* with 200; "foreign", "blocked": redirects to another site, to a blocked domain.
Answers == {"ok", "tagged", "walled", "foreign", "blocked", "down"}

\* A site, of which the company's homepage shows the header, footer and anchors.  A
\* single posting is one that declares itself.
Site ==
  [home: {"ok", "other", "down"}, anchors: SUBSET Url, header: SUBSET Url,
   footer: SUBSET Url, ruled: SUBSET Url, sitemaps: Seq({"leaf", "index", "gone"}),
   listed: SUBSET Url, answer: [Url -> Answers],
   shows: [Url -> SUBSET (Content \cup {"handle"})]]

ASSUME PipelineAssumption ==
  /\ UrlOrder \in Seq(Url) /\ Guesses \in Seq(Url)
  /\ Paths \in Seq(Url) /\ Subdomains \in Seq(Url)
  /\ Sites \subseteq Site
  /\ \A s \in Sites, u \in Url :
       "single_posting" \in s.shows[u] => "json_ld_jobposting" \in s.shows[u]
  /\ \A u \in Url : Traits[u] \cap Flags = {}
  /\ MaxChecks \in Nat \ {0} /\ MinScore \in Nat \ {0}
  /\ MaxDocs \in Nat /\ MaxProbes \in Nat /\ MaxCandidates \in Nat

ORIGIN_COSTS ==
  [header_link |-> 1, footer_link |-> 1, ats_pattern |-> 2, robots_txt |-> 2, sitemap |-> 3,
   common_path |-> 3, subdomain_guess |-> 3]

Candidate ==
  [origin : DOMAIN ORIGIN_COSTS, flags : SUBSET Flags, ats : BOOLEAN,
   status : {"none", "ok", "bad"}]

Stages == {"homepage", "guesses", "nav", "robots", "sitemap", "common_path", "subdomain",
           "json_ld", "verify", "done"}

VARIABLES
  site,      \* what the site is and does
  known,     \* the URLs with validators in SourceFetchState
  stage,     \* the strategy that runs
  todo,      \* what it has left to visit
  used,      \* checks_used
  docs,      \* sitemap documents fetched
  cands,     \* candidates, by normalized URL
  listed,    \* sitemap_urls
  error,     \* homepage_error is not empty
  short,     \* ats_short_circuit
  rejected,  \* URLs the verification has rejected
  visited,   \* history: URLs the verification has requested
  outcome    \* "running", or how the run has ended

context == <<docs, cands, listed, error, short, rejected, visited>>
pipelineVars == <<site, known, stage, todo, used, context, outcome>>

PipelineInit ==
  /\ site \in Sites
  /\ known \in SUBSET {u \in Url : site.answer[u] = "tagged"}
  /\ stage = "homepage"
  /\ todo = <<>>
  /\ used = 0
  /\ docs = 0
  /\ cands = <<>>
  /\ listed = {}
  /\ error = FALSE
  /\ short = FALSE
  /\ rejected = {}
  /\ visited = {}
  /\ outcome = "running"

-----------------------------------------------------------------------------
(* The rubric *)

ClampScore(n) == IF n < 0 THEN 0 ELSE IF n > 100 THEN 100 ELSE n

\* score_candidate: the sum of the rules that apply.
Total(rules) ==
  LET points(r) == IF r \in rules THEN Points[r] ELSE 0
  IN points("ats_host") + points("json_ld_jobposting") + points("career_path_keyword")
     + points("multiple_job_links") + points("career_subdomain") + points("nav_header")
     + points("title_keyword") + points("nav_footer") + points("in_sitemap")
     + points("http_200") + points("explicit_no_openings") + points("pdf_or_asset")
     + points("noise_path") + points("workday") + points("single_posting")
     + points("deep_path") + points("query_heavy")

Score(u, c) ==
  IF Traits[u] \cap Disqualifying # {} \/ c.status = "bad" THEN 0
  ELSE ClampScore(Total(Traits[u] \cup c.flags \cup {r \in {"in_sitemap"} : u \in listed}))

Rank(u) == Score(u, cands[u])
Place(u) == CHOOSE i \in DOMAIN UrlOrder : UrlOrder[i] = u

\* _provisional: by score, then cost, then length and text.
Better(u, v) ==
  LET cost(w) == ORIGIN_COSTS[cands[w].origin]
  IN \/ Rank(u) > Rank(v)
     \/ Rank(u) = Rank(v) /\ cost(u) < cost(v)
     \/ Rank(u) = Rank(v) /\ cost(u) = cost(v) /\ Place(u) < Place(v)

\* The elements of S in the order of R: element i is the one that i - 1 come before.
Sorted(S, R) ==
  [i \in 1..Cardinality(S) |->
     CHOOSE u \in S : Cardinality({v \in S : <<v, u>> \in R}) = i - 1]

ByScore == {p \in (DOMAIN cands) \X (DOMAIN cands) : Better(p[1], p[2])}
Provisional == Sorted(DOMAIN cands, ByScore)
FirstOf(s, n) == SubSeq(s, 1, IF Len(s) < n THEN Len(s) ELSE n)

\* The company's slug is the board's identifier, or a part of its URL.
Confirmed(u) == cands[u].origin = "ats_pattern" /\ "org_named" \in Traits[u]

\* _rank: confirmed boards come first.
BoardsFirst ==
  {p \in (DOMAIN cands) \X (DOMAIN cands) :
     IF Confirmed(p[1]) <=> Confirmed(p[2]) THEN Better(p[1], p[2]) ELSE Confirmed(p[1])}
Acceptable == {u \in DOMAIN cands : Rank(u) >= MinScore}
Ranked == FirstOf(Sorted(Acceptable, BoardsFirst), MaxCandidates)

Reported == Range(Ranked)

-----------------------------------------------------------------------------
(* The context *)

New(origin) == [origin |-> origin, flags |-> {}, ats |-> FALSE, status |-> "none"]

Merged_LatestWins(old, new) == [new EXCEPT !.ats = @ \/ old.ats]

\* add: evidence accumulates, the status is the first one, and the origin that of a
\* board or else the cheapest.
Merged(old, new) ==
  [origin |-> IF \/ new.ats /\ ~old.ats
                 \/ ~old.ats /\ ORIGIN_COSTS[new.origin] < ORIGIN_COSTS[old.origin]
              THEN new.origin ELSE old.origin,
   flags  |-> old.flags \cup new.flags,
   ats    |-> old.ats \/ new.ats,
   status |-> IF old.status = "none" THEN new.status ELSE old.status]

\* The candidates us are added, each with evidence c.
Added(cs, us, c) ==
  [u \in DOMAIN cs \cup us |->
     IF u \notin us THEN cs[u] ELSE IF u \in DOMAIN cs THEN Merged(cs[u], c) ELSE c]

Add(us, c) == cands' = Added(cands, us, c)

Affordable_AtLimit ==
  /\ used' = used + 1
  /\ used' <= MaxChecks

\* spend: the check is counted, then the budget is looked at: the last is never made.
Affordable ==
  /\ used' = used + 1
  /\ used' < MaxChecks

\* The budget or the time is exhausted.
Exhausted(late) ==
  /\ used' = used + 1
  /\ used' >= MaxChecks \/ late

\* FetchBudgetExceeded ends the run; candidates are ranked as they are.
Cut ==
  /\ \E late \in BOOLEAN : Exhausted(late)
  /\ stage' = "done"
  /\ todo' = <<>>
  /\ outcome' = "partial"
  /\ UNCHANGED <<site, known, context>>

Enter(s, list) ==
  /\ stage' = s
  /\ todo' = list

\* is_blocked_domain, of the host a page redirects to; is_own_host, of the others.
Blocked(u) == site.answer[u] = "blocked"
Own(u) == site.answer[u] # "foreign"

\* fetch in HTTP mode: "ok", "not_modified" (without a page), "unauthorized" or "error".
Plain(u) ==
  CASE site.answer[u] = "down" \/ Blocked(u) -> "error"
    [] site.answer[u] = "walled" -> "unauthorized"
    [] site.answer[u] = "tagged" /\ u \in known -> "not_modified"
    [] OTHER -> "ok"

\* A page that came with validators is remembered.
Remember(u) == known' = known \cup {v \in {u} : site.answer[v] = "tagged"}

\* path_has_career_keyword of a whole URL sees its host too.
Keyword(u) == Traits[u] \cap {"career_path_keyword", "career_subdomain"} # {}

\* What the parsers of pages read off them.
RegionLinks(region) == IF site.home = "down" THEN {} ELSE site[region]
Anchors == IF site.home = "down" THEN {} ELSE site.anchors
Declares(u) == "json_ld_jobposting" \in site.shows[u]
Observed(u) == site.shows[u] \cap Content
Locs(doc) == IF doc = "leaf" THEN site.listed ELSE {}

-----------------------------------------------------------------------------
(* The strategies *)

\* #1: the homepage, under its other name if need be, and the boards it links to.
\* A success of the second attempt does not clear the error of the first.
Homepage ==
  /\ stage = "homepage"
  /\ Affordable
  /\ error' = (site.home # "ok")
  /\ Add({u \in Anchors : "ats_host" \in Traits[u]}, [New("ats_pattern") EXCEPT !.ats = TRUE])
  /\ Enter("guesses", Guesses)
  /\ UNCHANGED <<site, known, docs, listed, short, rejected, visited, outcome>>

\* The throttle has no backend: the run fails, and only here.
Throttled ==
  /\ stage = "homepage"
  /\ Affordable
  /\ outcome' = "failed"
  /\ Enter("done", <<>>)
  /\ UNCHANGED <<site, known, context>>

\* A guess needs a page that names the company or declares a posting.
Guess ==
  /\ stage = "guesses" /\ todo # <<>>
  /\ Affordable
  /\ LET u == Head(todo)
         hit == Plain(u) = "ok" /\ ("handle" \in site.shows[u] \/ Declares(u))
     IN /\ Remember(u)
        /\ Add({v \in {u} : hit}, [New("ats_pattern") EXCEPT !.ats = TRUE])
  /\ todo' = Tail(todo)
  /\ UNCHANGED <<site, stage, docs, listed, error, short, rejected, visited, outcome>>

\* _ats_hit_confirmed
AtsHit(cs) ==
  \E u \in DOMAIN cs : /\ cs[u].origin = "ats_pattern"
                       /\ Score(u, cs[u]) >= ShortCircuit \/ "org_named" \in Traits[u]

\* A short circuit verifies the best board only.
Targets ==
  IF short
  THEN FirstOf(Sorted({u \in Acceptable : cands[u].origin = "ats_pattern"}, ByScore), 1)
  ELSE FirstOf(Provisional, MaxCandidates)

NavLinks_FooterOnly ==
  Added(cands, RegionLinks("footer"), [New("footer_link") EXCEPT !.flags = {"nav_footer"}])

NavLinks ==
  Added(Added(cands, RegionLinks("header"), [New("header_link") EXCEPT !.flags = {"nav_header"}]),
        RegionLinks("footer"), [New("footer_link") EXCEPT !.flags = {"nav_footer"}])

\* #2, free: the header and footer of the homepage; then the short circuit is decided.
Nav ==
  /\ stage = "guesses" /\ todo = <<>>
  /\ cands' = NavLinks
  /\ short' = AtsHit(cands')
  /\ Enter("nav", <<>>)
  /\ UNCHANGED <<site, known, used, docs, listed, error, rejected, visited, outcome>>

\* #3: robots.txt names career paths and sitemaps.
Robots ==
  /\ stage = "nav" /\ ~short
  /\ Affordable
  /\ Add({u \in site.ruled : Keyword(u)}, New("robots_txt"))
  /\ Enter("sitemap", site.sitemaps)
  /\ UNCHANGED <<site, known, docs, listed, error, short, rejected, visited, outcome>>

MoreDocs == todo # <<>> /\ docs < MaxDocs

\* #4: a few documents, and those one index level below.
Sitemap ==
  /\ stage = "sitemap" /\ MoreDocs
  /\ Affordable
  /\ docs' = docs + 1
  /\ LET found == Locs(Head(todo))
     IN /\ listed' = listed \cup found
        /\ Add({u \in found : Keyword(u)}, New("sitemap"))
  /\ todo' = (IF Head(todo) = "index" THEN [i \in 1..MaxDocs |-> "leaf"] ELSE <<>>) \o Tail(todo)
  /\ UNCHANGED <<site, known, stage, error, short, rejected, visited, outcome>>

SitemapEnd ==
  /\ stage = "sitemap" /\ ~MoreDocs
  /\ Enter("common_path", Paths)
  /\ UNCHANGED <<site, known, used, context, outcome>>

\* #5 and #6 leave out what is a candidate already.
Skip ==
  /\ stage \in {"common_path", "subdomain"} /\ todo # <<>> /\ Head(todo) \in DOMAIN cands
  /\ todo' = Tail(todo)
  /\ UNCHANGED <<site, known, stage, used, context, outcome>>

\* head_ok is not conditional.
CommonPath ==
  /\ stage = "common_path" /\ todo # <<>> /\ Head(todo) \notin DOMAIN cands
  /\ Affordable
  /\ Add({u \in {Head(todo)} : site.answer[u] \in {"ok", "tagged", "foreign"}}, New("common_path"))
  /\ todo' = Tail(todo)
  /\ UNCHANGED <<site, known, stage, docs, listed, error, short, rejected, visited, outcome>>

CommonPathEnd ==
  /\ stage = "common_path" /\ todo = <<>>
  /\ Enter("subdomain", Subdomains)
  /\ UNCHANGED <<site, known, used, context, outcome>>

Subdomain ==
  /\ stage = "subdomain" /\ todo # <<>> /\ Head(todo) \notin DOMAIN cands
  /\ Affordable
  /\ LET u == Head(todo) IN
       /\ Remember(u)
       /\ Add({v \in {u} : Plain(v) = "ok"}, New("subdomain_guess"))
  /\ todo' = Tail(todo)
  /\ UNCHANGED <<site, stage, docs, listed, error, short, rejected, visited, outcome>>

SubdomainEnd ==
  /\ stage = "subdomain" /\ todo = <<>>
  /\ Enter("json_ld", FirstOf(Provisional, MaxProbes))
  /\ UNCHANGED <<site, known, used, context, outcome>>

\* #7: the status of the answer is evidence, that of a 304 or a 401 as well.
JsonLd ==
  /\ stage = "json_ld" /\ todo # <<>>
  /\ Affordable
  /\ LET u == Head(todo)
         flags == {f \in {"json_ld_jobposting"} : Plain(u) = "ok" /\ Declares(u)}
                    \cup {f \in {"http_200"} : Plain(u) # "unauthorized"}
     IN /\ Remember(u)
        /\ IF Plain(u) = "error" THEN cands' = cands
           ELSE Add({u}, [cands[u] EXCEPT !.flags = flags,
                                          !.status = IF Plain(u) = "ok" THEN "ok" ELSE "bad"])
  /\ todo' = Tail(todo)
  /\ UNCHANGED <<site, stage, docs, listed, error, short, rejected, visited, outcome>>

JsonLdEnd ==
  /\ \/ stage = "json_ld" /\ todo = <<>>
     \/ stage = "nav" /\ short
  /\ Enter("verify", Targets)
  /\ UNCHANGED <<site, known, used, context, outcome>>

\* #8: fetch_with_escalation fails on a 304, which has no page, and forgets the
\* validators before it tries the browser.  A failure leaves the candidate as it is,
\* that of a redirect to a blocked domain too.
Verify ==
  /\ stage = "verify" /\ todo # <<>>
  /\ Affordable
  /\ LET u == Head(todo)
         answered == Plain(u) \notin {"error", "not_modified"}
     IN /\ known' = IF answered THEN known \ {u} ELSE known
        /\ visited' = visited \cup {u}
        /\ rejected' = IF answered /\ ~Own(u) THEN rejected \cup {u} ELSE rejected
        /\ IF answered /\ Own(u)
           THEN Add({u}, [cands[u] EXCEPT !.status = "ok",
                                          !.flags = {"http_200"} \cup Observed(u)])
           ELSE cands' = cands
  /\ todo' = Tail(todo)
  /\ UNCHANGED <<site, stage, docs, listed, error, short, outcome>>

VerifyEnd_KeepsRejected ==
  /\ stage = "verify" /\ todo = <<>>
  /\ outcome' = "finished"
  /\ Enter("done", <<>>)
  /\ UNCHANGED <<site, known, used, context>>

VerifyEnd ==
  /\ stage = "verify" /\ todo = <<>>
  /\ cands' = [u \in DOMAIN cands \ rejected |-> cands[u]]
  /\ outcome' = "finished"
  /\ Enter("done", <<>>)
  /\ UNCHANGED <<site, known, used, docs, listed, error, short, rejected, visited>>

\* Every strategy but #2 may find the budget exhausted.
Exhaust ==
  /\ \/ stage = "homepage"
     \/ stage \in {"guesses", "json_ld", "verify"} /\ todo # <<>>
     \/ stage = "nav" /\ ~short
     \/ stage = "sitemap" /\ MoreDocs
     \/ stage \in {"common_path", "subdomain"} /\ todo # <<>> /\ Head(todo) \notin DOMAIN cands
  /\ Cut

PipelineNext ==
  \/ Homepage \/ Throttled
  \/ Guess
  \/ Nav
  \/ Robots
  \/ Sitemap \/ SitemapEnd
  \/ Skip
  \/ CommonPath \/ CommonPathEnd
  \/ Subdomain \/ SubdomainEnd
  \/ JsonLd \/ JsonLdEnd
  \/ Verify \/ VerifyEnd
  \/ Exhaust

PipelineSpec == PipelineInit /\ [][PipelineNext]_pipelineVars
-----------------------------------------------------------------------------
(* Properties *)

\* Type invariant: the stage and its list, the candidates and the outcome.
PipelineTypeOK ==
  /\ known \subseteq {u \in Url : site.answer[u] = "tagged"}
  /\ stage \in Stages
  /\ todo \in Seq(IF stage = "sitemap" THEN {"leaf", "index", "gone"} ELSE Url)
  /\ used \in 0..MaxChecks
  /\ docs \in 0..MaxDocs
  /\ DOMAIN cands \subseteq Url /\ \A u \in DOMAIN cands : cands[u] \in Candidate
  /\ listed \subseteq Url
  /\ error \in BOOLEAN /\ short \in BOOLEAN
  /\ rejected \subseteq visited /\ visited \subseteq Url
  /\ outcome \in {"running", "finished", "partial", "failed"}
  /\ outcome = "running" <=> stage # "done"

\* No run makes more checks than its budget, and one that is cut short by a board
\* asks for no more than the homepage, the guesses and that board.
ChecksKept ==
  /\ outcome # "partial" => used < MaxChecks
  /\ short /\ outcome = "finished" => used <= Len(Guesses) + 2

\* A finished run reports no page that the rubric disqualifies, and none whose request
\* the verification has seen answered by a foreign host.  It is not said of a run that
\* the budget ends before the rejected are removed, nor of a page that redirects to a
\* blocked domain, which the fetching layer refuses before the verification sees its
\* host: the next property is.
ForeignAnswersRejected ==
  outcome = "finished" =>
    \A u \in Reported : /\ Traits[u] \cap Disqualifying = {}
                        /\ u \in visited => site.answer[u] # "foreign"

\* 'a hop that lands off-company (e.g. a careers path 301-ing to LinkedIn) is dead -
\* never scored, never persisted' (strategies.py:521): a finished run reports no page
\* that it has requested in the verification and that redirects to another site.
OffCompanyHopsDead ==
  outcome = "finished" => \A u \in Reported \cap visited : site.answer[u] \notin {"foreign", "blocked"}

\* A link in the header that the rubric accepts, to a page that answers, is reported
\* by every finished run that gets the homepage and has room for it, unless a board
\* cuts the run short; and so is every board that the rubric accepts, if it answers
\* the second time as well.
LeadsFound ==
  outcome = "finished" /\ site.home # "down" /\ Cardinality(DOMAIN cands) <= MaxCandidates =>
    /\ \A u \in site.header :
         /\ ~short /\ site.answer[u] = "ok"
         /\ Score(u, [New("header_link") EXCEPT !.flags = {"nav_header"}]) >= MinScore
         => u \in Reported
    /\ \A u \in DOMAIN cands :
         /\ cands[u].ats
         /\ site.answer[u] = "ok" \/ (short /\ site.answer[u] = "tagged")
         /\ Score(u, New("ats_pattern")) >= MinScore
         => u \in Reported

\* What a strategy has found out about a candidate is not forgotten, and a candidate
\* is given up only by the verification.
EvidenceKept ==
  [][\A u \in DOMAIN cands :
       IF u \in DOMAIN cands'
       THEN /\ cands[u].flags \subseteq cands'[u].flags
            /\ cands[u].ats => cands'[u].ats
            /\ cands[u].status # "none" => cands'[u].status = cands[u].status
       ELSE u \in rejected]_pipelineVars
=============================================================================
