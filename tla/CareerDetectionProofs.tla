------------------------- MODULE CareerDetectionProofs -------------------------
(***************************************************************************)
(* Theorems about CareerDetection, for any URLs, detectors, requests and   *)
(* scrapes, and about DetectionPipeline, for any sites, guesses and        *)
(* bounds.                                                                 *)
(*                                                                         *)
(* The pipeline's invariants rest on three facts that hold of every run:   *)
(* candidates are only added to (Adds), the rankings list what they rank   *)
(* (SortedLists), and more evidence never lowers a score (TotalGrows).     *)
(***************************************************************************)
EXTENDS CareerDetection, DetectionPipeline, FiniteSetTheorems, SequenceTheorems, TLAPS

-----------------------------------------------------------------------------
(* Type correctness *)

LEMMA FirstType == NewCompany \in Company
  BY DEF NewCompany, Company

\* The helpers return statuses and sources.
LEMMA HelperTypes ==
  ASSUME TypeOK
  PROVE  /\ RejectPending \in [Urls -> {"none", "pending", "approved", "rejected"}]
         /\ \A u : Decided(u) \in [Urls -> {"none", "pending", "approved", "rejected"}]
         /\ \A u : NewSource(u) \in [Urls -> {"none", "current", "retired"}]
  BY DEF TypeOK, RejectPending, Decided, NewSource

\* The updates of single columns.
LEMMA ColumnTypes ==
  ASSUME NEW c \in Company, NEW u \in Urls \cup {None}
  PROVE  /\ [c EXCEPT !.url = u, !.status = "verified", !.verified = TRUE] \in Company
         /\ [c EXCEPT !.url = u, !.status = "manual", !.verified = TRUE] \in Company
         /\ \A s \in {"pending", "not_found", "failed", "candidates_found", "no_candidates"} :
              [c EXCEPT !.status = s] \in Company
         /\ \A b \in BOOLEAN : [c EXCEPT !.verified = b] \in Company
         /\ \A b \in BOOLEAN : [c EXCEPT !.deleted = b] \in Company
  BY DEF Company

LEMMA TypeInit == Init => TypeOK
<1> SUFFICES ASSUME Init PROVE TypeOK
  OBVIOUS
<1>1. source \in [Urls -> {"none", "current", "retired"}]
  BY DEF Init
<1>2. company \in Company
  <2>1. CASE company = NewCompany
    BY <2>1, FirstType
  <2>2. ASSUME NEW u \in Urls, NEW b \in BOOLEAN,
               company = [verified |-> b, deleted |-> FALSE, url |-> u, status |-> "skipped"]
        PROVE  company \in Company
    BY <2>2 DEF Company
  <2> QED
    BY <2>1, <2>2 DEF Init
<1> QED
  BY <1>1, <1>2, FirstType DEF Init, TypeOK

LEMMA TypeDetect ==
  ASSUME TypeOK, NEW d \in Detectors, Detect(d)
  PROVE  TypeOK'
<1> USE DEF TypeOK, adminVars, scrapeVars
<1>1. CASE Start(d)
  BY <1>1 DEF Start
<1>2. CASE Recheck(d)
  BY <1>2 DEF Recheck
<1>3. ASSUME NEW found \in SUBSET Urls, NEW status \in Outcomes(found), Persist(d, found, status)
      PROVE  TypeOK'
  <2>1. status \in {"pending", "not_found", "failed", "candidates_found", "no_candidates"}
    BY DEF Outcomes
  <2>2. company' \in Company
    BY <1>3, <2>1, ColumnTypes DEF Persist, Upserted
  <2>3. late' \subseteq Urls
    BY <1>3 DEF Persist, Late
  <2> QED
    BY <1>3, <2>2, <2>3 DEF Persist, Upserted
<1>4. CASE Fail(d)
  <2>1. company' \in Company
    BY <1>4, ColumnTypes DEF Fail
  <2> QED
    BY <1>4, <2>1 DEF Fail
<1>5. CASE Escape(d)
  BY <1>5 DEF Escape
<1>6. CASE Release(d)
  BY <1>6 DEF Release
<1>7. CASE Crash(d)
  BY <1>7 DEF Crash
<1> QED
  BY <1>1, <1>2, <1>3, <1>4, <1>5, <1>6, <1>7 DEF Detect

\* A request that ends leaves well-typed rows behind.
LEMMA TypeLeaves ==
  ASSUME TypeOK, NEW a \in Requests, Leaves(a),
         UNCHANGED <<detectVars, scrapeVars>>,
         company' \in Company,
         cand' \in [Urls -> {"none", "pending", "approved", "rejected"}],
         source' \in [Urls -> {"none", "current", "retired"}]
  PROVE  TypeOK'
  BY FirstType DEF TypeOK, Leaves, detectVars, scrapeVars

LEMMA TypeRequest ==
  ASSUME TypeOK, NEW a \in Requests, Request(a)
  PROVE  TypeOK'
<1>0. company \in Company /\ copy[a] \in Company /\ pick[a] \in Urls \cup {None}
  BY DEF TypeOK
<1>1. ASSUME NEW u \in Urls \cup {None}, Load(a, u) PROVE TypeOK'
  BY <1>1 DEF Load, TypeOK, detectVars, scrapeVars
<1>2. CASE ApproveSave(a)
  <2>0. pick[a] \in Urls
    BY <1>0, <1>2 DEF ApproveSave
  <2>1. company' \in Company
    BY <1>0, <1>2, <2>0, ColumnTypes DEF ApproveSave
  <2>2. cand' \in [Urls -> {"none", "pending", "approved", "rejected"}]
    BY <1>2, HelperTypes DEF ApproveSave
  <2>3. source' \in [Urls -> {"none", "current", "retired"}]
    BY <1>2, HelperTypes DEF ApproveSave
  <2> QED
    BY <1>2, <2>1, <2>2, <2>3, TypeLeaves DEF ApproveSave
<1>9. CASE ApproveDecide(a)
  <2>1. copy' \in [Requests -> Company] /\ swept' \subseteq Urls
    BY <1>9, FirstType DEF ApproveDecide, Pending, TypeOK
  <2> QED
    BY <1>9, <2>1 DEF ApproveDecide, TypeOK, detectVars, scrapeVars
<1>3. CASE Reject(a)
  <2>1. company' \in Company
    BY <1>0, <1>3, ColumnTypes DEF Reject
  <2>2. cand' \in [Urls -> {"none", "pending", "approved", "rejected"}] /\ source' = source
    BY <1>3 DEF Reject, TypeOK
  <2> QED
    BY <1>3, <2>1, <2>2, TypeLeaves DEF Reject, TypeOK
<1>4. ASSUME NEW u \in Urls, SetManualUrl(a, u) PROVE TypeOK'
  <2>1. company' \in Company
    BY <1>0, <1>4, ColumnTypes DEF SetManualUrl
  <2>2. source' \in [Urls -> {"none", "current", "retired"}]
    BY <1>4, HelperTypes DEF SetManualUrl, TypeOK
  <2> QED
    BY <1>4, <2>1, <2>2, TypeLeaves DEF SetManualUrl, TypeOK
<1>5. CASE Redetect(a)
  <2>1. company' \in Company
    BY <1>0, <1>5, ColumnTypes DEF Redetect
  <2> QED
    BY <1>5, <2>1, HelperTypes, TypeLeaves DEF Redetect, TypeOK
<1>6. ASSUME NEW c \in Company, Narrow(a, c) PROVE TypeOK'
  BY <1>6, TypeLeaves DEF Narrow, TypeOK
<1>7. CASE Unverify(a) \/ Archive(a) \/ Unarchive(a)
  BY <1>0, <1>6, <1>7, ColumnTypes DEF Unverify, Archive, Unarchive
<1>8. CASE Leave(a)
  BY <1>8, TypeLeaves DEF Leave, TypeOK
<1> QED
  BY <1>1, <1>2, <1>3, <1>4, <1>5, <1>7, <1>8, <1>9 DEF Request

LEMMA TypeScrape ==
  ASSUME TypeOK, NEW t \in Scrapes, Scrape(t)
  PROVE  TypeOK'
<1> USE DEF TypeOK, detectVars, adminVars
<1>1. CASE ScrapeLoad(t)
  BY <1>1 DEF ScrapeLoad
<1>2. CASE ScrapeSave(t)
  <2>1. late' \subseteq Urls
    BY <1>2 DEF ScrapeSave
  <2> QED
    BY <1>2, <2>1 DEF ScrapeSave
<1>3. CASE ScrapeEnd(t)
  BY <1>3, FirstType DEF ScrapeEnd
<1> QED
  BY <1>1, <1>2, <1>3 DEF Scrape

LEMMA TypeNext == TypeOK /\ [Next]_vars => TypeOK'
<1> SUFFICES ASSUME TypeOK, [Next]_vars PROVE TypeOK'
  OBVIOUS
<1>1. CASE UNCHANGED vars
  BY <1>1 DEF vars, detectVars, adminVars, scrapeVars, TypeOK
<1>2. CASE LockExpires
  BY <1>2 DEF LockExpires, adminVars, scrapeVars, TypeOK
<1> QED
  BY <1>1, <1>2, TypeDetect, TypeRequest, TypeScrape DEF Next

\* Every reachable state is well typed.
THEOREM TypeCorrect == Spec => []TypeOK
  BY TypeInit, TypeNext, PTL DEF Spec

-----------------------------------------------------------------------------
(* The source history *)

\* The URL of a row or an instance of the company is in the history.
Recorded(c) == c.url # None => source[c.url] # "none"

\* So is every URL that may be written back, and every approved candidate.
AllRecorded ==
  /\ Recorded(company)
  /\ \A a \in Requests : Recorded(copy[a])
  /\ \A t \in Scrapes : Recorded(inst[t])
  /\ \A u \in Urls : cand[u] = "approved" => source[u] # "none"

LEMMA NewSourceGrows ==
  ASSUME TypeOK, NEW u \in Urls
  PROVE  /\ NewSource(u)[u] = "current"
         /\ \A v \in Urls : source[v] # "none" => NewSource(u)[v] # "none"
         /\ \A v \in Urls : NewSource(u)[v] = "current" <=> v = u
  BY DEF NewSource, TypeOK

LEMMA FirstRecorded == NewCompany.url = None
  BY DEF NewCompany

LEMMA RecordedInit == Init => AllRecorded
<1> SUFFICES ASSUME Init PROVE AllRecorded
  OBVIOUS
<1>1. Recorded(company)
  BY FirstRecorded DEF Init, Recorded
<1> QED
  BY <1>1, FirstRecorded DEF Init, AllRecorded, Recorded

LEMMA RecordedDetect ==
  ASSUME TypeOK, AllRecorded, NEW d \in Detectors, Detect(d)
  PROVE  AllRecorded'
<1>1. UNCHANGED <<source, copy, inst>> /\ company'.url = company.url
  BY DEF Detect, Start, Recheck, Persist, Upserted, Fail, Escape, Release, Crash, adminVars, scrapeVars,
     TypeOK, Company
<1>2. \A u \in Urls : cand'[u] = "approved" => cand[u] = "approved"
  BY DEF Detect, Start, Recheck, Persist, Upserted, Fail, Escape, Release, Crash
<1> QED
  BY <1>1, <1>2 DEF AllRecorded, Recorded

\* A request that ends, having kept the history and recorded what it writes.
LEMMA RecordedLeaves ==
  ASSUME TypeOK, AllRecorded, NEW a \in Requests, Leaves(a), UNCHANGED inst,
         \A u \in Urls : source[u] # "none" => source'[u] # "none",
         company'.url # None => source'[company'.url] # "none",
         \A u \in Urls : cand'[u] = "approved" => source'[u] # "none"
  PROVE  AllRecorded'
<1>1. \A t \in Scrapes : Recorded(inst[t])'
  BY DEF AllRecorded, Recorded, TypeOK, Company
<1>2. \A b \in Requests : Recorded(copy[b])'
  BY FirstRecorded DEF Leaves, AllRecorded, Recorded, TypeOK, Company
<1> QED
  BY <1>1, <1>2 DEF AllRecorded, Recorded

LEMMA RecordedRequest ==
  ASSUME TypeOK, AllRecorded, NEW a \in Requests, Request(a)
  PROVE  AllRecorded'
<1> USE DEF scrapeVars
<1>0. company \in Company /\ copy[a] \in Company /\ pick[a] \in Urls \cup {None}
  BY DEF TypeOK
<1>1. ASSUME NEW u \in Urls \cup {None}, Load(a, u) PROVE AllRecorded'
  BY <1>1 DEF Load, AllRecorded, Recorded, TypeOK
<1>2. CASE ApproveSave(a)
  <2> DEFINE u == pick[a]
  <2>1. u \in Urls /\ source' = NewSource(u) /\ company'.url = u
    BY <1>0, <1>2 DEF ApproveSave, Company
  <2>2. \A v \in Urls : cand'[v] = "approved" => v = u \/ cand[v] = "approved"
    BY <1>2 DEF ApproveSave, Decided
  <2>3. \A v \in Urls : cand'[v] = "approved" => source'[v] # "none"
    BY <2>1, <2>2, NewSourceGrows DEF AllRecorded
  <2> QED
    BY <1>2, <2>1, <2>3, NewSourceGrows, RecordedLeaves DEF ApproveSave
<1>8. CASE ApproveDecide(a)
  <2>1. \A b \in Requests : Recorded(copy'[b])
    BY <1>8, FirstRecorded DEF ApproveDecide, AllRecorded, Recorded, TypeOK
  <2> QED
    BY <1>8, <2>1 DEF ApproveDecide, AllRecorded, Recorded
<1>3. CASE Reject(a)
  <2>1. company'.url = company.url /\ source' = source
    BY <1>0, <1>3 DEF Reject, Company
  <2>2. \A v \in Urls : cand'[v] = "approved" => cand[v] = "approved"
    BY <1>3 DEF Reject, TypeOK
  <2> QED
    BY <1>3, <2>1, <2>2, RecordedLeaves DEF Reject, AllRecorded, Recorded
<1>4. ASSUME NEW u \in Urls, SetManualUrl(a, u) PROVE AllRecorded'
  <2>1. CASE source[u] = "none"
    <3>1. source' = NewSource(u) /\ company'.url = u /\ cand' = cand
      BY <1>0, <1>4, <2>1 DEF SetManualUrl, Company
    <3> QED
      BY <1>4, <3>1, NewSourceGrows, RecordedLeaves DEF SetManualUrl, AllRecorded
  <2>2. CASE source[u] # "none"
    BY <1>4, <2>2, RecordedLeaves DEF SetManualUrl, AllRecorded, Recorded
  <2> QED
    BY <2>1, <2>2
<1>5. CASE Redetect(a)
  <2>1. company'.url = company.url /\ source' = source
    BY <1>0, <1>5 DEF Redetect, Company
  <2>2. \A v \in Urls : cand'[v] = "approved" => cand[v] = "approved"
    BY <1>5 DEF Redetect, RejectPending
  <2> QED
    BY <1>5, <2>1, <2>2, RecordedLeaves DEF Redetect, AllRecorded, Recorded
<1>6. CASE Unverify(a) \/ Archive(a) \/ Unarchive(a)
  <2>1. company'.url = company.url /\ UNCHANGED <<source, cand, inst>> /\ Leaves(a)
    BY <1>0, <1>6 DEF Unverify, Archive, Unarchive, Narrow, Company
  <2> QED
    BY <2>1, RecordedLeaves DEF AllRecorded, Recorded
<1>7. CASE Leave(a)
  BY <1>7, RecordedLeaves DEF Leave, AllRecorded, Recorded
<1> QED
  BY <1>1, <1>2, <1>3, <1>4, <1>5, <1>6, <1>7, <1>8 DEF Request

LEMMA RecordedScrape ==
  ASSUME TypeOK, AllRecorded, NEW t \in Scrapes, Scrape(t)
  PROVE  AllRecorded'
<1> USE FirstRecorded DEF AllRecorded, Recorded, TypeOK, adminVars
<1>1. CASE ScrapeLoad(t)
  BY <1>1 DEF ScrapeLoad
<1>2. CASE ScrapeSave(t)
  BY <1>2 DEF ScrapeSave
<1>3. CASE ScrapeEnd(t)
  BY <1>3 DEF ScrapeEnd
<1> QED
  BY <1>1, <1>2, <1>3 DEF Scrape

LEMMA RecordedNext == TypeOK /\ AllRecorded /\ [Next]_vars => AllRecorded'
<1> SUFFICES ASSUME TypeOK, AllRecorded, [Next]_vars PROVE AllRecorded'
  OBVIOUS
<1>1. CASE UNCHANGED vars \/ LockExpires
  BY <1>1 DEF LockExpires, vars, adminVars, scrapeVars, AllRecorded, Recorded
<1> QED
  BY <1>1, RecordedDetect, RecordedRequest, RecordedScrape DEF Next

\* The source history misses neither the career URL nor an approved candidate,
\* however old the instance that was saved last.
THEOREM HistoryIsComplete == Spec => []HistoryComplete
<1>1. AllRecorded => HistoryComplete
  BY DEF AllRecorded, Recorded, HistoryComplete
<1> QED
  BY <1>1, RecordedInit, RecordedNext, TypeCorrect, PTL DEF Spec

-----------------------------------------------------------------------------
(* The current source *)

LEMMA CurrentDetect ==
  ASSUME TypeOK, CurrentIsCareerUrl, NEW d \in Detectors, Detect(d)
  PROVE  CurrentIsCareerUrl'
<1>1. UNCHANGED <<source, stale>> /\ company'.url = company.url
  BY DEF Detect, Start, Recheck, Persist, Upserted, Fail, Escape, Release, Crash, scrapeVars, TypeOK, Company
<1> QED
  BY <1>1 DEF CurrentIsCareerUrl

LEMMA CurrentRequest ==
  ASSUME TypeOK, CurrentIsCareerUrl, NEW a \in Requests, Request(a)
  PROVE  CurrentIsCareerUrl'
<1> USE DEF scrapeVars
<1>0. company \in Company /\ copy[a] \in Company /\ pick[a] \in Urls \cup {None}
  BY DEF TypeOK
<1>1. ASSUME NEW u \in Urls, source' = NewSource(u), company'.url = u PROVE CurrentIsCareerUrl'
  BY <1>1, NewSourceGrows DEF CurrentIsCareerUrl
<1>2. ASSUME UNCHANGED <<source, stale>>, company'.url = company.url PROVE CurrentIsCareerUrl'
  BY <1>2 DEF CurrentIsCareerUrl
<1>3. CASE ApproveSave(a)
  <2>1. pick[a] \in Urls /\ company'.url = pick[a] /\ source' = NewSource(pick[a])
    BY <1>0, <1>3 DEF ApproveSave, Company
  <2> QED
    BY <1>1, <2>1
<1>4. ASSUME NEW u \in Urls, SetManualUrl(a, u) PROVE CurrentIsCareerUrl'
  <2>1. CASE source[u] = "none"
    <3>1. company'.url = u /\ source' = NewSource(u)
      BY <1>0, <1>4, <2>1 DEF SetManualUrl, Company
    <3> QED
      BY <1>1, <3>1
  <2>2. CASE source[u] # "none"
    BY <1>2, <1>4, <2>2 DEF SetManualUrl
  <2> QED
    BY <2>1, <2>2
<1>5. CASE Reject(a) \/ Redetect(a) \/ Unverify(a) \/ Archive(a) \/ Unarchive(a) \/ Leave(a)
  <2>1. UNCHANGED <<source, stale>>
    BY <1>5 DEF Reject, Redetect, Unverify, Archive, Unarchive, Narrow, Leave
  <2>2. company'.url = company.url
    BY <1>0, <1>5 DEF Reject, Redetect, Unverify, Archive, Unarchive, Narrow, Leave, Company
  <2> QED
    BY <1>2, <2>1, <2>2
<1>6. ASSUME NEW u \in Urls \cup {None}, Load(a, u) PROVE CurrentIsCareerUrl'
  BY <1>2, <1>6 DEF Load
<1>7. CASE ApproveDecide(a)
  BY <1>2, <1>7 DEF ApproveDecide
<1> QED
  BY <1>3, <1>4, <1>5, <1>6, <1>7 DEF Request

\* A save that is not outdated changes nothing; after any other, nothing is claimed.
LEMMA ScrapeKeepsFresh ==
  ASSUME TypeOK, NEW t \in Scrapes, Scrape(t), ~stale'
  PROVE  ~stale /\ UNCHANGED <<company, cand, source, late>>
  BY DEF Scrape, ScrapeLoad, ScrapeSave, ScrapeEnd, TypeOK

\* Unless a scrape has written an outdated instance back, the current source is
\* the career URL.
THEOREM CurrentSourceIsUsed == Spec => []CurrentIsCareerUrl
<1>1. ASSUME Init PROVE CurrentIsCareerUrl
  <2>1. CASE company = NewCompany /\ source = [u \in Urls |-> "none"]
    <3>1. company.url = None
      BY <2>1 DEF NewCompany
    <3> QED
      BY <2>1, <3>1, NoneAssumption DEF CurrentIsCareerUrl
  <2>2. ASSUME NEW u \in Urls, company.url = u,
               source = [v \in Urls |-> IF v = u THEN "current" ELSE "none"]
        PROVE  CurrentIsCareerUrl
    BY <2>2 DEF CurrentIsCareerUrl
  <2> QED
    BY <1>1, <2>1, <2>2 DEF Init
<1>2. TypeOK /\ CurrentIsCareerUrl /\ [Next]_vars => CurrentIsCareerUrl'
  <2> SUFFICES ASSUME TypeOK, CurrentIsCareerUrl, [Next]_vars PROVE CurrentIsCareerUrl'
    OBVIOUS
  <2>1. CASE UNCHANGED vars \/ LockExpires
    BY <2>1 DEF LockExpires, vars, adminVars, scrapeVars, CurrentIsCareerUrl
  <2>2. ASSUME NEW t \in Scrapes, Scrape(t) PROVE CurrentIsCareerUrl'
    BY <2>2, ScrapeKeepsFresh DEF CurrentIsCareerUrl
  <2> QED
    BY <2>1, <2>2, CurrentDetect, CurrentRequest DEF Next
<1> QED
  BY <1>1, <1>2, TypeCorrect, PTL DEF Spec

-----------------------------------------------------------------------------
(* Approval *)

\* A request is in an approval only of a candidate that it picked, and of the
\* pending candidates only those are neither decided by it nor proposed late.
Deciding ==
  /\ approving \subseteq held
  /\ \A a \in approving : approving = {a} /\ pick[a] \in Urls
  /\ approving # {} /\ ~stale => Pending \subseteq late \cup Locked

LEMMA DecidingDetect ==
  ASSUME TypeOK, Deciding, NEW d \in Detectors, Detect(d)
  PROVE  Deciding'
<1>1. UNCHANGED <<held, pick, approving>> /\ Locked' = Locked /\ stale' = stale
  BY DEF Detect, Start, Recheck, Persist, Fail, Escape, Release, Crash, adminVars, scrapeVars, Locked
<1>2. ASSUME approving # {}, ~stale PROVE Pending' \subseteq Pending \cup late' /\ late \subseteq late'
  BY <1>2 DEF Detect, Start, Recheck, Persist, Upserted, Late, Fail, Escape, Release, Crash, scrapeVars,
     Pending, TypeOK
<1> QED
  BY <1>1, <1>2 DEF Deciding

\* A request that ends leaves the approval of another as it is, if it only
\* decides candidates.
LEMMA DecidingLeaves ==
  ASSUME TypeOK, Deciding, NEW a \in Requests, Leaves(a), UNCHANGED <<stale, late>>,
         a \notin approving => Pending' \subseteq Pending
  PROVE  Deciding'
<1>1. CASE a \in approving
  BY <1>1 DEF Deciding, Leaves
<1>2. CASE a \notin approving
  <2>1. approving' = approving /\ swept' = swept /\ held' = held \ {a}
    BY <1>2 DEF Leaves
  <2>2. \A b \in approving : pick'[b] = pick[b]
    BY <1>2 DEF Leaves, TypeOK
  <2>3. Locked' = Locked
    BY <2>1, <2>2 DEF Locked
  <2> QED
    BY <1>2, <2>1, <2>2, <2>3 DEF Deciding
<1> QED
  BY <1>1, <1>2

LEMMA DecidingRequest ==
  ASSUME TypeOK, Deciding, NEW a \in Requests, Request(a)
  PROVE  Deciding'
<1> USE DEF scrapeVars
<1>1. ASSUME NEW u \in Urls \cup {None}, Load(a, u) PROVE Deciding'
  <2>1. \A b \in approving : pick'[b] = pick[b]
    BY <1>1 DEF Load, Deciding, TypeOK
  <2>2. Locked' = Locked
    BY <1>1, <2>1 DEF Load, Locked
  <2> QED
    BY <1>1, <2>1, <2>2 DEF Load, Deciding, Pending
<1>2. CASE ApproveDecide(a)
  <2>1. approving' = {a} /\ pick' = pick /\ held' = held /\ a \in held /\ pick[a] \in Urls
    BY <1>2 DEF ApproveDecide, TypeOK
  <2>2. Locked' = (Pending \ {pick[a]}) \cup {pick[a]}
    BY <1>2, <2>1 DEF ApproveDecide, Locked
  <2> QED
    BY <1>2, <2>1, <2>2 DEF ApproveDecide, Deciding, Pending
<1>3. CASE ApproveSave(a)
  BY <1>3, DecidingLeaves DEF ApproveSave
<1>4. ASSUME Leaves(a), UNCHANGED scrapeVars,
             \A u \in Urls : cand'[u] = "pending" => cand[u] = "pending"
      PROVE  Deciding'
  BY <1>4, DecidingLeaves DEF Pending
<1>5. CASE Reject(a)
  BY <1>4, <1>5 DEF Reject, TypeOK
<1>6. ASSUME NEW u \in Urls, SetManualUrl(a, u) PROVE Deciding'
  BY <1>4, <1>6 DEF SetManualUrl
<1>7. CASE Redetect(a)
  BY <1>4, <1>7 DEF Redetect, RejectPending
<1>8. CASE Unverify(a) \/ Archive(a) \/ Unarchive(a) \/ Leave(a)
  BY <1>4, <1>8 DEF Unverify, Archive, Unarchive, Narrow, Leave
<1> QED
  BY <1>1, <1>2, <1>3, <1>5, <1>6, <1>7, <1>8 DEF Request

LEMMA DecidingScrape ==
  ASSUME TypeOK, Deciding, NEW t \in Scrapes, Scrape(t)
  PROVE  Deciding'
<1>1. UNCHANGED <<held, pick, approving>> /\ Locked' = Locked
  BY DEF Scrape, ScrapeLoad, ScrapeSave, ScrapeEnd, adminVars, Locked
<1> QED
  BY <1>1, ScrapeKeepsFresh DEF Deciding, Pending

LEMMA DecidingNext == TypeOK /\ Deciding /\ [Next]_vars => Deciding'
<1> SUFFICES ASSUME TypeOK, Deciding, [Next]_vars PROVE Deciding'
  OBVIOUS
<1>1. CASE UNCHANGED vars \/ LockExpires
  BY <1>1 DEF LockExpires, vars, adminVars, scrapeVars, Deciding, Locked, Pending
<1> QED
  BY <1>1, DecidingDetect, DecidingRequest, DecidingScrape DEF Next

LEMMA SettledDetect ==
  ASSUME TypeOK, ApprovalSettles, NEW d \in Detectors, Detect(d)
  PROVE  ApprovalSettles'
<1>1. ASSUME NEW found, NEW status \in Outcomes(found), Persist(d, found, status)
      PROVE  ApprovalSettles'
  <2>1. status # "verified"
    BY DEF Outcomes
  <2>2. company'.status = status
    BY <1>1 DEF Persist, TypeOK, Company
  <2> QED
    BY <2>1, <2>2 DEF ApprovalSettles
<1>2. CASE Fail(d)
  <2>1. UNCHANGED <<cand, stale, late>>
    BY <1>2 DEF Fail, scrapeVars
  <2>2. company' = company \/ company'.status = "failed"
    BY <1>2 DEF Fail, TypeOK, Company
  <2> QED
    BY <2>1, <2>2 DEF ApprovalSettles, Pending
<1>3. CASE Start(d) \/ Recheck(d) \/ Escape(d) \/ Release(d) \/ Crash(d)
  BY <1>3 DEF Start, Recheck, Escape, Release, Crash, scrapeVars, ApprovalSettles, Pending
<1> QED
  BY <1>1, <1>2, <1>3 DEF Detect

LEMMA SettledRequest ==
  ASSUME TypeOK, Deciding, ApprovalSettles, NEW a \in Requests, Request(a)
  PROVE  ApprovalSettles'
<1> USE DEF scrapeVars
<1>0. company \in Company /\ copy[a] \in Company /\ pick[a] \in Urls \cup {None}
  BY DEF TypeOK
<1>1. CASE ApproveSave(a)
  <2>1. approving = {a} /\ pick[a] \in Urls
    BY <1>1 DEF ApproveSave, Deciding
  <2>2. company'.url = pick[a] /\ pick[a] # None
    BY <1>0, <1>1, <2>1, NoneAssumption DEF ApproveSave, Company
  <2>3. Locked = swept \cup {pick[a]}
    BY <2>1 DEF Locked
  <2>4. Pending' \subseteq Pending \ Locked
    BY <1>1, <2>3 DEF ApproveSave, Decided, Pending
  <2>5. ~stale => Pending' \subseteq late
    BY <2>1, <2>4 DEF Deciding
  <2> QED
    BY <1>1, <2>2, <2>5 DEF ApproveSave, ApprovalSettles
<1>2. ASSUME company'.status # "verified" PROVE ApprovalSettles'
  BY <1>2 DEF ApprovalSettles
<1>3. ASSUME UNCHANGED <<stale, late>>, Pending' \subseteq Pending,
             company'.url = company.url, company'.status = company.status
      PROVE  ApprovalSettles'
  BY <1>3 DEF ApprovalSettles
<1>4. CASE Reject(a)
  <2>1. Pending' \subseteq Pending /\ UNCHANGED <<stale, late>>
    BY <1>4 DEF Reject, Pending, TypeOK
  <2>2. company' = company \/ company'.status = "not_found"
    BY <1>0, <1>4 DEF Reject, Company
  <2> QED
    BY <1>2, <1>3, <2>1, <2>2
<1>5. ASSUME NEW u \in Urls, SetManualUrl(a, u) PROVE ApprovalSettles'
  <2>1. UNCHANGED <<cand, stale, late>>
    BY <1>5 DEF SetManualUrl
  <2>2. company' = company \/ company'.status = "manual"
    BY <1>0, <1>5 DEF SetManualUrl, Company
  <2> QED
    BY <1>2, <1>3, <2>1, <2>2 DEF Pending
<1>6. CASE Redetect(a)
  <2>1. company'.status = "pending"
    BY <1>0, <1>6 DEF Redetect, Company
  <2> QED
    BY <1>2, <2>1
<1>7. CASE Unverify(a) \/ Archive(a) \/ Unarchive(a) \/ Leave(a)
  <2>1. UNCHANGED <<cand, stale, late>>
    BY <1>7 DEF Unverify, Archive, Unarchive, Narrow, Leave
  <2>2. company'.url = company.url /\ company'.status = company.status
    BY <1>0, <1>7 DEF Unverify, Archive, Unarchive, Narrow, Leave, Company
  <2> QED
    BY <1>3, <2>1, <2>2 DEF Pending
<1>8. ASSUME NEW u \in Urls \cup {None}, Load(a, u) PROVE ApprovalSettles'
  BY <1>3, <1>8 DEF Load, Pending
<1>9. CASE ApproveDecide(a)
  BY <1>3, <1>9 DEF ApproveDecide, Pending
<1> QED
  BY <1>1, <1>4, <1>5, <1>6, <1>7, <1>8, <1>9 DEF Request

\* When an admin has approved a candidate, none waits but those that a detection
\* run committed between the statements of an approval: the approval has
\* rejected all that were there, and a run that adds any later shows it.
THEOREM ApprovalIsSettled == Spec => []ApprovalSettles
<1>1. Init => Deciding /\ ApprovalSettles
  BY DEF Init, Deciding, ApprovalSettles, NewCompany
<1>2. TypeOK /\ Deciding /\ ApprovalSettles /\ [Next]_vars => ApprovalSettles'
  <2> SUFFICES ASSUME TypeOK, Deciding, ApprovalSettles, [Next]_vars PROVE ApprovalSettles'
    OBVIOUS
  <2>1. CASE UNCHANGED vars \/ LockExpires
    BY <2>1 DEF LockExpires, vars, adminVars, scrapeVars, ApprovalSettles, Pending
  <2>2. ASSUME NEW t \in Scrapes, Scrape(t) PROVE ApprovalSettles'
    BY <2>2, ScrapeKeepsFresh DEF ApprovalSettles, Pending
  <2> QED
    BY <2>1, <2>2, SettledDetect, SettledRequest DEF Next
<1> QED
  BY <1>1, <1>2, DecidingNext, TypeCorrect, PTL DEF Spec

-----------------------------------------------------------------------------
\* Detection proposes candidates, and decides nothing.
THEOREM DetectionOnlyProposes == Spec => DetectionProposes
<1>1. ASSUME TypeOK, NEW d \in Detectors, Detect(d)
      PROVE  /\ company'.url = company.url
             /\ company'.verified = company.verified
             /\ \A u \in Urls : cand'[u] # cand[u] => cand[u] = "none" /\ cand'[u] = "pending"
  <2>1. company'.url = company.url /\ company'.verified = company.verified
    BY <1>1 DEF Detect, Start, Recheck, Persist, Upserted, Fail, Escape, Release, Crash, TypeOK, Company
  <2>2. \A u \in Urls : cand'[u] # cand[u] => cand[u] = "none" /\ cand'[u] = "pending"
    BY <1>1 DEF Detect, Start, Recheck, Persist, Upserted, Fail, Escape, Release, Crash
  <2> QED
    BY <2>1, <2>2
<1>2. TypeOK /\ [Next]_vars
      => [\A d \in Detectors : Detect(d) =>
            /\ company'.url = company.url
            /\ company'.verified = company.verified
            /\ \A u \in Urls : cand'[u] # cand[u] => cand[u] = "none" /\ cand'[u] = "pending"]_vars
  BY <1>1
<1> QED
  BY <1>2, TypeCorrect, PTL DEF Spec, DetectionProposes
-----------------------------------------------------------------------------
(* Sorting: what the operators of DetectionPipeline return                  *)

StrictOrder(S, R) ==
  /\ \A u \in S : <<u, u>> \notin R
  /\ \A u, v \in S : u # v => <<u, v>> \in R \/ <<v, u>> \in R
  /\ \A u, v, w \in S : <<u, v>> \in R /\ <<v, w>> \in R => <<u, w>> \in R

Before(S, R, u) == {v \in S : <<v, u>> \in R}
Places(S, R) == [u \in S |-> Cardinality(Before(S, R, u))]

\* The number of elements before an element tells the elements apart, and there
\* is one for each number.
LEMMA PlacesAreDistinct ==
  ASSUME NEW S, IsFiniteSet(S), NEW R, StrictOrder(S, R)
  PROVE  Places(S, R) \in Bijection(S, 0..(Cardinality(S) - 1))
<1> DEFINE n == Cardinality(S)
           f == Places(S, R)
<1>1. n \in Nat
  BY FS_CardinalityType
<1>2. ASSUME NEW u \in S
      PROVE  IsFiniteSet(Before(S, R, u)) /\ Cardinality(Before(S, R, u)) \in 0..(n - 1)
  <2>1. Before(S, R, u) \in SUBSET S /\ Before(S, R, u) # S
    BY DEF Before, StrictOrder
  <2>2. IsFiniteSet(Before(S, R, u))
    BY <2>1, FS_Subset
  <2>3. Cardinality(Before(S, R, u)) <= n /\ Cardinality(Before(S, R, u)) # n
    BY <2>1, FS_Subset
  <2>4. Cardinality(Before(S, R, u)) \in Nat
    BY <2>2, FS_CardinalityType
  <2> HIDE DEF n
  <2> QED BY <1>1, <2>2, <2>3, <2>4
<1>3. ASSUME NEW u \in S, NEW v \in S, <<u, v>> \in R
      PROVE  Cardinality(Before(S, R, u)) # Cardinality(Before(S, R, v))
  <2>1. Before(S, R, u) \in SUBSET Before(S, R, v)
    BY <1>3 DEF Before, StrictOrder
  <2>2. u \in Before(S, R, v) /\ u \notin Before(S, R, u)
    BY <1>3 DEF Before, StrictOrder
  <2> QED BY <1>2, <2>1, <2>2, FS_Subset
<1>4. f \in Injection(S, 0..(n - 1))
  <2>1. f \in [S -> 0..(n - 1)]
    BY <1>2 DEF Places
  <2>2. ASSUME NEW u \in S, NEW v \in S, f[u] = f[v] PROVE u = v
    BY <1>3, <2>2 DEF Places, StrictOrder
  <2> HIDE DEF f
  <2> QED BY <2>1, <2>2 DEF Injection, IsInjective
<1>5. IsFiniteSet(0..(n - 1)) /\ Cardinality(0..(n - 1)) = n
  <2> HIDE DEF n
  <2> QED BY <1>1, FS_Interval
<1>6. f \in Surjection(S, 0..(n - 1))
  BY <1>4, <1>5, FS_Injection
<1> QED BY <1>4, <1>6 DEF Bijection

\* Sorted lists the elements of its set, each once.
LEMMA SortedLists ==
  ASSUME NEW S, IsFiniteSet(S), NEW R, StrictOrder(S, R)
  PROVE  /\ Sorted(S, R) \in Seq(S)
         /\ Len(Sorted(S, R)) = Cardinality(S)
         /\ Cardinality(S) \in Nat
         /\ \A u \in S : \E i \in 1..Cardinality(S) : Sorted(S, R)[i] = u
<1> DEFINE n == Cardinality(S)
           f == Places(S, R)
           at(i) == CHOOSE u \in S : Cardinality(Before(S, R, u)) = i - 1
<1>1. n \in Nat
  BY FS_CardinalityType
<1>2. f \in Bijection(S, 0..(n - 1)) /\ \A u \in S : f[u] = Cardinality(Before(S, R, u))
  BY PlacesAreDistinct DEF Places
<1>3. Sorted(S, R) = [i \in 1..n |-> at(i)]
  BY DEF Sorted, Before
<1> HIDE DEF n, f
<1>4. ASSUME NEW i \in 1..n PROVE at(i) \in S /\ f[at(i)] = i - 1
  <2>1. i - 1 \in 0..(n - 1)
    BY <1>1
  <2>2. PICK u \in S : f[u] = i - 1
    BY <1>2, <2>1 DEF Bijection, Surjection
  <2>3. Cardinality(Before(S, R, u)) = i - 1
    BY <1>2, <2>2
  <2> QED BY <1>2, <2>3
<1>5. ASSUME NEW u \in S PROVE \E i \in 1..n : at(i) = u
  <2>1. f[u] \in 0..(n - 1)
    BY <1>2 DEF Bijection, Injection
  <2>2. f[u] + 1 \in 1..n /\ (f[u] + 1) - 1 = f[u]
    BY <1>1, <2>1
  <2>3. at(f[u] + 1) \in S /\ f[at(f[u] + 1)] = f[u]
    BY <1>4, <2>2
  <2>4. at(f[u] + 1) = u
    BY <1>2, <2>3 DEF Bijection, Injection, IsInjective
  <2> QED BY <2>2, <2>4
<1> HIDE DEF at
<1>6. Sorted(S, R) \in [1..n -> S]
  BY <1>3, <1>4
<1>7. Sorted(S, R) \in Seq(S) /\ Len(Sorted(S, R)) = n
  BY <1>1, <1>6, SeqDef, LenProperties
<1> QED BY <1>1, <1>3, <1>5, <1>7 DEF n

LEMMA FirstOfSequence ==
  ASSUME NEW S, NEW s \in Seq(S), NEW n \in Nat
  PROVE  /\ FirstOf(s, n) \in Seq(S)
         /\ Len(FirstOf(s, n)) \in 0..n
         /\ Len(s) <= n => FirstOf(s, n) = s
<1> DEFINE m == IF Len(s) < n THEN Len(s) ELSE n
<1>1. Len(s) \in Nat
  BY LenProperties
<1>2. m \in 0..Len(s) /\ m \in 0..n /\ (Len(s) <= n => m = Len(s))
  BY <1>1
<1>3. FirstOf(s, n) = SubSeq(s, 1, m)
  BY DEF FirstOf
<1> HIDE DEF m
<1>4. SubSeq(s, 1, m) \in Seq(S) /\ Len(SubSeq(s, 1, m)) = m
  <2>1. \A i \in 1..m : i \in DOMAIN s
    BY <1>1, <1>2, LenProperties
  <2>2. SubSeq(s, 1, m) \in Seq(S)
    BY <1>2, <2>1, SubSeqProperties
  <2>3. Len(SubSeq(s, 1, m)) = IF 1 <= m THEN m - 1 + 1 ELSE 0
    BY <1>2, <2>1, SubSeqProperties
  <2> QED BY <1>2, <2>2, <2>3
<1>5. Len(s) <= n => SubSeq(s, 1, m) = s
  BY <1>2, SubSeqFull
<1> QED BY <1>2, <1>3, <1>4, <1>5

-----------------------------------------------------------------------------
(* The rubric *)

LEMMA TotalType == ASSUME NEW rules PROVE Total(rules) \in Int
  BY DEF Total, Points

LEMMA ScoreType == ASSUME NEW u, NEW c PROVE Score(u, c) \in 0..100
  BY TotalType DEF Score, ClampScore

Penalties == {"pdf_or_asset", "noise_path", "workday", "single_posting", "deep_path",
              "query_heavy"}

\* More evidence never lowers a score, that of a single posting included: the page
\* declares the posting, which counts for more.
LEMMA TotalGrows ==
  ASSUME NEW A, NEW B, A \ Penalties \subseteq B,
         B \cap (Penalties \ {"single_posting"}) \subseteq A,
         "json_ld_jobposting" \notin A,
         "single_posting" \in B => "json_ld_jobposting" \in B
  PROVE  Total(A) <= Total(B)
  BY SMTT(60) DEF Total, Points, Penalties

-----------------------------------------------------------------------------
(* Candidates *)

\* What is known of a candidate c for u: a page that is a single posting declares
\* it, and a page that answers is never recorded as bad.
Sound(u, c) ==
  /\ c \in Candidate
  /\ "single_posting" \in c.flags => "json_ld_jobposting" \in c.flags
  /\ site.answer[u] = "ok" => c.status # "bad"

AllSound(cs) == DOMAIN cs \subseteq Url /\ \A u \in DOMAIN cs : Sound(u, cs[u])

LEMMA NewIsSound ==
  ASSUME NEW o \in DOMAIN ORIGIN_COSTS, NEW u, NEW flags \in SUBSET {"nav_header", "nav_footer"}
  PROVE  /\ Sound(u, New(o))
         /\ Sound(u, [New(o) EXCEPT !.ats = TRUE])
         /\ Sound(u, [New(o) EXCEPT !.flags = flags])
         /\ New(o).status = "none" /\ [New(o) EXCEPT !.ats = TRUE].status = "none"
         /\ [New(o) EXCEPT !.flags = flags].status = "none"
         /\ [New(o) EXCEPT !.flags = flags].flags = flags
  BY DEF Sound, New, Candidate, Flags, Content

LEMMA MergedIsSound ==
  ASSUME NEW u, NEW old, NEW new, Sound(u, old), Sound(u, new)
  PROVE  /\ Sound(u, Merged(old, new))
         /\ Merged(old, new).flags = old.flags \cup new.flags
         /\ old.ats => Merged(old, new).ats
         /\ Merged(old, new).status \in {old.status, new.status}
         /\ old.status # "none" => Merged(old, new).status = old.status
<1> DEFINE o == IF \/ new.ats /\ ~old.ats
                   \/ ~old.ats /\ ORIGIN_COSTS[new.origin] < ORIGIN_COSTS[old.origin]
                THEN new.origin ELSE old.origin
           f == old.flags \cup new.flags
           a == old.ats \/ new.ats
           t == IF old.status = "none" THEN new.status ELSE old.status
           m == [origin |-> o, flags |-> f, ats |-> a, status |-> t]
<1>1. Merged(old, new) = m
  BY Zenon DEF Merged
<1>2. /\ o \in DOMAIN ORIGIN_COSTS /\ f \in SUBSET Flags /\ a \in BOOLEAN
      /\ t \in {"none", "ok", "bad"} /\ t \in {old.status, new.status}
      /\ (old.ats => a) /\ (old.status # "none" => t = old.status)
  BY DEF Sound, Candidate
<1>3. /\ "single_posting" \in f => "json_ld_jobposting" \in f
      /\ site.answer[u] = "ok" => t # "bad"
  BY DEF Sound
<1>4. f = old.flags \cup new.flags
  OBVIOUS
<1> HIDE DEF o, f, a, t
<1>5. m \in Candidate /\ m.flags = f /\ m.status = t /\ m.ats = a
  BY <1>2 DEF Candidate
<1> HIDE DEF m
<1> QED BY <1>1, <1>2, <1>3, <1>4, <1>5 DEF Sound

\* What adding candidates us with evidence c keeps of the candidates, and what it brings.
Adds(old, us, c, new) ==
  /\ AllSound(new)
  /\ DOMAIN new = DOMAIN old \cup us
  /\ \A u \in DOMAIN old : /\ old[u].flags \subseteq new[u].flags
                           /\ old[u].ats => new[u].ats
                           /\ old[u].status # "none" => new[u].status = old[u].status
  /\ \A u \in us : c.flags \subseteq new[u].flags
  /\ \A u \in DOMAIN new : \/ u \in DOMAIN old /\ new[u].status = old[u].status
                           \/ u \in us /\ new[u].status = c.status

LEMMA AddedIsSound ==
  ASSUME NEW cs, AllSound(cs), NEW us \in SUBSET Url, NEW c, \A u \in us : Sound(u, c)
  PROVE  Adds(cs, us, c, Added(cs, us, c))
<1> DEFINE new == Added(cs, us, c)
<1>1. /\ DOMAIN new = DOMAIN cs \cup us
      /\ \A u \in DOMAIN cs \cup us :
           new[u] = IF u \notin us THEN cs[u] ELSE IF u \in DOMAIN cs THEN Merged(cs[u], c) ELSE c
  BY DEF Added
<1> HIDE DEF new
<1>2. ASSUME NEW u \in DOMAIN cs \cup us
      PROVE  /\ Sound(u, new[u])
             /\ u \in DOMAIN cs =>
                  /\ cs[u].flags \subseteq new[u].flags
                  /\ cs[u].ats => new[u].ats
                  /\ cs[u].status # "none" => new[u].status = cs[u].status
             /\ u \in us => c.flags \subseteq new[u].flags
             /\ \/ u \in DOMAIN cs /\ new[u].status = cs[u].status
                \/ u \in us /\ new[u].status = c.status
  <2>1. CASE u \notin us
    BY <1>1, <2>1 DEF AllSound
  <2>2. CASE u \in us /\ u \notin DOMAIN cs
    BY <1>1, <2>2
  <2>3. CASE u \in us /\ u \in DOMAIN cs
    <3>1. new[u] = Merged(cs[u], c) /\ Sound(u, cs[u]) /\ Sound(u, c)
      BY <1>1, <2>3 DEF AllSound
    <3>2. /\ Sound(u, Merged(cs[u], c))
          /\ Merged(cs[u], c).flags = cs[u].flags \cup c.flags
          /\ cs[u].ats => Merged(cs[u], c).ats
          /\ Merged(cs[u], c).status \in {cs[u].status, c.status}
          /\ cs[u].status # "none" => Merged(cs[u], c).status = cs[u].status
      BY <3>1, MergedIsSound
    <3> QED BY ONLY <2>3, <3>1, <3>2
  <2> QED BY <2>1, <2>2, <2>3
<1>3. AllSound(new)
  BY <1>1, <1>2 DEF AllSound
<1>4. ASSUME NEW u \in DOMAIN new
      PROVE  \/ u \in DOMAIN cs /\ new[u].status = cs[u].status
             \/ u \in us /\ new[u].status = c.status
  <2>1. u \in DOMAIN cs \cup us
    BY ONLY <1>1, <1>4
  <2> QED BY <1>2, <2>1
<1>5. \A u \in us : c.flags \subseteq new[u].flags
  BY <1>2
<1>6. ASSUME NEW u \in DOMAIN cs
      PROVE  /\ cs[u].flags \subseteq new[u].flags
             /\ cs[u].ats => new[u].ats
             /\ cs[u].status # "none" => new[u].status = cs[u].status
  BY <1>2
<1>7. Adds(cs, us, c, new)
  BY ONLY <1>1, <1>3, <1>4, <1>5, <1>6, Zenon DEF Adds
<1> QED BY <1>7 DEF new

LEMMA UrlsAreFinite == IsFiniteSet(Url) /\ \A S \in SUBSET Url : IsFiniteSet(S)
<1>1. UrlOrder \in Seq(Url) /\ Url = {UrlOrder[i] : i \in DOMAIN UrlOrder}
  BY PipelineAssumption DEF Url, Range
<1>2. UrlOrder \in [1..Len(UrlOrder) -> Url] /\ Len(UrlOrder) \in Nat
  BY <1>1, LenProperties
<1>3. UrlOrder \in Surjection(1..Len(UrlOrder), Url)
  BY <1>1, <1>2 DEF Surjection
<1>4. IsFiniteSet(1..Len(UrlOrder))
  BY <1>2, FS_Interval
<1>5. IsFiniteSet(Url)
  BY <1>3, <1>4, FS_Surjection
<1> QED BY <1>5, FS_Subset

LEMMA UrlsHavePlaces ==
  /\ \A u \in Url : Place(u) \in Nat
  /\ \A u, v \in Url : Place(u) = Place(v) => u = v
<1>1. UrlOrder \in Seq(Url) /\ Url = {UrlOrder[i] : i \in DOMAIN UrlOrder}
  BY PipelineAssumption DEF Url, Range
<1>2. DOMAIN UrlOrder = 1..Len(UrlOrder) /\ Len(UrlOrder) \in Nat
  BY <1>1, LenProperties
<1>3. ASSUME NEW u \in Url PROVE Place(u) \in DOMAIN UrlOrder /\ UrlOrder[Place(u)] = u
  <2>1. \E i \in DOMAIN UrlOrder : UrlOrder[i] = u
    BY <1>1
  <2> QED BY <2>1 DEF Place
<1> QED BY <1>2, <1>3

LEMMA CostsAreNumbers == \A o \in DOMAIN ORIGIN_COSTS : ORIGIN_COSTS[o] \in Nat
  BY DEF ORIGIN_COSTS

\* Candidates are ranked in a strict order: no two have the same place.
LEMMA RankingsAreStrict ==
  ASSUME AllSound(cands), NEW S \in SUBSET DOMAIN cands
  PROVE  StrictOrder(S, ByScore) /\ StrictOrder(S, BoardsFirst)
<1> DEFINE cost(u) == ORIGIN_COSTS[cands[u].origin]
<1>1. ASSUME NEW u \in DOMAIN cands
      PROVE  Rank(u) \in Int /\ cost(u) \in Int /\ Place(u) \in Int /\ u \in Url
  <2>1. u \in Url /\ cands[u].origin \in DOMAIN ORIGIN_COSTS
    BY DEF AllSound, Sound, Candidate
  <2> QED BY <2>1, ScoreType, CostsAreNumbers, UrlsHavePlaces DEF Rank
<1>2. \A u, v \in DOMAIN cands :
        Better(u, v) <=> \/ Rank(u) > Rank(v)
                         \/ Rank(u) = Rank(v) /\ cost(u) < cost(v)
                         \/ Rank(u) = Rank(v) /\ cost(u) = cost(v) /\ Place(u) < Place(v)
  BY DEF Better
<1>3. \A u, v \in DOMAIN cands : Place(u) = Place(v) => u = v
  BY <1>1, UrlsHavePlaces
<1> HIDE DEF cost
<1>4. /\ \A u \in DOMAIN cands : ~Better(u, u)
      /\ \A u, v \in DOMAIN cands : u # v => Better(u, v) \/ Better(v, u)
      /\ \A u, v, w \in DOMAIN cands : Better(u, v) /\ Better(v, w) => Better(u, w)
  <2>1. \A u \in DOMAIN cands : ~Better(u, u)
    BY <1>1, <1>2
  <2>2. ASSUME NEW u \in DOMAIN cands, NEW v \in DOMAIN cands, u # v
        PROVE  Better(u, v) \/ Better(v, u)
    BY <1>1, <1>2, <1>3, <2>2
  <2>3. ASSUME NEW u \in DOMAIN cands, NEW v \in DOMAIN cands, NEW w \in DOMAIN cands,
               Better(u, v), Better(v, w)
        PROVE  Better(u, w)
    <3>1. /\ Rank(u) \in Int /\ Rank(v) \in Int /\ Rank(w) \in Int
          /\ cost(u) \in Int /\ cost(v) \in Int /\ cost(w) \in Int
          /\ Place(u) \in Int /\ Place(v) \in Int /\ Place(w) \in Int
      BY <1>1
    <3> QED BY <1>2, <2>3, <3>1
  <2> QED BY <2>1, <2>2, <2>3
<1>5. \A u, v \in DOMAIN cands : <<u, v>> \in ByScore <=> Better(u, v)
  BY DEF ByScore
<1>6. \A u, v \in DOMAIN cands :
        <<u, v>> \in BoardsFirst
          <=> IF Confirmed(u) <=> Confirmed(v) THEN Better(u, v) ELSE Confirmed(u)
  BY DEF BoardsFirst
<1>7. StrictOrder(S, ByScore)
  BY <1>4, <1>5 DEF StrictOrder
<1>8. StrictOrder(S, BoardsFirst)
  <2>1. \A u \in S : <<u, u>> \notin BoardsFirst
    BY <1>4, <1>6
  <2>2. \A u, v \in S : u # v => <<u, v>> \in BoardsFirst \/ <<v, u>> \in BoardsFirst
    BY <1>4, <1>6
  <2>3. \A u, v, w \in S :
          <<u, v>> \in BoardsFirst /\ <<v, w>> \in BoardsFirst => <<u, w>> \in BoardsFirst
    BY <1>4, <1>6
  <2> QED BY <2>1, <2>2, <2>3 DEF StrictOrder
<1> QED BY <1>7, <1>8

\* What the rankings return.
LEMMA RankingsList ==
  ASSUME AllSound(cands), NEW n \in Nat
  PROVE  /\ FirstOf(Provisional, n) \in Seq(DOMAIN cands)
         /\ Targets \in Seq(DOMAIN cands)
         /\ short => Len(Targets) \in 0..1
         /\ Reported \subseteq Acceptable
         /\ Cardinality(DOMAIN cands) <= MaxCandidates => Acceptable \subseteq Reported
<1> DEFINE boards == {u \in Acceptable : cands[u].origin = "ats_pattern"}
<1>1. /\ Acceptable \in SUBSET DOMAIN cands /\ boards \in SUBSET DOMAIN cands
      /\ IsFiniteSet(DOMAIN cands) /\ IsFiniteSet(Acceptable) /\ IsFiniteSet(boards)
  <2>1. DOMAIN cands \subseteq Url /\ Acceptable \subseteq DOMAIN cands /\ boards \subseteq Acceptable
    BY DEF AllSound, Acceptable
  <2> HIDE DEF boards
  <2> QED BY <2>1, UrlsAreFinite
<1>2. Provisional \in Seq(DOMAIN cands)
  BY <1>1, RankingsAreStrict, SortedLists DEF Provisional
<1>3. FirstOf(Provisional, n) \in Seq(DOMAIN cands)
  BY <1>2, FirstOfSequence
<1>4. MaxCandidates \in Nat /\ 1 \in Nat
  BY PipelineAssumption
<1>5. /\ FirstOf(Sorted(boards, ByScore), 1) \in Seq(boards)
      /\ Len(FirstOf(Sorted(boards, ByScore), 1)) \in 0..1
  <2>1. StrictOrder(boards, ByScore)
    BY <1>1, RankingsAreStrict
  <2> HIDE DEF boards
  <2>2. Sorted(boards, ByScore) \in Seq(boards)
    BY <1>1, <2>1, SortedLists
  <2> QED BY <1>4, <2>2, FirstOfSequence
<1>6. FirstOf(Sorted(boards, ByScore), 1) \in Seq(DOMAIN cands)
  <2> HIDE DEF boards
  <2> QED BY <1>1, <1>5, SeqMonotonic
<1>7. Targets \in Seq(DOMAIN cands) /\ (short => Len(Targets) \in 0..1)
  <2>1. Targets = IF short THEN FirstOf(Sorted(boards, ByScore), 1)
                  ELSE FirstOf(Provisional, MaxCandidates)
    BY DEF Targets
  <2> HIDE DEF boards
  <2> QED BY <1>2, <1>4, <1>5, <1>6, <2>1, FirstOfSequence
<1>8. /\ Sorted(Acceptable, BoardsFirst) \in Seq(Acceptable)
      /\ Len(Sorted(Acceptable, BoardsFirst)) = Cardinality(Acceptable)
      /\ Cardinality(Acceptable) \in Nat
      /\ \A u \in Acceptable :
           \E i \in 1..Cardinality(Acceptable) : Sorted(Acceptable, BoardsFirst)[i] = u
  <2>1. StrictOrder(Acceptable, BoardsFirst) /\ IsFiniteSet(Acceptable)
    BY <1>1, RankingsAreStrict
  <2> QED BY ONLY <2>1, SortedLists
<1>9. Ranked \in Seq(Acceptable)
  BY <1>4, <1>8, FirstOfSequence DEF Ranked
<1>10. Reported \subseteq Acceptable
  BY <1>9, ElementOfSeq, LenProperties DEF Reported, Range
<1>11. ASSUME Cardinality(DOMAIN cands) <= MaxCandidates PROVE Acceptable \subseteq Reported
  <2>1. Cardinality(Acceptable) <= Cardinality(DOMAIN cands) /\ Cardinality(DOMAIN cands) \in Nat
    BY <1>1, FS_Subset, FS_CardinalityType
  <2>2. Cardinality(Acceptable) <= MaxCandidates
    BY ONLY <1>4, <1>8, <1>11, <2>1
  <2>3. Ranked = Sorted(Acceptable, BoardsFirst)
    BY <1>4, <1>8, <2>2, FirstOfSequence DEF Ranked
  <2>4. DOMAIN Ranked = 1..Cardinality(Acceptable)
    BY <1>8, <2>3, LenProperties
  <2> QED BY <1>8, <2>3, <2>4 DEF Reported, Range
<1> QED BY <1>3, <1>7, <1>10, <1>11

-----------------------------------------------------------------------------
(* The types of a detection run *)

Basic ==
  /\ site \in Sites
  /\ known \subseteq {u \in Url : site.answer[u] = "tagged"}
  /\ stage \in Stages
  /\ used \in 0..MaxChecks /\ (outcome # "partial" => used < MaxChecks)
  /\ docs \in 0..MaxDocs
  /\ listed \subseteq Url
  /\ error \in BOOLEAN /\ short \in BOOLEAN
  /\ rejected \subseteq visited /\ visited \subseteq Url
  /\ outcome \in {"running", "finished", "partial", "failed"}
  /\ outcome = "running" <=> stage # "done"

\* A strategy visits URLs; the last two only visit candidates.
ListTyped ==
  /\ stage = "sitemap" => todo \in Seq({"leaf", "index", "gone"})
  /\ stage # "sitemap" => todo \in Seq(Url)
  /\ stage \in {"json_ld", "verify"} => todo \in Seq(DOMAIN cands)

RunTyped == Basic /\ ListTyped /\ AllSound(cands)

\* Every step but Nav, JsonLd, Verify and VerifyEnd adds candidates of one origin
\* that are known by their URL only, if any.
Plainly ==
  \E us \in SUBSET Url : \E c :
    /\ c.status = "none"
    /\ \A u \in us : Sound(u, c)
    /\ cands' = Added(cands, us, c)

LEMMA SitesAreTyped ==
  ASSUME site \in Sites
  PROVE  /\ site.anchors \subseteq Url /\ site.header \subseteq Url /\ site.footer \subseteq Url
         /\ site.ruled \subseteq Url /\ site.listed \subseteq Url
         /\ site.sitemaps \in Seq({"leaf", "index", "gone"})
         /\ \A u \in Url : /\ site.answer[u] \in Answers
                           /\ "single_posting" \in site.shows[u]
                                => "json_ld_jobposting" \in site.shows[u]
<1>1. site \in Site
  BY PipelineAssumption
<1> QED BY <1>1, PipelineAssumption DEF Site

LEMMA HeadsAndTails ==
  ASSUME NEW S, NEW s \in Seq(S), s # <<>>
  PROVE  Head(s) \in S /\ Tail(s) \in Seq(S) /\ Len(Tail(s)) = Len(s) - 1 /\ Len(s) \in Nat
  BY HeadTailProperties, LenProperties

\* The steps that visit the head of their list.
LEMMA Visits ==
  ASSUME RunTyped, todo # <<>>
  PROVE  /\ stage # "sitemap" => Head(todo) \in Url /\ Tail(todo) \in Seq(Url)
         /\ stage = "sitemap" => Tail(todo) \in Seq({"leaf", "index", "gone"})
         /\ stage \in {"json_ld", "verify"} =>
              Head(todo) \in DOMAIN cands /\ Tail(todo) \in Seq(DOMAIN cands)
         /\ Len(Tail(todo)) = Len(todo) - 1 /\ Len(todo) \in Nat
<1> USE DEF RunTyped, ListTyped
<1>1. CASE stage = "sitemap"
  BY <1>1, HeadsAndTails
<1>2. CASE stage # "sitemap"
  <2>1. Head(todo) \in Url /\ Tail(todo) \in Seq(Url) /\ Len(Tail(todo)) = Len(todo) - 1
        /\ Len(todo) \in Nat
    BY <1>2, HeadsAndTails
  <2>2. stage \in {"json_ld", "verify"} =>
          Head(todo) \in DOMAIN cands /\ Tail(todo) \in Seq(DOMAIN cands)
    BY HeadsAndTails
  <2> QED BY <1>2, <2>1, <2>2
<1> QED BY <1>1, <1>2

LEMMA PipelineInitTyped == PipelineInit => RunTyped
<1> SUFFICES ASSUME PipelineInit PROVE RunTyped
  OBVIOUS
<1>1. Basic
  <2>1. site \in Sites /\ known \subseteq {u \in Url : site.answer[u] = "tagged"}
    BY DEF PipelineInit
  <2>2. used \in 0..MaxChecks /\ used < MaxChecks /\ docs \in 0..MaxDocs
    BY PipelineAssumption DEF PipelineInit
  <2>3. /\ stage \in Stages /\ listed \subseteq Url /\ error \in BOOLEAN /\ short \in BOOLEAN
        /\ rejected \subseteq visited /\ visited \subseteq Url
    BY DEF PipelineInit, Stages
  <2>4. outcome = "running" /\ stage = "homepage"
    BY DEF PipelineInit
  <2> QED BY <2>1, <2>2, <2>3, <2>4 DEF Basic
<1>2. ListTyped
  BY EmptySeq DEF PipelineInit, ListTyped
<1>3. DOMAIN cands = {}
  BY DEF PipelineInit
<1>4. AllSound(cands)
  BY <1>3 DEF AllSound
<1> QED BY <1>1, <1>2, <1>4 DEF RunTyped

LEMMA StepBasic ==
  ASSUME RunTyped, [PipelineNext]_pipelineVars
  PROVE  Basic'
<1> USE DEF RunTyped, Basic, Enter, context
<1>0. MaxChecks \in Nat /\ MaxDocs \in Nat /\ {"homepage", "guesses", "nav", "robots", "sitemap",
        "common_path", "subdomain", "json_ld", "verify", "done"} \subseteq Stages
  BY PipelineAssumption DEF Stages
<1>1. ASSUME Affordable PROVE used' \in 0..MaxChecks /\ used' < MaxChecks
  BY <1>0, <1>1 DEF Affordable
<1>2. ASSUME NEW u \in Url, Remember(u), site' = site
      PROVE  known' \subseteq {v \in Url : site'.answer[v] = "tagged"}
  BY <1>2 DEF Remember
<1>3. CASE Homepage
  BY <1>0, <1>1, <1>3 DEF Homepage
<1>4. CASE Throttled
  BY <1>0, <1>1, <1>4 DEF Throttled
<1>5. CASE Guess
  BY <1>0, <1>1, <1>2, <1>5, Visits DEF Guess
<1>6. CASE Nav
  BY <1>0, <1>6 DEF Nav, AtsHit
<1>7. CASE Robots
  BY <1>0, <1>1, <1>7 DEF Robots
<1>8. CASE Sitemap
  <2>1. docs' \in 0..MaxDocs
    BY <1>0, <1>8 DEF Sitemap, MoreDocs
  <2>2. listed' \subseteq Url
    BY <1>8, SitesAreTyped DEF Sitemap, Locs
  <2> QED BY <1>1, <1>8, <2>1, <2>2 DEF Sitemap
<1>9. CASE SitemapEnd \/ CommonPathEnd \/ SubdomainEnd \/ JsonLdEnd
  BY <1>0, <1>9 DEF SitemapEnd, CommonPathEnd, SubdomainEnd, JsonLdEnd
<1>10. CASE Skip
  BY <1>0, <1>10 DEF Skip
<1>11. CASE CommonPath
  BY <1>1, <1>11 DEF CommonPath
<1>12. CASE Subdomain
  BY <1>1, <1>2, <1>12, Visits DEF Subdomain
<1>13. CASE JsonLd
  BY <1>1, <1>2, <1>13, Visits DEF JsonLd
<1>14. CASE Verify
  <2>1. Head(todo) \in Url
    BY <1>14, Visits DEF Verify
  <2> QED BY <1>1, <1>14, <2>1 DEF Verify
<1>15. CASE VerifyEnd
  BY <1>0, <1>15 DEF VerifyEnd
<1>16. CASE Exhaust
  <2>1. stage # "done" /\ Cut
    BY <1>16 DEF Exhaust
  <2>2. used < MaxChecks /\ used' = used + 1
    BY <2>1 DEF Cut, Exhausted
  <2>3. used' \in 0..MaxChecks
    BY <1>0, <2>2
  <2> QED BY <1>0, <2>1, <2>3 DEF Cut
<1>17. CASE UNCHANGED pipelineVars
  BY <1>17 DEF pipelineVars
<1> QED BY <1>3, <1>4, <1>5, <1>6, <1>7, <1>8, <1>9, <1>10, <1>11, <1>12, <1>13, <1>14, <1>15,
           <1>16, <1>17 DEF PipelineNext

LEMMA SiteStays == [PipelineNext]_pipelineVars => site' = site
  BY DEF PipelineNext, Homepage, Throttled, Guess, Nav, Robots, Sitemap, SitemapEnd, Skip,
         CommonPath, CommonPathEnd, Subdomain, SubdomainEnd, JsonLd, JsonLdEnd, Verify, VerifyEnd,
         Exhaust, Cut, pipelineVars

\* The steps that find candidates by their URL.
Finds == Homepage \/ Guess \/ Robots \/ Sitemap \/ CommonPath \/ Subdomain

LEMMA FindsPlainly ==
  ASSUME RunTyped, Finds
  PROVE  Plainly
<1> USE DEF RunTyped, Basic
<1>1. ASSUME NEW us \in SUBSET Url, NEW o \in DOMAIN ORIGIN_COSTS,
             \/ Add(us, New(o))
             \/ Add(us, [New(o) EXCEPT !.ats = TRUE])
      PROVE  Plainly
  <2>1. CASE Add(us, New(o))
    <3>1. New(o).status = "none" /\ \A u \in us : Sound(u, New(o))
      BY NewIsSound
    <3> QED BY <2>1, <3>1 DEF Plainly, Add
  <2>2. CASE Add(us, [New(o) EXCEPT !.ats = TRUE])
    <3> DEFINE c == [New(o) EXCEPT !.ats = TRUE]
    <3>1. c.status = "none" /\ \A u \in us : Sound(u, c)
      BY NewIsSound
    <3>2. cands' = Added(cands, us, c)
      BY <2>2 DEF Add
    <3> HIDE DEF c
    <3> QED BY <3>1, <3>2 DEF Plainly
  <2> QED BY <1>1, <2>1, <2>2
<1>2. {"ats_pattern", "robots_txt", "sitemap", "common_path", "subdomain_guess"}
        \subseteq DOMAIN ORIGIN_COSTS
  BY DEF ORIGIN_COSTS
<1>3. ASSUME Homepage PROVE Plainly
  <2>1. {u \in Anchors : "ats_host" \in Traits[u]} \subseteq Url
    BY SitesAreTyped DEF Anchors
  <2> QED BY <1>1, <1>2, <1>3, <2>1 DEF Homepage
<1>4. ASSUME Guess PROVE Plainly
  <2>1. Head(todo) \in Url
    BY <1>4, Visits DEF Guess
  <2> DEFINE us == {v \in {Head(todo)} : /\ Plain(Head(todo)) = "ok"
                                         /\ "handle" \in site.shows[Head(todo)] \/ Declares(Head(todo))}
  <2>2. us \in SUBSET Url /\ Add(us, [New("ats_pattern") EXCEPT !.ats = TRUE])
    BY <1>4, <2>1 DEF Guess
  <2> HIDE DEF us
  <2> QED BY <1>1, <1>2, <2>2
<1>5. ASSUME Robots PROVE Plainly
  <2>1. {u \in site.ruled : Keyword(u)} \subseteq Url
    BY SitesAreTyped
  <2> QED BY <1>1, <1>2, <1>5, <2>1 DEF Robots
<1>6. ASSUME Sitemap PROVE Plainly
  <2>1. {u \in Locs(Head(todo)) : Keyword(u)} \subseteq Url
    BY SitesAreTyped DEF Locs
  <2> QED BY <1>1, <1>2, <1>6, <2>1 DEF Sitemap
<1>7. ASSUME CommonPath PROVE Plainly
  <2>1. {u \in {Head(todo)} : site.answer[u] \in {"ok", "tagged", "foreign"}} \subseteq Url
    BY <1>7, Visits DEF CommonPath
  <2> QED BY <1>1, <1>2, <1>7, <2>1 DEF CommonPath
<1>8. ASSUME Subdomain PROVE Plainly
  <2>1. {v \in {Head(todo)} : Plain(v) = "ok"} \subseteq Url
    BY <1>8, Visits DEF Subdomain
  <2> QED BY <1>1, <1>2, <1>8, <2>1 DEF Subdomain
<1> QED BY <1>3, <1>4, <1>5, <1>6, <1>7, <1>8 DEF Finds

\* json_ld and verify look at one candidate, and record what its page shows.
Looks(u, c) == u \in DOMAIN cands /\ Sound(u, c) /\ cands' = Added(cands, {u}, c)

LEMMA CandidateUpdates ==
  ASSUME NEW u, NEW c \in Candidate, NEW flags \in SUBSET Flags, NEW t \in {"ok", "bad"},
         "single_posting" \in flags => "json_ld_jobposting" \in flags,
         site.answer[u] = "ok" => t = "ok"
  PROVE  /\ Sound(u, [c EXCEPT !.flags = flags, !.status = t])
         /\ [c EXCEPT !.flags = flags, !.status = t].status = t
  BY DEF Sound, Candidate

LEMMA JsonLdLooks ==
  ASSUME RunTyped, JsonLd
  PROVE  UNCHANGED cands \/ \E u, c : Looks(u, c)
<1> DEFINE u == Head(todo)
           flags == {f \in {"json_ld_jobposting"} : Plain(u) = "ok" /\ Declares(u)}
                      \cup {f \in {"http_200"} : Plain(u) # "unauthorized"}
           t == IF Plain(u) = "ok" THEN "ok" ELSE "bad"
<1>1. u \in DOMAIN cands /\ u \in Url
  BY Visits DEF JsonLd, RunTyped, AllSound
<1>2. IF Plain(u) = "error" THEN cands' = cands
      ELSE Add({u}, [cands[u] EXCEPT !.flags = flags, !.status = t])
  BY DEF JsonLd
<1>3. site.answer[u] = "ok" => t = "ok"
  BY DEF Plain, Blocked
<1>4. flags \in SUBSET Flags /\ "single_posting" \notin flags /\ t \in {"ok", "bad"}
  BY DEF Flags, Content
<1>5. cands[u] \in Candidate
  BY <1>1 DEF RunTyped, AllSound, Sound
<1> HIDE DEF u, flags, t
<1>6. Sound(u, [cands[u] EXCEPT !.flags = flags, !.status = t])
  BY <1>3, <1>4, <1>5, CandidateUpdates
<1> QED BY <1>1, <1>2, <1>6 DEF Looks, Add

LEMMA VerifyLooks ==
  ASSUME RunTyped, Verify
  PROVE  UNCHANGED cands \/ \E u, c : Looks(u, c) /\ c.status = "ok"
<1> DEFINE u == Head(todo)
           flags == {"http_200"} \cup Observed(u)
           c == [cands[u] EXCEPT !.status = "ok", !.flags = flags]
<1>1. u \in DOMAIN cands /\ u \in Url
  BY Visits DEF Verify, RunTyped, AllSound
<1>2. cands' = cands \/ cands' = Added(cands, {u}, c)
  BY DEF Verify, Add
<1>3. flags \in SUBSET Flags /\ ("single_posting" \in flags => "json_ld_jobposting" \in flags)
  BY <1>1, SitesAreTyped DEF Flags, Content, Observed, RunTyped, Basic
<1>4. cands[u] \in Candidate
  BY <1>1 DEF RunTyped, AllSound, Sound
<1>5. c = [cands[u] EXCEPT !.flags = flags, !.status = "ok"]
  BY <1>4 DEF Candidate
<1> HIDE DEF u, flags, c
<1>6. Sound(u, c) /\ c.status = "ok"
  <2>1. /\ Sound(u, [cands[u] EXCEPT !.flags = flags, !.status = "ok"])
        /\ [cands[u] EXCEPT !.flags = flags, !.status = "ok"].status = "ok"
    BY <1>3, <1>4, CandidateUpdates
  <2> QED BY <1>5, <2>1
<1> QED BY <1>1, <1>2, <1>6 DEF Looks

\* The links of the homepage.
LEMMA NavAdds ==
  ASSUME RunTyped, Nav
  PROVE  \E mid, h, f :
           /\ Adds(cands, RegionLinks("header"), h, mid)
           /\ Adds(mid, RegionLinks("footer"), f, cands')
           /\ h.status = "none" /\ f.status = "none" /\ "nav_header" \in h.flags
<1> DEFINE H == RegionLinks("header")
           F == RegionLinks("footer")
           h == [New("header_link") EXCEPT !.flags = {"nav_header"}]
           f == [New("footer_link") EXCEPT !.flags = {"nav_footer"}]
           mid == Added(cands, H, h)
<1>1. H \in SUBSET Url /\ F \in SUBSET Url
  BY SitesAreTyped DEF RegionLinks, RunTyped, Basic
<1>2. {"header_link", "footer_link"} \subseteq DOMAIN ORIGIN_COSTS
  BY DEF ORIGIN_COSTS
<1>3. /\ \A u \in H : Sound(u, h)
      /\ \A u \in F : Sound(u, f)
      /\ h.status = "none" /\ f.status = "none" /\ "nav_header" \in h.flags
  <2>1. (\A u \in H : Sound(u, h)) /\ h.status = "none" /\ h.flags = {"nav_header"}
    BY <1>2, NewIsSound
  <2>2. (\A u \in F : Sound(u, f)) /\ f.status = "none"
    BY <1>2, NewIsSound
  <2> QED BY <2>1, <2>2
<1>4. cands' = Added(mid, F, f) /\ AllSound(cands)
  BY DEF Nav, NavLinks, RunTyped
<1> HIDE DEF H, F, h, f
<1>5. Adds(cands, H, h, mid)
  <2>1. Adds(cands, H, h, Added(cands, H, h))
    BY ONLY <1>1, <1>3, <1>4, AddedIsSound
  <2> QED BY <2>1
<1> HIDE DEF mid
<1>6. AllSound(mid)
  BY ONLY <1>5 DEF Adds
<1>7. Adds(mid, F, f, cands')
  <2>1. Adds(mid, F, f, Added(mid, F, f))
    BY ONLY <1>1, <1>3, <1>6, AddedIsSound
  <2> QED BY ONLY <1>4, <2>1
<1> QED BY <1>3, <1>5, <1>7 DEF H, F

\* Every step leaves the candidates alone, finds some, looks at one, or is Nav or
\* VerifyEnd.
LEMMA StepKinds ==
  ASSUME RunTyped, [PipelineNext]_pipelineVars
  PROVE  UNCHANGED cands \/ Finds \/ Nav \/ JsonLd \/ Verify \/ VerifyEnd
  BY DEF PipelineNext, Finds, Throttled, SitemapEnd, Skip, CommonPathEnd, SubdomainEnd, JsonLdEnd,
         Exhaust, Cut, context, pipelineVars

LEMMA PlainlyAdds ==
  ASSUME RunTyped, Plainly
  PROVE  \E us \in SUBSET Url : \E c : c.status = "none" /\ Adds(cands, us, c, cands')
<1>1. PICK us \in SUBSET Url :
        \E c : c.status = "none" /\ (\A u \in us : Sound(u, c)) /\ cands' = Added(cands, us, c)
  BY DEF Plainly
<1>2. PICK c : c.status = "none" /\ (\A u \in us : Sound(u, c)) /\ cands' = Added(cands, us, c)
  BY <1>1
<1>3. AllSound(cands)
  BY DEF RunTyped
<1>4. Adds(cands, us, c, Added(cands, us, c))
  BY ONLY <1>2, <1>3, AddedIsSound
<1> QED BY <1>2, <1>4

LEMMA LookAdds ==
  ASSUME RunTyped, NEW u, NEW c, Looks(u, c)
  PROVE  Adds(cands, {u}, c, cands')
<1>1. {u} \in SUBSET Url /\ (\A v \in {u} : Sound(v, c)) /\ cands' = Added(cands, {u}, c)
  BY DEF Looks, RunTyped, AllSound
<1>2. AllSound(cands)
  BY DEF RunTyped
<1>3. Adds(cands, {u}, c, Added(cands, {u}, c))
  BY ONLY <1>1, <1>2, AddedIsSound
<1> QED BY <1>1, <1>3

LEMMA StepSound ==
  ASSUME RunTyped, [PipelineNext]_pipelineVars
  PROVE  AllSound(cands)' /\ (DOMAIN cands \subseteq DOMAIN cands' \/ VerifyEnd)
<1>1. AllSound(cands') => AllSound(cands)'
  BY SiteStays DEF AllSound, Sound
<1>2. ASSUME UNCHANGED cands PROVE AllSound(cands') /\ DOMAIN cands \subseteq DOMAIN cands'
  BY <1>2 DEF RunTyped
<1>3. ASSUME Plainly PROVE AllSound(cands') /\ DOMAIN cands \subseteq DOMAIN cands'
  <2>1. PICK us, c : Adds(cands, us, c, cands')
    BY <1>3, PlainlyAdds
  <2> QED BY ONLY <2>1 DEF Adds
<1>4. ASSUME NEW u, NEW c, Looks(u, c) PROVE AllSound(cands') /\ DOMAIN cands \subseteq DOMAIN cands'
  <2>1. Adds(cands, {u}, c, cands')
    BY <1>4, LookAdds
  <2> QED BY ONLY <2>1 DEF Adds
<1>5. ASSUME VerifyEnd PROVE AllSound(cands')
  BY <1>5 DEF VerifyEnd, RunTyped, AllSound
<1>6. ASSUME Nav PROVE AllSound(cands') /\ DOMAIN cands \subseteq DOMAIN cands'
  <2>1. PICK mid, h, f : /\ Adds(cands, RegionLinks("header"), h, mid)
                         /\ Adds(mid, RegionLinks("footer"), f, cands')
    BY <1>6, NavAdds
  <2> QED BY ONLY <2>1 DEF Adds
<1> QED BY <1>1, <1>2, <1>3, <1>4, <1>5, <1>6, StepKinds, FindsPlainly, JsonLdLooks, VerifyLooks

\* A list is given to the strategy that visits it.
LEMMA StepLists ==
  ASSUME RunTyped, [PipelineNext]_pipelineVars
  PROVE  ListTyped'
<1> USE DEF Enter, context
<1>1. /\ \A S : <<>> \in Seq(S)
      /\ Guesses \in Seq(Url) /\ Paths \in Seq(Url) /\ Subdomains \in Seq(Url)
      /\ site.sitemaps \in Seq({"leaf", "index", "gone"})
      /\ MaxProbes \in Nat /\ MaxDocs \in Nat
  BY PipelineAssumption, SitesAreTyped, EmptySeq DEF RunTyped, Basic
<1>2. DOMAIN cands \subseteq Url
  BY DEF RunTyped, AllSound
<1>3. \A s \in Seq(DOMAIN cands) : s \in Seq(Url)
  BY <1>2, SeqMonotonic
<1>4. ASSUME todo' = <<>> PROVE ListTyped'
  BY <1>1, <1>4 DEF ListTyped
<1>5. CASE Homepage
  BY <1>1, <1>5 DEF Homepage, ListTyped
<1>6. CASE Throttled \/ Nav \/ VerifyEnd \/ Exhaust
  BY <1>4, <1>6 DEF Throttled, Nav, VerifyEnd, Exhaust, Cut
<1>7. CASE Guess \/ Skip \/ CommonPath \/ Subdomain
  <2>1. todo # <<>> /\ stage \notin {"sitemap", "json_ld", "verify"} /\ stage' = stage
        /\ todo' = Tail(todo)
    BY <1>7 DEF Guess, Skip, CommonPath, Subdomain
  <2>2. Tail(todo) \in Seq(Url)
    BY <2>1, Visits
  <2> QED BY <2>1, <2>2 DEF ListTyped
<1>8. CASE Robots
  BY <1>1, <1>8 DEF Robots, ListTyped
<1>9. CASE Sitemap
  <2> DEFINE below == IF Head(todo) = "index" THEN [i \in 1..MaxDocs |-> "leaf"] ELSE <<>>
             Docs == {"leaf", "index", "gone"}
  <2>1. stage = "sitemap" /\ stage' = "sitemap" /\ todo # <<>> /\ todo' = below \o Tail(todo)
    BY <1>9 DEF Sitemap, MoreDocs
  <2>2. Tail(todo) \in Seq(Docs)
    BY <2>1, Visits
  <2>3. [i \in 1..MaxDocs |-> "leaf"] \in Seq(Docs)
    <3>1. [i \in 1..MaxDocs |-> "leaf"] \in [1..MaxDocs -> Docs]
      OBVIOUS
    <3> QED BY <1>1, <3>1, SeqDef
  <2>4. below \in Seq(Docs)
    BY <1>1, <2>3
  <2> HIDE DEF below
  <2>5. below \o Tail(todo) \in Seq(Docs)
    BY <2>2, <2>4, ConcatProperties
  <2> QED BY <2>1, <2>5 DEF ListTyped
<1>10. CASE SitemapEnd \/ CommonPathEnd
  BY <1>1, <1>10 DEF SitemapEnd, CommonPathEnd, ListTyped
<1>11. CASE SubdomainEnd
  <2>1. AllSound(cands)
    BY DEF RunTyped
  <2>2. FirstOf(Provisional, MaxProbes) \in Seq(DOMAIN cands)
    BY <1>1, <2>1, RankingsList
  <2>3. stage' = "json_ld" /\ todo' = FirstOf(Provisional, MaxProbes) /\ cands' = cands
    BY <1>11 DEF SubdomainEnd
  <2> QED BY <1>3, <2>2, <2>3 DEF ListTyped
<1>12. CASE JsonLd \/ Verify
  <2>1. stage \in {"json_ld", "verify"} /\ stage' = stage /\ todo # <<>> /\ todo' = Tail(todo)
    BY <1>12 DEF JsonLd, Verify
  <2>2. Tail(todo) \in Seq(DOMAIN cands)
    BY <2>1, Visits
  <2>3. DOMAIN cands \subseteq DOMAIN cands'
    BY <2>1, StepSound DEF VerifyEnd
  <2>4. Tail(todo) \in Seq(DOMAIN cands') /\ Tail(todo) \in Seq(Url)
    BY <1>3, <2>2, <2>3, SeqMonotonic
  <2> QED BY <2>1, <2>4 DEF ListTyped
<1>13. CASE JsonLdEnd
  <2>1. AllSound(cands)
    BY DEF RunTyped
  <2>2. Targets \in Seq(DOMAIN cands)
    BY <1>1, <2>1, RankingsList
  <2>3. stage' = "verify" /\ todo' = Targets /\ cands' = cands
    BY <1>13 DEF JsonLdEnd
  <2> QED BY <1>3, <2>2, <2>3 DEF ListTyped
<1>14. CASE UNCHANGED pipelineVars
  BY <1>14 DEF pipelineVars, RunTyped, ListTyped
<1> QED BY <1>5, <1>6, <1>7, <1>8, <1>9, <1>10, <1>11, <1>12, <1>13, <1>14 DEF PipelineNext

LEMMA RunStaysTyped == PipelineSpec => []RunTyped
<1>1. PipelineInit => RunTyped
  BY PipelineInitTyped
<1>2. RunTyped /\ [PipelineNext]_pipelineVars => RunTyped'
  BY StepBasic, StepSound, StepLists DEF RunTyped
<1> QED BY <1>1, <1>2, PTL DEF PipelineSpec

\* Types of a run: a strategy visits URLs, or the documents of a sitemap; a candidate
\* is one of the URLs with the evidence of a candidate, and the budget is not exceeded.
THEOREM PipelineTypesHold == PipelineSpec => []PipelineTypeOK
<1>1. RunTyped => PipelineTypeOK
  <2> SUFFICES ASSUME RunTyped PROVE PipelineTypeOK
    OBVIOUS
  <2>1. todo \in Seq(IF stage = "sitemap" THEN {"leaf", "index", "gone"} ELSE Url)
    BY DEF RunTyped, ListTyped
  <2>2. DOMAIN cands \subseteq Url /\ \A u \in DOMAIN cands : cands[u] \in Candidate
    BY DEF RunTyped, AllSound, Sound
  <2>3. Basic
    BY DEF RunTyped
  <2> QED BY <2>1, <2>2, <2>3 DEF Basic, PipelineTypeOK
<1> QED BY <1>1, RunStaysTyped, PTL

-----------------------------------------------------------------------------
(* The budget *)

\* The checks that a run may yet make before a board cuts it short: the homepage, then
\* the guesses, and the board itself.
Budget ==
  /\ stage = "homepage" => used = 0
  /\ stage \in {"homepage", "guesses"} => ~short
  /\ stage = "guesses" => used + Len(todo) \in 0..(Len(Guesses) + 1)
  /\ stage = "nav" => used \in 0..(Len(Guesses) + 1)
  /\ short => stage \in {"nav", "verify", "done"}
  /\ short /\ stage = "verify" => used + Len(todo) \in 0..(Len(Guesses) + 2)
  /\ short /\ outcome = "finished" => used \in 0..(Len(Guesses) + 2)

LEMMA StepBudget ==
  ASSUME RunTyped, Budget, [PipelineNext]_pipelineVars
  PROVE  Budget'
<1> USE DEF Enter, context
<1>1. Len(Guesses) \in Nat /\ used \in Nat /\ (outcome = "running" <=> stage # "done")
  BY PipelineAssumption, LenProperties DEF RunTyped, Basic
<1>2. ASSUME stage' \notin {"homepage", "guesses", "nav"}, ~short, short' = short
      PROVE  Budget'
  BY <1>2 DEF Budget
<1>3. CASE Homepage
  <2>1. used' = 1 /\ stage' = "guesses" /\ todo' = Guesses /\ ~short'
    BY <1>3 DEF Homepage, Affordable, Budget
  <2>2. used' + Len(todo') \in 0..(Len(Guesses) + 1)
    BY <1>1, <2>1
  <2> QED BY <2>1, <2>2 DEF Budget
<1>4. CASE Throttled
  BY <1>2, <1>4 DEF Throttled, Budget
<1>5. CASE Guess
  <2>1. /\ stage = "guesses" /\ stage' = "guesses" /\ ~short /\ short' = short
        /\ used' = used + 1 /\ todo # <<>> /\ todo' = Tail(todo)
        /\ used + Len(todo) \in 0..(Len(Guesses) + 1)
    BY <1>5 DEF Guess, Affordable, Budget
  <2>2. Len(Tail(todo)) = Len(todo) - 1 /\ Len(todo) \in Nat
    BY <2>1, Visits
  <2>3. used' + Len(todo') \in 0..(Len(Guesses) + 1)
    <3>1. PICK n \in Nat : n = Len(todo)
      BY <2>2
    <3>2. PICK g \in Nat : g = Len(Guesses)
      BY <1>1
    <3>3. Len(todo') = n - 1
      BY <2>1, <2>2, <3>1
    <3> QED BY ONLY <1>1, <2>1, <3>1, <3>2, <3>3
  <2> QED BY <2>1, <2>3 DEF Budget
<1>6. CASE Nav
  <2>1. /\ stage = "guesses" /\ stage' = "nav" /\ todo = <<>> /\ used' = used
        /\ outcome' = outcome
        /\ used + Len(todo) \in 0..(Len(Guesses) + 1)
    BY <1>6 DEF Nav, Budget
  <2>2. used' \in 0..(Len(Guesses) + 1)
    BY <1>1, <2>1
  <2> QED BY <1>1, <2>1, <2>2 DEF Budget
<1>7. CASE Robots
  BY <1>2, <1>7 DEF Robots
<1>8. CASE Sitemap \/ SitemapEnd \/ Skip \/ CommonPath \/ CommonPathEnd \/ Subdomain
              \/ SubdomainEnd \/ JsonLd
  <2>1. /\ stage \notin {"homepage", "guesses", "nav", "verify", "done"}
        /\ stage' \notin {"homepage", "guesses", "nav"} /\ short' = short
    BY <1>8 DEF Sitemap, SitemapEnd, Skip, CommonPath, CommonPathEnd, Subdomain, SubdomainEnd, JsonLd
  <2>2. ~short
    BY <2>1 DEF Budget
  <2> QED BY <1>2, <2>1, <2>2
<1>9. CASE JsonLdEnd
  <2>1. /\ stage' = "verify" /\ todo' = Targets /\ short' = short /\ used' = used
        /\ outcome' = outcome /\ outcome = "running"
    BY <1>1, <1>9 DEF JsonLdEnd
  <2>2. CASE ~short
    BY <1>2, <2>1, <2>2
  <2>3. CASE short
    <3>1. used \in 0..(Len(Guesses) + 1)
      BY <1>9, <2>3 DEF JsonLdEnd, Budget
    <3>2. Len(Targets) \in 0..1
      BY <1>1, <2>3, RankingsList DEF RunTyped
    <3>3. used' + Len(todo') \in 0..(Len(Guesses) + 2)
      <4>1. PICK n \in 0..1 : n = Len(todo')
        BY <2>1, <3>2
      <4>2. PICK g \in Nat : g = Len(Guesses)
        BY <1>1
      <4>3. used' = used /\ used \in 0..(g + 1)
        BY <2>1, <3>1, <4>2
      <4>4. used' + n \in 0..(g + 2)
        BY ONLY <4>1, <4>2, <4>3
      <4> QED BY <4>1, <4>2, <4>4
    <3> QED BY <2>1, <3>3 DEF Budget
  <2> QED BY <2>2, <2>3
<1>10. CASE Verify
  <2>1. /\ stage = "verify" /\ stage' = "verify" /\ short' = short /\ used' = used + 1
        /\ todo # <<>> /\ todo' = Tail(todo) /\ outcome' = outcome /\ outcome = "running"
    BY <1>1, <1>10 DEF Verify, Affordable
  <2>2. CASE ~short
    BY <1>2, <2>1, <2>2
  <2>3. CASE short
    <3>1. used + Len(todo) \in 0..(Len(Guesses) + 2)
      BY <2>1, <2>3 DEF Budget
    <3>2. Len(Tail(todo)) = Len(todo) - 1 /\ Len(todo) \in Nat
      BY <2>1, Visits
    <3>3. used' + Len(todo') \in 0..(Len(Guesses) + 2)
      <4>1. PICK n \in Nat : n = Len(todo)
        BY <3>2
      <4>2. PICK g \in Nat : g = Len(Guesses)
        BY <1>1
      <4>3. Len(todo') = n - 1
        BY <2>1, <3>2, <4>1
      <4> QED BY ONLY <1>1, <2>1, <3>1, <4>1, <4>2, <4>3
    <3> QED BY <2>1, <3>3 DEF Budget
  <2> QED BY <2>2, <2>3
<1>11. CASE VerifyEnd
  <2>1. /\ stage = "verify" /\ todo = <<>> /\ stage' = "done" /\ short' = short /\ used' = used
    BY <1>11 DEF VerifyEnd
  <2>2. short => used' \in 0..(Len(Guesses) + 2)
    BY <1>1, <2>1 DEF Budget
  <2> QED BY <2>1, <2>2 DEF Budget
<1>12. CASE Exhaust
  <2>1. stage' = "done" /\ outcome' = "partial" /\ short' = short
    BY <1>12 DEF Exhaust, Cut
  <2> QED BY <2>1 DEF Budget
<1>13. CASE UNCHANGED pipelineVars
  BY <1>13 DEF pipelineVars, Budget
<1> QED BY <1>3, <1>4, <1>5, <1>6, <1>7, <1>8, <1>9, <1>10, <1>11, <1>12, <1>13 DEF PipelineNext

\* No run makes more checks than its budget, and one that a board cuts short asks for no
\* more than the homepage, the guesses and that board.
THEOREM BudgetIsKept == PipelineSpec => []ChecksKept
<1>1. PipelineInit => Budget
  BY DEF PipelineInit, Budget
<1>2. RunTyped /\ Budget /\ [PipelineNext]_pipelineVars => Budget'
  BY StepBudget
<1>3. RunTyped /\ Budget => ChecksKept
  <2> SUFFICES ASSUME RunTyped, Budget PROVE ChecksKept
    OBVIOUS
  <2>1. outcome # "partial" => used < MaxChecks
    BY DEF RunTyped, Basic
  <2>2. Len(Guesses) \in Nat
    BY PipelineAssumption, LenProperties
  <2>3. short /\ outcome = "finished" => used <= Len(Guesses) + 2
    BY <2>2 DEF Budget
  <2> QED BY <2>1, <2>3 DEF ChecksKept
<1> QED BY <1>1, <1>2, <1>3, RunStaysTyped, PTL DEF PipelineSpec

-----------------------------------------------------------------------------
(* Evidence *)

Kept ==
  \A u \in DOMAIN cands :
    IF u \in DOMAIN cands'
    THEN /\ cands[u].flags \subseteq cands'[u].flags
         /\ cands[u].ats => cands'[u].ats
         /\ cands[u].status # "none" => cands'[u].status = cands[u].status
    ELSE u \in rejected

LEMMA StepKeeps ==
  ASSUME RunTyped, [PipelineNext]_pipelineVars
  PROVE  Kept
<1>1. ASSUME UNCHANGED cands PROVE Kept
  BY <1>1 DEF Kept
<1>2. ASSUME NEW us, NEW c, Adds(cands, us, c, cands') PROVE Kept
  BY <1>2 DEF Adds, Kept
<1>3. ASSUME Finds PROVE Kept
  <2>1. PICK us, c : Adds(cands, us, c, cands')
    BY <1>3, FindsPlainly, PlainlyAdds
  <2> QED BY <1>2, <2>1
<1>4. ASSUME Nav PROVE Kept
  <2>1. PICK mid, h, f : /\ Adds(cands, RegionLinks("header"), h, mid)
                         /\ Adds(mid, RegionLinks("footer"), f, cands')
    BY <1>4, NavAdds
  <2>2. ASSUME NEW u \in DOMAIN cands
        PROVE  /\ u \in DOMAIN mid /\ u \in DOMAIN cands'
               /\ cands[u].flags \subseteq mid[u].flags
               /\ cands[u].ats => mid[u].ats
               /\ cands[u].status # "none" => mid[u].status = cands[u].status
    BY <2>1 DEF Adds
  <2>3. ASSUME NEW u \in DOMAIN mid
        PROVE  /\ mid[u].flags \subseteq cands'[u].flags
               /\ mid[u].ats => cands'[u].ats
               /\ mid[u].status # "none" => cands'[u].status = mid[u].status
    BY <2>1 DEF Adds
  <2>4. ASSUME NEW u \in DOMAIN cands
        PROVE  /\ u \in DOMAIN cands'
               /\ cands[u].flags \subseteq cands'[u].flags
               /\ cands[u].ats => cands'[u].ats
               /\ cands[u].status # "none" => cands'[u].status = cands[u].status
    BY <2>2, <2>3
  <2> QED BY <2>4 DEF Kept
<1>5. ASSUME NEW u, NEW c, Looks(u, c) PROVE Kept
  BY <1>2, <1>5, LookAdds
<1>6. ASSUME VerifyEnd PROVE Kept
  BY <1>6 DEF VerifyEnd, Kept
<1> QED BY <1>1, <1>3, <1>4, <1>5, <1>6, StepKinds, JsonLdLooks, VerifyLooks

\* What a strategy has found out about a candidate is never forgotten by a later one, and
\* a candidate is given up only if the verification has rejected it.
THEOREM EvidenceIsKept == PipelineSpec => EvidenceKept
<1>1. RunTyped /\ [PipelineNext]_pipelineVars => [Kept]_pipelineVars
  BY StepKeeps
<1> QED BY <1>1, RunStaysTyped, PTL DEF PipelineSpec, EvidenceKept, Kept

-----------------------------------------------------------------------------
(* What is reported *)

\* The verification rejects the pages it sees to redirect to another site, and only them;
\* a finished run has given them up.
Judged ==
  /\ \A u \in rejected : site.answer[u] = "foreign"
  /\ \A u \in visited : site.answer[u] = "foreign" => u \in rejected
  /\ outcome = "finished" => DOMAIN cands \cap rejected = {}

LEMMA StepJudged ==
  ASSUME RunTyped, Judged, [PipelineNext]_pipelineVars
  PROVE  Judged'
<1> USE DEF context
<1>1. site' = site /\ (outcome = "running" <=> stage # "done")
  BY SiteStays DEF RunTyped, Basic
<1>2. CASE Verify
  <2> DEFINE u == Head(todo)
             answered == Plain(u) \notin {"error", "not_modified"}
  <2>1. /\ visited' = visited \cup {u}
        /\ rejected' = IF answered /\ ~Own(u) THEN rejected \cup {u} ELSE rejected
        /\ stage = "verify" /\ outcome' = outcome
    BY <1>2 DEF Verify
  <2>2. site.answer[u] = "foreign" => answered
    BY DEF Plain, Blocked
  <2>3. Own(u) <=> site.answer[u] # "foreign"
    BY DEF Own
  <2> HIDE DEF u, answered
  <2>4. outcome' # "finished"
    BY <1>1, <2>1
  <2>5. \A v \in rejected' : site'.answer[v] = "foreign"
    BY <1>1, <2>1, <2>3 DEF Judged
  <2>6. \A v \in visited' : site'.answer[v] = "foreign" => v \in rejected'
    BY <1>1, <2>1, <2>2, <2>3 DEF Judged
  <2> QED BY <2>4, <2>5, <2>6 DEF Judged
<1>3. CASE VerifyEnd
  <2>1. rejected' = rejected /\ visited' = visited /\ DOMAIN cands' = DOMAIN cands \ rejected
    BY <1>3 DEF VerifyEnd
  <2> QED BY <1>1, <2>1 DEF Judged
<1>4. CASE UNCHANGED pipelineVars
  BY <1>4 DEF pipelineVars, Judged
<1>5. ASSUME rejected' = rejected, visited' = visited, outcome' # "finished" PROVE Judged'
  BY <1>1, <1>5 DEF Judged
<1>6. CASE Throttled \/ Exhaust
  BY <1>5, <1>6 DEF Throttled, Exhaust, Cut
<1>7. CASE \/ Homepage \/ Guess \/ Nav \/ Robots \/ Sitemap \/ SitemapEnd \/ Skip \/ CommonPath
           \/ CommonPathEnd \/ Subdomain \/ SubdomainEnd \/ JsonLd \/ JsonLdEnd
  <2>1. /\ stage # "done" /\ outcome' = outcome
        /\ rejected' = rejected /\ visited' = visited
    BY <1>7 DEF Homepage, Guess, Nav, Robots, Sitemap, SitemapEnd, Skip, CommonPath,
                CommonPathEnd, Subdomain, SubdomainEnd, JsonLd, JsonLdEnd
  <2> QED BY <1>1, <1>5, <2>1
<1> QED BY <1>2, <1>3, <1>4, <1>6, <1>7 DEF PipelineNext

\* What a finished run reports is acceptable, and it reports all that is acceptable if
\* there is room.
LEMMA Reports ==
  ASSUME RunTyped
  PROVE  /\ Reported \subseteq Acceptable
         /\ Cardinality(DOMAIN cands) <= MaxCandidates => Acceptable \subseteq Reported
<1>1. AllSound(cands) /\ 0 \in Nat
  BY DEF RunTyped
<1> QED BY <1>1, RankingsList

\* A finished run reports no page that the rubric disqualifies, nor one whose request
\* its verification has seen answered by a foreign host.  (Redirects to blocked domains
\* it never sees: the run offsite_hops.)
THEOREM ForeignAnswersAreRejected == PipelineSpec => []ForeignAnswersRejected
<1>1. PipelineInit => Judged
  BY DEF PipelineInit, Judged
<1>2. RunTyped /\ Judged /\ [PipelineNext]_pipelineVars => Judged'
  BY StepJudged
<1>3. RunTyped /\ Judged => ForeignAnswersRejected
  <2> SUFFICES ASSUME RunTyped, Judged, outcome = "finished", NEW u \in Reported
               PROVE  /\ Traits[u] \cap Disqualifying = {}
                      /\ u \in visited => site.answer[u] # "foreign"
    BY DEF ForeignAnswersRejected
  <2>1. u \in DOMAIN cands /\ Rank(u) >= MinScore
    BY Reports DEF Acceptable
  <2>2. u \notin rejected
    BY <2>1 DEF Judged
  <2>3. Rank(u) # 0
    BY <2>1, PipelineAssumption
  <2>4. Traits[u] \cap Disqualifying = {}
    BY <2>3 DEF Rank, Score
  <2> QED BY <2>2, <2>4 DEF Judged
<1> QED BY <1>1, <1>2, <1>3, RunStaysTyped, PTL DEF PipelineSpec

-----------------------------------------------------------------------------
(* Leads *)

\* Before the probes of json_ld, and in a run that a board cuts short, no candidate is bad.
Clean ==
  stage \in {"homepage", "guesses", "nav"} \/ short => \A u \in DOMAIN cands : cands[u].status # "bad"

\* The links in the header are candidates, until the verification rejects them.
Linked ==
  stage \notin {"homepage", "guesses", "done"} \/ outcome = "finished" =>
    \A u \in RegionLinks("header") :
      u \in rejected \/ (u \in DOMAIN cands /\ "nav_header" \in cands[u].flags)

LEMMA StagesAdvance ==
  ASSUME RunTyped, [PipelineNext]_pipelineVars
  PROVE  /\ stage' \in {"homepage", "guesses", "nav"} \/ short'
              => stage \in {"homepage", "guesses", "nav"} \/ short
         /\ stage' \notin {"homepage", "guesses", "done"} \/ outcome' = "finished"
              => Nav \/ stage \notin {"homepage", "guesses", "done"} \/ outcome = "finished"
         /\ rejected \subseteq rejected'
<1> USE DEF Enter, context
<1>1. outcome = "running" <=> stage # "done"
  BY DEF RunTyped, Basic
<1>2. CASE Homepage \/ Throttled \/ Guess \/ Nav \/ Robots \/ Sitemap \/ SitemapEnd
  BY <1>1, <1>2 DEF Homepage, Throttled, Guess, Nav, Robots, Sitemap, SitemapEnd
<1>3. CASE Skip \/ CommonPath \/ CommonPathEnd \/ Subdomain \/ SubdomainEnd \/ JsonLd \/ JsonLdEnd
  BY <1>1, <1>3 DEF Skip, CommonPath, CommonPathEnd, Subdomain, SubdomainEnd, JsonLd, JsonLdEnd
<1>4. CASE Verify \/ VerifyEnd \/ Exhaust
  BY <1>1, <1>4 DEF Verify, VerifyEnd, Exhaust, Cut
<1>5. CASE UNCHANGED pipelineVars
  BY <1>5 DEF pipelineVars
<1> QED BY <1>2, <1>3, <1>4, <1>5 DEF PipelineNext

LEMMA StepClean ==
  ASSUME RunTyped, Budget, Clean, [PipelineNext]_pipelineVars
  PROVE  Clean'
<1> USE DEF Clean
<1> SUFFICES ASSUME stage' \in {"homepage", "guesses", "nav"} \/ short'
             PROVE  \A u \in DOMAIN cands' : cands'[u].status # "bad"
  OBVIOUS
<1>1. \A u \in DOMAIN cands : cands[u].status # "bad"
  BY StagesAdvance
<1>2. ASSUME NEW us, NEW c, Adds(cands, us, c, cands'), c.status # "bad"
      PROVE  \A u \in DOMAIN cands' : cands'[u].status # "bad"
  BY <1>1, <1>2 DEF Adds
<1>3. CASE UNCHANGED cands
  BY <1>1, <1>3
<1>4. CASE Finds
  <2>1. PICK us, c : c.status = "none" /\ Adds(cands, us, c, cands')
    BY <1>4, FindsPlainly, PlainlyAdds
  <2> QED BY <1>2, <2>1
<1>5. CASE Nav
  <2>1. PICK mid, h, f : /\ Adds(cands, RegionLinks("header"), h, mid)
                         /\ Adds(mid, RegionLinks("footer"), f, cands')
                         /\ h.status = "none" /\ f.status = "none"
    BY <1>5, NavAdds
  <2>2. \A u \in DOMAIN mid : mid[u].status # "bad"
    BY <1>1, <2>1 DEF Adds
  <2> QED BY <2>1, <2>2 DEF Adds
<1>6. CASE JsonLd
  <2>1. stage' = "json_ld" /\ stage = "json_ld" /\ short' = short
    BY <1>6 DEF JsonLd
  <2> QED BY <2>1 DEF Budget
<1>7. CASE Verify
  <2>1. CASE UNCHANGED cands
    BY <1>3, <2>1
  <2>2. CASE ~UNCHANGED cands
    <3>1. PICK u, c : Looks(u, c) /\ c.status = "ok"
      BY <1>7, <2>2, VerifyLooks
    <3> QED BY <1>2, <3>1, LookAdds
  <2> QED BY <2>1, <2>2
<1>8. CASE VerifyEnd
  BY <1>1, <1>8 DEF VerifyEnd
<1> QED BY <1>3, <1>4, <1>5, <1>6, <1>7, <1>8, StepKinds

LEMMA StepLinked ==
  ASSUME RunTyped, Linked, [PipelineNext]_pipelineVars
  PROVE  Linked'
<1>1. RegionLinks("header")' = RegionLinks("header")
  BY SiteStays DEF RegionLinks
<1> SUFFICES ASSUME stage' \notin {"homepage", "guesses", "done"} \/ outcome' = "finished",
                    NEW u \in RegionLinks("header")
             PROVE  u \in rejected' \/ (u \in DOMAIN cands' /\ "nav_header" \in cands'[u].flags)
  BY <1>1 DEF Linked
<1>2. rejected \subseteq rejected'
  BY StagesAdvance
<1>3. CASE Nav
  <2>1. PICK mid, h, f : /\ Adds(cands, RegionLinks("header"), h, mid)
                         /\ Adds(mid, RegionLinks("footer"), f, cands')
                         /\ "nav_header" \in h.flags
    BY <1>3, NavAdds
  <2>2. u \in DOMAIN mid /\ "nav_header" \in mid[u].flags
    BY <2>1 DEF Adds
  <2> QED BY <2>1, <2>2 DEF Adds
<1>4. CASE ~Nav
  <2>1. u \in rejected \/ (u \in DOMAIN cands /\ "nav_header" \in cands[u].flags)
    BY <1>4, StagesAdvance DEF Linked
  <2> QED BY <1>2, <2>1, StepKeeps DEF Kept
<1> QED BY <1>3, <1>4

\* A candidate is worth what the evidence that it was added with is worth, at least.
LEMMA EvidenceCounts ==
  ASSUME RunTyped, NEW u \in DOMAIN cands, cands[u].status # "bad",
         NEW c, c.status = "none", c.flags \subseteq {"nav_header"}, c.flags \subseteq cands[u].flags
  PROVE  Score(u, c) <= Rank(u)
<1> DEFINE extra == {r \in {"in_sitemap"} : u \in listed}
           A == Traits[u] \cup c.flags \cup extra
           B == Traits[u] \cup cands[u].flags \cup extra
<1>1. /\ u \in Url /\ cands[u].flags \subseteq Flags
      /\ "single_posting" \in cands[u].flags => "json_ld_jobposting" \in cands[u].flags
  BY DEF RunTyped, AllSound, Sound, Candidate
<1>2. Traits[u] \cap Flags = {}
  BY <1>1, PipelineAssumption
<1>3. A \ Penalties \subseteq B
  OBVIOUS
<1>4. B \cap (Penalties \ {"single_posting"}) \subseteq A
  BY <1>1 DEF Penalties, Flags, Content
<1>5. "json_ld_jobposting" \notin A
  BY <1>2 DEF Flags, Content
<1>6. "single_posting" \in B => "json_ld_jobposting" \in B
  BY <1>1, <1>2 DEF Flags, Content
<1>7. /\ Score(u, c) = IF Traits[u] \cap Disqualifying # {} THEN 0 ELSE ClampScore(Total(A))
      /\ Rank(u) = IF Traits[u] \cap Disqualifying # {} THEN 0 ELSE ClampScore(Total(B))
  BY DEF Score, Rank
<1> HIDE DEF A, B
<1>8. Total(A) <= Total(B)
  BY <1>3, <1>4, <1>5, <1>6, TotalGrows
<1>9. Total(A) \in Int /\ Total(B) \in Int
  BY TotalType
<1>10. ClampScore(Total(A)) <= ClampScore(Total(B))
  BY <1>8, <1>9 DEF ClampScore
<1> QED BY <1>7, <1>10

\* A link in the header, and a board, that the rubric accepts and whose page answers, is
\* reported by every finished run that gets the homepage and has room for it.
THEOREM LeadsAreFound == PipelineSpec => []LeadsFound
<1>1. PipelineInit => Budget /\ Judged /\ Clean /\ Linked
  BY DEF PipelineInit, Budget, Judged, Clean, Linked
<1>2. RunTyped /\ Budget /\ Judged /\ Clean /\ Linked /\ [PipelineNext]_pipelineVars
        => Budget' /\ Judged' /\ Clean' /\ Linked'
  BY StepBudget, StepJudged, StepClean, StepLinked
<1>3. RunTyped /\ Judged /\ Clean /\ Linked => LeadsFound
  <2> SUFFICES ASSUME RunTyped, Judged, Clean, Linked, outcome = "finished", site.home # "down",
                      Cardinality(DOMAIN cands) <= MaxCandidates
               PROVE  /\ \A u \in site.header :
                           /\ ~short /\ site.answer[u] = "ok"
                           /\ Score(u, [New("header_link") EXCEPT !.flags = {"nav_header"}]) >= MinScore
                           => u \in Reported
                      /\ \A u \in DOMAIN cands :
                           /\ cands[u].ats
                           /\ site.answer[u] = "ok" \/ (short /\ site.answer[u] = "tagged")
                           /\ Score(u, New("ats_pattern")) >= MinScore
                           => u \in Reported
    BY DEF LeadsFound
  <2>1. ASSUME NEW u \in DOMAIN cands, cands[u].status # "bad", NEW c, c.status = "none",
               c.flags \subseteq {"nav_header"}, c.flags \subseteq cands[u].flags,
               Score(u, c) >= MinScore
        PROVE  u \in Reported
    <3>1. Score(u, c) <= Rank(u)
      BY <2>1, EvidenceCounts
    <3>2. Score(u, c) \in 0..100 /\ Rank(u) \in 0..100 /\ MinScore \in Nat
      <4>1. Score(u, c) \in 0..100 /\ Score(u, cands[u]) \in 0..100
        BY ScoreType
      <4>2. MinScore \in Nat
        BY PipelineAssumption
      <4> QED BY <4>1, <4>2 DEF Rank
    <3>3. Score(u, c) >= MinScore
      BY <2>1
    <3>4. Rank(u) >= MinScore
      BY ONLY <3>1, <3>2, <3>3
    <3> QED BY <3>4, Reports DEF Acceptable
  <2>2. ASSUME NEW u \in DOMAIN cands, site.answer[u] = "ok" PROVE cands[u].status # "bad"
    BY <2>2 DEF RunTyped, AllSound, Sound
  <2>3. ASSUME NEW u \in site.header, site.answer[u] = "ok",
               Score(u, [New("header_link") EXCEPT !.flags = {"nav_header"}]) >= MinScore
        PROVE  u \in Reported
    <3> DEFINE c == [New("header_link") EXCEPT !.flags = {"nav_header"}]
    <3>1. c.status = "none" /\ c.flags = {"nav_header"}
      BY DEF New
    <3>2. u \in RegionLinks("header") /\ u \notin rejected
      BY <2>3 DEF RegionLinks, Judged
    <3>3. u \in DOMAIN cands /\ "nav_header" \in cands[u].flags
      BY <3>2 DEF Linked
    <3>4. Score(u, c) >= MinScore
      BY <2>3
    <3> HIDE DEF c
    <3> QED BY <2>1, <2>2, <2>3, <3>1, <3>3, <3>4
  <2>4. ASSUME NEW u \in DOMAIN cands, site.answer[u] = "ok" \/ (short /\ site.answer[u] = "tagged"),
               Score(u, New("ats_pattern")) >= MinScore
        PROVE  u \in Reported
    <3>1. New("ats_pattern").status = "none" /\ New("ats_pattern").flags = {}
      BY DEF New
    <3>2. cands[u].status # "bad"
      BY <2>2, <2>4 DEF Clean
    <3>3. /\ New("ats_pattern").flags \subseteq {"nav_header"}
          /\ New("ats_pattern").flags \subseteq cands[u].flags
      BY <3>1
    <3>4. Score(u, New("ats_pattern")) >= MinScore
      BY <2>4
    <3> QED BY <2>1, <3>1, <3>2, <3>3, <3>4
  <2> QED BY <2>3, <2>4
<1> QED BY <1>1, <1>2, <1>3, RunStaysTyped, PTL DEF PipelineSpec

=============================================================================
