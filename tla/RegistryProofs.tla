----------------------------- MODULE RegistryProofs -----------------------------
(***************************************************************************)
(* Theorems about Registry, for any companies, calls and pages.            *)
(*                                                                         *)
(* NoTwins is preserved by Writes alone, which asks the database: what the *)
(* services have checked, and when, is not used.  ChecksSuffice needs it:   *)
(* every write races or ends every call, so what a check establishes       *)
(* about the rows has to hold only while they stay.  ArchivedHidden needs  *)
(* that a company which is archived under a scrape is listed as late, and  *)
(* that no step but the archiving's own writes an archived row.            *)
(***************************************************************************)
EXTENDS Registry, TLAPS

-----------------------------------------------------------------------------
(* Types *)

RequestType == [op : {"idle", "main", "direct", "manual"}, company : Companies \cup {None},
                row : CompanyRow, raced : BOOLEAN]

RowsTyped == rows \in [Companies -> CompanyRow]

RequestsTyped ==
  /\ service \in [Services -> RequestType]
  /\ \A r \in Services :
       /\ service[r].op = "idle" => service[r] = NoService
       /\ service[r].op # "idle" => service[r].row.state = "tracked"
       /\ service[r].op = "manual" => service[r].company \in Companies

ScrapesTyped ==
  /\ inst \in [Companies -> CompanyRow]
  /\ scraping \subseteq Companies
  /\ shown \subseteq Companies
  /\ archiving \subseteq Companies
  /\ late \subseteq Companies
  /\ \A c \in scraping : inst[c].state = "tracked"

Typed == RowsTyped /\ RequestsTyped /\ ScrapesTyped

LEMMA RowUpdates ==
  ASSUME NEW row \in CompanyRow, NEW u \in Url \cup {NoUrl},
         NEW s \in {"none", "tracked", "archived"}
  PROVE  /\ [row EXCEPT !.url = u, !.verified = TRUE] \in CompanyRow
         /\ [row EXCEPT !.url = u, !.verified = TRUE].state = row.state
         /\ [row EXCEPT !.verified = FALSE] \in CompanyRow
         /\ [row EXCEPT !.verified = FALSE].state = row.state
         /\ [row EXCEPT !.state = s] \in CompanyRow
         /\ [row EXCEPT !.state = s].state = s
  BY DEF CompanyRow

LEMMA NewRows ==
  /\ NoCompany \in CompanyRow
  /\ \A d \in Sites : MainRow(d) \in CompanyRow /\ MainRow(d).state = "tracked"
  /\ \A u \in Url : DirectRow(u) \in CompanyRow /\ DirectRow(u).state = "tracked"
<1>1. NoCompany \in CompanyRow
  BY DEF NoCompany, CompanyRow
<1>2. ASSUME NEW d \in Sites PROVE MainRow(d) \in CompanyRow /\ MainRow(d).state = "tracked"
  BY <1>2 DEF MainRow, NoCompany, CompanyRow
<1>3. ASSUME NEW u \in Url PROVE DirectRow(u) \in CompanyRow /\ DirectRow(u).state = "tracked"
  <2>1. Domain(u.page) \in Sites \cup {None}
    BY DEF Domain
  <2> QED BY <2>1 DEF DirectRow, CompanyRow
<1> QED BY <1>1, <1>2, <1>3

\* A call that has passed its check.
LEMMA ChecksTyped ==
  ASSUME RequestsTyped, NEW r \in Services, NEW op \in {"main", "direct", "manual"},
         NEW c \in Companies \cup {None}, NEW row \in CompanyRow, row.state = "tracked",
         op = "manual" => c \in Companies, Checks(r, op, c, row)
  PROVE  RequestsTyped'
<1> DEFINE new == [op |-> op, company |-> c, row |-> row, raced |-> FALSE]
<1>1. service' = [service EXCEPT ![r] = new]
  BY DEF Checks
<1>2. new \in RequestType /\ new.op = op /\ new.row = row /\ new.company = c
  BY DEF RequestType
<1> HIDE DEF new
<1> QED BY <1>1, <1>2 DEF RequestsTyped

\* A write, whatever it writes.
LEMMA WriteTyped ==
  ASSUME RowsTyped, RequestsTyped, NEW c \in Companies, NEW row \in CompanyRow, NEW over,
         Writes(c, row, over)
  PROVE  RowsTyped' /\ RequestsTyped'
<1>1. RowsTyped'
  BY DEF Writes, RowsTyped
<1>2. NoService \in RequestType /\ NoService.op = "idle"
  BY NewRows DEF NoService, RequestType
<1>3. \A x \in RequestType :
        /\ [x EXCEPT !.raced = TRUE] \in RequestType
        /\ [x EXCEPT !.raced = TRUE].op = x.op
        /\ [x EXCEPT !.raced = TRUE].row = x.row
        /\ [x EXCEPT !.raced = TRUE].company = x.company
  BY DEF RequestType
<1>4. service' = [r \in Services |->
        IF r \in over \/ service[r] = NoService THEN NoService
        ELSE [service[r] EXCEPT !.raced = TRUE]]
  BY DEF Writes
<1>5. service' \in [Services -> RequestType]
  BY <1>2, <1>3, <1>4 DEF RequestsTyped
<1>6. ASSUME NEW r \in Services
      PROVE  /\ service'[r].op = "idle" => service'[r] = NoService
             /\ service'[r].op # "idle" => service'[r].row.state = "tracked"
             /\ service'[r].op = "manual" => service'[r].company \in Companies
  <2>1. CASE r \in over \/ service[r] = NoService
    BY <1>2, <1>4, <2>1
  <2>2. CASE ~(r \in over \/ service[r] = NoService)
    <3>1. service'[r] = [service[r] EXCEPT !.raced = TRUE]
      BY <1>4, <2>2
    <3>2. service[r] \in RequestType /\ service[r].op # "idle"
      BY <2>2 DEF RequestsTyped
    <3> QED BY <1>3, <3>1, <3>2 DEF RequestsTyped
  <2> QED BY <2>1, <2>2
<1> QED BY <1>1, <1>5, <1>6 DEF RequestsTyped

LEMMA InitTyped == RegistryInit => Typed
  BY NewRows DEF RegistryInit, Typed, RowsTyped, RequestsTyped, ScrapesTyped, NoService, RequestType

-----------------------------------------------------------------------------
(* What the steps do to the rows *)

\* A call is checked: nothing else changes.
Checked == rows' = rows /\ RequestsTyped' /\ UNCHANGED <<scraping, inst, shown, archiving, late>>

LEMMA CheckSteps ==
  ASSUME Typed, NEW r \in Services
  PROVE  /\ \A d \in Sites : MainCheck(r, d) => Checked
         /\ \A u \in Url : DirectCheck(r, u) => Checked
         /\ \A c \in Companies, u \in Url : ManualCheck(r, c, u) => Checked
<1>1. ASSUME NEW d \in Sites, MainCheck(r, d) PROVE Checked
  <2>1. Checks(r, "main", None, MainRow(d))
    BY <1>1 DEF MainCheck
  <2>2. RequestsTyped'
    BY <2>1, NewRows, ChecksTyped DEF Typed
  <2> QED BY <2>1, <2>2 DEF Checked, Checks
<1>2. ASSUME NEW u \in Url, DirectCheck(r, u) PROVE Checked
  <2>1. Checks(r, "direct", None, DirectRow(u))
    BY <1>2 DEF DirectCheck
  <2>2. RequestsTyped'
    BY <2>1, NewRows, ChecksTyped DEF Typed
  <2> QED BY <2>1, <2>2 DEF Checked, Checks
<1>3. ASSUME NEW c \in Companies, NEW u \in Url, ManualCheck(r, c, u) PROVE Checked
  <2> DEFINE row == [rows[c] EXCEPT !.url = u, !.verified = TRUE]
  <2>1. Checks(r, "manual", c, row) /\ c \in Tracked
    BY <1>3 DEF ManualCheck
  <2>2. row \in CompanyRow /\ row.state = "tracked"
    <3>1. rows[c] \in CompanyRow /\ rows[c].state = "tracked"
      BY <2>1 DEF Typed, RowsTyped, Tracked
    <3>2. u \in Url \cup {NoUrl}
      OBVIOUS
    <3> QED BY ZenonT(30), <3>1, <3>2, RowUpdates
  <2> HIDE DEF row
  <2>3. RequestsTyped'
    BY <2>1, <2>2, ChecksTyped DEF Typed
  <2> QED BY <2>1, <2>3 DEF Checked, Checks
<1> QED BY <1>1, <1>2, <1>3

\* Row c is written, and is then in the given state unless the database refuses.
Written(c, state) ==
  \E row \in CompanyRow : \E over : row.state = state /\ Writes(c, row, over)

LEMMA WriteSteps ==
  ASSUME Typed
  PROVE  /\ \A r \in Services, c \in Companies : Insert(r, c) => Written(c, "tracked")
         /\ \A r \in Services : ManualSave(r) =>
              service[r].company \in Companies /\ Written(service[r].company, "tracked")
         /\ \A c \in Companies, p \in Pages : Approve(c, p) => Written(c, "tracked")
         /\ \A c \in Companies : Unverify(c) => Written(c, "tracked")
         /\ \A c \in Companies : ArchiveCommit(c) => Written(c, "archived")
         /\ \A c \in Companies : Unarchive(c) => Written(c, "tracked")
         /\ \A c \in Companies : ScrapeEnds(c) => Written(c, "tracked")
<1>1. ASSUME NEW r \in Services, service[r].op # "idle"
      PROVE  service[r].row \in CompanyRow /\ service[r].row.state = "tracked"
  BY <1>1 DEF Typed, RequestsTyped, RequestType
<1>2. ASSUME NEW c \in Tracked
      PROVE  rows[c] \in CompanyRow /\ rows[c].state = "tracked"
  BY DEF Typed, RowsTyped, Tracked
<1>3. ASSUME NEW r \in Services, NEW c \in Companies, Insert(r, c) PROVE Written(c, "tracked")
  <2>1. service[r].op # "idle" /\ Writes(c, service[r].row, {r})
    BY <1>3 DEF Insert
  <2> QED BY <1>1, <2>1 DEF Written
<1>4. ASSUME NEW r \in Services, ManualSave(r)
      PROVE  service[r].company \in Companies /\ Written(service[r].company, "tracked")
  <2>1. service[r].op = "manual" /\ Writes(service[r].company, service[r].row, {r})
    BY <1>4 DEF ManualSave
  <2>2. service[r].company \in Companies
    BY <2>1 DEF Typed, RequestsTyped
  <2> QED BY <1>1, <2>1, <2>2 DEF Written
<1>5. ASSUME NEW c \in Companies, NEW p \in Pages, Approve(c, p) PROVE Written(c, "tracked")
  <2> DEFINE u == [page |-> p, typed |-> FALSE]
             row == [rows[c] EXCEPT !.url = u, !.verified = TRUE]
  <2>1. c \in Tracked /\ Writes(c, row, {})
    BY <1>5 DEF Approve
  <2>2. u \in Url \cup {NoUrl}
    BY DEF Url
  <2> HIDE DEF u
  <2>3. row \in CompanyRow /\ row.state = "tracked"
    <3>1. rows[c] \in CompanyRow /\ rows[c].state = "tracked"
      BY <1>2, <2>1
    <3> QED BY ZenonT(30), <2>2, <3>1, RowUpdates
  <2> HIDE DEF row
  <2> QED BY <2>1, <2>3 DEF Written
<1>6. ASSUME NEW c \in Companies, Unverify(c) PROVE Written(c, "tracked")
  <2> DEFINE row == [rows[c] EXCEPT !.verified = FALSE]
  <2>1. c \in Tracked /\ Writes(c, row, {})
    BY <1>6 DEF Unverify
  <2>2. row \in CompanyRow /\ row.state = "tracked"
    BY <1>2, <2>1 DEF CompanyRow
  <2> HIDE DEF row
  <2> QED BY <2>1, <2>2 DEF Written
<1>7. ASSUME NEW c \in Companies, ArchiveCommit(c) PROVE Written(c, "archived")
  <2> DEFINE row == [rows[c] EXCEPT !.state = "archived"]
  <2>1. Writes(c, row, {})
    BY <1>7 DEF ArchiveCommit
  <2>2. row \in CompanyRow /\ row.state = "archived"
    BY DEF CompanyRow, Typed, RowsTyped
  <2> HIDE DEF row
  <2> QED BY <2>1, <2>2 DEF Written
<1>8. ASSUME NEW c \in Companies, Unarchive(c) PROVE Written(c, "tracked")
  <2> DEFINE row == [rows[c] EXCEPT !.state = "tracked"]
  <2>1. Writes(c, row, {})
    BY <1>8 DEF Unarchive
  <2>2. row \in CompanyRow /\ row.state = "tracked"
    BY DEF CompanyRow, Typed, RowsTyped
  <2> HIDE DEF row
  <2> QED BY <2>1, <2>2 DEF Written
<1>9. ASSUME NEW c \in Companies, ScrapeEnds(c) PROVE Written(c, "tracked")
  <2>1. c \in scraping /\ Writes(c, inst[c], {})
    BY <1>9 DEF ScrapeEnds
  <2>2. inst[c] \in CompanyRow /\ inst[c].state = "tracked"
    BY <2>1 DEF Typed, ScrapesTyped
  <2> QED BY <2>1, <2>2 DEF Written
<1> QED BY <1>3, <1>4, <1>5, <1>6, <1>7, <1>8, <1>9

\* Every step checks a call, writes a row, or leaves rows and calls alone.
LEMMA Steps ==
  ASSUME Typed, [RegistryNext]_registryVars
  PROVE  \/ rows' = rows /\ RequestsTyped'
         \/ \E c \in Companies : \E s \in {"tracked", "archived"} : Written(c, s)
<1>1. ASSUME NEW r \in Services,
             \/ \E d \in Sites : MainCheck(r, d)
             \/ \E u \in Url : DirectCheck(r, u)
             \/ \E c \in Companies, u \in Url : ManualCheck(r, c, u)
      PROVE  rows' = rows /\ RequestsTyped'
  BY <1>1, CheckSteps DEF Checked
<1>2. ASSUME NEW c \in Companies,
             ScrapeStart(c) \/ ScrapePublishes(c) \/ AdminPublishes(c) \/ ArchiveList(c)
      PROVE  rows' = rows /\ RequestsTyped'
  BY <1>2 DEF ScrapeStart, ScrapePublishes, AdminPublishes, Publishes, ArchiveList,
              Typed, RequestsTyped
<1>3. CASE UNCHANGED registryVars
  BY <1>3 DEF registryVars, Typed, RequestsTyped
<1> QED BY <1>1, <1>2, <1>3, WriteSteps DEF RegistryNext, Given

\* A write keeps rows and calls typed.
LEMMA WrittenTyped ==
  ASSUME Typed, NEW c \in Companies, NEW s, Written(c, s)
  PROVE  RowsTyped' /\ RequestsTyped'
  BY WriteTyped DEF Typed, Written

\* A scrape loads a tracked row, and a write leaves instances alone.
LEMMA ScrapesStayTyped ==
  ASSUME Typed, [RegistryNext]_registryVars
  PROVE  ScrapesTyped'
<1> USE DEF Typed, RowsTyped, ScrapesTyped
<1>1. ASSUME NEW r \in Services,
             \/ \E d \in Sites : MainCheck(r, d)
             \/ \E u \in Url : DirectCheck(r, u)
             \/ \E c \in Companies, u \in Url : ManualCheck(r, c, u)
      PROVE  ScrapesTyped'
  BY <1>1, CheckSteps DEF Checked
<1>2. ASSUME NEW r \in Services, ManualSave(r) PROVE ScrapesTyped'
  BY <1>2 DEF ManualSave, Forgets
<1>3. ASSUME NEW c \in Companies,
             \/ \E r \in Services : Insert(r, c)
             \/ \E p \in Pages : Approve(c, p)
             \/ Unverify(c)
      PROVE  ScrapesTyped'
  BY <1>3 DEF Insert, Approve, Unverify
<1>4. ASSUME NEW c \in Companies,
             \/ ArchiveList(c) \/ ArchiveCommit(c) \/ Unarchive(c)
             \/ ScrapePublishes(c) \/ AdminPublishes(c)
      PROVE  ScrapesTyped'
  BY <1>4 DEF ArchiveList, ArchiveCommit, Unarchive, ScrapePublishes, AdminPublishes,
              Publishes, Forgets
<1>5. ASSUME NEW c \in Companies, ScrapeStart(c) PROVE ScrapesTyped'
  BY <1>5 DEF ScrapeStart, Tracked
<1>6. ASSUME NEW c \in Companies, ScrapeEnds(c) PROVE ScrapesTyped'
  BY <1>6, NewRows DEF ScrapeEnds, Forgets
<1>7. CASE UNCHANGED registryVars
  BY <1>7 DEF registryVars
<1> QED BY <1>1, <1>2, <1>3, <1>4, <1>5, <1>6, <1>7 DEF RegistryNext, Given

LEMMA StepTyped ==
  ASSUME Typed, [RegistryNext]_registryVars
  PROVE  Typed'
<1>1. RowsTyped' /\ RequestsTyped'
  BY Steps, WrittenTyped DEF Typed, RowsTyped
<1> QED BY <1>1, ScrapesStayTyped DEF Typed

LEMMA AlwaysTyped == RegistrySpec => []Typed
<1>1. Typed /\ [RegistryNext]_registryVars => Typed'
  BY StepTyped
<1> QED BY <1>1, InitTyped, PTL DEF RegistrySpec

\* RegistryTypeOK is the part of Typed that the runs check: rows, loaded instances and
\* calls keep their types, whatever the services are given.
THEOREM TypesHold == RegistrySpec => []RegistryTypeOK
<1>1. Typed => RegistryTypeOK
  BY DEF Typed, RowsTyped, RequestsTyped, ScrapesTyped, RegistryTypeOK
<1> QED BY <1>1, AlwaysTyped, PTL

-----------------------------------------------------------------------------
(* No two companies are one *)

LEMMA ClashIsSymmetric == \A a, b : Clash(a, b) => Clash(b, a)
  BY DEF Clash, SameDomain, SameUrl, SameIdentity

\* The database alone keeps the tracked rows apart: what a service has checked,
\* and how long ago, does not matter.
LEMMA WriteKeepsApart ==
  ASSUME RowsTyped, NoTwins, NEW c \in Companies, NEW row \in CompanyRow, NEW over,
         Writes(c, row, over)
  PROVE  NoTwins'
<1>1. CASE ~Accepts(c, row)
  BY <1>1 DEF Writes, NoTwins, Tracked
<1>2. CASE Accepts(c, row)
  <2>1. rows' = [rows EXCEPT ![c] = row]
    BY <1>2 DEF Writes
  <2>2. rows'[c] = row /\ \A o \in Companies \ {c} : rows'[o] = rows[o]
    BY <2>1 DEF RowsTyped
  <2>3. ASSUME NEW o \in Tracked' \ {c}, c \in Tracked' PROVE ~Clash(rows'[c], rows'[o])
    <3>1. row.state = "tracked" /\ o \in Tracked \ {c}
      BY <2>2, <2>3 DEF Tracked
    <3> QED BY <1>2, <2>2, <3>1 DEF Accepts, Tracked
  <2>4. ASSUME NEW a \in Tracked' \ {c}, NEW b \in Tracked' \ {c}, a # b
        PROVE  ~Clash(rows'[a], rows'[b])
    <3>1. a \in Tracked /\ b \in Tracked /\ rows'[a] = rows[a] /\ rows'[b] = rows[b]
      BY <2>2 DEF Tracked
    <3> QED BY <2>4, <3>1 DEF NoTwins
  <2>5. ASSUME NEW a \in Tracked', NEW b \in Tracked', a # b
        PROVE  ~Clash(rows'[a], rows'[b])
    BY <2>3, <2>4, <2>5, ClashIsSymmetric
  <2> QED BY <2>5 DEF NoTwins
<1> QED BY <1>1, <1>2

\* No two tracked companies share a domain, a stored URL or an ATS identity,
\* whatever the services raced with: each write is refused or keeps them apart.
THEOREM NoTwinsEver == RegistrySpec => []NoTwins
<1>1. RegistryInit => NoTwins
  BY DEF RegistryInit, NoTwins, Tracked, NoCompany
<1>2. ASSUME Typed, NoTwins, [RegistryNext]_registryVars PROVE NoTwins'
  <2>1. CASE rows' = rows
    BY <2>1, <1>2 DEF NoTwins, Tracked
  <2>2. CASE \E c \in Companies : \E s \in {"tracked", "archived"} : Written(c, s)
    BY <2>2, <1>2, WriteKeepsApart DEF Typed, Written
  <2> QED BY <1>2, <2>1, <2>2, Steps
<1> QED BY <1>1, <1>2, AlwaysTyped, PTL DEF RegistrySpec

-----------------------------------------------------------------------------
(* A check that passes suffices *)

\* What ChecksSuffice says of a call x that nothing has raced: the database
\* refuses its row because of o only with one of the two excuses.
Suffices(x) ==
  \A o \in Tracked :
    o # x.company /\ Clash(x.row, rows[o])
    => \/ rows[o].url.typed /\ x.op # "main"
       \/ x.op = "manual" /\ ~SameUrl(x.row, rows[o])

\* A URL that is not among those looked for is stored as typed if it is the same.
LEMMA SameUrlIsTyped ==
  ASSUME NEW u \in Url, NEW v \in Url \cup {NoUrl}, u = v, v # [u EXCEPT !.typed = FALSE]
  PROVE  v.typed
  BY DEF Url

LEMMA RowUrls == ASSUME RowsTyped, NEW o \in Tracked PROVE rows[o].url \in Url \cup {NoUrl}
  BY DEF RowsTyped, Tracked, CompanyRow

LEMMA MainSuffices ==
  ASSUME NEW d \in Sites, Dedupe(MainRow(d))
  PROVE  Suffices([op |-> "main", company |-> None, row |-> MainRow(d), raced |-> FALSE])
<1>1. MainRow(d).url = NoUrl
  BY DEF MainRow, NoCompany
<1> QED BY <1>1 DEF Suffices, Dedupe, Clash, SameUrl

LEMMA DirectSuffices ==
  ASSUME RowsTyped, NEW u \in Url, Dedupe(DirectRow(u)), None \notin Pages
  PROVE  Suffices([op |-> "direct", company |-> None, row |-> DirectRow(u), raced |-> FALSE])
<1>1. DirectRow(u).url = u /\ u # NoUrl
  BY DEF DirectRow, Url, NoUrl
<1>2. ASSUME NEW o \in Tracked, Clash(DirectRow(u), rows[o]) PROVE rows[o].url.typed
  <2>1. SameUrl(DirectRow(u), rows[o])
    BY <1>2 DEF Dedupe, Clash
  <2>2. u = rows[o].url
    BY <1>1, <2>1 DEF SameUrl
  <2>3. rows[o].url # [u EXCEPT !.typed = FALSE]
    BY <1>1 DEF Dedupe
  <2> QED BY <2>2, <2>3, RowUrls, SameUrlIsTyped
<1> QED BY <1>2 DEF Suffices

\* An override keeps the domain of its company, which no other tracked one has.
LEMMA ManualSuffices ==
  ASSUME RowsTyped, NoTwins, NEW c \in Tracked, NEW u \in Url,
         \A o \in Tracked \ {c} : rows[o].url # [u EXCEPT !.typed = FALSE]
  PROVE  Suffices([op |-> "manual", company |-> c,
                   row |-> [rows[c] EXCEPT !.url = u, !.verified = TRUE], raced |-> FALSE])
<1> DEFINE row == [rows[c] EXCEPT !.url = u, !.verified = TRUE]
<1>1. row.url = u /\ row.domain = rows[c].domain
  BY DEF RowsTyped, Tracked, CompanyRow
<1> HIDE DEF row
<1>2. ASSUME NEW o \in Tracked, o # c, Clash(row, rows[o]), SameUrl(row, rows[o])
      PROVE  rows[o].url.typed
  <2>1. u = rows[o].url
    BY <1>1, <1>2 DEF SameUrl
  <2>2. rows[o].url # [u EXCEPT !.typed = FALSE]
    BY <1>2
  <2> QED BY <2>1, <2>2, RowUrls, SameUrlIsTyped
<1>3. Suffices([op |-> "manual", company |-> c, row |-> row, raced |-> FALSE])
  BY <1>2 DEF Suffices
<1> QED BY <1>3 DEF row

\* A new call must suffice; the others keep their row, and rows stay.
LEMMA CheckSuffices ==
  ASSUME RequestsTyped, ChecksSuffice, NEW r \in Services, NEW op, NEW c, NEW row,
         Checks(r, op, c, row),
         Suffices([op |-> op, company |-> c, row |-> row, raced |-> FALSE])
  PROVE  ChecksSuffice'
<1> DEFINE new == [op |-> op, company |-> c, row |-> row, raced |-> FALSE]
<1>1. rows' = rows /\ Tracked' = Tracked
  BY DEF Checks, Tracked
<1>2. /\ service'[r] = new
      /\ \A s \in Services \ {r} : service'[s] = service[s]
  BY DEF Checks, RequestsTyped
<1>3. Suffices(new)
  OBVIOUS
<1> HIDE DEF new
<1> QED BY <1>1, <1>2, <1>3 DEF ChecksSuffice, Suffices

\* A write ends or races every call.
LEMMA WriteRaces ==
  ASSUME RequestsTyped, NEW c \in Companies, NEW s, Written(c, s)
  PROVE  ChecksSuffice'
<1>1. ASSUME NEW r \in Services, service'[r] # NoService PROVE service'[r].raced
  <2>1. PICK over : service' = [q \in Services |->
          IF q \in over \/ service[q] = NoService THEN NoService
          ELSE [service[q] EXCEPT !.raced = TRUE]]
    BY DEF Written, Writes
  <2>2. service'[r] = [service[r] EXCEPT !.raced = TRUE]
    BY <1>1, <2>1
  <2> QED BY <2>2 DEF RequestsTyped, RequestType
<1> QED BY <1>1 DEF ChecksSuffice

LEMMA StepSuffices ==
  ASSUME Typed, NoTwins, ChecksSuffice, [RegistryNext]_registryVars, None \notin Pages
  PROVE  ChecksSuffice'
<1>1. ASSUME NEW r \in Services, NEW d \in Sites, MainCheck(r, d) PROVE ChecksSuffice'
  BY <1>1, MainSuffices, CheckSuffices DEF MainCheck, Typed
<1>2. ASSUME NEW r \in Services, NEW u \in Url, DirectCheck(r, u) PROVE ChecksSuffice'
  BY <1>2, DirectSuffices, CheckSuffices DEF DirectCheck, Typed
<1>3. ASSUME NEW r \in Services, NEW c \in Companies, NEW u \in Url, ManualCheck(r, c, u)
      PROVE  ChecksSuffice'
  BY <1>3, ManualSuffices, CheckSuffices DEF ManualCheck, Typed
<1>4. ASSUME NEW c \in Companies,
             ScrapeStart(c) \/ ScrapePublishes(c) \/ AdminPublishes(c) \/ ArchiveList(c)
      PROVE  ChecksSuffice'
  BY <1>4 DEF ScrapeStart, ScrapePublishes, AdminPublishes, Publishes, ArchiveList,
              ChecksSuffice, Tracked
<1>5. ASSUME NEW c \in Companies, NEW s, Written(c, s) PROVE ChecksSuffice'
  BY <1>5, WriteRaces DEF Typed
<1>6. CASE UNCHANGED registryVars
  BY <1>6 DEF registryVars, ChecksSuffice, Tracked
<1> QED BY <1>1, <1>2, <1>3, <1>4, <1>5, <1>6, WriteSteps DEF RegistryNext, Given

\* A service whose check passed is refused by the database afterwards only if a
\* row was written in between, the twin's URL is stored as typed, or an override
\* takes another company's ATS identity by a second address of its board.  The
\* check and the constraint differ in nothing else, because the domain that an
\* override keeps is its company's own by NoTwins.
THEOREM ChecksAreEnough == RegistrySpec => []ChecksSuffice
<1>1. RegistryInit => ChecksSuffice
  BY DEF RegistryInit, ChecksSuffice
<1>2. Typed /\ NoTwins /\ ChecksSuffice /\ [RegistryNext]_registryVars => ChecksSuffice'
  BY PagesAssumption, StepSuffices
<1> QED BY <1>1, <1>2, AlwaysTyped, NoTwinsEver, PTL DEF RegistrySpec

-----------------------------------------------------------------------------
(* Archived companies show nothing *)

\* Stronger than ArchivedHidden: an archived company with nothing late shows no
\* job and is not being scraped, and a company being archived is not archived.
Hidden ==
  /\ \A c \in Shadowed \ late : c \notin shown \cup scraping
  /\ archiving \cap Shadowed = {}

LEMMA TrackingArchivesNothing ==
  ASSUME RowsTyped, NEW c \in Companies, Written(c, "tracked")
  PROVE  Shadowed' \subseteq Shadowed
<1>1. PICK row \in CompanyRow : row.state = "tracked"
                        /\ rows' = IF Accepts(c, row) THEN [rows EXCEPT ![c] = row] ELSE rows
  BY DEF Written, Writes
<1> QED BY <1>1 DEF Shadowed, RowsTyped

LEMMA StepHides ==
  ASSUME Typed, Hidden, [RegistryNext]_registryVars
  PROVE  Hidden'
<1>1. ASSUME NEW r \in Services,
             \/ \E d \in Sites : MainCheck(r, d)
             \/ \E u \in Url : DirectCheck(r, u)
             \/ \E c \in Companies, u \in Url : ManualCheck(r, c, u)
      PROVE  Hidden'
  BY <1>1, CheckSteps DEF Checked, Hidden, Shadowed
<1>2. ASSUME Shadowed' \subseteq Shadowed, Forgets \/ UNCHANGED late,
             scraping' \subseteq scraping, UNCHANGED <<shown, archiving>>
      PROVE  Hidden'
  BY <1>2 DEF Hidden, Forgets, Shadowed
<1>3. ASSUME NEW r \in Services, ManualSave(r) PROVE Hidden'
  <2>1. Shadowed' \subseteq Shadowed
    BY <1>3, WriteSteps, TrackingArchivesNothing DEF Typed
  <2> QED BY <1>2, <1>3, <2>1 DEF ManualSave
<1>4. ASSUME NEW c \in Companies,
             \/ \E r \in Services : Insert(r, c)
             \/ \E p \in Pages : Approve(c, p)
             \/ Unverify(c)
             \/ Unarchive(c)
             \/ ScrapeEnds(c)
      PROVE  Hidden'
  <2>1. Shadowed' \subseteq Shadowed
    BY <1>4, WriteSteps, TrackingArchivesNothing DEF Typed
  <2>2. /\ Forgets \/ UNCHANGED late
        /\ scraping' \subseteq scraping
        /\ UNCHANGED <<shown, archiving>>
    BY <1>4 DEF Insert, Approve, Unverify, Unarchive, ScrapeEnds
  <2> QED BY <1>2, <2>1, <2>2
<1>5. ASSUME NEW c \in Companies, ArchiveCommit(c) PROVE Hidden'
  <2>1. /\ scraping' = scraping
        /\ shown' = shown \ ({c} \ late)
        /\ archiving' = archiving \ {c}
        /\ late' = late \cup (scraping \cap {c})
    BY <1>5 DEF ArchiveCommit
  <2>2. Shadowed' \subseteq Shadowed \cup {c}
    BY <1>5 DEF ArchiveCommit, Writes, Shadowed, Typed, RowsTyped
  <2> QED BY <2>1, <2>2 DEF Hidden
<1>6. ASSUME NEW c \in Companies, ArchiveList(c) PROVE Hidden'
  BY <1>6 DEF ArchiveList, Hidden, Shadowed, Tracked
<1>7. ASSUME NEW c \in Companies, ScrapeStart(c) PROVE Hidden'
  BY <1>7 DEF ScrapeStart, Hidden, Shadowed, Tracked
<1>8. ASSUME NEW c \in Companies, ScrapePublishes(c) PROVE Hidden'
  BY <1>8 DEF ScrapePublishes, Publishes, Hidden, Shadowed
<1>9. ASSUME NEW c \in Companies, AdminPublishes(c) PROVE Hidden'
  BY <1>9 DEF AdminPublishes, Publishes, Hidden, Shadowed
<1>10. CASE UNCHANGED registryVars
  BY <1>10 DEF registryVars, Hidden, Shadowed
<1> QED BY <1>1, <1>3, <1>4, <1>5, <1>6, <1>7, <1>8, <1>9, <1>10 DEF RegistryNext, Given

\* An archived company shows no job unless a scrape that was under way when it
\* was archived goes on, or a scrape or a jobs admin published one since its jobs
\* were listed: no override, approval or save of an old instance can put a company
\* into the archive past archive_company, which unpublishes.
THEOREM ArchivedAreHidden == RegistrySpec => []ArchivedHidden
<1>1. RegistryInit => Hidden
  BY DEF RegistryInit, Hidden, Shadowed, NoCompany
<1>2. Hidden => ArchivedHidden
  BY DEF Hidden, ArchivedHidden
<1>3. Typed /\ Hidden /\ [RegistryNext]_registryVars => Hidden'
  BY StepHides
<1> QED BY <1>1, <1>2, <1>3, AlwaysTyped, PTL DEF RegistrySpec

=============================================================================
