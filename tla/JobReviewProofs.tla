---------------------------- MODULE JobReviewProofs ----------------------------
(***************************************************************************)
(* Theorems about JobReview, for any admins, users, titles and threshold,  *)
(* and about Duplicates, for any jobs, markers and writers.                *)
(*                                                                         *)
(* An action writes the row in one of three ways: the named columns of an  *)
(* instance, all of it, or nothing.  The first and the last leave the      *)
(* other columns alone, and the second changes a column it does not mean   *)
(* to only if the instance is outdated in it, which lost then says; so     *)
(* each invariant is inductive with the types.                             *)
(***************************************************************************)
EXTENDS JobReview, Duplicates, FiniteSetTheorems, TLAPS

-----------------------------------------------------------------------------
(* The row *)

LEMMA RowType ==
  ASSUME NEW r \in Row
  PROVE  /\ r = [pub |-> r.pub, review |-> r.review, title |-> r.title, saves |-> r.saves]
         /\ r.pub \in BOOLEAN /\ r.review \in BOOLEAN /\ r.title \in Titles \cup {"edited"}
         /\ r.saves \in Nat /\ r.saves <= Cardinality(Users)
         /\ r["pub"] = r.pub /\ r["review"] = r.review
         /\ r["title"] = r.title /\ r["saves"] = r.saves
<1>1. Cardinality(Users) \in Nat
  BY ReviewAssumption, FS_CardinalityType
<1> QED BY <1>1 DEF Row

LEMMA MadeRow ==
  ASSUME NEW p \in BOOLEAN, NEW v \in BOOLEAN, NEW t \in Titles \cup {"edited"},
         NEW n \in 0..Cardinality(Users)
  PROVE  [pub |-> p, review |-> v, title |-> t, saves |-> n] \in Row
  BY DEF Row

\* Writing some columns of a row.
LEMMA ColumnsSaved ==
  ASSUME NEW r \in Row, NEW new \in Row, NEW cols, NEW z,
         z = [c \in Columns |-> IF c \in cols THEN new[c] ELSE r[c]]
  PROVE  /\ z \in Row
         /\ z.pub = IF "pub" \in cols THEN new.pub ELSE r.pub
         /\ z.review = IF "review" \in cols THEN new.review ELSE r.review
         /\ z.title = IF "title" \in cols THEN new.title ELSE r.title
         /\ z.saves = IF "saves" \in cols THEN new.saves ELSE r.saves
<1>1. z = [pub |-> IF "pub" \in cols THEN new.pub ELSE r.pub,
           review |-> IF "review" \in cols THEN new.review ELSE r.review,
           title |-> IF "title" \in cols THEN new.title ELSE r.title,
           saves |-> IF "saves" \in cols THEN new.saves ELSE r.saves]
  BY RowType DEF Columns
<1>2. z \in Row
  BY <1>1 DEF Row
<1> QED BY <1>1, <1>2

\* The instances are rows, and a loss is of columns.
LEMMA Dropped ==
  ASSUME TypeOK, NEW h \in Holders, Drop(h), row' \in Row
  PROVE  held' \subseteq Holders /\ copy' \in [Holders -> Row]
  BY DEF TypeOK, Drop

\* What a save may do to the row.  Own are the columns the holder means to write.
Wrote(new, own) ==
  /\ row' \in Row /\ lost \subseteq lost' /\ lost' \subseteq Columns
  /\ held' \subseteq Holders /\ copy' \in [Holders -> Row]
  /\ "pub" \notin lost' => row'.pub = IF "pub" \in own THEN new.pub ELSE row.pub
  /\ "review" \notin lost' => row'.review = IF "review" \in own THEN new.review ELSE row.review
  /\ "title" \notin lost' => row'.title = IF "title" \in own THEN new.title ELSE row.title
  /\ "saves" \notin lost' => row'.saves = IF "saves" \in own THEN new.saves ELSE row.saves

LEMMA SaveColumnsWrites ==
  ASSUME TypeOK, NEW h \in Holders, NEW new \in Row, NEW cols, SaveColumns(h, new, cols)
  PROVE  Wrote(new, cols)
<1>1. row \in Row /\ row' = [c \in Columns |-> IF c \in cols THEN new[c] ELSE row[c]]
  BY DEF TypeOK, SaveColumns
<1>2. /\ row' \in Row
      /\ row'.pub = IF "pub" \in cols THEN new.pub ELSE row.pub
      /\ row'.review = IF "review" \in cols THEN new.review ELSE row.review
      /\ row'.title = IF "title" \in cols THEN new.title ELSE row.title
      /\ row'.saves = IF "saves" \in cols THEN new.saves ELSE row.saves
  BY <1>1, ColumnsSaved
<1>3. held' \subseteq Holders /\ copy' \in [Holders -> Row]
  BY <1>2, Dropped DEF SaveColumns
<1>4. lost' = lost /\ lost \subseteq Columns
  BY DEF SaveColumns, TypeOK
<1> QED BY <1>2, <1>3, <1>4 DEF Wrote

\* The holder may change what it means to: more than the columns it owns, which are those
\* it does not read.
LEMMA SaveAllWrites ==
  ASSUME TypeOK, NEW h \in Holders, NEW new \in Row, NEW own, NEW meant, own \subseteq meant,
         SaveAll(h, new, own),
         "pub" \in meant \/ new.pub = copy[h].pub,
         "review" \in meant \/ new.review = copy[h].review,
         "title" \in meant \/ new.title = copy[h].title,
         "saves" \in meant \/ new.saves = copy[h].saves
  PROVE  /\ Wrote(new, meant)
         /\ row' = new
         /\ "title" \notin lost' /\ "title" \notin own => copy[h].title = row.title
<1>1. row \in Row /\ copy[h] \in Row /\ lost \subseteq Columns
  BY DEF TypeOK
<1>2. row' = new /\ lost' = lost \cup (Outdated(h) \ own) /\ Outdated(h) \subseteq Columns
  BY DEF SaveAll, Lose, Outdated
<1>3. held' \subseteq Holders /\ copy' \in [Holders -> Row]
  BY <1>2, Dropped DEF SaveAll
<1>4. \A c \in Columns : c \notin lost' /\ c \notin own => copy[h][c] = row[c]
  BY <1>2 DEF Outdated
<1>5. /\ "pub" \notin lost' /\ "pub" \notin own => copy[h].pub = row.pub
      /\ "review" \notin lost' /\ "review" \notin own => copy[h].review = row.review
      /\ "title" \notin lost' /\ "title" \notin own => copy[h].title = row.title
      /\ "saves" \notin lost' /\ "saves" \notin own => copy[h].saves = row.saves
  BY <1>1, <1>4, RowType DEF Columns
<1> QED BY <1>1, <1>2, <1>3, <1>5 DEF Wrote

\* A holder that finds nothing to write has the column as it is.
LEMMA SaveNothingWrites ==
  ASSUME TypeOK, NEW h \in Holders, NEW cols, SaveNothing(h, cols)
  PROVE  /\ Wrote(copy[h], {})
         /\ "pub" \in cols /\ "pub" \notin lost' => copy[h].pub = row.pub
<1>1. row \in Row /\ copy[h] \in Row /\ lost \subseteq Columns
  BY DEF TypeOK
<1>2. row' = row /\ lost' = lost \cup (Outdated(h) \cap cols) /\ Outdated(h) \subseteq Columns
  BY DEF SaveNothing, Lose, Outdated
<1>3. held' \subseteq Holders /\ copy' \in [Holders -> Row]
  BY <1>1, <1>2, Dropped DEF SaveNothing
<1>4. "pub" \in cols /\ "pub" \notin lost' => copy[h]["pub"] = row["pub"]
  BY <1>2 DEF Outdated, Columns
<1> QED BY <1>1, <1>2, <1>3, <1>4, RowType DEF Wrote

-----------------------------------------------------------------------------
(* The actions *)

\* The payload's title, unless an admin has edited it.
LEMMA RetitledRow ==
  ASSUME NEW r \in Row, NEW title \in Titles
  PROVE  /\ Retitled(r, title) \in Row
         /\ Retitled(r, title).pub = r.pub /\ Retitled(r, title).review = r.review
         /\ Retitled(r, title).saves = r.saves
         /\ r.title = "edited" => Retitled(r, title).title = "edited"
  BY DEF Retitled, Row

\* What the steps of the scrape and the admins keep, the columns aside that get lost.
HolderStep ==
  /\ row' \in Row /\ lost \subseteq lost' /\ lost' \subseteq Columns
  /\ held' \subseteq Holders /\ copy' \in [Holders -> Row]
  /\ wanted' \in {"none", "public", "hidden"} /\ decided' \in BOOLEAN
  /\ UNCHANGED <<ats, report, saved>>
  /\ "saves" \notin lost' => row'.saves = row.saves
  /\ "review" \notin lost' => (row.review \/ decided => row'.review \/ decided')
  /\ "title" \notin lost' => (row.title = "edited" => row'.title = "edited")
  /\ "pub" \notin lost' =>
       \/ wanted' = "none"
       \/ wanted' = wanted /\ row'.pub = row.pub
       \/ wanted' = "public" /\ row'.pub
       \/ wanted' = "hidden" /\ ~row'.pub

LEMMA ScrapeSteps ==
  ASSUME TypeOK,
         \/ \E title \in Titles, content \in BOOLEAN : Sight(title, content)
         \/ SightUnchanged
  PROVE  HolderStep
<1>0. /\ Scraper \in Holders /\ copy[Scraper] \in Row /\ row \in Row
      /\ wanted \in {"none", "public", "hidden"} /\ decided \in BOOLEAN
  BY DEF TypeOK, Holders
<1>1. ASSUME NEW title \in Titles, NEW content \in BOOLEAN, Sight(title, content)
      PROVE  HolderStep
  <2> DEFINE job == Retitled(copy[Scraper], title)
             queued == ~ats /\ (content \/ job.title # copy[Scraper].title)
             new == [job EXCEPT !.review = @ \/ queued]
             own == {c \in {"review"} : queued}
             meant == own \cup {"title"}
  <2>1. SaveAll(Scraper, new, own) /\ UNCHANGED <<ats, report, saved, history>>
    BY <1>1 DEF Sight
  <2>2. /\ job \in Row /\ job.pub = copy[Scraper].pub /\ job.review = copy[Scraper].review
        /\ job.saves = copy[Scraper].saves
        /\ copy[Scraper].title = "edited" => job.title = "edited"
    BY <1>0, RetitledRow
  <2>3. queued \in BOOLEAN
    OBVIOUS
  <2> HIDE DEF job, queued
  <2>4. /\ new \in Row /\ new.pub = job.pub /\ new.saves = job.saves /\ new.title = job.title
        /\ new.review = (job.review \/ queued)
    BY <2>2, <2>3 DEF Row
  <2>5. "review" \in own <=> queued
    OBVIOUS
  <2>6. queued => new.review
    BY <2>4
  <2>7. ~queued => new.review = job.review
    BY <2>2, <2>4 DEF Row
  <2>8. "saves" \notin meant /\ "pub" \notin meant /\ "title" \notin own
        /\ "title" \in meant /\ ("review" \in meant <=> queued) /\ own \subseteq meant
    OBVIOUS
  <2> HIDE DEF new, own, meant
  <2>9. /\ Wrote(new, meant)
        /\ row' = new
        /\ "title" \notin lost' /\ "title" \notin own => copy[Scraper].title = row.title
    BY <1>0, <2>1, <2>2, <2>4, <2>7, <2>8, SaveAllWrites
  <2>10. "review" \notin lost' => (row.review \/ decided => row'.review \/ decided')
    BY <2>1, <2>6, <2>8, <2>9 DEF Wrote, history
  <2>11. "title" \notin lost' => (row.title = "edited" => row'.title = "edited")
    BY <2>2, <2>4, <2>8, <2>9
  <2> QED BY <1>0, <2>1, <2>8, <2>9, <2>10, <2>11 DEF Wrote, HolderStep, history
<1>2. CASE SightUnchanged
  BY <1>0, <1>2, SaveNothingWrites DEF SightUnchanged, Wrote, HolderStep, history
<1> QED BY <1>1, <1>2

LEMMA AdminSteps ==
  ASSUME TypeOK, NEW a \in Admins, Admin(a)
  PROVE  HolderStep
<1>0. /\ a \in Holders /\ copy[a] \in Row /\ row \in Row
      /\ wanted \in {"none", "public", "hidden"} /\ decided \in BOOLEAN
  BY DEF TypeOK, Holders
<1>1. /\ \A b \in BOOLEAN : [copy[a] EXCEPT !.pub = b] \in Row
      /\ [copy[a] EXCEPT !.title = "edited", !.review = FALSE] \in Row
      /\ [copy[a] EXCEPT !.review = FALSE, !.pub = TRUE] \in Row
      /\ [copy[a] EXCEPT !.review = FALSE] \in Row
  BY <1>0 DEF Row
<1> USE DEF Wrote, HolderStep
<1>2. CASE Load(a)
  BY <1>0, <1>2 DEF Load, TypeOK, history
<1>3. ASSUME NEW b \in BOOLEAN, NEW w \in {"public", "hidden"}, b = (w = "public"),
             \/ SaveNothing(a, {"pub"}) /\ copy[a].pub = b
             \/ SaveColumns(a, [copy[a] EXCEPT !.pub = b], {"pub"}),
             wanted' = w, UNCHANGED <<ats, report, saved, decided>>
      PROVE  HolderStep
  <2>1. CASE SaveNothing(a, {"pub"}) /\ copy[a].pub = b
    <3>1. Wrote(copy[a], {}) /\ ("pub" \notin lost' => row'.pub = row.pub /\ row.pub = b)
      BY <1>0, <2>1, SaveNothingWrites
    <3>2. "pub" \notin lost' => (row'.pub <=> w = "public")
      BY <1>3, <3>1
    <3> QED BY <1>0, <1>3, <3>1, <3>2
  <2>2. CASE SaveColumns(a, [copy[a] EXCEPT !.pub = b], {"pub"})
    <3>1. [copy[a] EXCEPT !.pub = b].pub = b
      BY <1>0 DEF Row
    <3>2. Wrote([copy[a] EXCEPT !.pub = b], {"pub"})
      BY <1>0, <1>1, <2>2, SaveColumnsWrites
    <3> QED BY <1>0, <1>3, <3>1, <3>2
  <2> QED BY <1>3, <2>1, <2>2
<1>4. CASE Publish(a)
  BY <1>0, <1>3, <1>4 DEF Publish, Row
<1>5. CASE Unpublish(a)
  BY <1>0, <1>3, <1>5 DEF Unpublish, Row
<1>6. CASE MarkDuplicate(a)
  BY <1>3, <1>6 DEF MarkDuplicate
<1>7. CASE Edit(a)
  <2> DEFINE new == [copy[a] EXCEPT !.title = "edited", !.review = FALSE]
             own == {"title", "review"}
  <2>1. new \in Row /\ new.title = "edited" /\ new.pub = copy[a].pub /\ new.saves = copy[a].saves
    BY <1>0, <1>1 DEF Row
  <2>2. SaveAll(a, new, own) /\ decided' = TRUE /\ UNCHANGED <<ats, report, saved, wanted>>
    BY <1>7 DEF Edit
  <2> HIDE DEF new
  <2>3. Wrote(new, own)
    BY <1>0, <2>1, <2>2, SaveAllWrites
  <2> QED BY <1>0, <2>1, <2>2, <2>3
<1>8. CASE Approve(a)
  <2> DEFINE new == [copy[a] EXCEPT !.review = FALSE, !.pub = TRUE]
             own == {"review", "pub"}
  <2>1. new \in Row /\ new.title = copy[a].title /\ new.pub /\ new.saves = copy[a].saves
    BY <1>0, <1>1 DEF Row
  <2>2. /\ SaveAll(a, new, own) /\ decided' = TRUE /\ wanted' = "public"
        /\ UNCHANGED <<ats, report, saved>>
    BY <1>8 DEF Approve
  <2> HIDE DEF new
  <2>3. Wrote(new, own)
    BY <1>0, <2>1, <2>2, SaveAllWrites
  <2> QED BY <1>0, <2>1, <2>2, <2>3
<1>9. CASE Reject(a)
  <2> DEFINE new == [copy[a] EXCEPT !.review = FALSE]
             own == {"review"}
  <2>1. /\ new \in Row /\ new.title = copy[a].title /\ new.pub = copy[a].pub
        /\ new.saves = copy[a].saves
    BY <1>0, <1>1 DEF Row
  <2>2. /\ SaveAll(a, new, own) /\ decided' = TRUE /\ UNCHANGED <<ats, report, saved>>
        /\ wanted' \in {wanted, "none"}
    BY <1>9 DEF Reject
  <2> HIDE DEF new
  <2>3. Wrote(new, own)
    BY <1>0, <2>1, <2>2, SaveAllWrites
  <2> QED BY <1>0, <2>1, <2>2, <2>3
<1>10. CASE Leave(a)
  BY <1>0, <1>10, SaveNothingWrites DEF Leave, history
<1> QED
  BY <1>2, <1>4, <1>5, <1>6, <1>7, <1>8, <1>9, <1>10 DEF Admin

\* A row with another counter, or with the review flag raised.
LEMMA CounterWritten ==
  ASSUME NEW r \in Row, NEW n \in 0..Cardinality(Users)
  PROVE  LET z == [r EXCEPT !.saves = n]
         IN  /\ z \in Row /\ z.saves = n
             /\ z.pub = r.pub /\ z.review = r.review /\ z.title = r.title
  BY DEF Row

\* What the steps of a user keep, the bookmarks and the reports aside.
UserStep ==
  /\ row' \in Row /\ lost' = lost
  /\ row'.pub = row.pub /\ row'.title = row.title
  /\ row.review => row'.review
  /\ UNCHANGED <<ats, held, copy, lost, wanted>>

Reporting == {"none", "inserted", "open", "resolved"}

LEMMA BookmarkSteps ==
  ASSUME TypeOK, Counted, NEW u \in Users, Save(u) \/ Unsave(u)
  PROVE  /\ UserStep /\ UNCHANGED <<report, decided>>
         /\ saved' \subseteq Users /\ Counted'
<1>0. /\ row \in Row /\ saved \subseteq Users
      /\ IsFiniteSet(Users) /\ IsFiniteSet(saved)
      /\ Cardinality(Users) \in Nat /\ Cardinality(saved) \in Nat
      /\ Cardinality(saved) <= Cardinality(Users)
  BY ReviewAssumption, FS_Subset, FS_CardinalityType DEF TypeOK
<1>1. row.saves \in 0..Cardinality(Users)
  BY <1>0 DEF Row
<1>2. CASE Save(u)
  <2> DEFINE n == IF row.saves < Cardinality(Users) THEN row.saves + 1 ELSE row.saves
  <2>1. n \in 0..Cardinality(Users)
    BY <1>0, <1>1
  <2>2. row' = [row EXCEPT !.saves = n] /\ saved' = saved \cup {u} /\ u \notin saved
    BY <1>2 DEF Save
  <2> HIDE DEF n
  <2>3. /\ row' \in Row /\ row'.saves = n
        /\ row'.pub = row.pub /\ row'.review = row.review /\ row'.title = row.title
    BY <1>0, <2>1, <2>2, CounterWritten
  <2>4. Cardinality(saved') = Cardinality(saved) + 1
    BY <1>0, <2>2, FS_AddElement
  <2>5. Cardinality(saved') <= Cardinality(Users)
    BY <1>0, <2>2, FS_Subset
  <2>6. row.saves = Cardinality(saved) => n = Cardinality(saved')
    BY <1>0, <2>4, <2>5 DEF n
  <2> QED BY <1>0, <1>2, <2>2, <2>3, <2>6 DEF Save, UserStep, Counted, history
<1>3. CASE Unsave(u)
  <2> DEFINE n == IF row.saves > 0 THEN row.saves - 1 ELSE row.saves
  <2>1. n \in 0..Cardinality(Users)
    BY <1>0, <1>1
  <2>2. row' = [row EXCEPT !.saves = n] /\ saved' = saved \ {u} /\ u \in saved
    BY <1>3 DEF Unsave
  <2> HIDE DEF n
  <2>3. /\ row' \in Row /\ row'.saves = n
        /\ row'.pub = row.pub /\ row'.review = row.review /\ row'.title = row.title
    BY <1>0, <2>1, <2>2, CounterWritten
  <2>4. Cardinality(saved') = Cardinality(saved) - 1
    BY <1>0, <2>2, FS_RemoveElement
  <2>5. Cardinality(saved) > 0
    BY <1>0, <2>2, FS_EmptySet
  <2>6. row.saves = Cardinality(saved) => n = Cardinality(saved')
    BY <1>0, <2>4, <2>5 DEF n
  <2> QED BY <1>0, <1>3, <2>2, <2>3, <2>6 DEF Unsave, UserStep, Counted, history
<1> QED BY <1>2, <1>3

LEMMA ReportSteps ==
  ASSUME TypeOK, ReportsReachReview, NEW u \in Users, Report(u) \/ CountReport(u) \/ Resolve(u)
  PROVE  /\ UserStep /\ row'.saves = row.saves /\ saved' = saved
         /\ report' \in [Users -> Reporting] /\ decided' \in BOOLEAN
         /\ ReportsReachReview'
<1> DEFINE opens == {v \in Users : report[v] = "open"}
<1>0. /\ row \in Row /\ report \in [Users -> Reporting] /\ decided \in BOOLEAN
      /\ IsFiniteSet(Users) /\ Threshold \in Nat
      /\ Cardinality(opens) >= Threshold /\ "review" \notin lost => row.review \/ decided
  BY ReviewAssumption DEF TypeOK, ReportsReachReview, Reporting
<1>1. /\ opens \subseteq Users /\ IsFiniteSet(opens) /\ Cardinality(opens) \in Nat
  BY <1>0, FS_Subset, FS_CardinalityType
<1>2. ReportsReachReview' <=>
        (Cardinality({v \in Users : report'[v] = "open"}) >= Threshold /\ "review" \notin lost' =>
           row'.review \/ decided')
  BY DEF ReportsReachReview
<1>3. CASE Report(u)
  <2>1. report' = [report EXCEPT ![u] = "inserted"] /\ report[u] # "open"
        /\ UNCHANGED <<ats, row, saved, instances, wanted, decided>>
    BY <1>3 DEF Report
  <2>2. {v \in Users : report'[v] = "open"} = opens
    BY <1>0, <2>1
  <2> QED BY <1>0, <1>2, <2>1, <2>2 DEF UserStep, instances, Reporting
<1>4. CASE CountReport(u)
  <2> DEFINE all == Cardinality(Open(u))
             flag == row.review \/ all >= Threshold
  <2>1. /\ report' = [report EXCEPT ![u] = "open"]
        /\ row' = [row EXCEPT !.review = flag]
        /\ decided' = (decided /\ all < Threshold)
        /\ UNCHANGED <<ats, saved, held, copy, lost, wanted>>
    BY <1>4 DEF CountReport
  <2>2. {v \in Users : report'[v] = "open"} = Open(u)
    BY <1>0, <2>1 DEF Open
  <2>3. /\ row' \in Row /\ (row'.review <=> flag)
        /\ row'.pub = row.pub /\ row'.title = row.title /\ row'.saves = row.saves
    BY <1>0, <2>1 DEF Row
  <2> QED BY <1>0, <1>2, <2>1, <2>2, <2>3 DEF UserStep, Reporting
<1>5. CASE Resolve(u)
  <2>1. report' = [report EXCEPT ![u] = "resolved"]
        /\ UNCHANGED <<ats, row, saved, instances, history>>
    BY <1>5 DEF Resolve
  <2> DEFINE left == {v \in Users : report'[v] = "open"}
  <2>2. left \subseteq opens
    BY <1>0, <2>1
  <2>3. Cardinality(left) <= Cardinality(opens) /\ Cardinality(left) \in Nat
    BY <1>1, <2>2, FS_Subset, FS_CardinalityType
  <2> QED BY <1>0, <1>1, <1>2, <2>1, <2>3 DEF UserStep, instances, history, Reporting
<1> QED BY <1>3, <1>4, <1>5

-----------------------------------------------------------------------------
(* The invariants *)

ReviewInv == TypeOK /\ Counted /\ ReportsReachReview /\ PublicationFollowsAdmins

LEMMA ReviewInitial == Init => ReviewInv
<1> SUFFICES ASSUME Init PROVE ReviewInv
  OBVIOUS
<1>1. IsFiniteSet(Users) /\ Cardinality(Users) \in Nat /\ Cardinality({}) = 0
      /\ Threshold \in Nat \ {0}
  BY ReviewAssumption, FS_CardinalityType, FS_EmptySet
<1>2. PICK title \in Titles, sure \in BOOLEAN : row = Created(title, ats /\ sure)
  BY DEF Init
<1>3. row \in Row /\ row.saves = 0
  BY <1>1, <1>2 DEF Created, Row
<1>4. TypeOK
  BY <1>3 DEF Init, TypeOK
<1>5. Counted /\ PublicationFollowsAdmins
  BY <1>1, <1>3 DEF Init, Counted, PublicationFollowsAdmins
<1>6. ReportsReachReview
  <2>1. {u \in Users : report[u] = "open"} = {}
    BY DEF Init
  <2> QED BY <1>1, <2>1 DEF ReportsReachReview
<1> QED BY <1>4, <1>5, <1>6 DEF ReviewInv

LEMMA ReviewNext == ReviewInv /\ [Next]_vars => ReviewInv'
<1> SUFFICES ASSUME ReviewInv, [Next]_vars PROVE ReviewInv'
  OBVIOUS
<1> USE DEF ReviewInv
<1>1. CASE HolderStep
  <2> USE <1>1
  <2>1. TypeOK'
    BY DEF HolderStep, TypeOK
  <2>2. Counted'
    BY DEF HolderStep, Counted
  <2>3. ReportsReachReview'
    BY DEF HolderStep, ReportsReachReview
  <2>4. PublicationFollowsAdmins'
    BY DEF HolderStep, PublicationFollowsAdmins, TypeOK
  <2> QED BY <2>1, <2>2, <2>3, <2>4
<1>2. ASSUME NEW u \in Users, Save(u) \/ Unsave(u) PROVE ReviewInv'
  <2>1. /\ UserStep /\ UNCHANGED <<report, decided>>
        /\ saved' \subseteq Users /\ Counted'
    BY <1>2, BookmarkSteps
  <2>2. TypeOK'
    BY <2>1 DEF UserStep, TypeOK
  <2>3. ReportsReachReview'
    BY <2>1 DEF UserStep, ReportsReachReview
  <2>4. PublicationFollowsAdmins'
    BY <2>1 DEF UserStep, PublicationFollowsAdmins
  <2> QED BY <2>1, <2>2, <2>3, <2>4
<1>3. ASSUME NEW u \in Users, Report(u) \/ CountReport(u) \/ Resolve(u) PROVE ReviewInv'
  <2>1. /\ UserStep /\ row'.saves = row.saves /\ saved' = saved
        /\ report' \in [Users -> Reporting] /\ decided' \in BOOLEAN
        /\ ReportsReachReview'
    BY <1>3, ReportSteps
  <2>2. TypeOK'
    BY <2>1 DEF UserStep, TypeOK, Reporting
  <2>3. Counted'
    BY <2>1 DEF UserStep, Counted
  <2>4. PublicationFollowsAdmins'
    BY <2>1 DEF UserStep, PublicationFollowsAdmins
  <2> QED BY <2>1, <2>2, <2>3, <2>4
<1>4. CASE Load(Scraper)
  BY <1>4
  DEF Load, TypeOK, Holders, Counted, ReportsReachReview, PublicationFollowsAdmins, history
<1>5. CASE UNCHANGED vars
  BY <1>5
  DEF vars, instances, history, TypeOK, Counted, ReportsReachReview, PublicationFollowsAdmins
<1> QED
  BY <1>1, <1>2, <1>3, <1>4, <1>5, ScrapeSteps, AdminSteps DEF Next, User

LEMMA ReviewInvariant == Spec => []ReviewInv
  BY ReviewInitial, ReviewNext, PTL DEF Spec

\* Every reachable state is well typed.
THEOREM ReviewTypeCorrect == Spec => []TypeOK
<1>1. ReviewInv => TypeOK
  BY DEF ReviewInv
<1> QED BY <1>1, ReviewInvariant, PTL

\* save_count is the number of bookmarks, unless an outdated instance has overwritten it.
THEOREM BookmarksAreCounted == Spec => []Counted
<1>1. ReviewInv => Counted
  BY DEF ReviewInv
<1> QED BY <1>1, ReviewInvariant, PTL

\* Threshold open reports have the job in the review queue until an admin decides.
THEOREM ReportsAreReviewed == Spec => []ReportsReachReview
<1>1. ReviewInv => ReportsReachReview
  BY DEF ReviewInv
<1> QED BY <1>1, ReviewInvariant, PTL

\* Both of these: bookmarks are counted, and reports reach the review queue.
THEOREM UsersAreHeard == Spec => []UsersHeard
<1>1. ReviewInv => UsersHeard
  BY DEF ReviewInv, UsersHeard
<1> QED BY <1>1, ReviewInvariant, PTL

\* What an admin has published or withdrawn stays so, unless a review rejects what is
\* published or an outdated instance undoes it.
THEOREM AdminsDecidePublication == Spec => []PublicationFollowsAdmins
<1>1. ReviewInv => PublicationFollowsAdmins
  BY DEF ReviewInv
<1> QED BY <1>1, ReviewInvariant, PTL

\* An edited field stays as the admin left it, unless an outdated instance undoes it.
THEOREM EditsAreKept == Spec => EditsKept
<1>1. TypeOK /\ Counted /\ ReportsReachReview /\ [Next]_vars =>
        [row.title = "edited" /\ "title" \notin lost' => row'.title = "edited"]_vars
  <2> SUFFICES ASSUME TypeOK, Counted, ReportsReachReview, Next,
                      row.title = "edited", "title" \notin lost'
               PROVE  row'.title = "edited"
    BY DEF vars
  <2>1. CASE HolderStep
    BY <2>1 DEF HolderStep
  <2>2. CASE UserStep
    BY <2>2 DEF UserStep
  <2>3. CASE Load(Scraper)
    BY <2>3 DEF Load
  <2> QED
    BY <2>1, <2>2, <2>3, ScrapeSteps, AdminSteps, BookmarkSteps, ReportSteps DEF Next, User
<1>2. ReviewInv => TypeOK /\ Counted /\ ReportsReachReview
  BY DEF ReviewInv
<1> QED BY <1>1, <1>2, ReviewInvariant, PTL DEF Spec, EditsKept
-----------------------------------------------------------------------------
(* Duplicates.  What a call has read of the links is a chain from the        *)
(* canonical job to the one it looks at; while none of them changes, it has  *)
(* not met the job to be marked, so that the new link closes no set of jobs. *)

\* What the call of m knows while no link has changed behind it.
Chain(m) ==
  /\ walk[m].job \notin Walked(m)
  /\ walk[m].canonical \in Walked(m)
  /\ \A k \in walk[m].seen : duplicateOf[k] \in Walked(m)
  /\ duplicateOf[walk[m].current] = walk[m].next

Chains == \A m \in Markers : Walking(m) /\ m \notin outrun => Chain(m)

DuplicatesInv == DuplicatesTypeOK /\ Chains /\ CyclesNeedRaces

\* A call that walks, field by field.
LEMMA WalkType ==
  ASSUME DuplicatesTypeOK, NEW m \in Markers, Walking(m)
  PROVE  /\ walk[m] \in Walk
         /\ walk[m].job \in Jobs /\ walk[m].canonical \in Jobs /\ walk[m].current \in Jobs
         /\ walk[m].next \in Jobs \cup {NoJob} /\ walk[m].seen \subseteq Jobs
  BY DuplicatesAssumption DEF DuplicatesTypeOK, Walking, Walk, Link

\* A link at the end of a chain that avoids its job makes no cycle.
LEMMA ChainsMakeNoCycle ==
  ASSUME DuplicatesTypeOK, Acyclic, NEW m \in Markers, Walking(m), Chain(m),
         walk[m].next = NoJob,
         duplicateOf' = [duplicateOf EXCEPT ![walk[m].job] = walk[m].canonical]
  PROVE  Acyclic'
<1> DEFINE j == walk[m].job
           c == walk[m].canonical
<1>1. /\ j \in Jobs /\ c \in Jobs /\ walk[m].current \in Jobs /\ walk[m].seen \subseteq Jobs
      /\ duplicateOf \in [Jobs -> Link]
  BY WalkType DEF DuplicatesTypeOK
<1>2. SUFFICES ASSUME NEW S \in SUBSET Jobs, S # {}
               PROVE  \E k \in S : duplicateOf'[k] \notin S
  BY DEF Acyclic
<1>3. CASE j \notin S \/ c \notin S
  <2>1. CASE j \notin S
    <3>1. PICK k \in S : duplicateOf[k] \notin S
      BY <1>2 DEF Acyclic
    <3> QED BY <1>1, <2>1, <3>1
  <2>2. CASE j \in S /\ c \notin S
    BY <1>1, <2>2
  <2> QED BY <1>3, <2>1, <2>2
<1>4. CASE j \in S /\ c \in S
  <2> DEFINE T == Walked(m) \cap S
  <2>1. T \in SUBSET Jobs /\ T # {}
    BY <1>4 DEF Chain
  <2>2. PICK k \in T : duplicateOf[k] \notin T
    BY <2>1 DEF Acyclic
  <2>3. k # j /\ duplicateOf'[k] = duplicateOf[k]
    BY <1>1, <2>1, <2>2 DEF Chain
  <2>4. duplicateOf[k] \notin S
    <3>1. CASE k \in walk[m].seen
      BY <2>2, <3>1 DEF Chain
    <3>2. CASE k = walk[m].current
      BY <3>2, DuplicatesAssumption DEF Chain
    <3> QED BY <2>2, <3>1, <3>2 DEF Walked
  <2> QED BY <2>2, <2>3, <2>4
<1> QED BY <1>3, <1>4

LEMMA DuplicatesInitial == DuplicatesInit => DuplicatesInv
<1> SUFFICES ASSUME DuplicatesInit PROVE DuplicatesInv
  OBVIOUS
<1>1. DuplicatesTypeOK
  BY DuplicatesAssumption
  DEF DuplicatesInit, DuplicatesTypeOK, Link, Walk, NoWalk, NoInstance, Walking
<1>2. \A m \in Markers : ~Walking(m)
  BY DEF DuplicatesInit, Walking, NoWalk
<1>3. Acyclic
  BY DuplicatesAssumption DEF DuplicatesInit, Acyclic
<1> QED BY <1>1, <1>2, <1>3 DEF DuplicatesInv, Chains, CyclesNeedRaces

\* A call that has only started has read one link.
LEMMA StartChain ==
  ASSUME DuplicatesInv, NEW m \in Markers, NEW j \in Jobs, NEW c \in Jobs, StartWalk(m, j, c)
  PROVE  DuplicatesInv'
<1> DEFINE new == [job |-> j, canonical |-> c, current |-> c,
                   next |-> duplicateOf[c], seen |-> {}]
<1>1. /\ walk' = [walk EXCEPT ![m] = new] /\ j # c
      /\ UNCHANGED <<duplicateOf, instance, outrun, crossed>>
      /\ walk \in [Markers -> Walk] /\ duplicateOf \in [Jobs -> Link]
  BY DEF StartWalk, DuplicatesInv, DuplicatesTypeOK
<1>2. new \in Walk /\ new.canonical \in Jobs /\ new.current \in Jobs
  BY <1>1 DEF Walk, Link
<1>3. DuplicatesTypeOK'
  BY <1>1, <1>2 DEF DuplicatesInv, DuplicatesTypeOK, Walking
<1>4. Chains'
  <2> SUFFICES ASSUME NEW o \in Markers, Walking(o)', o \notin outrun PROVE Chain(o)'
    BY <1>1 DEF Chains
  <2>1. CASE o = m
    BY <1>1, <2>1 DEF Chain, Walked
  <2>2. CASE o # m
    BY <1>1, <2>2 DEF Chain, Walked, DuplicatesInv, Chains, Walking
  <2> QED BY <2>1, <2>2
<1> QED BY <1>1, <1>3, <1>4 DEF DuplicatesInv, CyclesNeedRaces, Acyclic

\* A round of the loop appends the row it has loaded.
LEMMA FollowChain ==
  ASSUME DuplicatesInv, NEW m \in Markers, Follow(m)
  PROVE  DuplicatesInv'
<1> DEFINE w == walk[m]
           new == [job |-> w.job, canonical |-> w.canonical, current |-> w.next,
                   next |-> duplicateOf[w.next], seen |-> w.seen \cup {w.current}]
<1>1. /\ Walking(m) /\ w.next # NoJob /\ ~Closes(m)
      /\ walk' = [walk EXCEPT ![m] = new]
      /\ UNCHANGED <<duplicateOf, instance, outrun, crossed>>
      /\ walk \in [Markers -> Walk] /\ duplicateOf \in [Jobs -> Link]
  BY DEF Follow, Walked, DuplicatesInv, DuplicatesTypeOK
<1>2. /\ w \in Walk /\ w.job \in Jobs /\ w.canonical \in Jobs /\ w.current \in Jobs
      /\ w.next \in Jobs /\ w.seen \subseteq Jobs
  BY <1>1, WalkType DEF DuplicatesInv
<1>3. new \in Walk
  BY <1>1, <1>2 DEF Walk, Link
<1>4. DuplicatesTypeOK'
  BY <1>1, <1>2, <1>3 DEF DuplicatesInv, DuplicatesTypeOK, Walking
<1>5. Chains'
  <2> SUFFICES ASSUME NEW o \in Markers, Walking(o)', o \notin outrun PROVE Chain(o)'
    BY <1>1 DEF Chains
  <2>1. CASE o = m
    <3>1. Chain(m)
      BY <1>1, <2>1 DEF DuplicatesInv, Chains
    <3>2. walk'[m] = new
      BY <1>1
    <3>3. w.job # w.next
      BY <1>1 DEF Closes
    <3> QED BY <1>1, <2>1, <3>1, <3>2, <3>3 DEF Chain, Walked
  <2>2. CASE o # m
    BY <1>1, <2>2 DEF Chain, Walked, DuplicatesInv, Chains, Walking
  <2> QED BY <2>1, <2>2
<1> QED BY <1>1, <1>4, <1>5 DEF DuplicatesInv, CyclesNeedRaces, Acyclic

LEMMA RefuseChain ==
  ASSUME DuplicatesInv, NEW m \in Markers, Refuse(m)
  PROVE  DuplicatesInv'
<1>1. /\ walk' = [walk EXCEPT ![m] = NoWalk] /\ outrun' = outrun \ {m}
      /\ UNCHANGED <<duplicateOf, instance, crossed>> /\ walk \in [Markers -> Walk]
  BY DEF Refuse, DuplicatesInv, DuplicatesTypeOK
<1>2. DuplicatesTypeOK'
  BY <1>1 DEF DuplicatesInv, DuplicatesTypeOK, NoWalk, Walk, Link, Walking
<1>3. Chains'
  <2> SUFFICES ASSUME NEW o \in Markers, Walking(o)', o \notin outrun' PROVE Chain(o)'
    BY DEF Chains
  <2>1. o # m
    BY <1>1 DEF Walking, NoWalk
  <2> QED BY <1>1, <2>1 DEF Chain, Walked, DuplicatesInv, Chains, Walking
<1> QED BY <1>1, <1>2, <1>3 DEF DuplicatesInv, CyclesNeedRaces, Acyclic

\* A link that is written leaves the chains of the calls that are not outrun.
LEMMA LinkLeavesChains ==
  ASSUME DuplicatesInv, NEW j \in Jobs, NEW c, SetLink(j, c), Chains,
         NEW o \in Markers, Walking(o), walk'[o] = walk[o], o \notin outrun'
  PROVE  Chain(o)'
<1>1. /\ duplicateOf' = [duplicateOf EXCEPT ![j] = c]
      /\ o \notin outrun /\ (j \in Walked(o) => duplicateOf[j] = c)
      /\ duplicateOf \in [Jobs -> Link]
  BY DEF SetLink, Walking, DuplicatesInv, DuplicatesTypeOK
<1>2. \A k \in Walked(o) : duplicateOf'[k] = duplicateOf[k]
  <2>1. Walked(o) \subseteq Jobs
    BY WalkType DEF Walked, DuplicatesInv
  <2> QED BY <1>1, <2>1
<1>3. Chain(o)
  BY <1>1 DEF Chains
<1> QED BY <1>2, <1>3 DEF Chain, Walked

LEMMA SaveLinkChain ==
  ASSUME DuplicatesInv, NEW m \in Markers, SaveLink(m)
  PROVE  DuplicatesInv'
<1> DEFINE j == walk[m].job
           c == walk[m].canonical
<1>1. /\ Walking(m) /\ walk[m].next = NoJob
      /\ walk' = [walk EXCEPT ![m] = NoWalk]
      /\ duplicateOf' = [duplicateOf EXCEPT ![j] = c] /\ outrun' \subseteq Markers
      /\ crossed' = (crossed \/ m \in outrun) /\ instance' = instance
      /\ walk \in [Markers -> Walk] /\ duplicateOf \in [Jobs -> Link] /\ crossed \in BOOLEAN
  BY DEF SaveLink, SetLink, DuplicatesInv, DuplicatesTypeOK
<1>2. j \in Jobs /\ c \in Jobs
  BY <1>1, WalkType DEF DuplicatesInv
<1>3. DuplicatesTypeOK'
  BY <1>1, <1>2 DEF DuplicatesInv, DuplicatesTypeOK, NoWalk, Walk, Link, Walking
<1>4. Chains'
  <2> SUFFICES ASSUME NEW o \in Markers, Walking(o)', o \notin outrun' PROVE Chain(o)'
    BY DEF Chains
  <2>1. o # m /\ walk'[o] = walk[o]
    BY <1>1 DEF Walking, NoWalk
  <2> QED BY <1>2, <2>1, LinkLeavesChains DEF SaveLink, Walking, DuplicatesInv
<1>5. CyclesNeedRaces'
  <2> SUFFICES ASSUME ~crossed' PROVE Acyclic'
    BY DEF CyclesNeedRaces
  <2>1. Acyclic /\ Chain(m)
    BY <1>1 DEF DuplicatesInv, CyclesNeedRaces, Chains
  <2> QED BY <1>1, <2>1, ChainsMakeNoCycle DEF DuplicatesInv
<1> QED BY <1>3, <1>4, <1>5 DEF DuplicatesInv

LEMMA LoadWholeChain ==
  ASSUME DuplicatesInv, NEW w \in Writers, NEW j \in Jobs, LoadWhole(w, j)
  PROVE  DuplicatesInv'
  BY DEF LoadWhole, DuplicatesInv, DuplicatesTypeOK, Chains, Chain, Walked, Walking, Link,
         CyclesNeedRaces, Acyclic

LEMMA SaveWholeChain ==
  ASSUME DuplicatesInv, NEW w \in Writers, SaveWhole(w)
  PROVE  DuplicatesInv'
<1> DEFINE j == instance[w].job
           c == instance[w].link
<1>1. /\ instance' = [instance EXCEPT ![w] = NoInstance] /\ walk' = walk
      /\ duplicateOf' = [duplicateOf EXCEPT ![j] = c] /\ outrun' \subseteq Markers
      /\ crossed' = (crossed \/ duplicateOf[j] # c)
      /\ duplicateOf \in [Jobs -> Link] /\ crossed \in BOOLEAN /\ j \in Jobs /\ c \in Link
      /\ instance \in [Writers -> [job : Link, link : Link]]
  BY DEF SaveWhole, SetLink, DuplicatesInv, DuplicatesTypeOK
<1>2. DuplicatesTypeOK'
  BY <1>1 DEF DuplicatesInv, DuplicatesTypeOK, NoInstance, Link, Walking
<1>3. Chains'
  BY <1>1, LinkLeavesChains DEF Chains, SaveWhole, DuplicatesInv, Walking
<1>4. CyclesNeedRaces'
  BY <1>1 DEF CyclesNeedRaces, DuplicatesInv, Acyclic
<1> QED BY <1>2, <1>3, <1>4 DEF DuplicatesInv

LEMMA DuplicatesStep == DuplicatesInv /\ [DuplicatesNext]_dupVars => DuplicatesInv'
<1> SUFFICES ASSUME DuplicatesInv, [DuplicatesNext]_dupVars PROVE DuplicatesInv'
  OBVIOUS
<1>1. CASE UNCHANGED dupVars
  BY <1>1 DEF dupVars, DuplicatesInv, DuplicatesTypeOK, Chains, Chain, Walked, Walking,
              CyclesNeedRaces, Acyclic
<1> QED
  BY <1>1, StartChain, FollowChain, RefuseChain, SaveLinkChain, LoadWholeChain, SaveWholeChain
  DEF DuplicatesNext, Mark

LEMMA DuplicatesInvariant == DuplicatesSpec => []DuplicatesInv
  BY DuplicatesInitial, DuplicatesStep, PTL DEF DuplicatesSpec

\* Links, calls and instances are well typed.
THEOREM DuplicatesTypeCorrect == DuplicatesSpec => []DuplicatesTypeOK
<1>1. DuplicatesInv => DuplicatesTypeOK
  BY DEF DuplicatesInv
<1> QED BY <1>1, DuplicatesInvariant, PTL

\* Duplicates form no cycle, unless a link has changed behind a call of
\* mark_duplicate or an outdated instance was saved.
THEOREM NoCyclesWithoutRaces == DuplicatesSpec => []CyclesNeedRaces
<1>1. DuplicatesInv => CyclesNeedRaces
  BY DEF DuplicatesInv
<1> QED BY <1>1, DuplicatesInvariant, PTL

\* The loop of mark_duplicate ends, even on the cycles that races have made: every
\* round reads the link of a job that the call has not read yet.
THEOREM WalksEnd ==
  DuplicatesSpec =>
    [][\A m \in Markers : Follow(m) =>
         /\ walk[m].current \in Jobs \ walk[m].seen
         /\ walk'[m].seen = walk[m].seen \cup {walk[m].current}]_dupVars
<1>1. DuplicatesInv /\ [DuplicatesNext]_dupVars =>
        [\A m \in Markers : Follow(m) =>
           /\ walk[m].current \in Jobs \ walk[m].seen
           /\ walk'[m].seen = walk[m].seen \cup {walk[m].current}]_dupVars
  <2> SUFFICES ASSUME DuplicatesInv, NEW m \in Markers, Follow(m)
               PROVE  /\ walk[m].current \in Jobs \ walk[m].seen
                      /\ walk'[m].seen = walk[m].seen \cup {walk[m].current}
    OBVIOUS
  <2>1. walk \in [Markers -> Walk] /\ Walking(m) /\ ~Closes(m)
    BY DEF Follow, DuplicatesInv, DuplicatesTypeOK
  <2>2. walk[m].current \in Jobs \ walk[m].seen
    BY <2>1, WalkType DEF Closes, DuplicatesInv
  <2>3. walk'[m].seen = walk[m].seen \cup {walk[m].current}
    BY <2>1 DEF Follow, Walked
  <2> QED BY <2>2, <2>3
<1> QED BY <1>1, DuplicatesInvariant, PTL DEF DuplicatesSpec

\* Nothing has raced so far.
Alone == outrun = {} /\ ~crossed

\* What the exception costs: calls of mark_duplicate one after the other, with no
\* handler beside them that saves whole jobs, never make a cycle.
THEOREM OneAfterTheOtherIsSafe ==
  ASSUME Writers = {}, \A m, o \in Markers : m = o
  PROVE  DuplicatesSpec => []Acyclic
<1>1. DuplicatesInit => Alone
  BY DEF DuplicatesInit, Alone
<1>2. Alone /\ DuplicatesInv /\ [DuplicatesNext]_dupVars => Alone'
  <2> SUFFICES ASSUME Alone, DuplicatesInv, [DuplicatesNext]_dupVars PROVE Alone'
    OBVIOUS
  <2>1. ASSUME NEW m \in Markers, SaveLink(m) PROVE Alone'
    <3>1. walk'[m].job = NoJob /\ crossed' = crossed
      BY <2>1 DEF SaveLink, NoWalk, Alone, DuplicatesInv, DuplicatesTypeOK
    <3>2. \A o \in Markers : walk'[o].job = NoJob
      BY <3>1
    <3> QED BY <2>1, <3>1, <3>2 DEF SaveLink, SetLink, Alone
  <2>2. ASSUME NEW m \in Markers, NEW j \in Jobs, NEW c \in Jobs, StartWalk(m, j, c)
        PROVE  Alone'
    BY <2>2 DEF StartWalk, Alone
  <2>3. ASSUME NEW m \in Markers, Follow(m) \/ Refuse(m) PROVE Alone'
    BY <2>3 DEF Follow, Refuse, Alone
  <2>4. CASE UNCHANGED dupVars
    BY <2>4 DEF dupVars, Alone
  <2>5. ~\E w \in Writers : SaveWhole(w) \/ \E j \in Jobs : LoadWhole(w, j)
    OBVIOUS
  <2> QED
    BY <2>1, <2>2, <2>3, <2>4, <2>5 DEF DuplicatesNext, Mark
<1>3. Alone /\ DuplicatesInv => Acyclic
  BY DEF Alone, DuplicatesInv, CyclesNeedRaces
<1> QED BY <1>1, <1>2, <1>3, DuplicatesInvariant, PTL DEF DuplicatesSpec
=============================================================================
