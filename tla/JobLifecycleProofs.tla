------------------------- MODULE JobLifecycleProofs -------------------------
(***************************************************************************)
(* Theorems about the two catalogues: JobLifecycle, for every set of jobs  *)
(* and of admin requests, and Exams, for any editors, dates and bounds.    *)
(***************************************************************************)
EXTENDS JobLifecycle, Exams, FiniteSetTheorems, TLAPS

-----------------------------------------------------------------------------
(* What the operators on rows return *)

\* Every operator on rows returns a row.
LEMMA RowOperators ==
  /\ DefaultRow \in Row /\ CreatedRow \in Row
  /\ \A r \in Row : /\ Closed(r) \in Row /\ Reopened(r) \in Row
                    /\ Sighted(r) \in Row /\ Struck(r) \in Row
                    /\ \A c \in Row : StruckOver(c, r) \in Row
                    /\ [r EXCEPT !.missing = 0] \in Row
  <1>0. DefaultRow \in Row
    BY DEF DefaultRow, Row, Status, MaxMissing
  <1>1. DefaultRow \in Row /\ CreatedRow \in Row
    BY <1>0 DEF CreatedRow, Row, Status, MaxMissing
  <1> SUFFICES ASSUME NEW r \in Row
               PROVE  /\ Closed(r) \in Row /\ Reopened(r) \in Row
                      /\ Sighted(r) \in Row /\ Struck(r) \in Row
                      /\ \A c \in Row : StruckOver(c, r) \in Row
                      /\ [r EXCEPT !.missing = 0] \in Row
    BY <1>1
  <1> USE DEF Row, Status, MaxMissing
  <1>2. Closed(r) \in Row /\ Reopened(r) \in Row
    BY <1>1 DEF Closed, Reopened
  <1>3. [r EXCEPT !.missing = 0] \in Row
    OBVIOUS
  <1>4. Sighted(r) \in Row
    BY DEF Sighted
  <1>5. Struck(r) \in Row
    <2>1. \A n \in 1..MaxMissing : StruckTimes(r, n) \in Row
      BY DEF StruckTimes, Rung
    <2>2. QED
      BY <2>1 DEF Struck
  <1>6. \A c \in Row : StruckOver(c, r) \in Row
    BY DEF StruckOver
  <1>7. QED
    BY <1>2, <1>3, <1>4, <1>5, <1>6

-----------------------------------------------------------------------------
(* Type correctness *)

\* Every reachable state is well typed.
THEOREM TypeCorrect == Spec => []TypeOK
  <1>1. Init => TypeOK
    BY RowOperators DEF Init, TypeOK, Status, Phases
  <1>2. TypeOK /\ [Next]_vars => TypeOK'
    <2> SUFFICES ASSUME TypeOK, [Next]_vars
                 PROVE  TypeOK'
      OBVIOUS
    <2> USE RowOperators DEF TypeOK, Phases
    <2>1. ASSUME NEW L \in SUBSET Jobs, ScrapeStart(L)
          PROVE  TypeOK'
      BY <2>1 DEF ScrapeStart, dbVars, adminVars
    <2>2. ASSUME NEW j \in Jobs, UpsertCreate(j)
          PROVE  TypeOK'
      <3>1. row' \in [Jobs -> Row] /\ logged' \in [Jobs -> Status]
        BY <2>2 DEF UpsertCreate, Status
      <3>2. QED
        BY <2>2, <3>1 DEF UpsertCreate, adminVars
    <2>3. ASSUME NEW j \in Jobs, UpsertLoad(j)
          PROVE  TypeOK'
      <3>1. inst' \in [Jobs -> Row]
        BY <2>3 DEF UpsertLoad
      <3>2. QED
        BY <2>3, <3>1 DEF UpsertLoad, dbVars, adminVars
    <2>4. ASSUME NEW j \in Jobs, UpsertUnchanged(j)
          PROVE  TypeOK'
      <3>1. row' \in [Jobs -> Row]
        BY <2>4 DEF UpsertUnchanged
      <3>2. QED
        BY <2>4, <3>1 DEF UpsertUnchanged, NextPosting, Release, adminVars
    <2>5. ASSUME NEW j \in Jobs, UpsertSave(j)
          PROVE  TypeOK'
      <3>1. row' \in [Jobs -> Row] /\ logged' \in [Jobs -> Status]
        BY <2>5 DEF UpsertSave, Status
      <3>2. QED
        BY <2>5, <3>1 DEF UpsertSave, NextPosting, Release, adminVars
    <2>6. ASSUME NEW j \in Jobs, UpsertFails(j)
          PROVE  TypeOK'
      BY <2>6 DEF UpsertFails, NextPosting, Release, dbVars, adminVars
    <2>7. CASE Distrust
      BY <2>7 DEF Distrust, Finish, Release, dbVars, adminVars
    <2>8. CASE StrikeLoad
      BY <2>8 DEF StrikeLoad, Finish, Release, dbVars, adminVars
    <2>9. CASE StrikeWrite
      <3>1. \A j \in Jobs : StruckOver(row[j], Struck(inst[j])) \in Row
        OBVIOUS
      <3>2. row' \in [Jobs -> Row]
        BY <2>9, <3>1 DEF StrikeWrite
      <3>3. \A j \in Jobs : Struck(inst[j]) \in Row
        OBVIOUS
      <3>4. inst' \in [Jobs -> Row]
        BY <2>9, <3>3 DEF StrikeWrite, Finish, Release
      <3>5. QED
        BY <2>9, <3>2, <3>4 DEF StrikeWrite, Finish, Release, adminVars
    <2>10. CASE StrikeLog
      <3>1. \A j \in Jobs : inst[j].status \in Status
        BY DEF Row
      <3>2. logged' \in [Jobs -> Status]
        BY <2>10, <3>1 DEF StrikeLog
      <3>3. QED
        BY <2>10, <3>2 DEF StrikeLog, Finish, Release, adminVars
    <2>11. CASE Crash
      BY <2>11 DEF Crash, Finish, Release, dbVars, adminVars
    <2>12. ASSUME NEW a \in Admins, NEW j \in Jobs, AdminLoad(a, j)
           PROVE  TypeOK'
      BY <2>12 DEF AdminLoad, dbVars, scraperVars
    <2>13. ASSUME NEW a \in Admins, AdminLeave(a)
           PROVE  TypeOK'
      BY <2>13 DEF AdminLeave, Done, dbVars, scraperVars
    <2>14. ASSUME NEW a \in Admins, AdminClose(a)
           PROVE  TypeOK'
      <3>1. held[a] \in Jobs
        BY <2>14 DEF AdminClose
      <3>2. row' \in [Jobs -> Row] /\ logged' \in [Jobs -> Status]
        <4>1. CASE copy[a].status = "closed"
          BY <2>14, <4>1 DEF AdminClose
        <4>2. CASE copy[a].status # "closed"
          <5>1. row' = [row EXCEPT ![held[a]] = Closed(row[held[a]])]
            BY <2>14, <4>2 DEF AdminClose
          <5>2. logged' = [logged EXCEPT ![held[a]] = "closed"]
            BY <2>14, <4>2 DEF AdminClose
          <5>3. row' \in [Jobs -> Row]
            BY <3>1, <5>1
          <5>4. QED
            BY <3>1, <5>2, <5>3 DEF Status
        <4>3. QED
          BY <4>1, <4>2
      <3>3. QED
        BY <2>14, <3>1, <3>2 DEF AdminClose, Writes, Done, scraperVars
    <2>15. ASSUME NEW a \in Admins, AdminReopen(a)
           PROVE  TypeOK'
      <3>1. held[a] \in Jobs
        BY <2>15 DEF AdminReopen
      <3>2. row' \in [Jobs -> Row] /\ logged' \in [Jobs -> Status]
        BY <2>15, <3>1 DEF AdminReopen, Status
      <3>3. QED
        BY <2>15, <3>1, <3>2 DEF AdminReopen, Writes, Done, scraperVars
    <2>16. ASSUME NEW a \in Admins, AdminSave(a)
           PROVE  TypeOK'
      <3>1. held[a] \in Jobs
        BY <2>16 DEF AdminSave
      <3>2. row' \in [Jobs -> Row]
        BY <2>16, <3>1 DEF AdminSave
      <3>3. QED
        BY <2>16, <3>1, <3>2 DEF AdminSave, Writes, Done, scraperVars
    <2>17. CASE UNCHANGED vars
      BY <2>17 DEF vars, dbVars, scraperVars, adminVars
    <2>18. QED
      BY <2>1, <2>2, <2>3, <2>4, <2>5, <2>6, <2>7, <2>8, <2>9, <2>10, <2>11,
         <2>12, <2>13, <2>14, <2>15, <2>16, <2>17 DEF Next, Scraper, Admin
  <1>3. QED
    BY <1>1, <1>2, PTL DEF Spec

-----------------------------------------------------------------------------
(* closed_at and is_manual_status, whatever overlaps *)

\* The two invariants, said of one row or instance.
Fits(r) == /\ r.closedAt <=> r.status = "closed"
           /\ r.manual => r.status # "open"

\* Every operator on rows keeps a fitting row fitting; a strike does when the
\* instance was in scope, even when the row under it has changed meanwhile.
LEMMA FitOperators ==
  /\ Fits(DefaultRow) /\ Fits(CreatedRow)
  /\ \A r \in Row : Fits(r) =>
       /\ Fits(Closed(r)) /\ Fits(Reopened(r)) /\ Fits(Sighted(r))
       /\ Fits([r EXCEPT !.missing = 0])
       /\ InScope(r) => /\ Fits(Struck(r))
                        /\ \A c \in Row : Fits(StruckOver(c, Struck(r)))
  <1> USE DEF Fits, Row
  <1>1. Fits(DefaultRow) /\ Fits(CreatedRow)
    BY DEF DefaultRow, CreatedRow
  <1> SUFFICES ASSUME NEW r \in Row, Fits(r)
               PROVE  /\ Fits(Closed(r)) /\ Fits(Reopened(r)) /\ Fits(Sighted(r))
                      /\ Fits([r EXCEPT !.missing = 0])
                      /\ InScope(r) => /\ Fits(Struck(r))
                                       /\ \A c \in Row : Fits(StruckOver(c, Struck(r)))
    BY <1>1
  <1>2. Fits(Closed(r)) /\ Fits(Reopened(r)) /\ Fits([r EXCEPT !.missing = 0])
    BY <1>1 DEF Closed, Reopened
  <1>3. Fits(Sighted(r))
    BY DEF Sighted, Reopens, Status
  <1>4. ASSUME InScope(r)
        PROVE  /\ Fits(Struck(r))
               /\ \A c \in Row : Fits(StruckOver(c, Struck(r)))
    <2>1. /\ Struck(r).status \in {"possibly_closed", "likely_closed", "closed"}
          /\ Struck(r).closedAt <=> Struck(r).status = "closed"
      <3>1. ~r.closedAt
        BY <1>4 DEF InScope
      <3>2. \A n \in 1..MaxMissing : Rung[n] \in {"possibly_closed", "likely_closed", "closed"}
        BY DEF Rung, MaxMissing
      <3>3. PICK n \in 1..MaxMissing : Struck(r) = StruckTimes(r, n)
        BY DEF Struck, MaxMissing
      <3>4. /\ StruckTimes(r, n).status = Rung[n]
            /\ StruckTimes(r, n).closedAt <=> Rung[n] = "closed"
        BY <3>1 DEF StruckTimes
      <3>5. QED
        BY <3>2, <3>3, <3>4
    <2>2. QED
      BY <2>1, RowOperators DEF StruckOver
  <1>5. QED
    BY <1>2, <1>3, <1>4

\* The inductive invariant: rows and instances fit, and a strike round holds
\* instances that were in scope when it loaded them.
AllFit ==
  /\ \A j \in Jobs : Fits(row[j]) /\ Fits(inst[j])
  /\ \A a \in Admins : Fits(copy[a])
  /\ phase = "strike" => \A j \in batch : InScope(inst[j])

\* Whatever runs and requests overlap, closed_at is set exactly on closed rows
\* and no open row is marked is_manual_status.
THEOREM RowsAlwaysFit == Spec => []RowsFit
  <1>1. Init => AllFit
    BY FitOperators DEF Init, AllFit
  <1>2. TypeOK /\ AllFit /\ [Next]_vars => AllFit'
    <2> SUFFICES ASSUME TypeOK, AllFit, [Next]_vars
                 PROVE  AllFit'
      OBVIOUS
    <2> USE FitOperators DEF TypeOK, AllFit
    <2>1. ASSUME NEW L \in SUBSET Jobs, ScrapeStart(L)
          PROVE  AllFit'
      BY <2>1 DEF ScrapeStart, dbVars, adminVars
    <2>2. ASSUME NEW j \in Jobs, UpsertCreate(j)
          PROVE  AllFit'
      BY <2>2 DEF UpsertCreate, adminVars
    <2>3. ASSUME NEW j \in Jobs, UpsertLoad(j)
          PROVE  AllFit'
      BY <2>3 DEF UpsertLoad, dbVars, adminVars
    <2>4. ASSUME NEW j \in Jobs, UpsertUnchanged(j)
          PROVE  AllFit'
      <3>1. \A k \in Jobs : Fits(row'[k])
        BY <2>4 DEF UpsertUnchanged
      <3>2. QED
        BY <2>4, <3>1 DEF UpsertUnchanged, NextPosting, Release, adminVars
    <2>5. ASSUME NEW j \in Jobs, UpsertSave(j)
          PROVE  AllFit'
      <3>1. \A k \in Jobs : Fits(row'[k])
        BY <2>5 DEF UpsertSave
      <3>2. QED
        BY <2>5, <3>1 DEF UpsertSave, NextPosting, Release, adminVars
    <2>6. ASSUME NEW j \in Jobs, UpsertFails(j)
          PROVE  AllFit'
      BY <2>6 DEF UpsertFails, NextPosting, Release, dbVars, adminVars
    <2>7. CASE Distrust
      BY <2>7 DEF Distrust, Finish, Release, dbVars, adminVars
    <2>8. CASE StrikeLoad
      <3>1. CASE phase' = "idle"
        <4>1. \A j \in Jobs : inst'[j] \in {row[j], DefaultRow}
          BY <2>8, <3>1 DEF StrikeLoad, Finish, Release
        <4>2. QED
          BY <2>8, <3>1, <4>1 DEF StrikeLoad, dbVars, adminVars
      <3>2. CASE phase' # "idle"
        <4>1. /\ \A j \in Jobs : inst'[j] \in {row[j], DefaultRow}
              /\ \A j \in batch' : inst'[j] = row[j] /\ InScope(row[j])
          BY <2>8, <3>2 DEF StrikeLoad, Finish
        <4>2. QED
          BY <2>8, <4>1 DEF StrikeLoad, dbVars, adminVars
      <3>3. QED
        BY <3>1, <3>2
    <2>9. CASE StrikeWrite
      <3>1. \A j \in batch : /\ Fits(Struck(inst[j]))
                             /\ Fits(StruckOver(row[j], Struck(inst[j])))
        BY <2>9 DEF StrikeWrite
      <3>2. \A j \in Jobs : Fits(row'[j])
        BY <2>9, <3>1 DEF StrikeWrite
      <3>3. \A j \in Jobs : Fits(inst'[j])
        BY <2>9, <3>1 DEF StrikeWrite, Finish, Release
      <3>4. phase' # "strike" /\ copy' = copy
        BY <2>9 DEF StrikeWrite, Finish, adminVars
      <3>5. QED
        BY <3>2, <3>3, <3>4
    <2>10. CASE StrikeLog
      BY <2>10 DEF StrikeLog, Finish, Release, adminVars
    <2>11. CASE Crash
      BY <2>11 DEF Crash, Finish, Release, dbVars, adminVars
    <2>12. ASSUME NEW a \in Admins, NEW j \in Jobs, AdminLoad(a, j)
           PROVE  AllFit'
      BY <2>12 DEF AdminLoad, dbVars, scraperVars
    <2>13. ASSUME NEW a \in Admins, AdminLeave(a)
           PROVE  AllFit'
      BY <2>13 DEF AdminLeave, Done, dbVars, scraperVars
    <2>14. ASSUME NEW a \in Admins, AdminClose(a)
           PROVE  AllFit'
      <3>1. \A j \in Jobs : Fits(row'[j])
        <4>1. CASE copy[a].status = "closed"
          BY <2>14, <4>1 DEF AdminClose
        <4>2. CASE copy[a].status # "closed"
          <5>1. row' = [row EXCEPT ![held[a]] = Closed(row[held[a]])]
            BY <2>14, <4>2 DEF AdminClose
          <5>2. QED
            BY <5>1
        <4>3. QED
          BY <4>1, <4>2
      <3>2. QED
        BY <2>14, <3>1 DEF AdminClose, Done, scraperVars
    <2>15. ASSUME NEW a \in Admins, AdminReopen(a)
           PROVE  AllFit'
      <3>1. \A j \in Jobs : Fits(row'[j])
        BY <2>15 DEF AdminReopen
      <3>2. QED
        BY <2>15, <3>1 DEF AdminReopen, Done, scraperVars
    <2>16. ASSUME NEW a \in Admins, AdminSave(a)
           PROVE  AllFit'
      <3>1. \A j \in Jobs : Fits(row'[j])
        BY <2>16 DEF AdminSave
      <3>2. QED
        BY <2>16, <3>1 DEF AdminSave, Done, scraperVars
    <2>17. CASE UNCHANGED vars
      BY <2>17 DEF vars, dbVars, scraperVars, adminVars
    <2>18. QED
      BY <2>1, <2>2, <2>3, <2>4, <2>5, <2>6, <2>7, <2>8, <2>9, <2>10, <2>11,
         <2>12, <2>13, <2>14, <2>15, <2>16, <2>17 DEF Next, Scraper, Admin
  <1>3. TypeOK /\ AllFit => RowsFit
    BY DEF AllFit, Fits, RowsFit, ClosedAtAgrees, OpenIsLadderable
  <1>4. QED
    BY <1>1, <1>2, <1>3, TypeCorrect, PTL DEF Spec

-----------------------------------------------------------------------------
(* The contract of the ladder, up to lost updates *)

\* On a row on the ladder every operator stays on the ladder, and the status it
\* leaves is the one its handler reports to the timeline.
LEMMA LadderOperators ==
  /\ OnLadder(CreatedRow) /\ CreatedRow.status = "open"
  /\ \A r \in Row : OnLadder(r) =>
       /\ OnLadder(Closed(r)) /\ Closed(r).status = "closed"
       /\ OnLadder(Sighted(r)) /\ Sighted(r).manual = r.manual
       /\ Sighted(r).status = IF Reopens(r) THEN "open" ELSE r.status
       /\ r.status = "open" => /\ OnLadder([r EXCEPT !.missing = 0])
                               /\ [r EXCEPT !.missing = 0].status = r.status
                               /\ ~r.manual
       /\ InScope(r) => /\ OnLadder(StruckOver(r, Struck(r)))
                        /\ StruckOver(r, Struck(r)) = Struck(r)
  <1> USE DEF Row
  <1>1. OnLadder(CreatedRow) /\ CreatedRow.status = "open"
    BY DEF CreatedRow, DefaultRow, OnLadder
  <1> SUFFICES ASSUME NEW r \in Row, OnLadder(r)
               PROVE  /\ OnLadder(Closed(r)) /\ Closed(r).status = "closed"
                      /\ OnLadder(Sighted(r)) /\ Sighted(r).manual = r.manual
                      /\ Sighted(r).status = IF Reopens(r) THEN "open" ELSE r.status
                      /\ r.status = "open" => /\ OnLadder([r EXCEPT !.missing = 0])
                                              /\ [r EXCEPT !.missing = 0].status = r.status
                                              /\ ~r.manual
                      /\ InScope(r) => /\ OnLadder(StruckOver(r, Struck(r)))
                                       /\ StruckOver(r, Struck(r)) = Struck(r)
    BY <1>1
  <1>2. OnLadder(Closed(r)) /\ Closed(r).status = "closed"
    BY DEF Closed, OnLadder
  <1>3. /\ Sighted(r).manual = r.manual
        /\ Sighted(r).status = IF Reopens(r) THEN "open" ELSE r.status
    BY DEF Sighted
  <1>4. OnLadder(Sighted(r))
    BY DEF Sighted, OnLadder, Reopens, Rung, MaxMissing
  <1>5. ASSUME r.status = "open"
        PROVE  /\ OnLadder([r EXCEPT !.missing = 0])
               /\ [r EXCEPT !.missing = 0].status = r.status
               /\ ~r.manual
    BY <1>5 DEF OnLadder
  <1>6. ASSUME InScope(r)
        PROVE  /\ OnLadder(StruckOver(r, Struck(r)))
               /\ StruckOver(r, Struck(r)) = Struck(r)
    <2>1. r.missing \in 0..2 /\ ~r.manual
      BY <1>6 DEF InScope, OnLadder, Rung, MaxMissing
    <2>2. Struck(r) = StruckTimes(r, r.missing + 1)
      BY <2>1 DEF Struck, MaxMissing
    <2>3. StruckOver(r, Struck(r)) = Struck(r)
      BY <2>2 DEF StruckOver, StruckTimes
    <2>4. OnLadder(StruckTimes(r, r.missing + 1))
      BY <2>1 DEF StruckTimes, OnLadder
    <2>5. QED
      BY <2>2, <2>3, <2>4
  <1>7. QED
    BY <1>2, <1>3, <1>4, <1>5, <1>6

\* The inductive invariant: the contract, and that runs and requests hold only
\* stored rows, strike rounds only rows that were in scope.
Contract ==
  /\ LadderAgrees
  /\ TimelineAgrees
  /\ batch \subseteq stored
  /\ \A a \in Admins : held[a] \in stored \cup {None}
  /\ phase = "strike" => \A j \in batch : InScope(inst[j])

LEMMA ContractInit == Init => Contract
  BY DEF Init, Contract, LadderAgrees, TimelineAgrees, Untorn

\* Every step keeps the contract.
LEMMA ContractNext == TypeOK /\ Contract /\ [Next]_vars => Contract'
  <1> SUFFICES ASSUME TypeOK, Contract, [Next]_vars
               PROVE  Contract'
    OBVIOUS
  <1> USE LadderOperators DEF TypeOK, Contract, LadderAgrees, TimelineAgrees, Untorn
  <1>1. ASSUME NEW L \in SUBSET Jobs, ScrapeStart(L)
        PROVE  Contract'
    BY <1>1 DEF ScrapeStart, dbVars, adminVars
  <1>2. ASSUME NEW j \in Jobs, UpsertCreate(j)
        PROVE  Contract'
    BY <1>2 DEF UpsertCreate, adminVars
  <1>3. ASSUME NEW j \in Jobs, UpsertLoad(j)
        PROVE  Contract'
    BY <1>3 DEF UpsertLoad, dbVars, adminVars
  <1>4. ASSUME NEW j \in Jobs, UpsertUnchanged(j)
        PROVE  Contract'
    <2>1. \A k \in stored \ torn' : OnLadder(row'[k]) /\ row'[k].status = row[k].status
      BY SMTT(30), <1>4 DEF UpsertUnchanged
    <2>2. QED
      BY <1>4, <2>1 DEF UpsertUnchanged, NextPosting, Release, adminVars
  <1>5. ASSUME NEW j \in Jobs, UpsertSave(j)
        PROVE  Contract'
    <2>1. ASSUME NEW k \in stored \ torn'
          PROVE  OnLadder(row'[k]) /\ row'[k].status = logged'[k]
      <3>1. k \in Untorn /\ logged[k] = row[k].status
        BY <1>5 DEF UpsertSave
      <3>2. CASE k # j
        BY <1>5, <3>1, <3>2 DEF UpsertSave
      <3>3. CASE k = j
        <4>1. inst[j] = row[j] /\ row'[j] = Sighted(row[j])
          BY <1>5, <3>3 DEF UpsertSave
        <4>2. logged'[j] = IF Reopens(row[j]) THEN "open" ELSE logged[j]
          BY <1>5, <4>1 DEF UpsertSave
        <4>3. row[j] \in Row /\ OnLadder(row[j])
          BY <3>1, <3>3
        <4>4. /\ OnLadder(Sighted(row[j]))
              /\ Sighted(row[j]).status = IF Reopens(row[j]) THEN "open" ELSE row[j].status
          BY ONLY LadderOperators, <4>3
        <4>5. QED
          BY ONLY <3>1, <3>3, <4>1, <4>2, <4>4
      <3>4. QED
        BY <3>2, <3>3
    <2>2. QED
      BY <1>5, <2>1 DEF UpsertSave, NextPosting, Release, adminVars
  <1>6. ASSUME NEW j \in Jobs, UpsertFails(j)
        PROVE  Contract'
    BY <1>6 DEF UpsertFails, NextPosting, Release, dbVars, adminVars
  <1>7. CASE Distrust
    BY <1>7 DEF Distrust, Finish, Release, dbVars, adminVars
  <1>8. CASE StrikeLoad
    <2>1. CASE phase' = "idle"
      BY <1>8, <2>1 DEF StrikeLoad, Finish, Release, dbVars, adminVars
    <2>2. CASE phase' # "idle"
      <3>1. \A j \in batch' : j \in stored /\ inst'[j] = row[j] /\ InScope(row[j])
        BY <1>8, <2>2 DEF StrikeLoad, Finish
      <3>2. phase = "upsert" /\ phase' = "strike"
        BY <1>8, <2>2 DEF StrikeLoad, Finish
      <3>3. QED
        BY <1>8, <3>1, <3>2 DEF StrikeLoad, dbVars, adminVars
    <2>3. QED
      BY <2>1, <2>2
  <1>9. CASE StrikeWrite
    <2>1. ASSUME NEW j \in batch \ torn'
          PROVE  row'[j] = Struck(inst[j]) /\ OnLadder(row'[j]) /\ inst[j] = row[j]
      <3>1. inst[j] = row[j] /\ row'[j] = StruckOver(row[j], Struck(inst[j]))
        BY <1>9 DEF StrikeWrite
      <3>2. row[j] \in Row /\ InScope(row[j]) /\ OnLadder(row[j])
        BY <1>9, <3>1 DEF StrikeWrite
      <3>3. /\ OnLadder(StruckOver(row[j], Struck(row[j])))
            /\ StruckOver(row[j], Struck(row[j])) = Struck(row[j])
        BY ONLY LadderOperators, <3>2
      <3>4. QED
        BY ONLY <3>1, <3>3
    <2>2. \A j \in stored \ torn' : OnLadder(row'[j])
      BY <1>9, <2>1 DEF StrikeWrite
    <2>3. ASSUME NEW j \in stored \ torn'
          PROVE  (j \in batch /\ Moves(inst[j])) \/ logged'[j] = row'[j].status
      <3>1. logged'[j] = logged[j] /\ logged[j] = row[j].status
        BY <1>9 DEF StrikeWrite
      <3>2. CASE j \in batch
        BY <2>1, <3>1, <3>2 DEF Moves
      <3>3. CASE j \notin batch
        BY <1>9, <3>1, <3>3 DEF StrikeWrite
      <3>4. QED
        BY <3>2, <3>3
    <2>4. /\ phase' \in {"idle", "log"}
          /\ batch' = {j \in batch : Moves(inst[j])}
          /\ batch' # {} => phase' = "log"
      BY <1>9 DEF StrikeWrite, Finish, Release
    <2>5. QED
      BY <1>9, <2>2, <2>3, <2>4 DEF StrikeWrite, adminVars
  <1>10. CASE StrikeLog
    BY <1>10 DEF StrikeLog, Finish, Release, adminVars
  <1>11. CASE Crash
    BY <1>11 DEF Crash, Finish, Release, dbVars, adminVars
  <1>12. ASSUME NEW a \in Admins, NEW j \in Jobs, AdminLoad(a, j)
         PROVE  Contract'
    BY <1>12 DEF AdminLoad, dbVars, scraperVars
  <1>13. ASSUME NEW a \in Admins, AdminLeave(a)
         PROVE  Contract'
    BY <1>13 DEF AdminLeave, Done, dbVars, scraperVars
  <1>14. ASSUME NEW a \in Admins, AdminClose(a)
         PROVE  Contract'
    <2>1. CASE copy[a].status = "closed"
      BY <1>14, <2>1 DEF AdminClose, Done, scraperVars
    <2>2. CASE copy[a].status # "closed"
      <3>1. /\ held[a] \in stored
            /\ row' = [row EXCEPT ![held[a]] = Closed(row[held[a]])]
            /\ logged' = [logged EXCEPT ![held[a]] = "closed"]
        BY <1>14, <2>2 DEF AdminClose
      <3>2. torn \subseteq torn' /\ UNCHANGED <<stored, phase, batch, inst>>
        BY <1>14, <2>2 DEF AdminClose, Writes, scraperVars
      <3>3. held' \in [Admins -> stored \cup {None}]
        BY <1>14 DEF AdminClose, Done
      <3>4. QED
        BY <3>1, <3>2, <3>3
    <2>3. QED
      BY <2>1, <2>2
  <1>15. ASSUME NEW a \in Admins, AdminReopen(a)
         PROVE  Contract'
    BY <1>15 DEF AdminReopen, Reopened, Writes, Done, scraperVars
  <1>16. ASSUME NEW a \in Admins, AdminSave(a)
         PROVE  Contract'
    <2>1. \A j \in stored \ torn' : row'[j] = row[j]
      BY <1>16 DEF AdminSave, Writes
    <2>2. torn \subseteq torn'
      BY <1>16 DEF AdminSave, Writes
    <2>3. QED
      BY <1>16, <2>1, <2>2 DEF AdminSave, Done, scraperVars
  <1>17. CASE UNCHANGED vars
    BY <1>17 DEF vars, dbVars, scraperVars, adminVars
  <1>18. QED
    BY <1>1, <1>2, <1>3, <1>4, <1>5, <1>6, <1>7, <1>8, <1>9, <1>10, <1>11,
       <1>12, <1>13, <1>14, <1>15, <1>16, <1>17 DEF Next, Scraper, Admin

\* On jobs none of whose updates was lost, status, missing_count and timeline
\* agree, and no run moves a row an admin closed.
THEOREM ContractHolds == Spec => []RowsAgree /\ AdminDecisionStands
  <1> DEFINE Decided == Scraper => \A j \in stored \ torn' :
               row[j].manual => row'[j].manual /\ row'[j].status = "closed"
  <1>3. TypeOK /\ Contract /\ [Next]_vars => [Decided]_vars
    <2> SUFFICES ASSUME TypeOK, Contract, Scraper,
                        NEW j \in stored \ torn', row[j].manual
                 PROVE  row'[j].manual /\ row'[j].status = "closed"
      OBVIOUS
    <2>1. torn \subseteq torn'
      BY DEF Scraper, ScrapeStart, UpsertCreate, UpsertLoad, UpsertUnchanged, UpsertSave,
             UpsertFails, Distrust, StrikeLoad, StrikeWrite, StrikeLog, Crash
    <2>2. row[j] \in Row /\ row[j].status = "closed"
      BY <2>1 DEF TypeOK, Contract, LadderAgrees, Untorn, OnLadder
    <2>3. CASE \E k \in Jobs : UpsertUnchanged(k)
      BY <2>2, <2>3 DEF UpsertUnchanged, TypeOK, Row
    <2>4. CASE \E k \in Jobs : UpsertSave(k)
      BY <2>2, <2>4 DEF UpsertSave, Sighted, Reopens, TypeOK, Row
    <2>5. CASE StrikeWrite
      BY <2>2, <2>5 DEF StrikeWrite, Contract, InScope, TypeOK
    <2>6. CASE row' = row
      BY <2>2, <2>6
    <2>7. CASE \E k \in Jobs : UpsertCreate(k)
      BY <2>2, <2>7 DEF UpsertCreate, TypeOK
    <2>8. QED
      BY <2>3, <2>4, <2>5, <2>6, <2>7
         DEF Scraper, ScrapeStart, UpsertLoad, UpsertFails, Distrust, StrikeLoad, StrikeLog,
             Crash, dbVars
  <1>4. Contract => RowsAgree
    BY DEF Contract, RowsAgree
  <1>5. QED
    BY ContractInit, ContractNext, <1>3, <1>4, TypeCorrect, PTL DEF Spec, AdminDecisionStands

\* No run moves a row that an admin has closed, unless an update of it was lost.
THEOREM AdminDecisionsStand == Spec => AdminDecisionStands
BY ContractHolds

-----------------------------------------------------------------------------
(* What the exception costs: which updates are lost when no admin interferes *)

\* The instances of a run are the rows, and every row is on the ladder.
RunAlone ==
  /\ \A j \in batch : inst[j] = row[j]
  /\ \A j \in stored : OnLadder(row[j])

\* The worker is killed between the statements of a strike round.
KilledLogging == phase = "log" /\ Crash

LEMMA RunAloneNext ==
  ASSUME Admins = {}
  PROVE  TypeOK /\ Contract /\ RunAlone /\ [Next]_vars =>
           RunAlone' /\ (torn' # torn => KilledLogging)
<1> SUFFICES ASSUME TypeOK, Contract, RunAlone, [Next]_vars
             PROVE  RunAlone' /\ (torn' # torn => KilledLogging)
  OBVIOUS
<1>1. ASSUME UNCHANGED <<row, stored, torn>>, \A j \in batch' : inst'[j] = row[j]
      PROVE  RunAlone' /\ (torn' # torn => KilledLogging)
  BY <1>1 DEF RunAlone
<1>2. CASE UNCHANGED vars
  BY <1>1, <1>2 DEF vars, dbVars, scraperVars, RunAlone
<1>3. ASSUME NEW L \in SUBSET Jobs, ScrapeStart(L)
      PROVE  RunAlone' /\ (torn' # torn => KilledLogging)
  BY <1>1, <1>3 DEF ScrapeStart, dbVars, RunAlone
<1>4. ASSUME NEW j \in Jobs, UpsertCreate(j)
      PROVE  RunAlone' /\ (torn' # torn => KilledLogging)
  <2>1. /\ row' = [row EXCEPT ![j] = CreatedRow] /\ stored' = stored \cup {j} /\ torn' = torn
        /\ UNCHANGED <<batch, inst>> /\ j \notin batch
    BY <1>4 DEF UpsertCreate, Contract
  <2> QED BY <2>1, LadderOperators DEF RunAlone, TypeOK, Contract
<1>5. ASSUME NEW j \in Jobs, UpsertLoad(j)
      PROVE  RunAlone' /\ (torn' # torn => KilledLogging)
  BY <1>1, <1>5 DEF UpsertLoad, dbVars, TypeOK
<1>6. ASSUME NEW j \in Jobs, UpsertUnchanged(j)
      PROVE  RunAlone' /\ (torn' # torn => KilledLogging)
  <2>1. /\ row' = [row EXCEPT ![j] = [row[j] EXCEPT !.missing = 0]] /\ stored' = stored
        /\ torn' = torn /\ batch' = {} /\ row[j].status = "open" /\ j \in stored
    BY <1>6 DEF UpsertUnchanged, NextPosting, Release, RunAlone, Contract
  <2>2. OnLadder([row[j] EXCEPT !.missing = 0])
    BY <2>1, LadderOperators DEF RunAlone, TypeOK
  <2> QED BY <2>1, <2>2 DEF RunAlone, TypeOK
<1>7. ASSUME NEW j \in Jobs, UpsertSave(j)
      PROVE  RunAlone' /\ (torn' # torn => KilledLogging)
  <2>1. /\ row' = [row EXCEPT ![j] = Sighted(row[j])] /\ stored' = stored
        /\ torn' = torn /\ batch' = {} /\ j \in stored
    BY <1>7 DEF UpsertSave, NextPosting, Release, RunAlone, Contract
  <2>2. OnLadder(Sighted(row[j]))
    BY <2>1, LadderOperators DEF RunAlone, TypeOK
  <2> QED BY <2>1, <2>2 DEF RunAlone, TypeOK
<1>8. ASSUME NEW j \in Jobs, UpsertFails(j)
      PROVE  RunAlone' /\ (torn' # torn => KilledLogging)
  BY <1>1, <1>8 DEF UpsertFails, NextPosting, Release, dbVars
<1>9. CASE Distrust
  BY <1>1, <1>9 DEF Distrust, Finish, Release, dbVars
<1>10. CASE StrikeLoad
  <2>1. UNCHANGED <<row, stored, torn>>
    BY <1>10 DEF StrikeLoad, dbVars
  <2>2. \A j \in batch' : inst'[j] = row[j]
    BY <1>10 DEF StrikeLoad, Finish, Release, TypeOK
  <2> QED BY <1>1, <2>1, <2>2
<1>11. CASE StrikeWrite
  <2>1. /\ stored' = stored /\ phase = "strike"
        /\ row' = [j \in Jobs |-> IF j \in batch THEN StruckOver(row[j], Struck(inst[j])) ELSE row[j]]
        /\ torn' = torn \cup {j \in batch : inst[j] # row[j]}
    BY <1>11 DEF StrikeWrite
  <2>2. torn' = torn
    BY <2>1 DEF RunAlone
  <2>3. ASSUME NEW j \in batch
        PROVE  row'[j] = Struck(inst[j]) /\ OnLadder(row'[j])
    <3>1. inst[j] = row[j] /\ row[j] \in Row /\ OnLadder(row[j]) /\ InScope(row[j]) /\ j \in Jobs
      BY <2>1 DEF RunAlone, Contract, TypeOK
    <3>2. row'[j] = StruckOver(row[j], Struck(inst[j]))
      BY <2>1, <3>1
    <3> QED BY <3>1, <3>2, LadderOperators
  <2>4. \A j \in stored : OnLadder(row'[j])
    BY <2>1, <2>3 DEF RunAlone, TypeOK
  <2>5. \A j \in batch' : j \in batch /\ inst'[j] = Struck(inst[j])
    BY <1>11 DEF StrikeWrite, Finish, Release, TypeOK
  <2> QED BY <2>1, <2>2, <2>3, <2>4, <2>5 DEF RunAlone
<1>12. CASE StrikeLog
  <2>1. UNCHANGED <<row, stored>> /\ batch' = {}
        /\ torn' = torn \cup {j \in batch : inst[j] # row[j]}
    BY <1>12 DEF StrikeLog, Finish, Release
  <2>2. torn' = torn
    BY <2>1 DEF RunAlone
  <2> QED BY <1>1, <2>1, <2>2
<1>13. CASE Crash
  BY <1>13 DEF Crash, Finish, Release, dbVars, RunAlone, KilledLogging
<1> QED
  BY <1>2, <1>3, <1>4, <1>5, <1>6, <1>7, <1>8, <1>9, <1>10, <1>11, <1>12, <1>13
  DEF Next, Scraper, Admin

\* Where no admin touches the jobs of a company, nothing but a kill between the two
\* statements of a strike round costs a job anything, and that only an entry of its
\* timeline: every row stays on the ladder, whatever is killed.
THEOREM RunsAloneLoseNoUpdate ==
  ASSUME Admins = {}
  PROVE  Spec => /\ [](\A j \in stored : OnLadder(row[j]))
                 /\ [][torn' # torn => KilledLogging]_vars
<1>1. Init => RunAlone
  BY DEF Init, RunAlone
<1>2. TypeOK /\ Contract /\ RunAlone /\ [Next]_vars =>
        RunAlone' /\ [torn' # torn => KilledLogging]_vars
  BY RunAloneNext
<1>3. RunAlone => \A j \in stored : OnLadder(row[j])
  BY DEF RunAlone
<1> QED
  BY <1>1, <1>2, <1>3, ContractInit, ContractNext, TypeCorrect, PTL DEF Spec

-----------------------------------------------------------------------------
(* The promise, step by step *)

\* A step that moves no job is a stutter of the promise.
Stands == standing' = standing

\* An update of the job j is lost.
LEMMA LosesOne ==
  ASSUME NEW j \in Jobs, torn' = torn \cup {j},
         \A k \in Jobs \ {j} : /\ k \in stored' <=> k \in stored
                              /\ row'[k] = row[k]
  PROVE  Promise!Strike({}, {j}) \/ Stands
  BY DEF Promise!Strike, Stands, standing

\* What the promise sees of a row that is saved, struck, closed or reopened.
LEMMA RungsFollow ==
  ASSUME NEW r \in Row, OnLadder(r)
  PROVE  /\ InScope(r) => /\ r.status \in DOMAIN Promise!NextRung
                          /\ Struck(r).status = Promise!NextRung[r.status]
                          /\ ~Struck(r).manual /\ ~r.manual
         /\ r.status # "closed" => ~r.manual /\ r.status \in DOMAIN Promise!NextRung
<1> USE DEF Row, OnLadder, Rung, MaxMissing, Promise!NextRung
<1>1. ASSUME InScope(r)
      PROVE  /\ r.status \in DOMAIN Promise!NextRung
             /\ Struck(r).status = Promise!NextRung[r.status]
             /\ ~Struck(r).manual /\ ~r.manual
  BY <1>1 DEF InScope, Struck, StruckTimes
<1>2. ASSUME r.status # "closed"
      PROVE  ~r.manual /\ r.status \in DOMAIN Promise!NextRung
  BY <1>2
<1> QED BY <1>1, <1>2

\* A run and an admin request move each job as ThreeStrikes allows.
LEMMA RunKeepsPromise ==
  ASSUME TypeOK, Contract, Scraper
  PROVE  Promise!Next \/ Stands
<1> USE DEF TypeOK
<1>1. ASSUME NEW j \in Jobs, UpsertCreate(j) PROVE Promise!Next \/ Stands
  <2>1. CASE j \in torn
    BY <1>1, <2>1 DEF UpsertCreate, Stands, standing
  <2>2. CASE j \notin torn
    <3>1. standing[j] = "unknown" /\ standing' = [standing EXCEPT ![j] = "open"]
      BY <1>1, <2>2 DEF UpsertCreate, standing, CreatedRow, DefaultRow
    <3> QED BY <3>1 DEF Promise!Next, Promise!Open
  <2> QED BY <2>1, <2>2
<1>2. ASSUME NEW j \in Jobs, UpsertUnchanged(j) PROVE Promise!Next \/ Stands
  <2>1. stored' = stored /\ row' = [row EXCEPT ![j].missing = 0]
    BY <1>2 DEF UpsertUnchanged
  <2>2. CASE torn' = torn
    BY <2>1, <2>2 DEF Stands, standing, Row
  <2>3. CASE torn' = torn \cup {j}
    BY <2>1, <2>3, LosesOne DEF Promise!Next
  <2> QED BY <1>2, <2>2, <2>3 DEF UpsertUnchanged
<1>3. ASSUME NEW j \in Jobs, UpsertSave(j) PROVE Promise!Next \/ Stands
  <2>1. stored' = stored /\ row' = [row EXCEPT ![j] = Sighted(inst[j])]
    BY <1>3 DEF UpsertSave
  <2>2. CASE torn' = torn \cup {j}
    BY <2>1, <2>2, LosesOne DEF Promise!Next
  <2>3. CASE torn' = torn /\ inst[j] = row[j]
    <3>1. CASE j \in torn \/ j \notin stored
      BY <2>1, <2>3, <3>1 DEF Stands, standing
    <3>2. CASE j \in stored \ torn /\ Reopens(row[j])
      <4>1. standing' = [standing EXCEPT ![j] = "open"]
        BY <2>1, <2>3, <3>2 DEF standing, Sighted, Reopens
      <4>2. standing[j] \notin {"lost", "pinned"}
        BY <3>2 DEF standing, Reopens
      <4> QED BY <4>1, <4>2 DEF Promise!Next, Promise!Open
    <3>3. CASE j \in stored \ torn /\ ~Reopens(row[j])
      BY <2>1, <2>3, <3>3 DEF Stands, standing, Sighted
    <3> QED BY <3>1, <3>2, <3>3
  <2> QED BY <1>3, <2>2, <2>3 DEF UpsertSave
<1>4. ASSUME StrikeWrite PROVE Promise!Next \/ Stands
  <2> DEFINE S == batch \ torn'
  <2>1. /\ stored' = stored
        /\ phase = "strike"
        /\ row' = [j \in Jobs |-> IF j \in batch THEN StruckOver(row[j], Struck(inst[j]))
                                                 ELSE row[j]]
        /\ torn' = torn \cup {j \in batch : inst[j] # row[j]}
    BY <1>4 DEF StrikeWrite
  <2>2. ASSUME NEW j \in S
        PROVE  /\ standing[j] = row[j].status
               /\ row[j].status \in DOMAIN Promise!NextRung
               /\ row'[j].status = Promise!NextRung[row[j].status]
               /\ ~row'[j].manual
               /\ j \in stored
    <3>1. j \in stored \ torn /\ inst[j] = row[j] /\ InScope(row[j])
      BY <2>1 DEF Contract
    <3>2. row[j] \in Row /\ OnLadder(row[j])
      BY <3>1 DEF Contract, LadderAgrees, Untorn
    <3>3. row'[j] = Struck(row[j])
      BY <2>1, <3>1, <3>2, LadderOperators
    <3>4. ~row[j].manual
      BY <3>1 DEF InScope
    <3>5. /\ row[j].status \in DOMAIN Promise!NextRung
          /\ Struck(row[j]).status = Promise!NextRung[row[j].status]
          /\ ~Struck(row[j]).manual
      BY <3>1, <3>2, RungsFollow
    <3> QED BY <3>1, <3>3, <3>4, <3>5 DEF standing
  <2>3. standing' = [j \in Jobs |-> IF j \in torn' THEN "lost"
                                   ELSE IF j \in S THEN Promise!NextRung[standing[j]]
                                   ELSE standing[j]]
    <3>1. \A j \in Jobs \ torn' : j \notin torn
      BY <2>1
    <3>2. \A j \in Jobs \ batch : row'[j] = row[j]
      BY <2>1
    <3> HIDE DEF S
    <3>3. \A j \in (Jobs \ torn') \ S : j \notin batch
      BY DEF S
    <3> QED BY <2>1, <2>2, <3>1, <3>2, <3>3 DEF standing
  <2>4. \A j \in S : standing[j] \in DOMAIN Promise!NextRung
    BY <2>2
  <2>5. S \in SUBSET Jobs /\ torn' \in SUBSET Jobs
    BY <2>1
  <2> QED BY <2>3, <2>4, <2>5 DEF Promise!Next, Promise!Strike
<1>5. ASSUME NEW T \in SUBSET Jobs, torn' = torn \cup T, UNCHANGED <<row, stored>>
      PROVE  Promise!Next \/ Stands
  <2>1. standing' = [j \in Jobs |-> IF j \in T THEN "lost"
                                   ELSE IF j \in {} THEN Promise!NextRung[standing[j]]
                                   ELSE standing[j]]
    BY <1>5 DEF standing
  <2>2. Promise!Strike({}, T)
    BY <2>1 DEF Promise!Strike
  <2> QED BY <2>2 DEF Promise!Next
<1>6. CASE StrikeLog
  <2>1. torn' = torn \cup {j \in batch : inst[j] # row[j]} /\ UNCHANGED <<row, stored>>
    BY <1>6 DEF StrikeLog
  <2>2. {j \in batch : inst[j] # row[j]} \in SUBSET Jobs
    OBVIOUS
  <2> QED BY <1>5, <2>1, <2>2
<1>7. CASE Crash
  BY <1>5, <1>7 DEF Crash, dbVars
<1>8. ASSUME UNCHANGED <<row, stored, torn>> PROVE Promise!Next \/ Stands
  BY <1>8 DEF Stands, standing
<1> QED
  BY <1>1, <1>2, <1>3, <1>4, <1>6, <1>7, <1>8
  DEF Scraper, ScrapeStart, UpsertLoad, UpsertFails, Distrust, StrikeLoad, dbVars

LEMMA AdminsKeepPromise ==
  ASSUME TypeOK, Contract, Admin
  PROVE  Promise!Next \/ Stands
<1> USE DEF TypeOK
<1>1. PICK a \in Admins : \/ \E j \in Jobs : AdminLoad(a, j)
                          \/ AdminLeave(a)
                          \/ AdminClose(a)
                          \/ AdminReopen(a)
                          \/ AdminSave(a)
  BY DEF Admin
<1>2. CASE UNCHANGED <<row, stored, torn>>
  BY <1>2 DEF Stands, standing
<1> DEFINE j == held[a]
<1>3. ASSUME j \in stored, torn' = torn \cup {j}, stored' = stored,
             NEW r, row' = [row EXCEPT ![j] = r]
      PROVE  Promise!Next \/ Stands
  BY ZenonT(30), <1>3, LosesOne DEF Promise!Next
<1>4. ASSUME j \in torn, torn' = torn, stored' = stored, NEW r, row' = [row EXCEPT ![j] = r]
      PROVE  Stands
  BY <1>4 DEF Stands, standing
<1>5. CASE AdminClose(a) /\ copy[a].status # "closed"
  <2>1. /\ j \in stored /\ j \in Jobs
        /\ row' = [row EXCEPT ![j] = Closed(row[j])]
        /\ stored' = stored
        /\ torn' = IF copy[a] = row[j] THEN torn ELSE torn \cup {j}
    BY <1>5 DEF AdminClose, Writes, Contract
  <2>2. CASE j \notin torn /\ copy[a] = row[j]
    <3>1. row[j] \in Row /\ OnLadder(row[j])
      BY <2>1, <2>2 DEF Contract, LadderAgrees, Untorn
    <3>2. ~row[j].manual /\ row[j].status \in DOMAIN Promise!NextRung
      BY <1>5, <2>2, <3>1, RungsFollow
    <3>3. standing[j] \in DOMAIN Promise!NextRung
      BY <2>1, <2>2, <3>2 DEF standing
    <3>4. standing' = [standing EXCEPT ![j] = "pinned"]
      BY <2>1, <2>2, <3>1 DEF standing, Closed, Row
    <3> QED BY <2>1, <3>3, <3>4 DEF Promise!Next, Promise!Pin
  <2> QED BY <1>3, <1>4, <2>1, <2>2
<1>6. CASE AdminReopen(a)
  <2>1. /\ j \in stored /\ j \in Jobs
        /\ row' = [row EXCEPT ![j] = Reopened(row[j])]
        /\ stored' = stored
        /\ torn' = IF copy[a] = row[j] THEN torn ELSE torn \cup {j}
    BY <1>6 DEF AdminReopen, Writes, Contract
  <2>2. CASE j \notin torn /\ copy[a] = row[j]
    <3>1. standing' = [standing EXCEPT ![j] = "open"]
      BY <2>1, <2>2 DEF standing, Reopened, CreatedRow, DefaultRow
    <3>2. standing[j] # "lost"
      BY <2>1, <2>2 DEF standing, Row, Status
    <3> QED BY <2>1, <3>1, <3>2 DEF Promise!Next, Promise!Open, Promise!Unpin
  <2> QED BY <1>3, <1>4, <2>1, <2>2
<1>7. CASE AdminSave(a)
  <2>1. /\ j \in stored /\ j \in Jobs
        /\ row' = [row EXCEPT ![j] = copy[a]]
        /\ stored' = stored
        /\ torn' = IF copy[a] = row[j] THEN torn ELSE torn \cup {j}
    BY <1>7 DEF AdminSave, Writes, Contract
  <2>2. CASE copy[a] = row[j]
    BY <1>2, <2>1, <2>2
  <2> QED BY <1>3, <2>1, <2>2
<1> QED
  BY <1>1, <1>2, <1>5, <1>6, <1>7
  DEF AdminLoad, AdminLeave, AdminClose, dbVars

\* The life cycle implements ThreeStrikes: up to lost updates, whatever runs and
\* requests do, each posting moves as the promise allows.
THEOREM PromiseKept == Spec => KeepsPromise
<1>1. Init => Promise!Init
  BY DEF Init, Promise!Init, standing
<1>2. TypeOK /\ Contract /\ [Next]_vars => [Promise!Next]_standing
  <2>1. CASE UNCHANGED vars
    BY <2>1 DEF vars, dbVars, standing
  <2> QED BY <2>1, RunKeepsPromise, AdminsKeepPromise DEF Next, Stands
<1> QED
  BY <1>1, <1>2, ContractInit, ContractNext, TypeCorrect, PTL DEF Spec, KeepsPromise, Promise!Spec

-----------------------------------------------------------------------------
(***************************************************************************)
(* Exams, for any editors, dates and bounds.                               *)
(*                                                                         *)
(* ServiceSuffices needs that no instance in flight breaks the constraint, *)
(* which is an invariant of the row and of all instances together: an      *)
(* update saves what it has loaded.  The age limits follow from their      *)
(* definition, in every state.                                             *)
(***************************************************************************)

\* The row and the instances satisfy examcycle_published_requires_verification.
Sound(r) == r.verified \in BOOLEAN /\ r.published \in BOOLEAN /\ Constraint(r)

Copies == instance = [e \in Editors |-> instance[e]]

RowsSound ==
  /\ Sound(cycle)
  /\ Copies
  /\ holding \subseteq Editors
  /\ \A e \in Editors : Sound(instance[e])

\* A change that is accepted, or valid as a form, leaves the constraint true.
LEMMA AcceptedIsSound ==
  ASSUME NEW r, Sound(r), NEW ch \in Changes, ~Refused(r, ch)
  PROVE  Sound(Updated(r, ch))
<1>1. ch.verified \in Flags /\ ch.published \in Flags
  BY DEF Changes
<1>2. CASE ch.verified = {}
  <2>1. Get(ch.verified, r.verified) = r.verified
    BY <1>2 DEF Get
  <2>2. CASE ch.published = {}
    BY <1>2, <2>1, <2>2 DEF Sound, Constraint, Refused, Updated, Unpublishes, Get
  <2>3. CASE ch.published = {TRUE}
    BY <1>2, <2>1, <2>3 DEF Sound, Constraint, Refused, Updated, Unpublishes, Get
  <2>4. CASE ch.published = {FALSE}
    BY <1>2, <2>1, <2>4 DEF Sound, Constraint, Refused, Updated, Unpublishes, Get
  <2> QED BY <1>1, <2>2, <2>3, <2>4 DEF Flags
<1>3. CASE ch.verified = {TRUE}
  <2>1. Get(ch.verified, r.verified) = TRUE
    BY <1>3 DEF Get
  <2>2. Get(ch.published, r.published) \in BOOLEAN
    BY <1>1 DEF Flags, Get, Sound
  <2> QED BY <1>3, <2>1, <2>2 DEF Sound, Constraint, Updated, Unpublishes
<1>4. CASE ch.verified = {FALSE}
  <2>1. Get(ch.verified, r.verified) = FALSE
    BY <1>4 DEF Get
  <2>2. ch.published # {TRUE}
    BY <2>1 DEF Refused
  <2>3. CASE r.published
    BY <1>4, <2>1, <2>3 DEF Sound, Constraint, Updated, Unpublishes
  <2>4. CASE ~r.published
    <3>1. Get(ch.published, r.published) = FALSE
      BY <1>1, <2>2, <2>4 DEF Flags, Get, Sound
    <3> QED BY <1>4, <2>1, <2>4, <3>1 DEF Sound, Constraint, Updated, Unpublishes
  <2> QED BY <2>3, <2>4
<1> QED BY <1>1, <1>2, <1>3, <1>4 DEF Flags

LEMMA FreshIsSound == Sound(Fresh)
  BY DEF Sound, Fresh, Constraint

\* Whoever drops an instance holds nothing that breaks the constraint.
LEMMA DropKeeps ==
  ASSUME RowsSound, NEW e \in Editors, Drop(e)
  PROVE  Copies' /\ holding' \subseteq Editors /\ \A x \in Editors : Sound(instance'[x])
  BY FreshIsSound DEF RowsSound, Copies, Drop

LEMMA InitSound == ExamsInit => RowsSound
  BY FreshIsSound DEF ExamsInit, RowsSound, Copies

LEMMA StepSound == RowsSound /\ [ExamsNext]_examsVars => RowsSound'
<1> SUFFICES ASSUME RowsSound, [ExamsNext]_examsVars PROVE RowsSound'
  OBVIOUS
<1>1. ASSUME NEW e \in Editors, Load(e) PROVE RowsSound'
  <2>1. /\ cycle' = cycle
        /\ instance' = [instance EXCEPT ![e] = cycle]
        /\ holding' = holding \cup {e}
    BY <1>1 DEF Load
  <2> QED BY <2>1 DEF RowsSound, Copies
<1>2. ASSUME NEW e \in Editors, Refuse(e) PROVE RowsSound'
  <2>1. cycle' = cycle /\ Drop(e)
    BY <1>2 DEF Refuse
  <2> QED BY <2>1, DropKeeps DEF RowsSound
<1>3. ASSUME NEW e \in Editors, NEW ch \in Changes, Update(e, ch) PROVE RowsSound'
  <2>1. cycle' = Updated(instance[e], ch) /\ ~Refused(instance[e], ch) /\ Drop(e)
    BY <1>3 DEF Update
  <2>2. Sound(Updated(instance[e], ch))
    BY <2>1, AcceptedIsSound DEF RowsSound
  <2> QED BY <2>1, <2>2, DropKeeps DEF RowsSound
<1>4. ASSUME NEW e \in Editors, NEW ch \in Changes, SaveForm(e, ch) PROVE RowsSound'
  <2>1. Drop(e) /\ Constraint(cycle')
    BY <1>4 DEF SaveForm
  <2>2. /\ cycle'.verified = Get(ch.verified, instance[e].verified)
        /\ cycle'.published = Get(ch.published, instance[e].published)
    BY <1>4 DEF SaveForm
  <2>3. ch.verified \in Flags /\ ch.published \in Flags /\ Sound(instance[e])
    BY DEF Changes, RowsSound
  <2>4. cycle'.verified \in BOOLEAN /\ cycle'.published \in BOOLEAN
    BY <2>2, <2>3 DEF Flags, Get, Sound
  <2> QED BY <2>1, <2>4, DropKeeps DEF RowsSound, Sound
<1>5. CASE UNCHANGED examsVars
  BY <1>5 DEF examsVars, RowsSound, Copies
<1> QED BY <1>1, <1>2, <1>3, <1>4, <1>5 DEF ExamsNext

\* The service layer is enough: update_exam_cycle never hands the database a cycle that
\* is published and not verified.
THEOREM ServiceAlwaysSuffices == ExamsSpec => []ServiceSuffices
<1>1. ASSUME RowsSound PROVE ServiceSuffices
  <2> SUFFICES ASSUME NEW e \in holding, NEW ch \in Changes, ~Refused(instance[e], ch)
               PROVE  Constraint(Updated(instance[e], ch))
    BY DEF ServiceSuffices
  <2>1. Sound(instance[e])
    BY <1>1 DEF RowsSound
  <2> QED BY <2>1, AcceptedIsSound DEF Sound
<1> QED BY <1>1, InitSound, StepSound, PTL DEF ExamsSpec

-----------------------------------------------------------------------------
(* The log of the dates *)

LogRow == [field : CycleFields, old : Dates, new : Dates]

\* Rows, instances and the log keep their dates.
DatesTyped ==
  /\ cycle.date \in [CycleFields -> Dates]
  /\ \A e \in Editors : instance[e].date \in [CycleFields -> Dates]
  /\ log \in Seq(LogRow)

\* A new row of the log says the date of its field, and leaves what the log said before
\* it, and what it says of other fields, as it was.
LEMMA NewRowSays ==
  ASSUME NEW l \in Seq(LogRow), NEW x \in LogRow, NEW f, NEW d
  PROVE  /\ \A n \in 0..Len(l) : Says(l, n, f, d) => Says(Append(l, x), n, f, d)
         /\ x.field = f => Says(Append(l, x), Len(l) + 1, f, x.new)
         /\ x.field # f /\ Says(l, Len(l), f, d) => Says(Append(l, x), Len(l) + 1, f, d)
<1> DEFINE m == Append(l, x)
           Rows(n) == {i \in 1..n : l[i].field = f}
           NewRows(n) == {i \in 1..n : m[i].field = f}
<1>1. /\ Len(l) \in Nat
      /\ \A i \in 1..Len(l) : m[i] = l[i]
      /\ m[Len(l) + 1] = x
  OBVIOUS
<1> HIDE DEF m
<1>2. \A n \in 0..Len(l) : NewRows(n) = Rows(n)
  BY <1>1
<1>3. ASSUME NEW n \in 0..Len(l), Says(l, n, f, d) PROVE Says(m, n, f, d)
  <2>1. CASE Rows(n) = {} /\ d = NoDate
    BY <1>2, <2>1 DEF Says
  <2>2. ASSUME NEW last \in Rows(n), \A i \in Rows(n) : i <= last, d = l[last].new
        PROVE  Says(m, n, f, d)
    <3>1. m[last] = l[last]
      BY <1>1
    <3> QED BY <1>2, <2>2, <3>1 DEF Says
  <2> QED BY <1>3, <2>1, <2>2 DEF Says
<1>4. ASSUME x.field = f PROVE Says(m, Len(l) + 1, f, x.new)
  <2>1. Len(l) + 1 \in NewRows(Len(l) + 1)
    BY <1>1, <1>4
  <2>2. \A i \in NewRows(Len(l) + 1) : i <= Len(l) + 1
    BY <1>1
  <2> QED BY <1>1, <2>1, <2>2 DEF Says
<1>5. ASSUME x.field # f, Says(l, Len(l), f, d) PROVE Says(m, Len(l) + 1, f, d)
  <2>1. NewRows(Len(l) + 1) = NewRows(Len(l))
    BY <1>1, <1>5
  <2>2. Says(m, Len(l), f, d)
    BY <1>1, <1>3, <1>5
  <2> QED BY <2>1, <2>2 DEF Says
<1> QED BY <1>3, <1>4, <1>5 DEF m

\* So do a fresh instance and what is left when one is dropped.
LEMMA FreshDates == Fresh.date \in [CycleFields -> Dates]
  BY ExamsAssumption DEF Fresh, Dates, NoDate

LEMMA DropDates ==
  ASSUME Copies, DatesTyped, NEW e \in Editors, Drop(e)
  PROVE  \A x \in Editors : instance'[x].date \in [CycleFields -> Dates]
  BY FreshDates DEF Copies, DatesTyped, Drop

\* Changes name at most one date.
LEMMA ChangesAreDates ==
  ASSUME NEW ch \in Changes
  PROVE  \/ DOMAIN ch.date = {}
         \/ \E f \in CycleFields : f \in Edited /\ DOMAIN ch.date = {f} /\ ch.date[f] \in Dates
<1>1. ch.date \in {[f \in {} |-> NoDate]} \cup UNION {[{f} -> Dates] : f \in Edited}
  BY DEF Changes
<1>2. CASE ch.date = [f \in {} |-> NoDate]
  BY <1>2
<1>3. ASSUME NEW f \in Edited, ch.date \in [{f} -> Dates]
      PROVE  \E g \in CycleFields : g \in Edited /\ DOMAIN ch.date = {g} /\ ch.date[g] \in Dates
  BY <1>3, ExamsAssumption
<1> QED BY <1>1, <1>2, <1>3

\* An update keeps the types of the dates.
LEMMA UpdatedDates ==
  ASSUME NEW r, r.date \in [CycleFields -> Dates], NEW ch \in Changes
  PROVE  Updated(r, ch).date \in [CycleFields -> Dates]
  BY ChangesAreDates DEF Updated

\* The inductive invariant.
LogRight == DatesTyped /\ DatesLogged

LEMMA InitLogs == ExamsInit => LogRight
<1> SUFFICES ASSUME ExamsInit PROVE LogRight
  OBVIOUS
<1>1. DatesTyped
  BY FreshDates DEF ExamsInit, DatesTyped
<1>2. DatesLogged
  BY DEF ExamsInit, DatesLogged, Says, Fresh
<1> QED BY <1>1, <1>2 DEF LogRight

\* A save of a row that changes no date unlogged keeps the log right.
LEMMA UnloggedSave ==
  ASSUME LogRight, DatesTyped', log' = log, bypassed \subseteq bypassed',
         \A f \in CycleFields \ bypassed' : cycle'.date[f] = cycle.date[f]
  PROVE  LogRight'
<1>1. DatesLogged'
  BY DEF LogRight, DatesLogged, Says
<1> QED BY <1>1 DEF LogRight

\* An update logs the date it changes, from the date its instance has, which is the
\* cycle's unless the field is bypassed.
LEMMA UpdateLogs ==
  ASSUME LogRight, Copies, NEW e \in Editors, NEW ch \in Changes, Update(e, ch)
  PROVE  LogRight'
<1> DEFINE mine == instance[e]
<1>0. mine.date \in [CycleFields -> Dates] /\ cycle.date \in [CycleFields -> Dates] /\ log \in Seq(LogRow)
  BY DEF LogRight, DatesTyped
<1>1. /\ cycle' = Updated(mine, ch)
      /\ bypassed' = bypassed \cup Overwritten(mine)
      /\ Drop(e)
      /\ \/ ChangedDates(mine, ch) = {} /\ log' = log
         \/ \E f \in ChangedDates(mine, ch) : log' = Append(log, NewChange(mine, f, ch))
  BY DEF Update
<1>2. \A x \in Editors : instance'[x].date \in [CycleFields -> Dates]
  BY <1>1, DropDates DEF LogRight
<1>3. cycle'.date \in [CycleFields -> Dates]
  BY <1>0, <1>1, UpdatedDates
<1>4. \A f \in CycleFields \ bypassed' : mine.date[f] = cycle.date[f]
  BY <1>1 DEF Overwritten
<1>5. \A f \in CycleFields : cycle'.date[f] = IF f \in DOMAIN ch.date THEN ch.date[f] ELSE mine.date[f]
  BY <1>1 DEF Updated
<1>6. CASE ChangedDates(mine, ch) = {} /\ log' = log
  <2>1. DatesTyped'
    BY <1>0, <1>2, <1>3, <1>6 DEF DatesTyped
  <2>2. \A f \in CycleFields \ bypassed' : cycle'.date[f] = cycle.date[f]
    BY <1>4, <1>5, <1>6 DEF ChangedDates
  <2> QED BY <1>1, <1>6, <2>1, <2>2, UnloggedSave
<1>7. ASSUME NEW g \in ChangedDates(mine, ch), log' = Append(log, NewChange(mine, g, ch))
      PROVE  LogRight'
  <2> DEFINE x == NewChange(mine, g, ch)
  <2>1. g \in CycleFields /\ DOMAIN ch.date = {g} /\ ch.date[g] \in Dates
    BY <1>7, ChangesAreDates DEF ChangedDates
  <2>2. x \in LogRow /\ x.field = g /\ x.old = mine.date[g] /\ x.new = cycle'.date[g]
    BY <1>0, <1>5, <2>1 DEF NewChange, LogRow
  <2> HIDE DEF x
  <2>3. log' \in Seq(LogRow) /\ Len(log') = Len(log) + 1 /\ Len(log) \in Nat /\ log'[Len(log) + 1] = x
          /\ \A i \in 1..Len(log) : log'[i] = log[i]
          /\ DOMAIN log = 1..Len(log) /\ DOMAIN log' = 1..(Len(log) + 1)
    BY <1>0, <1>7, <2>2 DEF x
  <2>4. DatesTyped'
    BY <1>2, <1>3, <2>3 DEF DatesTyped
  <2>5. ASSUME NEW f \in CycleFields \ bypassed'
        PROVE  /\ \A i \in DOMAIN log' : log'[i].field = f => Says(log', i - 1, f, log'[i].old)
               /\ Says(log', Len(log'), f, cycle'.date[f])
    <3>1. f \notin bypassed /\ mine.date[f] = cycle.date[f]
      BY <1>1, <1>4
    <3>2. /\ \A i \in DOMAIN log : log[i].field = f => Says(log, i - 1, f, log[i].old)
          /\ Says(log, Len(log), f, cycle.date[f])
      BY <3>1 DEF LogRight, DatesLogged
    <3>3. log' = Append(log, x)
      BY <1>7 DEF x
    <3>4. \A d : \A n \in 0..Len(log) : Says(log, n, f, d) => Says(log', n, f, d)
      BY ONLY <1>0, <2>2, <3>3, NewRowSays
    <3>5. ASSUME NEW i \in 1..Len(log), log'[i].field = f PROVE Says(log', i - 1, f, log'[i].old)
      <4>1. Says(log, i - 1, f, log[i].old) /\ log'[i].old = log[i].old
        BY <2>3, <3>2, <3>5
      <4>2. i - 1 \in 0..Len(log)
        BY <2>3
      <4> QED BY <3>4, <4>1, <4>2
    <3>6. ASSUME log'[Len(log) + 1].field = f
          PROVE  Says(log', Len(log), f, log'[Len(log) + 1].old)
      <4>1. f = g /\ log'[Len(log) + 1].old = cycle.date[f]
        BY <2>2, <2>3, <3>1, <3>6
      <4> QED BY <2>3, <3>2, <3>4, <4>1
    <3>7. Says(log', Len(log) + 1, f, cycle'.date[f])
      <4>1. CASE f = g
        BY ONLY <1>0, <2>2, <3>3, <4>1, NewRowSays
      <4>2. CASE f # g
        <5>1. cycle'.date[f] = cycle.date[f]
          BY <1>5, <2>1, <3>1, <4>2
        <5> QED BY ONLY <1>0, <2>2, <3>2, <3>3, <4>2, <5>1, NewRowSays
      <4> QED BY <4>1, <4>2
    <3> QED BY <2>3, <3>5, <3>6, <3>7
  <2>6. DatesLogged'
    BY <2>5 DEF DatesLogged
  <2> QED BY <2>4, <2>6 DEF LogRight
<1> QED BY <1>1, <1>6, <1>7

LEMMA StepLogs == RowsSound /\ LogRight /\ [ExamsNext]_examsVars => LogRight'
<1> SUFFICES ASSUME RowsSound, LogRight, [ExamsNext]_examsVars PROVE LogRight'
  OBVIOUS
<1> USE DEF RowsSound
<1>1. ASSUME NEW e \in Editors, Load(e) PROVE LogRight'
  <2>1. DatesTyped'
    BY <1>1 DEF Load, LogRight, DatesTyped, Copies
  <2> QED BY <1>1, <2>1, UnloggedSave DEF Load
<1>2. ASSUME NEW e \in Editors, Refuse(e) PROVE LogRight'
  <2>1. Drop(e) /\ UNCHANGED <<cycle, log, bypassed>>
    BY <1>2 DEF Refuse
  <2>2. DatesTyped'
    BY <2>1, DropDates DEF LogRight, DatesTyped
  <2> QED BY <2>1, <2>2, UnloggedSave
<1>3. ASSUME NEW e \in Editors, NEW ch \in Changes, Update(e, ch) PROVE LogRight'
  BY <1>3, UpdateLogs
<1>4. ASSUME NEW e \in Editors, NEW ch \in Changes, SaveForm(e, ch) PROVE LogRight'
  <2>1. /\ cycle'.date = Updated(instance[e], ch).date
        /\ bypassed' = bypassed \cup {f \in CycleFields : cycle'.date[f] # cycle.date[f]}
        /\ Drop(e)
        /\ log' = log
    BY <1>4 DEF SaveForm, Overwritten
  <2>2. cycle'.date \in [CycleFields -> Dates]
    BY <2>1, UpdatedDates DEF LogRight, DatesTyped
  <2>3. DatesTyped'
    BY <2>1, <2>2, DropDates DEF LogRight, DatesTyped
  <2>4. \A f \in CycleFields \ bypassed' : cycle'.date[f] = cycle.date[f]
    BY <2>1
  <2> QED BY <2>1, <2>3, <2>4, UnloggedSave
<1>5. CASE UNCHANGED examsVars
  BY <1>5, UnloggedSave DEF examsVars, LogRight, DatesTyped
<1> QED BY <1>1, <1>2, <1>3, <1>4, <1>5 DEF ExamsNext

\* The log leads to the dates of the cycle, but for the fields the form or an outdated
\* instance has overwritten.
THEOREM DatesAlwaysLogged == ExamsSpec => []DatesLogged
<1>1. LogRight => DatesLogged
  BY DEF LogRight
<1> QED BY <1>1, InitSound, StepSound, InitLogs, StepLogs, PTL DEF ExamsSpec

-----------------------------------------------------------------------------
(* Types of the exams *)

\* The type of one row of the cycle, or instance of it.
CycleTyped(r) ==
  /\ r.verified \in BOOLEAN
  /\ r.published \in BOOLEAN
  /\ r.date \in [CycleFields -> Dates]
  /\ \A f \in CycleFields \ Edited : r.date[f] = NoDate

LEMMA FreshTyped == CycleTyped(Fresh)
  BY FreshDates DEF Fresh, CycleTyped

\* What an update and a form make of a row.
LEMMA ChangedTyped ==
  ASSUME NEW r, CycleTyped(r), NEW ch \in Changes
  PROVE  /\ CycleTyped(Updated(r, ch))
         /\ CycleTyped([verified |-> Get(ch.verified, r.verified),
                        published |-> Get(ch.published, r.published),
                        date |-> Updated(r, ch).date])
<1> DEFINE d == [f \in CycleFields |-> IF f \in DOMAIN ch.date THEN ch.date[f] ELSE r.date[f]]
           v == Get(ch.verified, r.verified)
           p == Get(ch.published, r.published)
<1>1. v \in BOOLEAN /\ p \in BOOLEAN
  <2>1. /\ ch.verified \in {{}, {TRUE}, {FALSE}} /\ ch.published \in {{}, {TRUE}, {FALSE}}
        /\ r.verified \in BOOLEAN /\ r.published \in BOOLEAN
    BY DEF Changes, Flags, CycleTyped
  <2>2. \A c \in {{}, {TRUE}, {FALSE}}, old \in BOOLEAN : Get(c, old) \in BOOLEAN
    BY DEF Get
  <2> QED BY <2>1, <2>2
<1>2. d \in [CycleFields -> Dates]
  BY ChangesAreDates DEF CycleTyped
<1>3. ASSUME NEW f \in CycleFields \ Edited PROVE d[f] = NoDate
  BY ChangesAreDates DEF CycleTyped
<1>4. Updated(r, ch).date = d /\ Updated(r, ch).verified = v
  BY DEF Updated
<1>5. Updated(r, ch).published = IF Unpublishes(r, ch) THEN FALSE ELSE p
  BY DEF Updated
<1> HIDE DEF d, v, p
<1>6. CycleTyped(Updated(r, ch))
  <2>1. Updated(r, ch).published \in BOOLEAN
    BY <1>1, <1>5
  <2> QED BY <1>1, <1>2, <1>3, <1>4, <2>1 DEF CycleTyped
<1>7. CycleTyped([verified |-> v, published |-> p, date |-> d])
  BY <1>1, <1>2, <1>3 DEF CycleTyped
<1> QED BY <1>4, <1>6, <1>7 DEF v, p

CatalogueTyped ==
  /\ CycleTyped(cycle) /\ \A e \in Editors : CycleTyped(instance[e])
  /\ holding \subseteq Editors
  /\ Len(log) \in 0..MaxChanges
  /\ \A i \in DOMAIN log : log[i].field \in Edited /\ log[i].old # log[i].new
  /\ bypassed \subseteq Edited

LEMMA DropTyped ==
  ASSUME Copies, CatalogueTyped, NEW e \in Editors, Drop(e)
  PROVE  (\A x \in Editors : CycleTyped(instance'[x])) /\ holding' \subseteq Editors
  BY FreshTyped DEF Copies, CatalogueTyped, Drop

\* The fields in which two rows differ are among the edited ones.
LEMMA OverwrittenEdited ==
  ASSUME NEW r, CycleTyped(r), CycleTyped(cycle)
  PROVE  Overwritten(r) \subseteq Edited
  BY DEF Overwritten, CycleTyped

LEMMA InitTyped == ExamsInit => CatalogueTyped
  BY FreshTyped, ExamsAssumption DEF ExamsInit, CatalogueTyped, Dates, NoDate

LEMMA UpdateTyped ==
  ASSUME Copies, LogRight, CatalogueTyped, NEW e \in Editors, NEW ch \in Changes, Update(e, ch)
  PROVE  CatalogueTyped'
<1> DEFINE mine == instance[e]
<1>1. /\ cycle' = Updated(mine, ch)
      /\ bypassed' = bypassed \cup Overwritten(mine)
      /\ Drop(e)
  BY DEF Update
<1>2. CycleTyped(mine) /\ CycleTyped(cycle)
  BY DEF CatalogueTyped
<1>3. CycleTyped(cycle')
  BY <1>1, <1>2, ChangedTyped
<1>4. (\A x \in Editors : CycleTyped(instance'[x])) /\ holding' \subseteq Editors
  BY <1>1, DropTyped
<1>5. bypassed' \subseteq Edited
  BY <1>1, <1>2, OverwrittenEdited DEF CatalogueTyped
<1>6. /\ Len(log') \in 0..MaxChanges
      /\ \A i \in DOMAIN log' : log'[i].field \in Edited /\ log'[i].old # log'[i].new
  <2>1. CASE log' = log
    BY <2>1 DEF CatalogueTyped
  <2>2. ASSUME NEW g \in ChangedDates(mine, ch), log' = Append(log, NewChange(mine, g, ch))
        PROVE  /\ Len(log') \in 0..MaxChanges
               /\ \A i \in DOMAIN log' : log'[i].field \in Edited /\ log'[i].old # log'[i].new
    <3> DEFINE x == NewChange(mine, g, ch)
    <3>1. g \in CycleFields /\ g \in Edited /\ DOMAIN ch.date = {g} /\ ch.date[g] \in Dates
          /\ ch.date[g] # mine.date[g]
      BY <2>2, ChangesAreDates DEF ChangedDates
    <3>2. x.field \in Edited /\ x.old # x.new
      BY <3>1 DEF NewChange
    <3>3. x \in LogRow
      BY <1>2, <3>1 DEF NewChange, LogRow, CycleTyped
    <3>4. Cardinality(DOMAIN ch.date) = 1
      BY <3>1, FS_Singleton
    <3>5. Len(log) + 1 <= MaxChanges /\ Len(log) \in 0..MaxChanges /\ MaxChanges \in Nat
      BY <3>4, ExamsAssumption DEF Update, CatalogueTyped
    <3> HIDE DEF x
    <3>6. log \in Seq(LogRow) /\ log' = Append(log, x)
      BY <2>2 DEF LogRight, DatesTyped, x
    <3>7. /\ Len(log') = Len(log) + 1 /\ DOMAIN log' = 1..(Len(log) + 1) /\ DOMAIN log = 1..Len(log)
          /\ log'[Len(log) + 1] = x /\ \A i \in 1..Len(log) : log'[i] = log[i]
      BY <3>3, <3>6
    <3>8. ASSUME NEW i \in DOMAIN log' PROVE log'[i].field \in Edited /\ log'[i].old # log'[i].new
      <4>1. CASE i = Len(log) + 1
        BY <3>2, <3>7, <4>1
      <4>2. CASE i \in 1..Len(log)
        BY <3>7, <4>2 DEF CatalogueTyped
      <4> QED BY <3>5, <3>7, <4>1, <4>2
    <3>9. Len(log') \in 0..MaxChanges
      BY <3>5, <3>7
    <3> QED BY <3>8, <3>9
  <2> QED BY <2>1, <2>2 DEF Update
<1> QED BY <1>1, <1>3, <1>4, <1>5, <1>6 DEF CatalogueTyped

LEMMA StepTyped == RowsSound /\ LogRight /\ CatalogueTyped /\ [ExamsNext]_examsVars => CatalogueTyped'
<1> SUFFICES ASSUME RowsSound, LogRight, CatalogueTyped, [ExamsNext]_examsVars
             PROVE  CatalogueTyped'
  OBVIOUS
<1> USE DEF RowsSound
<1>1. ASSUME NEW e \in Editors, Load(e) PROVE CatalogueTyped'
  BY <1>1 DEF Load, CatalogueTyped, Copies
<1>2. ASSUME NEW e \in Editors, Refuse(e) PROVE CatalogueTyped'
  <2>1. Drop(e) /\ UNCHANGED <<cycle, log, bypassed>>
    BY <1>2 DEF Refuse
  <2> QED BY <2>1, DropTyped DEF CatalogueTyped
<1>3. ASSUME NEW e \in Editors, NEW ch \in Changes, Update(e, ch) PROVE CatalogueTyped'
  BY <1>3, UpdateTyped
<1>4. ASSUME NEW e \in Editors, NEW ch \in Changes, SaveForm(e, ch) PROVE CatalogueTyped'
  <2>1. /\ cycle' = [verified |-> Get(ch.verified, instance[e].verified),
                     published |-> Get(ch.published, instance[e].published),
                     date |-> Updated(instance[e], ch).date]
        /\ bypassed' = bypassed \cup Overwritten(cycle')
        /\ Drop(e)
        /\ UNCHANGED log
    BY <1>4 DEF SaveForm
  <2>2. CycleTyped(instance[e]) /\ CycleTyped(cycle)
    BY DEF CatalogueTyped
  <2>3. CycleTyped(cycle')
    BY <2>1, <2>2, ChangedTyped
  <2>4. Overwritten(cycle') \subseteq Edited
    BY <2>2, <2>3, OverwrittenEdited
  <2> QED BY <2>1, <2>3, <2>4, DropTyped DEF CatalogueTyped
<1>5. CASE UNCHANGED examsVars
  BY <1>5 DEF examsVars, CatalogueTyped
<1> QED BY <1>1, <1>2, <1>3, <1>4, <1>5 DEF ExamsNext

\* Rows, instances and the log keep their types: an entry of the log is a change of an
\* edited field, and no other field ever gets a date.
THEOREM ExamsTypeCorrect == ExamsSpec => []ExamsTypeOK
<1>1. CatalogueTyped => ExamsTypeOK
  BY DEF CatalogueTyped, CycleTyped, ExamsTypeOK
<1> QED BY <1>1, InitSound, StepSound, InitLogs, StepLogs, InitTyped, StepTyped, PTL DEF ExamsSpec

-----------------------------------------------------------------------------
(* The age limits *)

LEMMA MaxOfTwo ==
  ASSUME NEW a \in Int, NEW b \in Int
  PROVE  Max({a, b}) = IF a >= b THEN a ELSE b
<1> DEFINE m == IF a >= b THEN a ELSE b
<1>1. m \in {a, b} /\ \A y \in {a, b} : m >= y
  OBVIOUS
<1>2. \A x \in {a, b} : (\A y \in {a, b} : x >= y) => x = m
  OBVIOUS
<1> QED BY <1>1, <1>2 DEF Max

\* compute_effective_max_age, for any relaxations and years of service: no status costs a
\* candidate years, and no two relaxations are added up.
THEOREM StatusAlwaysHelps == StatusHelps(Nat, Nat)
<1> DEFINE Helps(r, c, years, p, s) ==
             LET extra == Extra(r, c, p, s, years)
             IN /\ extra >= Extra(r, c, FALSE, s, years)
                /\ extra >= Extra(r, c, p, FALSE, years)
                /\ extra = 0 \/ \E k \in Relaxations : extra <= r[k]
<1> SUFFICES ASSUME NEW r \in [Relaxations -> Nat], NEW c \in {"SC", "OBC", "General"},
                    NEW years \in Nat
             PROVE  \A p, s \in BOOLEAN : Helps(r, c, years, p, s)
  BY DEF StatusHelps
<1> DEFINE category == ByCategory(r, c)
           disabled == ForDisabled(r, c)
           service == ForServicemen(r, years)
<1>1. /\ category \in Nat
      /\ category = 0 \/ \E k \in Relaxations : category <= r[k]
  BY DEF ByCategory, Relaxations
<1>2. disabled \in Nat /\ \E k \in Relaxations : disabled <= r[k]
  BY DEF ForDisabled, Relaxations
<1>3. r.service \in Nat
  BY DEF Relaxations
<1>4. service = IF 0 >= r.service - years THEN 0 ELSE r.service - years
  BY <1>3, MaxOfTwo DEF ForServicemen
<1>5. service \in Nat /\ service <= r.service
  BY <1>3, <1>4
<1>6. "service" \in Relaxations
  BY DEF Relaxations
<1>7. Max({category, disabled}) = IF category >= disabled THEN category ELSE disabled
  BY <1>1, <1>2, MaxOfTwo
<1> DEFINE both == Max({category, disabled})
<1>8. /\ both \in Nat /\ both >= category
      /\ both = 0 \/ \E k \in Relaxations : both <= r[k]
  BY <1>1, <1>2, <1>7
<1>9. Max({both, service}) = IF both >= service THEN both ELSE service
  BY <1>5, <1>8, MaxOfTwo
<1>10. Max({category, service}) = IF category >= service THEN category ELSE service
  BY <1>1, <1>5, MaxOfTwo
<1>11. /\ Extra(r, c, TRUE, TRUE, years) = Max({both, service})
       /\ Extra(r, c, TRUE, FALSE, years) = both
       /\ Extra(r, c, FALSE, TRUE, years) = Max({category, service})
       /\ Extra(r, c, FALSE, FALSE, years) = category
  BY DEF Extra
<1> HIDE DEF category, disabled, service, both
<1>12. Helps(r, c, years, TRUE, TRUE)
  <2>1. /\ Max({both, service}) >= Max({category, service})
        /\ Max({both, service}) >= both
        /\ Max({both, service}) = 0 \/ \E k \in Relaxations : Max({both, service}) <= r[k]
    BY <1>1, <1>5, <1>6, <1>8, <1>9, <1>10
  <2> QED BY <2>1, <1>11, Zenon
<1>13. Helps(r, c, years, TRUE, FALSE)
  <2>1. both >= category /\ both >= both
    BY <1>1, <1>8
  <2> QED BY <2>1, <1>8, <1>11, Zenon
<1>14. Helps(r, c, years, FALSE, TRUE)
  <2>1. /\ Max({category, service}) >= Max({category, service})
        /\ Max({category, service}) >= category
        /\ \/ Max({category, service}) = 0
           \/ \E k \in Relaxations : Max({category, service}) <= r[k]
    BY <1>1, <1>5, <1>6, <1>10
  <2> QED BY <2>1, <1>11, Zenon
<1>15. Helps(r, c, years, FALSE, FALSE)
  <2>1. category >= category
    BY <1>1
  <2> QED BY <2>1, <1>1, <1>11, Zenon
<1> HIDE DEF Helps
<1> QED BY <1>12, <1>13, <1>14, <1>15, Zenon
=============================================================================
