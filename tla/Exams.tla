--------------------------------- MODULE Exams ---------------------------------
(***************************************************************************)
(* The exam catalogue, src/apps/exams: one cycle of an exam, updated       *)
(* through update_exam_cycle (services.py) or the form of the ops site;    *)
(* the log of its date changes; and the age limits (services.py).          *)
(*                                                                         *)
(* Every update saves the whole instance its editor has loaded.            *)
(***************************************************************************)
EXTENDS Integers, Sequences, FiniteSets, FiniteSetsExt

CONSTANTS
  Editors,     \* whoever holds an instance of the cycle: a scrape, a human
  Edited,      \* the date fields of the cycle that change, some of CycleFields
  MaxDate,     \* bound: the last date
  MaxChanges   \* bound: the largest number of date changes on record

NoDate == 0
Dates == NoDate..MaxDate

\* date_fields
CycleFields == {"notification_date", "application_start", "application_end", "fee_last_date",
                "correction_window_start", "correction_window_end", "result_date"}

ASSUME ExamsAssumption ==
  /\ MaxDate \in Nat /\ MaxChanges \in Nat
  /\ Edited \subseteq CycleFields

VARIABLES
  cycle,     \* the row of the cycle
  instance,  \* instance[e]: the instance editor e holds
  holding,   \* the editors that hold one
  log,       \* the ExamDateChange rows, in order
  bypassed   \* history: the fields whose date was last written without a row of the log

examsVars == <<cycle, instance, holding, log, bypassed>>

\* examcycle_published_requires_verification
Constraint(row) == row.published => row.verified

Fresh == [verified |-> FALSE, published |-> FALSE, date |-> [f \in CycleFields |-> NoDate]]

ExamsInit ==
  /\ cycle = Fresh
  /\ instance = [e \in Editors |-> Fresh]
  /\ holding = {}
  /\ log = <<>>
  /\ bypassed = {}

-----------------------------------------------------------------------------
(* The cycle *)

Load(e) ==
  /\ e \notin holding
  /\ holding' = holding \cup {e}
  /\ instance' = [instance EXCEPT ![e] = cycle]
  /\ UNCHANGED <<cycle, log, bypassed>>

Drop(e) ==
  /\ holding' = holding \ {e}
  /\ instance' = [instance EXCEPT ![e] = Fresh]

\* Changes name a field or not: an absent one is {}, a present one the set of its value.
\* They name at most one date.
Flags == {{}, {TRUE}, {FALSE}}
Get(change, old) == IF change = {} THEN old ELSE CHOOSE x \in change : TRUE

Changes == [verified : Flags, published : Flags,
            date : {[f \in {} |-> NoDate]} \cup UNION {[{f} -> Dates] : f \in Edited}]

\* Publishing a cycle that is not verified, or is unverified by the same changes, is
\* refused; unverifying a published one unpublishes it.
Refused_Before(row, ch) == ch.published = {TRUE} /\ ~row.verified
Refused(row, ch) == ch.published = {TRUE} /\ ~Get(ch.verified, row.verified)

Unpublishes(row, ch) == ch.verified = {FALSE} /\ row.published

Updated(row, ch) ==
  [verified |-> Get(ch.verified, row.verified),
   published |-> IF Unpublishes(row, ch) THEN FALSE ELSE Get(ch.published, row.published),
   date |-> [f \in CycleFields |-> IF f \in DOMAIN ch.date THEN ch.date[f] ELSE row.date[f]]]

ChangedDates(row, ch) == {f \in DOMAIN ch.date : ch.date[f] # row.date[f]}

Overwritten(row) == {f \in CycleFields : row.date[f] # cycle.date[f]}

NewChange_LogsBlank(row, f, ch) == [field |-> f, old |-> NoDate, new |-> ch.date[f]]
NewChange(row, f, ch) == [field |-> f, old |-> row.date[f], new |-> ch.date[f]]

\* update_exam_cycle: a row of the log per date that differs from the instance's, then
\* the whole instance is saved.
Update(e, ch) ==
  /\ e \in holding
  /\ ~Refused(instance[e], ch)
  /\ Len(log) + Cardinality(DOMAIN ch.date) <= MaxChanges
  /\ cycle' = Updated(instance[e], ch)
  /\ \/ ChangedDates(instance[e], ch) = {} /\ log' = log
     \/ \E f \in ChangedDates(instance[e], ch) :
          log' = Append(log, NewChange(instance[e], f, ch))
  /\ bypassed' = bypassed \cup Overwritten(instance[e])
  /\ Drop(e)

\* ValidationError
Refuse(e) ==
  /\ e \in holding
  /\ \E ch \in Changes : Refused(instance[e], ch)
  /\ Drop(e)
  /\ UNCHANGED <<cycle, log, bypassed>>

\* The form of the ops site writes what it shows, after the constraint is validated,
\* and no row of the log.
SaveForm(e, ch) ==
  /\ e \in holding
  /\ LET row == [verified |-> Get(ch.verified, instance[e].verified),
                 published |-> Get(ch.published, instance[e].published),
                 date |-> Updated(instance[e], ch).date]
     IN /\ Constraint(row)
        /\ cycle' = row
        /\ bypassed' = bypassed \cup Overwritten(row)
  /\ Drop(e)
  /\ UNCHANGED log

-----------------------------------------------------------------------------
(* Age limits *)

\* compute_effective_max_age: what a candidate may exceed the limit by, for relaxations
\* r (0 where there is none) and years of service; the largest of those that apply.
ByCategory(r, category) ==
  CASE category \in {"SC", "ST"} -> r.scst [] category = "OBC" -> r.obc [] OTHER -> 0

ForDisabled(r, category) ==
  CASE category \in {"SC", "ST"} -> r.pwbdScst
    [] category = "OBC" -> r.pwbdObc
    [] OTHER -> r.pwbdGeneral

ForServicemen(r, years) == Max({0, r.service - years})


Extra(r, category, pwbd, serviceman, years) ==
  LET byCategory == ByCategory(r, category)
      extra == IF pwbd THEN Max({byCategory, ForDisabled(r, category)}) ELSE byCategory
  IN IF serviceman THEN Max({extra, ForServicemen(r, years)}) ELSE extra

-----------------------------------------------------------------------------
ExamsNext ==
  \/ \E e \in Editors : Load(e) \/ Refuse(e)
  \/ \E e \in Editors, ch \in Changes : Update(e, ch) \/ SaveForm(e, ch)

ExamsSpec == ExamsInit /\ [][ExamsNext]_examsVars

-----------------------------------------------------------------------------
(* Properties *)

\* Type invariant: rows, instances and the log keep their types, and nothing of the cycle
\* that never changes has a date.
ExamsTypeOK ==
  /\ \A row \in {cycle} \cup {instance[e] : e \in Editors} :
       /\ row.verified \in BOOLEAN
       /\ row.published \in BOOLEAN
       /\ row.date \in [CycleFields -> Dates]
       /\ \A f \in CycleFields \ Edited : row.date[f] = NoDate
  /\ holding \subseteq Editors
  /\ Len(log) <= MaxChanges
  /\ \A i \in DOMAIN log : log[i].field \in Edited /\ log[i].old # log[i].new
  /\ bypassed \subseteq Edited

\* "This is enforced at the service layer (update_exam_cycle) and by a database
\* constraint" (docs/api_v1_exams.md): the service layer is enough.  Whatever editors and
\* forms have stored since an instance was loaded, no changes that update_exam_cycle
\* accepts make the constraint fail the save.
ServiceSuffices ==
  \A e \in holding, ch \in Changes :
    ~Refused(instance[e], ch) => Constraint(Updated(instance[e], ch))

\* The first n of the given rows of the log say that the date of field f is d.
Says(changes, n, f, d) ==
  LET rows == {i \in 1..n : changes[i].field = f}
  IN  \/ rows = {} /\ d = NoDate
      \/ \E last \in rows : (\A i \in rows : i <= last) /\ d = changes[last].new

\* The log tells the dates: its rows of a field lead from no date to the date of the
\* cycle, each from where the one before ended, unless the form or an outdated instance
\* has overwritten the date.
DatesLogged ==
  \A f \in CycleFields \ bypassed :
    /\ \A i \in DOMAIN log : log[i].field = f => Says(log, i - 1, f, log[i].old)
    /\ Says(log, Len(log), f, cycle.date[f])

\* No status costs a candidate years: whatever the relaxations on record, being disabled
\* or an ex-serviceman never lowers the limit, and no relaxation is added to another.
Relaxations == {"scst", "obc", "pwbdScst", "pwbdObc", "pwbdGeneral", "service"}

StatusHelps(values, terms) ==
  \A r \in [Relaxations -> values], c \in {"SC", "OBC", "General"}, years \in terms :
    \A pwbd, serviceman \in BOOLEAN :
      LET extra == Extra(r, c, pwbd, serviceman, years)
      IN /\ extra >= Extra(r, c, FALSE, serviceman, years)
         /\ extra >= Extra(r, c, pwbd, FALSE, years)
         /\ extra = 0 \/ \E k \in Relaxations : extra <= r[k]
=============================================================================
