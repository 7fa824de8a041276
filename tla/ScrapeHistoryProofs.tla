-------------------------- MODULE ScrapeHistoryProofs --------------------------
(***************************************************************************)
(* Theorems about what the scrapes of a company leave behind: its run      *)
(* history (ScrapeHistory), for any bounds; the jobs of its board          *)
(* (JobMatching), for any postings and contents; and the conditional GET   *)
(* state of its page (Fetching), for any workers, versions and pages.      *)
(***************************************************************************)
EXTENDS ScrapeHistory, JobMatching, Fetching, TLAPS

-----------------------------------------------------------------------------
(* The operators of the run history *)

RowType == [added : BOOLEAN, missing : BOOLEAN]

\* The newest rows of a sequence of rows are such a sequence, Window rows at most.
LEMMA FirstRowsType ==
  ASSUME NEW T, NEW seq \in Seq(T)
  PROVE  /\ FirstRows(seq) \in Seq(T)
         /\ Len(FirstRows(seq)) = IF Len(seq) < Window THEN Len(seq) ELSE Window
         /\ \A i \in 1..Len(FirstRows(seq)) : FirstRows(seq)[i] = seq[i]
<1> DEFINE n == IF Len(seq) < Window THEN Len(seq) ELSE Window
<1>1. n \in Nat /\ n <= Len(seq)
  BY DEF Window
<1>2. FirstRows(seq) = [i \in 1..n |-> seq[i]]
  BY <1>1 DEF FirstRows
<1>3. \A i \in 1..n : seq[i] \in T
  BY <1>1
<1> QED BY <1>1, <1>2, <1>3

LEMMA QuietType == Quiet \in RowType
  BY DEF Quiet, RowType

LEMMA PushType ==
  ASSUME recent \in Seq(RowType), NEW row \in RowType
  PROVE  /\ Push(row) \in Seq(RowType)
         /\ Len(Push(row)) \in 0..Window
         /\ Len(Push(row)) >= 1 /\ Push(row)[1] = row
<1> DEFINE seq == <<row>> \o recent
<1>1. /\ seq \in Seq(RowType)
      /\ Len(seq) = Len(recent) + 1
      /\ seq[1] = row
      /\ Len(recent) \in Nat
  OBVIOUS
<1>2. Push(row) = FirstRows(seq)
  BY DEF Push
<1> HIDE DEF seq
<1>3. /\ FirstRows(seq) \in Seq(RowType)
      /\ Len(FirstRows(seq)) = IF Len(seq) < Window THEN Len(seq) ELSE Window
      /\ \A i \in 1..Len(FirstRows(seq)) : FirstRows(seq)[i] = seq[i]
  BY <1>1, FirstRowsType
<1> QED BY <1>1, <1>2, <1>3 DEF Window

\* The newest rows: the unended ones, then the recent ones.
LEMMA NewestRows ==
  ASSUME NEW un \in 0..Window, NEW rec \in Seq(RowType)
  PROVE  /\ Newest(un, rec) \in Seq(RowType)
         /\ Len(Newest(un, rec)) = IF un + Len(rec) < Window THEN un + Len(rec) ELSE Window
         /\ \A i \in 1..un : Newest(un, rec)[i] = Quiet
         /\ \A i \in 1..Window - un : i \in 1..Len(rec) => Newest(un, rec)[un + i] = rec[i]
<1> DEFINE open == [i \in 1..un |-> Quiet]
           seq == open \o rec
<1>1. open \in Seq(RowType) /\ Len(open) = un /\ un \in Nat
  BY QuietType DEF Window
<1>2. /\ seq \in Seq(RowType)
      /\ Len(seq) = un + Len(rec)
      /\ \A i \in 1..un : seq[i] = Quiet
      /\ \A i \in 1..Len(rec) : seq[un + i] = rec[i]
      /\ Len(rec) \in Nat
  BY <1>1
<1>3. Newest(un, rec) = FirstRows(seq)
  BY DEF Newest
<1> HIDE DEF seq, open
<1>4. /\ FirstRows(seq) \in Seq(RowType)
      /\ Len(FirstRows(seq)) = IF Len(seq) < Window THEN Len(seq) ELSE Window
      /\ \A i \in 1..Len(FirstRows(seq)) : FirstRows(seq)[i] = seq[i]
  BY <1>2, FirstRowsType
<1>5. Newest(un, rec) \in Seq(RowType)
  BY ONLY <1>3, <1>4
<1> DEFINE n == Len(rec)
           k == Len(FirstRows(seq))
<1>6. n \in Nat /\ un \in 0..Window /\ Window \in Nat /\ Len(seq) = un + n
  BY <1>2 DEF Window
<1>7. k = IF un + n < Window THEN un + n ELSE Window
  BY ONLY <1>4, <1>6
<1> HIDE DEF n, k
<1>8. ASSUME NEW i \in 1..un PROVE Newest(un, rec)[i] = Quiet
  <2>1. i \in 1..k
    BY ONLY <1>6, <1>7
  <2>2. FirstRows(seq)[i] = seq[i]
    BY <1>4, <2>1 DEF k
  <2> QED BY <1>2, <1>3, <2>2
<1>9. ASSUME NEW i \in 1..Window - un, i \in 1..n PROVE Newest(un, rec)[un + i] = rec[i]
  <2>1. un + i \in 1..k
    BY ONLY <1>6, <1>7, <1>9
  <2>2. FirstRows(seq)[un + i] = seq[un + i]
    BY <1>4, <2>1 DEF k
  <2> QED BY <1>2, <1>3, <1>9, <2>2 DEF n
<1>10. Len(Newest(un, rec)) = IF un + n < Window THEN un + n ELSE Window
  BY <1>3, <1>7 DEF k
<1> QED BY <1>5, <1>8, <1>9, <1>10 DEF n

\* An adapted interval is one, and only quiet rows lengthen it.
LEMMA AdaptiveFollows ==
  ASSUME NEW c \in Intervals, NEW three \in Seq(RowType), Len(three) \in 0..Window
  PROVE  /\ Adaptive(c, three) \in Intervals
         /\ Adaptive(c, three) > c =>
              Len(three) = Window /\ \A i \in 1..Window : three[i] = Quiet
         /\ Len(three) = Window /\ three[1].added =>
              Adaptive(c, three) = MinInterval \/ 2 * Adaptive(c, three) <= c
<1>1. /\ MinInterval \in Nat \ {0} /\ MaxInterval \in Nat /\ MinInterval <= MaxInterval
      /\ c \in Nat /\ MinInterval <= c /\ c <= MaxInterval
  BY HistoryAssumption DEF Intervals
<1>2. /\ CapInterval(2 * c) \in Intervals
      /\ FloorInterval(c \div 2) \in Intervals
      /\ FloorInterval(c \div 2) <= c
      /\ FloorInterval(c \div 2) = MinInterval \/ 2 * FloorInterval(c \div 2) <= c
  <2>1. c \div 2 \in Nat /\ 2 * (c \div 2) <= c /\ c \div 2 <= c
    BY <1>1
  <2> QED BY <1>1, <2>1 DEF CapInterval, FloorInterval, Intervals
<1>3. Window \in 1..Window /\ 1 \in 1..Window
  BY DEF Window
<1>4. three[1].added => three[1] # Quiet
  BY DEF Quiet
<1>5. PICK len \in Nat : len = Len(three)
  OBVIOUS
<1> DEFINE n == Adaptive(c, three)
<1>6. CASE Len(three) < Window
  <2>1. n = c
    BY <1>6 DEF Adaptive
  <2>2. len # Window
    <3>1. len < Window
      BY ONLY <1>5, <1>6
    <3> QED BY ONLY <3>1, len \in Nat DEF Window
  <2>3. ~(c > c)
    BY ONLY <1>1
  <2> QED BY <1>5, <2>1, <2>2, <2>3
<1>7. CASE Len(three) = Window /\ \A i \in 1..Window : three[i] = Quiet
  <2>1. n = CapInterval(2 * c)
    BY <1>5, <1>7 DEF Adaptive, Window
  <2> QED BY <1>2, <1>3, <1>4, <1>7, <2>1
<1>8. CASE Len(three) = Window /\ ~ \A i \in 1..Window : three[i] = Quiet
  <2>1. n = IF three[1].added THEN FloorInterval(c \div 2) ELSE c
    BY <1>5, <1>8 DEF Adaptive, Window
  <2>2. n \in Intervals /\ n <= c
    BY <1>1, <1>2, <2>1
  <2>3. n \in Nat
    BY <1>1, <2>2 DEF Intervals
  <2> HIDE DEF n
  <2>4. ~(n > c)
    BY <1>1, <2>2, <2>3
  <2>5. three[1].added => n = MinInterval \/ 2 * n <= c
    BY <1>2, <2>1
  <2> QED BY <2>2, <2>4, <2>5 DEF n
<1>9. Len(three) < Window \/ Len(three) = Window
  BY <1>5 DEF Window
<1> QED BY <1>6, <1>7, <1>8, <1>9

-----------------------------------------------------------------------------
(* The run history *)

\* Every reachable state is well typed.
LEMMA InitTyped == Init => TypeOK
  BY HistoryAssumption
  DEF Init, TypeOK, NoRun, Attempts, Intervals, Founds, Window

RunType == [phase : {"none", "on", "judged", "dead"}, attempt : Attempts, loaded : Intervals,
            found : Founds, verdict : {"trusted", "quarantined", "untrusted"},
            added : BOOLEAN, missing : BOOLEAN]

LEMMA NoRunType == NoRun \in RunType /\ [NoRun EXCEPT !.phase = "dead"] \in RunType
<1>1. 0 \in Attempts /\ MinInterval \in Intervals /\ 0 \in Founds
  BY HistoryAssumption DEF Attempts, Intervals, Founds
<1> QED BY <1>1 DEF NoRun, RunType

LEMMA HistoryTyped == TypeOK /\ [Next]_vars => TypeOK'
<1> SUFFICES ASSUME TypeOK, [Next]_vars PROVE TypeOK'
  OBVIOUS
<1> USE HistoryAssumption
<1>0. /\ kind \in {"ats", "own"}
      /\ queue \subseteq Attempts
      /\ run \in RunType
      /\ unended \in 0..Window
      /\ recent \in Seq(RowType) /\ Len(recent) \in 0..Window
      /\ baseline \in Founds /\ lastGood \in Founds /\ doubted \subseteq Founds
      /\ interval \in Intervals
  <2>1. \A n \in Nat : n <= Window => n \in 0..Window
    BY DEF Window
  <2>2. recent \in Seq(RowType) => Len(recent) \in Nat
    OBVIOUS
  <2> QED BY <2>1, <2>2 DEF TypeOK, RunType, RowType
<1>1. run.loaded \in Intervals /\ run.found \in Founds /\ run.attempt \in Attempts
  BY <1>0 DEF RunType
<1>2. \A x \in RowType : Push(x) \in Seq(RowType) /\ Len(Push(x)) \in 0..Window
  BY <1>0, PushType
<1>3. ASSUME LeaveOpen PROVE unended' \in 0..Window
  BY <1>0, <1>3 DEF LeaveOpen, Window
<1>4. ASSUME NEW rec \in Seq(RowType)
      PROVE  Adaptive(run.loaded, Newest(unended, rec)) \in Intervals
  <2>1. Newest(unended, rec) \in Seq(RowType) /\ Len(Newest(unended, rec)) \in 0..Window
    <3>1. Newest(unended, rec) \in Seq(RowType)
      BY <1>0, NewestRows
    <3>2. /\ unended \in 0..Window
          /\ Len(Newest(unended, rec)) = IF unended + Len(rec) < Window THEN unended + Len(rec)
                                         ELSE Window
      BY <1>0, NewestRows
    <3>3. PICK n \in Nat : n = Len(rec)
      OBVIOUS
    <3>4. Len(Newest(unended, rec)) \in 0..Window
      BY ONLY <3>2, <3>3 DEF Window
    <3> QED BY <3>1, <3>4
  <2> QED BY <1>1, <2>1, AdaptiveFollows
<1> DEFINE Typed == /\ kind' \in {"ats", "own"}
                    /\ queue' \subseteq Attempts
                    /\ run' \in RunType
                    /\ unended' \in 0..Window
                    /\ recent' \in Seq(RowType) /\ Len(recent') \in 0..Window
                    /\ baseline' \in Founds /\ lastGood' \in Founds /\ doubted' \subseteq Founds
                    /\ interval' \in Intervals
<1>5. SUFFICES Typed
  <2>1. \A n \in 0..Window : n <= Window
    BY DEF Window
  <2> QED BY <2>1 DEF TypeOK, RunType, RowType
<1> USE DEF rows, history
<1>6. CASE Dispatch
  BY <1>0, <1>6 DEF Dispatch, Attempts
<1>7. ASSUME NEW n \in Attempts, SkipLocked(n) PROVE Typed
  BY <1>0, <1>7 DEF SkipLocked
<1>8. ASSUME NEW n \in Attempts, Start(n) PROVE Typed
  <2>1. run' \in RunType
    BY <1>0, <1>8, NoRunType DEF Start, RunType
  <2> QED BY <1>0, <1>8, <2>1 DEF Start
<1>9. CASE NoSource
  BY <1>0, <1>2, <1>9, NoRunType, QuietType DEF NoSource, Ending
<1>10. CASE RetryLater
  <2>1. run.attempt + 1 \in Attempts
    BY <1>1, <1>10 DEF RetryLater, Attempts
  <2> QED BY <1>0, <1>3, <1>10, <2>1, NoRunType DEF RetryLater, Ending
<1>11. CASE Fail
  BY <1>0, <1>1, <1>11, NoRunType DEF Fail, Ending, SaveCompany
<1>12. CASE Deferred
  BY <1>0, <1>2, <1>12, NoRunType, QuietType DEF Deferred, Ending, Founds
<1>13. CASE Unchanged
  <2>1. recent' \in Seq(RowType) /\ Len(recent') \in 0..Window
    BY <1>2, <1>13, QuietType DEF Unchanged
  <2>2. interval' \in Intervals
    BY <1>4, <1>13, <2>1 DEF Unchanged
  <2> QED BY <1>0, <1>13, <2>1, <2>2, NoRunType DEF Unchanged, Ending
<1>14. ASSUME NEW found \in Founds, NEW added \in BOOLEAN, NEW missing \in BOOLEAN,
              Judge(found, added, missing)
       PROVE  Typed
  <2>1. Verdict(found, baseline) \in {"trusted", "quarantined", "untrusted"}
    BY DEF Verdict
  <2>2. run' \in RunType
    BY <1>0, <1>14, <2>1 DEF Judge, RunType
  <2> QED BY <1>0, <1>14, <2>2 DEF Judge
<1>15. CASE Finish
  <2>1. [added |-> run.added, missing |-> run.missing] \in RowType
    BY <1>0 DEF RunType, RowType
  <2>2. recent' \in Seq(RowType) /\ Len(recent') \in 0..Window
    BY <1>0, <1>2, <1>15, <2>1 DEF Finish
  <2>3. interval' \in Intervals
    BY <1>1, <1>4, <1>15, <2>2 DEF Finish
  <2>4. /\ baseline' \in Founds /\ lastGood' \in Founds /\ doubted' \subseteq Founds
    BY <1>0, <1>1, <1>15 DEF Finish, Baseline
  <2> QED BY <1>0, <1>15, <2>2, <2>3, <2>4, NoRunType DEF Finish
<1>16. CASE Kill
  <2>1. unended' \in 0..Window
    BY <1>0, <1>3, <1>16 DEF Kill
  <2>2. queue' \subseteq Attempts
    BY <1>0, <1>1, <1>16 DEF Kill
  <2> QED BY <1>0, <1>16, <2>1, <2>2, NoRunType DEF Kill
<1>17. CASE LockExpires
  BY <1>0, <1>17, NoRunType DEF LockExpires
<1>18. CASE SetInterval
  BY <1>0, <1>18 DEF SetInterval
<1>19. CASE UNCHANGED vars
  BY <1>0, <1>19 DEF vars
<1> QED
  BY <1>6, <1>7, <1>8, <1>9, <1>10, <1>11, <1>12, <1>13, <1>14, <1>15, <1>16, <1>17, <1>18, <1>19
  DEF Next

\* Every reachable state of the run history is well typed.
THEOREM HistoryTypeCorrect == Spec => []TypeOK
  BY InitTyped, HistoryTyped, PTL DEF Spec

-----------------------------------------------------------------------------
(* Strikes *)

\* The baseline is the last trusted listing, or one quarantined since; a page of its
\* own has neither.
BaselineKnown ==
  /\ kind = "ats" => (doubted = {} /\ baseline = lastGood) \/ baseline \in doubted
  /\ kind = "own" => lastGood = 0 /\ doubted = {} /\ run.phase # "judged"
  /\ run.phase = "judged" => run.verdict = Verdict(run.found, baseline)

LEMMA BaselineNext == TypeOK /\ BaselineKnown /\ [Next]_vars => BaselineKnown'
<1> SUFFICES ASSUME TypeOK, BaselineKnown, [Next]_vars PROVE BaselineKnown'
  OBVIOUS
<1> USE DEF BaselineKnown, rows, history
<1>0. kind \in {"ats", "own"} /\ run \in RunType
  BY DEF TypeOK, RunType
<1>1. NoRun.phase = "none" /\ [NoRun EXCEPT !.phase = "dead"].phase = "dead"
  BY DEF NoRun
<1>2. CASE UNCHANGED <<kind, baseline, history>> /\ run'.phase # "judged"
  BY <1>2
<1>3. CASE UNCHANGED <<kind, run, baseline, history>>
  BY <1>3
<1>4. CASE Deferred
  BY <1>1, <1>4 DEF Deferred, Ending
<1>5. ASSUME NEW found \in Founds, NEW added \in BOOLEAN, NEW missing \in BOOLEAN,
             Judge(found, added, missing)
      PROVE  BaselineKnown'
  <2>1. run'.verdict = Verdict(found, baseline) /\ run'.found = found
    BY <1>0, <1>5 DEF Judge, RunType
  <2> QED BY <1>5, <2>1 DEF Judge
<1>6. CASE Finish
  <2>1. kind' = "ats" /\ kind = "ats" /\ run'.phase # "judged"
    BY <1>0, <1>1, <1>6 DEF Finish
  <2>2. run.verdict = Verdict(run.found, baseline)
    BY <1>6 DEF Finish
  <2>3. run.found \in Nat
    BY <1>0 DEF RunType, Founds
  <2>4. CASE run.found = 0
    BY <1>6, <2>1, <2>2, <2>4 DEF Finish, Verdict, Baseline
  <2>5. CASE run.found > 0
    BY <1>6, <2>1, <2>2, <2>3, <2>5 DEF Finish, Verdict, Baseline
  <2> QED BY <2>3, <2>4, <2>5
<1>7. ASSUME NEW n \in Attempts, Start(n) PROVE run'.phase # "judged"
  BY <1>7 DEF Start, NoRun
<1> QED
  BY <1>1, <1>2, <1>3, <1>4, <1>5, <1>6, <1>7
  DEF Next, Dispatch, SkipLocked, Start, NoSource, RetryLater, Fail, Unchanged, Ending, Kill,
      LockExpires, SetInterval, vars

\* One truncated answer of the board costs no job a strike.
THEOREM StrikesAreConfirmed == Spec => []StrikesConfirmed
<1>1. Init => BaselineKnown
  BY DEF Init, BaselineKnown, NoRun
<1>2. TypeOK /\ BaselineKnown => StrikesConfirmed
  <2> SUFFICES ASSUME TypeOK, BaselineKnown, run.phase = "judged", run.verdict = "trusted"
               PROVE  /\ run.found > 0
                      /\ \/ lastGood < MinBaseline
                         \/ 2 * run.found >= lastGood
                         \/ \E q \in doubted : q < MinBaseline \/ 2 * run.found >= q
    BY DEF StrikesConfirmed
  <2>1. /\ run.found \in Nat /\ baseline \in Nat /\ lastGood \in Nat /\ MinBaseline \in Nat
        /\ kind \in {"ats", "own"}
    BY HistoryAssumption DEF TypeOK, Founds
  <2>2. run.found # 0 /\ ~(baseline >= MinBaseline /\ 2 * run.found < baseline)
    BY DEF BaselineKnown, Verdict
  <2>3. baseline = lastGood \/ baseline \in doubted
    BY <2>1 DEF BaselineKnown
  <2> QED BY <2>1, <2>2, <2>3
<1> QED BY <1>1, <1>2, BaselineNext, HistoryTypeCorrect, PTL DEF Spec

-----------------------------------------------------------------------------
(* The interval *)

\* An adaptation that lengthens the interval has seen quiet rows only; one after a busy
\* run, with every row finished, shortens it.
LEMMA AdaptationFollows ==
  ASSUME NEW c \in Intervals, NEW un \in 0..Window, NEW rec \in Seq(RowType),
         Len(rec) \in 0..Window, NEW n, n = Adaptive(c, Newest(un, rec))
  PROVE  /\ n > c => \A i \in 1..Window - un : i \in DOMAIN rec /\ rec[i] = Quiet
         /\ un = 0 /\ Len(rec) = Window /\ rec[1].added => n = MinInterval \/ 2 * n <= c
<1> DEFINE three == Newest(un, rec)
<1>1. PICK l \in 0..Window : l = Len(rec)
  OBVIOUS
<1>2. /\ three \in Seq(RowType)
      /\ Len(three) = IF un + l < Window THEN un + l ELSE Window
      /\ \A i \in 1..Window - un : i \in 1..l => three[un + i] = rec[i]
  BY <1>1, NewestRows
<1> HIDE DEF three
<1>3. Len(three) \in 0..Window
  BY ONLY <1>1, <1>2, un \in 0..Window DEF Window
<1>4. /\ n > c => Len(three) = Window /\ \A i \in 1..Window : three[i] = Quiet
      /\ Len(three) = Window /\ three[1].added => n = MinInterval \/ 2 * n <= c
  BY <1>2, <1>3, AdaptiveFollows DEF three
<1>5. ASSUME n > c, NEW i \in 1..Window - un PROVE i \in DOMAIN rec /\ rec[i] = Quiet
  <2>1. un + l >= Window
    BY ONLY <1>1, <1>2, <1>4, <1>5, un \in 0..Window DEF Window
  <2>2. i \in 1..l /\ un + i \in 1..Window
    BY ONLY <1>1, <2>1, un \in 0..Window, i \in 1..Window - un DEF Window
  <2>3. DOMAIN rec = 1..l
    BY <1>1
  <2> QED BY <1>2, <1>4, <1>5, <2>2, <2>3
<1>6. ASSUME un = 0, l = Window, rec[1].added PROVE n = MinInterval \/ 2 * n <= c
  <2>1. Len(three) = Window
    BY ONLY <1>1, <1>2, <1>6 DEF Window
  <2>2. 1 \in 1..Window - un /\ 1 \in 1..l /\ un + 1 = 1
    BY ONLY <1>6 DEF Window
  <2>3. three[1] = rec[1]
    BY <1>2, <2>2
  <2> QED BY <1>4, <1>6, <2>1, <2>3
<1> QED BY <1>1, <1>5, <1>6

\* The interval follows the rows.
THEOREM IntervalAlwaysFollows == Spec => IntervalFollows
<1> DEFINE Lengthens == (Unchanged \/ Finish) /\ interval' > run.loaded =>
                          \A i \in 1..Window - unended : i \in DOMAIN recent' /\ recent'[i] = Quiet
           Shortens == Finish /\ run.verdict = "trusted" /\ run.added /\ unended = 0
                         /\ Len(recent') = Window =>
                         interval' = MinInterval \/ 2 * interval' <= run.loaded
<1>1. TypeOK /\ TypeOK' /\ [Next]_vars => [Lengthens /\ Shortens]_vars
  <2> SUFFICES ASSUME TypeOK, TypeOK' PROVE Lengthens /\ Shortens
    OBVIOUS
  <2>1. /\ run \in RunType /\ unended \in 0..Window /\ recent \in Seq(RowType)
        /\ recent' \in Seq(RowType) /\ run.loaded \in Intervals
    BY DEF TypeOK, RunType, RowType
  <2>2. Len(recent') \in 0..Window
    <3>1. \A n \in Nat : n <= Window => n \in 0..Window
      BY DEF Window
    <3>2. Len(recent') \in Nat
      BY <2>1
    <3> QED BY <3>1, <3>2 DEF TypeOK
  <2>3. ASSUME interval' = Adaptive(run.loaded, Newest(unended, recent'))
        PROVE  /\ interval' > run.loaded =>
                    \A i \in 1..Window - unended : i \in DOMAIN recent' /\ recent'[i] = Quiet
               /\ unended = 0 /\ Len(recent') = Window /\ recent'[1].added =>
                    interval' = MinInterval \/ 2 * interval' <= run.loaded
    BY <2>1, <2>2, <2>3, AdaptationFollows
  <2>4. CASE Unchanged
    BY <2>3, <2>4 DEF Unchanged, Finish, Ending
  <2>5. CASE Finish /\ run.verdict = "trusted"
    <3>1. interval' = Adaptive(run.loaded, Newest(unended, recent'))
      BY <2>5 DEF Finish
    <3>2. recent' = Push([added |-> run.added, missing |-> run.missing])
      BY <2>5 DEF Finish
    <3>3. [added |-> run.added, missing |-> run.missing] \in RowType
      BY <2>1 DEF RunType, RowType
    <3>4. recent'[1] = [added |-> run.added, missing |-> run.missing]
      BY <2>1, <3>2, <3>3, PushType
    <3> QED BY <2>3, <3>1, <3>4
  <2>6. CASE Finish /\ run.verdict # "trusted"
    <3>1. interval' = run.loaded
      BY <2>6 DEF Finish
    <3>2. run.loaded \in Nat
      BY <2>1, HistoryAssumption DEF Intervals
    <3>3. ~(interval' > run.loaded)
      BY ONLY <3>1, <3>2
    <3> QED BY <2>6, <3>3
  <2> QED BY <2>4, <2>5, <2>6
<1> QED BY <1>1, HistoryTypeCorrect, PTL DEF Spec, IntervalFollows

-----------------------------------------------------------------------------
(***************************************************************************)
(* The jobs of a board.                                                    *)
(*                                                                         *)
(* RowsDistinct is NoClash and that no job has the id of another's URL;    *)
(* without it two jobs could be updated to the same URL.  Settled holds    *)
(* because the jobs of postings a run has dealt with belong to them until  *)
(* the page changes: what another posting could take from them would have  *)
(* to be alike.                                                            *)
(***************************************************************************)

Headings == {c.heading : c \in Contents} \cup {"edited"}
Bodies == {c.body : c \in Contents} \cup {NoBody}

Hashes == [heading : Headings, body : Bodies, padded : BOOLEAN]

Job == [id : Postings, url : Postings, heading : Headings, body : Bodies, hash : Hashes]

MatchingTypeOK ==
  /\ board \in Boards
  /\ page \in [Postings -> Contents \cup {NoContent}]
  /\ jobs \in Seq(Job)
  /\ scrape \in [open : BOOLEAN, todo : SUBSET Postings, seen : SUBSET Postings,
                 failed : SUBSET Postings]
  /\ calm \in 0..2

LEMMA HashType ==
  ASSUME NEW h \in Headings, NEW b \in Bodies, NEW s \in BOOLEAN
  PROVE  PayloadHash(h, b, s) \in Hashes
  BY DEF PayloadHash, Hashes

LEMMA JobType ==
  ASSUME NEW p \in Postings, NEW u \in Postings, NEW h \in Headings, NEW b \in Bodies,
         NEW k \in Hashes
  PROVE  [id |-> p, url |-> u, heading |-> h, body |-> b, hash |-> k] \in Job
  BY DEF Job

LEMMA PayloadType ==
  ASSUME NEW c \in Contents
  PROVE  /\ Payload(c).heading \in Headings \ {"edited"}
         /\ Payload(c).body \in Bodies
         /\ Payload(c) = [heading |-> Payload(c).heading, body |-> Payload(c).body]
<1>1. c = [heading |-> c.heading, body |-> c.body] /\ c.heading # "edited"
  BY ContentsAssumption
<1>2. c.heading \in Headings /\ c.body \in Bodies /\ NoBody \in Bodies
  BY DEF Headings, Bodies
<1>3. CASE board = "smartrecruiters"
  <2>1. Payload(c) = [heading |-> c.heading, body |-> NoBody]
    BY <1>1, <1>3 DEF Payload
  <2> QED BY <1>1, <1>2, <2>1
<1>4. CASE board # "smartrecruiters"
  BY <1>1, <1>2, <1>4 DEF Payload
<1> QED BY <1>3, <1>4

\* A created and an updated job: the URL is the posting's, the content its payload's but
\* for an edited title, the hash that of the content.
LEMMA CreatedJob ==
  ASSUME NEW p \in Postings, NEW c \in Contents
  PROVE  LET j == Created(p, Payload(c))
         IN  /\ j \in Job /\ j.id = p /\ j.url = p
             /\ j.heading = Payload(c).heading /\ j.body = Payload(c).body
             /\ j.hash = PayloadHash(j.heading, j.body, TRUE)
<1> DEFINE h == Payload(c).heading  b == Payload(c).body
<1>1. h \in Headings /\ b \in Bodies
  BY PayloadType
<1>2. PayloadHash(h, b, TRUE) \in Hashes
  BY <1>1, HashType
<1>3. Created(p, Payload(c)) = [id |-> p, url |-> p, heading |-> h, body |-> b,
                                hash |-> PayloadHash(h, b, TRUE)]
  BY DEF Created
<1> HIDE DEF h, b
<1>4. Created(p, Payload(c)) \in Job
  BY <1>1, <1>2, <1>3, JobType
<1> QED BY <1>3, <1>4 DEF h, b

LEMMA UpdatedJob ==
  ASSUME NEW r \in Job, NEW p \in Postings, NEW c \in Contents
  PROVE  LET j == Updated(r, p, Payload(c))
         IN  /\ j \in Job /\ j.id = r.id /\ j.url = p
             /\ j.heading \in {Payload(c).heading, "edited"} /\ j.body = Payload(c).body
             /\ j.hash = PayloadHash(j.heading, j.body, FALSE)
<1> DEFINE pay == Payload(c)
           h == IF r.heading = "edited" THEN "edited" ELSE pay.heading
           now == UpdateValues(r, pay)
<1>1. /\ pay.heading \in Headings /\ pay.body \in Bodies
      /\ pay["heading"] = pay.heading /\ pay["body"] = pay.body
  BY PayloadType
<1>2. h \in Headings
  BY <1>1 DEF Headings
<1>3. r = [id |-> r.id, url |-> r.url, heading |-> r.heading, body |-> r.body, hash |-> r.hash]
      /\ r.id \in Postings /\ DOMAIN r = {"id", "url", "heading", "body", "hash"}
  BY DEF Job
<1> HIDE DEF pay
<1>4. now = [id |-> r.id, url |-> r.url, heading |-> h, body |-> pay.body, hash |-> r.hash]
  BY <1>3 DEF UpdateValues, Updatable, ManuallyEdited
<1>5. PayloadHash(h, pay.body, FALSE) \in Hashes
  BY <1>1, <1>2, HashType
<1>6. Updated(r, p, pay) = [now EXCEPT !.url = p, !.hash = PayloadHash(now.heading, now.body, FALSE)]
  BY DEF Updated
<1> HIDE DEF now, h
<1>7. Updated(r, p, pay) = [id |-> r.id, url |-> p, heading |-> h, body |-> pay.body,
                            hash |-> PayloadHash(h, pay.body, FALSE)]
  BY <1>4, <1>6
<1>8. Updated(r, p, pay) \in Job
  BY <1>1, <1>2, <1>3, <1>5, <1>7, JobType
<1>9. h \in {pay.heading, "edited"}
  BY DEF h
<1> QED BY <1>7, <1>8, <1>9 DEF pay

\* The postings yet to be dealt with are on the page, and are those of a run.
TodoShown ==
  /\ scrape.todo \subseteq Shown
  /\ ~scrape.open => scrape.todo = {}

\* What an upsert of posting p does to the jobs: it appends one, or updates one it found
\* by its id, else by its URL, else by its content.
Took(i, p) ==
  \/ jobs[i].id = p
  \/ ById(p) = {} /\ jobs[i].url = p
  \/ /\ ById(p) = {} /\ ByUrl(p) = {}
     /\ jobs[i].hash = PayloadHash(Payload(page[p]).heading, Payload(page[p]).body, TRUE)

\* A job that is posting p's and says what p says.
Tells(r, p) ==
  /\ r.url = p
  /\ r.heading \in {Payload(page[p]).heading, "edited"}
  /\ r.body = Payload(page[p]).body
  /\ \E stripped \in BOOLEAN : r.hash = PayloadHash(r.heading, r.body, stripped)

LEMMA UpsertCases ==
  ASSUME MatchingTypeOK, TodoShown, NEW p \in Postings, Upsert(p)
  PROVE  /\ p \in scrape.todo /\ p \in Shown
         /\ scrape' = [scrape EXCEPT !.todo = @ \ {p}, !.seen = scrape'.seen]
         /\ UNCHANGED <<board, page, calm>>
         /\ \/ /\ ById(p) = {} /\ ByUrl(p) = {}
               /\ scrape'.seen = scrape.seen \cup {p}
               /\ \E j \in Job : j.id = p /\ Tells(j, p) /\ jobs' = Append(jobs, j)
            \/ \E i \in DOMAIN jobs, j \in Job :
                 /\ Took(i, p)
                 /\ scrape'.seen = scrape.seen \cup {jobs[i].id}
                 /\ j.id = jobs[i].id /\ Tells(j, p) /\ jobs' = [jobs EXCEPT ![i] = j]
<1> DEFINE payload == Payload(page[p])
           found == Matches(p, payload)
<1>1. /\ p \in scrape.todo /\ UNCHANGED <<board, page, calm>>
      /\ \/ /\ found = {}
            /\ jobs' = Append(jobs, Created(p, payload))
            /\ scrape' = [scrape EXCEPT !.todo = @ \ {p}, !.seen = @ \cup {p}]
         \/ \E i \in found :
              /\ jobs' = [jobs EXCEPT ![i] = Updated(@, p, payload)]
              /\ scrape' = [scrape EXCEPT !.todo = @ \ {p}, !.seen = @ \cup {jobs[i].id}]
  BY DEF Upsert
<1>2. p \in Shown /\ page[p] \in Contents
  BY <1>1 DEF TodoShown, Shown, MatchingTypeOK
<1>3. found = {} => ById(p) = {} /\ ByUrl(p) = {}
  BY DEF Matches
<1>4. \A i \in found : i \in DOMAIN jobs /\ Took(i, p)
  BY DEF Matches, Took, ById, ByUrl, ByContent
<1> HIDE DEF found
<1>5. CASE /\ found = {}
           /\ jobs' = Append(jobs, Created(p, payload))
           /\ scrape' = [scrape EXCEPT !.todo = @ \ {p}, !.seen = @ \cup {p}]
  <2>1. Created(p, payload) \in Job /\ Created(p, payload).id = p /\ Tells(Created(p, payload), p)
    BY <1>2, CreatedJob DEF Tells
  <2>2. scrape'.seen = scrape.seen \cup {p}
    BY <1>5 DEF MatchingTypeOK
  <2>3. scrape' = [scrape EXCEPT !.todo = @ \ {p}, !.seen = scrape'.seen]
    BY <1>5, <2>2
  <2> HIDE DEF payload
  <2> QED BY <1>1, <1>2, <1>3, <1>5, <2>1, <2>2, <2>3
<1>6. ASSUME NEW i \in found,
             jobs' = [jobs EXCEPT ![i] = Updated(@, p, payload)],
             scrape' = [scrape EXCEPT !.todo = @ \ {p}, !.seen = @ \cup {jobs[i].id}]
      PROVE  /\ scrape' = [scrape EXCEPT !.todo = @ \ {p}, !.seen = scrape'.seen]
             /\ \E j \in Job :
                 /\ Took(i, p)
                 /\ scrape'.seen = scrape.seen \cup {jobs[i].id}
                 /\ j.id = jobs[i].id /\ Tells(j, p) /\ jobs' = [jobs EXCEPT ![i] = j]
  <2>1. jobs[i] \in Job
    BY <1>4 DEF MatchingTypeOK
  <2>2. /\ Updated(jobs[i], p, payload) \in Job
        /\ Updated(jobs[i], p, payload).id = jobs[i].id
        /\ Tells(Updated(jobs[i], p, payload), p)
    BY ZenonT(30), <1>2, <2>1, UpdatedJob DEF Tells
  <2>3. scrape'.seen = scrape.seen \cup {jobs[i].id}
    BY <1>6 DEF MatchingTypeOK
  <2>4. scrape' = [scrape EXCEPT !.todo = @ \ {p}, !.seen = scrape'.seen]
    BY <1>6, <2>3
  <2>5. jobs' = [jobs EXCEPT ![i] = Updated(jobs[i], p, payload)]
    BY <1>6
  <2> HIDE DEF payload
  <2> QED BY <1>4, <2>2, <2>3, <2>4, <2>5
<1> QED BY <1>1, <1>2, <1>4, <1>5, <1>6

\* Every reachable state is well typed.
LEMMA MatchingTyped == MatchingTypeOK /\ TodoShown /\ [MatchingNext]_matchingVars =>
                         MatchingTypeOK' /\ TodoShown'
<1> SUFFICES ASSUME MatchingTypeOK, TodoShown, [MatchingNext]_matchingVars
             PROVE  MatchingTypeOK' /\ TodoShown'
  OBVIOUS
<1>0. /\ board \in Boards
      /\ page \in [Postings -> Contents \cup {NoContent}]
      /\ jobs \in Seq(Job)
      /\ scrape \in [open : BOOLEAN, todo : SUBSET Postings, seen : SUBSET Postings,
                     failed : SUBSET Postings]
      /\ calm \in 0..2
  BY DEF MatchingTypeOK
<1>1. NoScrape \in [open : BOOLEAN, todo : SUBSET Postings, seen : SUBSET Postings,
                    failed : SUBSET Postings]
  BY DEF NoScrape
<1>2. \A S \in SUBSET Postings : [NoScrape EXCEPT !.open = TRUE, !.todo = S] \in
        [open : BOOLEAN, todo : SUBSET Postings, seen : SUBSET Postings, failed : SUBSET Postings]
  BY DEF NoScrape
<1>3. CASE StartScrape
  <2>1. scrape'.todo = Shown /\ scrape'.open
    BY <1>3 DEF StartScrape, NoScrape
  <2> QED BY <1>0, <1>2, <1>3, <2>1 DEF StartScrape, MatchingTypeOK, TodoShown, Shown
<1>4. ASSUME NEW p \in Postings, Upsert(p) PROVE MatchingTypeOK' /\ TodoShown'
  <2>1. jobs' \in Seq(Job) /\ scrape'.seen \subseteq Postings
    <3>1. CASE \E j \in Job : jobs' = Append(jobs, j) /\ scrape'.seen = scrape.seen \cup {p}
      BY <1>0, <3>1
    <3>2. ASSUME NEW i \in DOMAIN jobs, NEW j \in Job, jobs' = [jobs EXCEPT ![i] = j],
                 scrape'.seen = scrape.seen \cup {jobs[i].id}
          PROVE  jobs' \in Seq(Job) /\ scrape'.seen \subseteq Postings
      <4>1. jobs[i].id \in Postings
        <5>1. jobs[i] \in Job
          BY <1>0
        <5> QED BY <5>1 DEF Job
      <4> QED BY <1>0, <3>2, <4>1
    <3> QED BY <1>4, <3>1, <3>2, UpsertCases
  <2>2. /\ scrape' = [scrape EXCEPT !.todo = @ \ {p}, !.seen = scrape'.seen]
        /\ UNCHANGED <<board, page, calm>> /\ p \in scrape.todo
    BY <1>4, UpsertCases
  <2>3. scrape'.open = scrape.open /\ scrape'.todo = scrape.todo \ {p}
    BY <1>0, <2>2
  <2> QED BY <1>0, <2>1, <2>2, <2>3 DEF MatchingTypeOK, TodoShown, Shown
<1>5. ASSUME NEW p \in Postings, Fails(p) PROVE MatchingTypeOK' /\ TodoShown'
  BY <1>0, <1>5 DEF Fails, MatchingTypeOK, TodoShown, Shown
<1>6. CASE End
  <2>1. calm' \in 0..2
    BY <1>0, <1>6 DEF End
  <2> QED BY <1>0, <1>1, <1>6, <2>1 DEF End, MatchingTypeOK, TodoShown, NoScrape
<1>7. CASE Crash
  BY <1>0, <1>1, <1>7 DEF Crash, MatchingTypeOK, TodoShown, NoScrape
<1>8. ASSUME NEW p \in Postings, PageChanges(p) PROVE MatchingTypeOK' /\ TodoShown'
  BY <1>0, <1>8 DEF PageChanges, MatchingTypeOK, TodoShown
<1>9. ASSUME NEW i \in DOMAIN jobs, EditTitle(i) PROVE MatchingTypeOK' /\ TodoShown'
  <2>1. jobs' \in Seq(Job)
    <3>1. jobs[i] \in Job
      BY <1>0
    <3>2. "edited" \in Headings /\ jobs[i].body \in Bodies
      BY <3>1 DEF Headings, Job
    <3>3. PayloadHash("edited", jobs[i].body, FALSE) \in Hashes
      BY <3>2, HashType
    <3>4. [jobs[i] EXCEPT !.heading = "edited",
                          !.hash = PayloadHash("edited", jobs[i].body, FALSE)] \in Job
      BY <3>1, <3>2, <3>3 DEF Job
    <3>5. jobs' = [jobs EXCEPT ![i] = [jobs[i] EXCEPT !.heading = "edited",
                                       !.hash = PayloadHash("edited", jobs[i].body, FALSE)]]
      BY <1>9 DEF EditTitle
    <3> QED BY <1>0, <3>4, <3>5
  <2> QED BY <1>0, <1>9, <2>1 DEF EditTitle, MatchingTypeOK, TodoShown, Shown
<1>10. CASE UNCHANGED matchingVars
  BY <1>0, <1>10 DEF matchingVars, MatchingTypeOK, TodoShown, Shown
<1> QED
  BY <1>3, <1>4, <1>5, <1>6, <1>7, <1>8, <1>9, <1>10 DEF MatchingNext

\* No two jobs have the same id or URL, and none the id of another's URL.
RowsDistinct ==
  \A i, j \in DOMAIN jobs :
    \/ jobs[i].id = jobs[j].id
    \/ jobs[i].url = jobs[j].url
    \/ jobs[i].id = jobs[j].url
    => i = j

LEMMA UpsertDistinct ==
  ASSUME MatchingTypeOK, TodoShown, RowsDistinct, NEW p \in Postings, Upsert(p)
  PROVE  RowsDistinct'
<1>0. jobs \in Seq(Job) /\ DOMAIN jobs = 1..Len(jobs) /\ Len(jobs) \in Nat
  BY DEF MatchingTypeOK
<1>1. ASSUME ById(p) = {}, ByUrl(p) = {}, NEW j \in Job, j.id = p, j.url = p,
             jobs' = Append(jobs, j)
      PROVE  RowsDistinct'
  <2>1. /\ DOMAIN jobs' = 1..(Len(jobs) + 1)
        /\ jobs'[Len(jobs) + 1] = j
        /\ \A i \in 1..Len(jobs) : jobs'[i] = jobs[i]
    BY <1>0, <1>1
  <2>2. \A i \in 1..Len(jobs) : jobs[i].id # p /\ jobs[i].url # p
    BY <1>0, <1>1 DEF ById, ByUrl
  <2> QED BY <1>0, <1>1, <2>1, <2>2 DEF RowsDistinct
<1>2. ASSUME NEW i \in DOMAIN jobs, NEW j \in Job, Took(i, p), j.id = jobs[i].id, j.url = p,
             jobs' = [jobs EXCEPT ![i] = j]
      PROVE  RowsDistinct'
  <2>1. \A k \in DOMAIN jobs \ {i} : jobs[k].id # p /\ jobs[k].url # p
    BY <1>2 DEF Took, ById, ByUrl, RowsDistinct
  <2>2. DOMAIN jobs' = DOMAIN jobs
    BY <1>2
  <2>3. /\ jobs'[i].id = jobs[i].id /\ jobs'[i].url = p
        /\ \A k \in DOMAIN jobs \ {i} : jobs'[k] = jobs[k]
    BY <1>2
  <2> QED BY <2>1, <2>2, <2>3 DEF RowsDistinct
<1>3. \A j : Tells(j, p) => j.url = p
  BY DEF Tells
<1> QED BY <1>1, <1>2, <1>3, UpsertCases

LEMMA MatchingDistinct ==
  MatchingTypeOK /\ TodoShown /\ RowsDistinct /\ [MatchingNext]_matchingVars => RowsDistinct'
<1> SUFFICES ASSUME MatchingTypeOK, TodoShown, RowsDistinct, [MatchingNext]_matchingVars
             PROVE  RowsDistinct'
  OBVIOUS
<1>1. CASE UNCHANGED jobs
  BY <1>1 DEF RowsDistinct
<1>2. ASSUME NEW i \in DOMAIN jobs, EditTitle(i) PROVE RowsDistinct'
  <2>1. DOMAIN jobs' = DOMAIN jobs
    BY <1>2 DEF EditTitle
  <2>2. \A k \in DOMAIN jobs : jobs'[k].id = jobs[k].id /\ jobs'[k].url = jobs[k].url
    <3>1. jobs[i] \in Job
      BY DEF MatchingTypeOK
    <3> QED BY <1>2, <3>1 DEF EditTitle, Job
  <2> QED BY <2>1, <2>2 DEF RowsDistinct
<1> QED
  BY <1>1, <1>2, UpsertDistinct
  DEF MatchingNext, StartScrape, Fails, End, Crash, PageChanges, matchingVars

-----------------------------------------------------------------------------
(* The strike round *)

\* The postings the run has dealt with.
Dealt == Shown \ (scrape.todo \cup scrape.failed)

FoundSeen ==
  scrape.open => \A i \in DOMAIN jobs : jobs[i].id \in Dealt => jobs[i].id \in scrape.seen

LEMMA UpsertSees ==
  ASSUME MatchingTypeOK, TodoShown, FoundSeen, NEW p \in Postings, Upsert(p)
  PROVE  FoundSeen'
<1>0. jobs \in Seq(Job) /\ DOMAIN jobs = 1..Len(jobs) /\ Len(jobs) \in Nat
  BY DEF MatchingTypeOK
<1>1. /\ scrape' = [scrape EXCEPT !.todo = @ \ {p}, !.seen = scrape'.seen]
      /\ UNCHANGED <<board, page>> /\ p \in scrape.todo
  BY UpsertCases
<1>2. /\ scrape'.open = scrape.open /\ scrape'.failed = scrape.failed
      /\ scrape'.todo = scrape.todo \ {p}
  BY <1>1 DEF MatchingTypeOK
<1>3. scrape.open
  BY <1>1 DEF TodoShown, MatchingTypeOK
<1>4. Dealt' \subseteq Dealt \cup {p}
  BY <1>1, <1>2 DEF Dealt, Shown
<1>5. \A i \in DOMAIN jobs : jobs[i].id \in Dealt => jobs[i].id \in scrape.seen
  BY <1>3 DEF FoundSeen
<1>6. ASSUME NEW j, j.id = p, jobs' = Append(jobs, j), ById(p) = {},
             scrape'.seen = scrape.seen \cup {p}
      PROVE  FoundSeen'
  <2>1. /\ DOMAIN jobs' = 1..(Len(jobs) + 1)
        /\ jobs'[Len(jobs) + 1] = j
        /\ \A i \in 1..Len(jobs) : jobs'[i] = jobs[i]
    BY <1>0, <1>6
  <2>2. \A i \in DOMAIN jobs' : i \in DOMAIN jobs \/ i = Len(jobs) + 1
    BY <1>0, <2>1
  <2> QED BY <1>0, <1>4, <1>5, <1>6, <2>1, <2>2 DEF FoundSeen
<1>7. ASSUME NEW i \in DOMAIN jobs, NEW j, Took(i, p), j.id = jobs[i].id,
             jobs' = [jobs EXCEPT ![i] = j], scrape'.seen = scrape.seen \cup {jobs[i].id}
      PROVE  FoundSeen'
  <2>1. \A k \in DOMAIN jobs : jobs'[k].id = jobs[k].id
    BY <1>7
  <2>2. \A k \in DOMAIN jobs : jobs[k].id = p => p \in scrape'.seen \/ k = i \/ jobs[i].id = p
    BY <1>7 DEF Took, ById
  <2>3. DOMAIN jobs' = DOMAIN jobs
    BY <1>7
  <2> QED BY <1>4, <1>5, <1>7, <2>1, <2>2, <2>3 DEF FoundSeen
<1> QED BY <1>6, <1>7, UpsertCases

LEMMA MatchingSees ==
  MatchingTypeOK /\ TodoShown /\ FoundSeen /\ [MatchingNext]_matchingVars => FoundSeen'
<1> SUFFICES ASSUME MatchingTypeOK, TodoShown, FoundSeen, [MatchingNext]_matchingVars
             PROVE  FoundSeen'
  OBVIOUS
<1>1. CASE StartScrape
  <2>1. Dealt' = {}
    BY <1>1 DEF StartScrape, Dealt, Shown, NoScrape
  <2> QED BY <2>1 DEF FoundSeen
<1>2. ASSUME NEW p \in Postings, Fails(p) PROVE FoundSeen'
  <2>1. Dealt' \subseteq Dealt /\ scrape'.open = scrape.open /\ scrape'.seen = scrape.seen
    BY <1>2 DEF Fails, Dealt, Shown, MatchingTypeOK
  <2> QED BY <1>2, <2>1 DEF FoundSeen, Fails
<1>3. CASE ~scrape'.open
  BY <1>3 DEF FoundSeen
<1>4. ASSUME NEW i \in DOMAIN jobs, EditTitle(i) PROVE FoundSeen'
  <2>1. DOMAIN jobs' = DOMAIN jobs
    BY <1>4 DEF EditTitle
  <2>2. \A k \in DOMAIN jobs : jobs'[k].id = jobs[k].id
    <3>1. jobs[i] \in Job
      BY DEF MatchingTypeOK
    <3> QED BY <1>4, <3>1 DEF EditTitle, Job
  <2>3. scrape' = scrape /\ Dealt' = Dealt
    BY <1>4 DEF EditTitle, Dealt, Shown
  <2> QED BY <2>1, <2>2, <2>3 DEF FoundSeen
<1>5. CASE UNCHANGED matchingVars
  <2>1. jobs' = jobs /\ scrape' = scrape /\ Dealt' = Dealt
    BY <1>5 DEF matchingVars, Dealt, Shown
  <2> QED BY <2>1 DEF FoundSeen
<1> QED
  BY <1>1, <1>2, <1>3, <1>4, <1>5, UpsertSees
  DEF MatchingNext, End, Crash, PageChanges, NoScrape

-----------------------------------------------------------------------------
(* The catalogue comes to mirror the board *)

Alike == \E p, q \in Shown : p # q /\ Payload(page[p]) = Payload(page[q])

\* The jobs of the postings in D tell them.
KeptIn(rs, D) == \A i \in DOMAIN rs : rs[i].id \in D => Tells(rs[i], rs[i].id)

\* Each posting in D is told by a job.
PresentIn(rs, D) == \A p \in D : \E i \in DOMAIN rs : Tells(rs[i], p)

Converges ==
  ~Alike =>
    /\ scrape.open => KeptIn(jobs, Dealt)
    /\ calm >= 1 => KeptIn(jobs, Shown)
    /\ calm >= 1 /\ scrape.open => PresentIn(jobs, Dealt)
    /\ calm = 2 => PresentIn(jobs, Shown)

\* A job that tells one posting is found by the content of another that is alike only.
LEMMA AlikeByContent ==
  ASSUME MatchingTypeOK, NEW p \in Shown, NEW q \in Shown, NEW r, Tells(r, q),
         r.hash = PayloadHash(Payload(page[p]).heading, Payload(page[p]).body, TRUE)
  PROVE  Payload(page[p]) = Payload(page[q])
<1>1. page[p] \in Contents /\ page[q] \in Contents
  BY DEF Shown, MatchingTypeOK
<1>2. /\ Payload(page[p]).heading # "edited"
      /\ Payload(page[p]) = [heading |-> Payload(page[p]).heading, body |-> Payload(page[p]).body]
      /\ Payload(page[q]) = [heading |-> Payload(page[q]).heading, body |-> Payload(page[q]).body]
  BY <1>1, PayloadType
<1>3. r.heading = Payload(page[p]).heading /\ r.body = Payload(page[p]).body
  BY DEF Tells, PayloadHash
<1>4. r.heading \in {Payload(page[q]).heading, "edited"} /\ r.body = Payload(page[q]).body
  BY DEF Tells
<1> QED BY <1>2, <1>3, <1>4

LEMMA UpsertKeeps ==
  ASSUME MatchingTypeOK, TodoShown, RowsDistinct, ~Alike, NEW p \in Postings, Upsert(p),
         NEW D \in SUBSET Shown, KeptIn(jobs, D)
  PROVE  KeptIn(jobs', D \cup {p})
<1>0. jobs \in Seq(Job) /\ DOMAIN jobs = 1..Len(jobs) /\ Len(jobs) \in Nat /\ p \in Shown
  <2>1. jobs \in Seq(Job)
    BY DEF MatchingTypeOK
  <2>2. DOMAIN jobs = 1..Len(jobs) /\ Len(jobs) \in Nat
    BY <2>1
  <2>3. p \in Shown
    BY UpsertCases, Zenon
  <2> QED BY <2>1, <2>2, <2>3
<1>1. ASSUME ById(p) = {}, NEW j, j.id = p, Tells(j, p), jobs' = Append(jobs, j)
      PROVE  KeptIn(jobs', D \cup {p})
  <2>1. /\ DOMAIN jobs' = 1..(Len(jobs) + 1)
        /\ jobs'[Len(jobs) + 1] = j
        /\ \A i \in 1..Len(jobs) : jobs'[i] = jobs[i]
    BY <1>0, <1>1
  <2>2. \A i \in DOMAIN jobs' : i \in DOMAIN jobs \/ i = Len(jobs) + 1
    BY <1>0, <2>1
  <2>3. \A i \in DOMAIN jobs : jobs[i].id # p
    BY <1>1 DEF ById
  <2> QED BY <1>0, <1>1, <2>1, <2>2, <2>3 DEF KeptIn
<1>2. ASSUME NEW i \in DOMAIN jobs, NEW j, Took(i, p), j.id = jobs[i].id, Tells(j, p),
             jobs' = [jobs EXCEPT ![i] = j]
      PROVE  KeptIn(jobs', D \cup {p})
  <2>1. DOMAIN jobs' = DOMAIN jobs /\ jobs'[i] = j
        /\ \A k \in DOMAIN jobs \ {i} : jobs'[k] = jobs[k]
    BY <1>2
  <2>2. \A k \in DOMAIN jobs \ {i} : jobs[k].id # p
    BY <1>2 DEF Took, ById, RowsDistinct
  <2>3. jobs[i].id \in D => jobs[i].id = p
    <3> SUFFICES ASSUME jobs[i].id \in D, jobs[i].id # p PROVE FALSE
      OBVIOUS
    <3>1. Tells(jobs[i], jobs[i].id) /\ jobs[i].url = jobs[i].id
      BY DEF KeptIn, Tells
    <3>2. jobs[i].hash = PayloadHash(Payload(page[p]).heading, Payload(page[p]).body, TRUE)
      BY <1>2, <3>1 DEF Took
    <3>3. Payload(page[p]) = Payload(page[jobs[i].id])
      BY <1>0, <3>1, <3>2, AlikeByContent
    <3> QED BY <1>0, <3>3 DEF Alike
  <2> QED BY <1>2, <2>1, <2>2, <2>3 DEF KeptIn
<1> QED BY <1>1, <1>2, UpsertCases

LEMMA UpsertPresent ==
  ASSUME MatchingTypeOK, TodoShown, ~Alike, NEW p \in Postings, Upsert(p),
         KeptIn(jobs, Shown), NEW D \in SUBSET Shown, PresentIn(jobs, D)
  PROVE  PresentIn(jobs', D \cup {p})
<1>0. jobs \in Seq(Job) /\ DOMAIN jobs = 1..Len(jobs) /\ Len(jobs) \in Nat /\ p \in Shown
  <2>1. jobs \in Seq(Job)
    BY DEF MatchingTypeOK
  <2>2. DOMAIN jobs = 1..Len(jobs) /\ Len(jobs) \in Nat
    BY <2>1
  <2>3. p \in Shown
    BY UpsertCases, Zenon
  <2> QED BY <2>1, <2>2, <2>3
<1>1. ASSUME NEW j, Tells(j, p), jobs' = Append(jobs, j)
      PROVE  PresentIn(jobs', D \cup {p})
  <2>1. /\ DOMAIN jobs' = 1..(Len(jobs) + 1)
        /\ jobs'[Len(jobs) + 1] = j
        /\ \A i \in 1..Len(jobs) : jobs'[i] = jobs[i]
    BY <1>0, <1>1
  <2>2. DOMAIN jobs \subseteq DOMAIN jobs' /\ Len(jobs) + 1 \in DOMAIN jobs'
    BY <1>0, <2>1
  <2> QED BY <1>0, <1>1, <2>1, <2>2 DEF PresentIn
<1>2. ASSUME NEW i \in DOMAIN jobs, NEW j, Took(i, p), Tells(j, p),
             jobs' = [jobs EXCEPT ![i] = j]
      PROVE  PresentIn(jobs', D \cup {p})
  <2>1. DOMAIN jobs' = DOMAIN jobs /\ jobs'[i] = j
        /\ \A k \in DOMAIN jobs \ {i} : jobs'[k] = jobs[k]
    BY <1>2
  <2>2. ASSUME NEW q \in D, q # p PROVE \E k \in DOMAIN jobs \ {i} : Tells(jobs[k], q)
    <3>1. PICK k \in DOMAIN jobs : Tells(jobs[k], q)
      BY DEF PresentIn
    <3>2. SUFFICES ASSUME k = i PROVE FALSE
      BY <3>1
    <3>3. jobs[i].url = q
      BY <3>1, <3>2 DEF Tells
    <3>4. jobs[i].id # p
      BY <1>0, <2>2, <3>3 DEF KeptIn, Tells
    <3>5. jobs[i].hash = PayloadHash(Payload(page[p]).heading, Payload(page[p]).body, TRUE)
      BY <1>2, <2>2, <3>3, <3>4 DEF Took
    <3>6. Payload(page[p]) = Payload(page[q])
      BY <1>0, <3>1, <3>2, <3>5, AlikeByContent
    <3> QED BY <1>0, <2>2, <3>6 DEF Alike
  <2> QED BY <1>2, <2>1, <2>2 DEF PresentIn
<1> QED BY <1>1, <1>2, UpsertCases

\* An edited title is still told.
LEMMA EditTells ==
  ASSUME MatchingTypeOK, NEW i \in DOMAIN jobs, EditTitle(i)
  PROVE  /\ DOMAIN jobs' = DOMAIN jobs
         /\ \A k \in DOMAIN jobs : jobs'[k].id = jobs[k].id
         /\ \A p : \A k \in DOMAIN jobs : Tells(jobs[k], p) => Tells(jobs'[k], p)
<1>1. jobs[i] \in Job
  BY DEF MatchingTypeOK
<1>2. /\ DOMAIN jobs' = DOMAIN jobs
      /\ \A k \in DOMAIN jobs \ {i} : jobs'[k] = jobs[k]
      /\ jobs'[i].id = jobs[i].id /\ jobs'[i].url = jobs[i].url
      /\ jobs'[i].body = jobs[i].body /\ jobs'[i].heading = "edited"
      /\ jobs'[i].hash = PayloadHash("edited", jobs[i].body, FALSE)
  BY <1>1 DEF EditTitle, Job
<1>3. \A p : Tells(jobs[i], p) => Tells(jobs'[i], p)
  BY <1>2 DEF Tells
<1> QED BY <1>2, <1>3

LEMMA MatchingConverges ==
  MatchingTypeOK /\ TodoShown /\ RowsDistinct /\ Converges /\ [MatchingNext]_matchingVars
    => Converges'
<1> SUFFICES ASSUME MatchingTypeOK, TodoShown, RowsDistinct, Converges,
                    [MatchingNext]_matchingVars
             PROVE  Converges'
  OBVIOUS
<1>0. calm \in 0..2 /\ scrape.todo \subseteq Shown
  BY DEF MatchingTypeOK, TodoShown
<1>1. ASSUME page' = page, board' = board
      PROVE  /\ Shown' = Shown /\ Alike' = Alike
             /\ \A r, p : Tells(r, p)' <=> Tells(r', p')
             /\ Converges' <=>
                  (~Alike =>
                     /\ scrape'.open => KeptIn(jobs', Dealt')
                     /\ calm' >= 1 => KeptIn(jobs', Shown)
                     /\ calm' >= 1 /\ scrape'.open => PresentIn(jobs', Dealt')
                     /\ calm' = 2 => PresentIn(jobs', Shown))
  <2>1. Shown' = Shown
    BY <1>1 DEF Shown
  <2>2. \A p : Payload(page[p])' = Payload(page[p])
    BY <1>1 DEF Payload
  <2>3. Alike' = Alike
    BY <1>1, <2>1 DEF Alike, Payload
  <2> QED BY <1>1, <2>1, <2>3 DEF Converges, KeptIn, PresentIn, Tells, Payload
<1>2. CASE StartScrape
  <2>1. Dealt' = {} /\ UNCHANGED <<board, page, jobs, calm>>
    BY <1>2 DEF StartScrape, Dealt, Shown, NoScrape
  <2>2. KeptIn(jobs, {}) /\ PresentIn(jobs, {})
    BY DEF KeptIn, PresentIn
  <2> QED BY <1>1, <2>1, <2>2 DEF Converges
<1>3. ASSUME NEW p \in Postings, Upsert(p) PROVE Converges'
  <2> SUFFICES ASSUME ~Alike PROVE Converges'
    <3>1. UNCHANGED <<board, page>>
      BY <1>3 DEF Upsert
    <3> QED BY <1>1, <3>1
  <2>1. /\ UNCHANGED <<board, page, calm>> /\ p \in scrape.todo /\ p \in Shown
        /\ scrape' = [scrape EXCEPT !.todo = @ \ {p}, !.seen = scrape'.seen]
    BY <1>3, UpsertCases
  <2>2. /\ scrape'.open = scrape.open /\ scrape'.failed = scrape.failed
        /\ scrape'.todo = scrape.todo \ {p} /\ scrape.open
    BY <2>1 DEF MatchingTypeOK, TodoShown
  <2>3. Dealt' \subseteq Dealt \cup {p} /\ Dealt \subseteq Shown
    BY <1>1, <2>1, <2>2 DEF Dealt
  <2>4. KeptIn(jobs', Dealt \cup {p})
    BY <1>3, <2>2, <2>3, UpsertKeeps DEF Converges
  <2>5. calm >= 1 => KeptIn(jobs', Shown)
    <3>1. calm >= 1 => KeptIn(jobs', Shown \cup {p})
      BY <1>3, UpsertKeeps DEF Converges
    <3> QED BY <3>1 DEF KeptIn
  <2>6. calm >= 1 => PresentIn(jobs', Dealt \cup {p})
    BY <1>3, <2>2, <2>3, UpsertPresent DEF Converges
  <2>7. calm = 2 => PresentIn(jobs', Shown)
    <3>1. calm = 2 => calm >= 1
      OBVIOUS
    <3>2. calm = 2 => PresentIn(jobs', Shown \cup {p})
      BY <1>3, <3>1, UpsertPresent DEF Converges
    <3> QED BY <3>2 DEF PresentIn
  <2>8. KeptIn(jobs', Dealt') /\ (calm >= 1 => PresentIn(jobs', Dealt'))
    BY <2>3, <2>4, <2>6 DEF KeptIn, PresentIn
  <2> QED BY <1>1, <2>1, <2>5, <2>7, <2>8
<1>4. ASSUME NEW p \in Postings, Fails(p) PROVE Converges'
  <2>1. /\ Dealt' = Dealt /\ UNCHANGED <<board, page, jobs, calm>>
        /\ scrape'.open = scrape.open
    BY <1>4 DEF Fails, Dealt, Shown, MatchingTypeOK
  <2> QED BY <1>1, <2>1 DEF Converges
<1>5. CASE End
  <2>1. /\ UNCHANGED <<board, page, jobs>> /\ ~scrape'.open /\ scrape.open
        /\ calm' = IF scrape.failed = {} THEN IF calm < 2 THEN calm + 1 ELSE 2 ELSE 0
    BY <1>5 DEF End, NoScrape
  <2>2. scrape.failed = {} => Dealt = Shown
    BY <1>5 DEF End, Dealt
  <2>3. calm' >= 1 => scrape.failed = {}
    BY <2>1
  <2>4. calm' = 2 => scrape.failed = {} /\ calm >= 1
    BY <1>0, <2>1
  <2> QED BY <1>1, <2>1, <2>2, <2>3, <2>4 DEF Converges
<1>6. CASE Crash
  <2>1. UNCHANGED <<board, page, jobs, calm>> /\ ~scrape'.open
    BY <1>6 DEF Crash, NoScrape
  <2> QED BY <1>1, <2>1 DEF Converges
<1>7. ASSUME NEW p \in Postings, PageChanges(p) PROVE Converges'
  <2>1. calm' = 0 /\ ~scrape'.open
    BY <1>7 DEF PageChanges
  <2> QED BY <2>1 DEF Converges
<1>8. ASSUME NEW i \in DOMAIN jobs, EditTitle(i) PROVE Converges'
  <2>1. UNCHANGED <<board, page, scrape, calm>>
    BY <1>8 DEF EditTitle
  <2>2. Dealt' = Dealt
    BY <1>1, <2>1 DEF Dealt
  <2>3. \A D : /\ KeptIn(jobs, D) => KeptIn(jobs', D)
               /\ PresentIn(jobs, D) => PresentIn(jobs', D)
    BY <1>8, EditTells DEF KeptIn, PresentIn
  <2> QED BY <1>1, <2>1, <2>2, <2>3 DEF Converges
<1>9. CASE UNCHANGED matchingVars
  <2>1. UNCHANGED <<board, page, jobs, scrape, calm>>
    BY <1>9 DEF matchingVars
  <2>2. Dealt' = Dealt
    BY <1>1, <2>1 DEF Dealt
  <2> QED BY <1>1, <2>1, <2>2 DEF Converges
<1> QED
  BY <1>2, <1>3, <1>4, <1>5, <1>6, <1>7, <1>8, <1>9 DEF MatchingNext

MatchingInv == MatchingTypeOK /\ TodoShown /\ RowsDistinct /\ FoundSeen /\ Converges

LEMMA MatchingInitial == MatchingInit => MatchingInv
<1> SUFFICES ASSUME MatchingInit PROVE MatchingInv
  OBVIOUS
<1> USE DEF MatchingInit, NoScrape
<1>1. MatchingTypeOK
  BY DEF MatchingTypeOK
<1>2. TodoShown
  BY DEF TodoShown
<1>3. RowsDistinct /\ FoundSeen /\ Converges
  BY DEF RowsDistinct, FoundSeen, Converges
<1> QED BY <1>1, <1>2, <1>3 DEF MatchingInv

LEMMA MatchingInvariant == MatchingSpec => []MatchingInv
<1>1. MatchingInv /\ [MatchingNext]_matchingVars => MatchingInv'
  BY MatchingTyped, MatchingDistinct, MatchingSees, MatchingConverges DEF MatchingInv
<1> QED BY <1>1, MatchingInitial, PTL DEF MatchingSpec

\* Every reachable state of a board and its jobs is well typed.
THEOREM MatchingTypeCorrect == MatchingSpec => []MatchingTypeOK
<1>1. MatchingInv => MatchingTypeOK
  BY DEF MatchingInv
<1> QED BY <1>1, MatchingInvariant, PTL

\* The catalogue comes to mirror the board: no two jobs clash, a run spares the jobs of
\* the postings it found, and after two complete runs over an unchanged page without two
\* postings alike each posting has its job.
THEOREM BoardMirrored == MatchingSpec => []Mirrored
<1>1. MatchingInv => Mirrored
  <2> SUFFICES ASSUME MatchingInv PROVE Mirrored
    OBVIOUS
  <2>1. NoClash
    BY DEF MatchingInv, RowsDistinct, NoClash
  <2>2. FoundAreSeen
    BY DEF MatchingInv, FoundSeen, Dealt, FoundAreSeen
  <2>3. Settled
    <3>1. calm = 2 => calm >= 1
      OBVIOUS
    <3> QED BY DEF MatchingInv, Converges, Alike, PresentIn, Tells, Settled
  <2> QED BY <2>1, <2>2, <2>3 DEF Mirrored
<1> QED BY <1>1, MatchingInvariant, PTL

-----------------------------------------------------------------------------
(***************************************************************************)
(* The conditional GET state.                                              *)
(*                                                                         *)
(* A page of the company's own is never applied, and is always given to    *)
(* the browser, which clears the row before: its hash is there only from   *)
(* the request to the escalation.  A board has no detectors, so the row    *)
(* the scraper has loaded is the row that is there.                        *)
(***************************************************************************)

Pages == [etag : Stamps, hash : Stamps]
Results == [ver : Stamps, notmod : BOOLEAN, page : BOOLEAN, browse : BOOLEAN, why : BOOLEAN]
Places == {"idle", "asking", "answered", "fetched", "browsing", "returned"}
Lapses == {"killed", "detector", "uncleared", "incomplete", "unrecorded", "inherited"}

\* The tag and the hash of a row are of one version.  A result that is not modified is
\* none yet while its request is under way.
Clean ==
  /\ stored.etag \in {0, stored.hash}
  /\ pc[Scraper] \in {"asking", "answered"} => ~got[Scraper].notmod
  /\ pc[Scraper] = "answered" => got[Scraper].page

OwnPage ==
  source = "own" =>
    /\ applied = 0
    /\ pc[Scraper] \in {"asking", "answered", "fetched"} => got[Scraper].browse
    /\ lapses = {} =>
         \/ stored.hash = 0
         \/ pc[Scraper] = "fetched" /\ ~got[Scraper].notmod /\ got[Scraper].page

\* What the row vouches for was applied.
Backed == stored.hash # 0 => applied = stored.hash

OfBoard ==
  source = "ats" =>
    /\ canonical
    /\ \A d \in Detectors : pc[d] = "idle"
    /\ ~deferred /\ ~got[Scraper].browse /\ ~got[Scraper].why /\ pc[Scraper] # "browsing"
    /\ pc[Scraper] \in {"asking", "answered"} => seen[Scraper] = stored
    /\ lapses = {} =>
         /\ pc[Scraper] \in {"idle", "asking", "answered"} => Backed
         /\ pc[Scraper] \in {"fetched", "returned"} /\ got[Scraper].notmod =>
              applied = got[Scraper].ver /\ Backed

FetchingInv == FetchingTypeOK /\ Clean /\ OwnPage /\ OfBoard

LEMMA FetchingInitial == FetchingInit => FetchingInv
<1> SUFFICES ASSUME FetchingInit PROVE FetchingInv
  OBVIOUS
<1>1. /\ 1 \in Versions /\ 0 \in Stamps
      /\ Scraper \in Clients /\ Detectors \subseteq Clients
      /\ Blank = [etag |-> 0, hash |-> 0]
      /\ Nothing = [ver |-> 0, notmod |-> FALSE, page |-> FALSE, browse |-> FALSE, why |-> FALSE]
  BY FetchingAssumption DEF Versions, Stamps, Clients, Blank, Nothing
<1>2. FetchingTypeOK
  BY <1>1 DEF FetchingInit, FetchingTypeOK
<1>3. Clean /\ OwnPage /\ OfBoard
  BY <1>1 DEF FetchingInit, Clean, OwnPage, OfBoard, Backed
<1> QED BY <1>2, <1>3 DEF FetchingInv

\* What the helpers of the actions do to the types.
LEMMA HelpersTyped ==
  ASSUME FetchingTypeOK, NEW c \in Clients
  PROVE  /\ Blank \in Pages /\ Nothing \in Results
         /\ \A v \in Stamps : Stamped(v) \in Pages
         /\ \A p \in Places : Goto(c, p) => pc' \in [Clients -> Places]
         /\ \A r \in Results : Receive(c, r) => got' \in [Clients -> Results]
         /\ Reset(c) => /\ pc' \in [Clients -> Places]
                        /\ seen' \in [Clients -> Pages]
                        /\ got' \in [Clients -> Results]
         /\ \A v \in Stamps : Record(c, v) => stored' \in Pages /\ lapses' \subseteq Lapses
         /\ Clear => stored' \in Pages /\ lapses' \subseteq Lapses
<1>1. Blank \in Pages /\ Nothing \in Results
  BY FetchingAssumption DEF Blank, Nothing, Pages, Results, Stamps
<1>2. \A v \in Stamps : Stamped(v) \in Pages
  BY FetchingAssumption DEF Stamped, Pages, Stamps
<1>3. /\ stored \in Pages /\ lapses \subseteq Lapses
      /\ pc \in [Clients -> Places] /\ seen \in [Clients -> Pages] /\ got \in [Clients -> Results]
  BY DEF FetchingTypeOK, Pages, Results, Places, Lapses
<1>4. "idle" \in Places /\ {"detector"} \subseteq Lapses /\ {"uncleared"} \subseteq Lapses
  BY DEF Places, Lapses
<1> HIDE DEF Pages, Results, Places, Lapses
<1> QED BY <1>1, <1>2, <1>3, <1>4 DEF Goto, Receive, Reset, Record, Clear

LEMMA FetchingTyped == FetchingTypeOK /\ [FetchingNext]_fetchingVars => FetchingTypeOK'
<1> SUFFICES ASSUME FetchingTypeOK, [FetchingNext]_fetchingVars PROVE FetchingTypeOK'
  OBVIOUS
<1>0. /\ source \in {"ats", "own"} /\ canonical \in BOOLEAN /\ etags \in BOOLEAN
      /\ site \in Versions /\ site \in Stamps
      /\ stored \in Pages /\ lapses \subseteq Lapses
      /\ applied \in Stamps /\ deferred \in BOOLEAN /\ excluded \in BOOLEAN
      /\ pc \in [Clients -> Places] /\ seen \in [Clients -> Pages] /\ got \in [Clients -> Results]
  BY DEF FetchingTypeOK, Pages, Results, Places, Lapses, Versions, Stamps
<1> DEFINE Typed ==
      /\ source' \in {"ats", "own"} /\ canonical' \in BOOLEAN /\ etags' \in BOOLEAN
      /\ site' \in Versions
      /\ stored' \in Pages /\ lapses' \subseteq Lapses
      /\ applied' \in Stamps /\ deferred' \in BOOLEAN /\ excluded' \in BOOLEAN
      /\ pc' \in [Clients -> Places] /\ seen' \in [Clients -> Pages]
      /\ got' \in [Clients -> Results]
<1>1. SUFFICES Typed
  BY DEF FetchingTypeOK, Pages, Results, Places, Lapses
<1>2. /\ Blank \in Pages /\ Nothing \in Results /\ Scraper \in Clients
      /\ "idle" \in Places /\ "asking" \in Places /\ "answered" \in Places
      /\ "fetched" \in Places /\ "browsing" \in Places /\ "returned" \in Places
      /\ {"killed"} \subseteq Lapses /\ {"unrecorded"} \subseteq Lapses
      /\ {"incomplete"} \subseteq Lapses /\ {"inherited"} \subseteq Lapses
      /\ 0 \in Stamps
  BY FetchingAssumption, HelpersTyped DEF Places, Lapses, Clients, Stamps
<1>3. \A c \in Clients :
        /\ got[c].ver \in Stamps
        /\ \A b \in BOOLEAN : [Nothing EXCEPT !.browse = b] \in Results
        /\ [got[c] EXCEPT !.ver = site, !.notmod = TRUE] \in Results
        /\ [got[c] EXCEPT !.ver = site, !.page = TRUE] \in Results
        /\ [got[c] EXCEPT !.notmod = TRUE] \in Results
        /\ \A w \in BOOLEAN : [got[c] EXCEPT !.why = w] \in Results
        /\ [got[c] EXCEPT !.ver = site, !.notmod = FALSE, !.page = TRUE] \in Results
  BY <1>0, <1>2 DEF Results
<1> USE DEF siteVars, clientVars
<1>4. ASSUME NEW c \in Clients, Fetch(c) PROVE Typed
  <2> USE <1>4
  <2>1. ASSUME NEW b \in BOOLEAN, Prepare(c, b) PROVE Typed
    <3>1. seen' \in [Clients -> Pages]
      BY <1>0, <2>1 DEF Prepare
    <3> QED BY <1>0, <1>2, <1>3, <2>1, <3>1, HelpersTyped DEF Prepare
  <2>2. CASE NotModified(c)
    BY <1>0, <1>2, <1>3, <2>2, HelpersTyped DEF NotModified
  <2>3. CASE Answer(c)
    BY <1>0, <1>2, <1>3, <2>3, HelpersTyped DEF Answer
  <2>4. CASE AnswerOther(c)
    BY <1>0, <1>2, <1>3, <2>4, HelpersTyped DEF AnswerOther
  <2>5. CASE SameBody(c)
    BY <1>0, <1>2, <1>3, <2>5, HelpersTyped DEF SameBody
  <2>6. CASE NewBody(c)
    BY <1>0, <1>2, <1>3, <2>6, HelpersTyped DEF NewBody
  <2>7. CASE FetchFails(c)
    BY <1>0, <1>2, <2>7, HelpersTyped DEF FetchFails, Failure
  <2>8. CASE Plain(c)
    BY <1>0, <1>2, <2>8, HelpersTyped DEF Plain
  <2>9. CASE NoSelector(c)
    BY <1>0, <1>2, <2>9, HelpersTyped DEF NoSelector, Failure
  <2>10. CASE Escalate(c)
    BY <1>0, <1>2, <1>3, <2>10, HelpersTyped DEF Escalate
  <2>11. CASE Rendered(c)
    BY <1>0, <1>2, <1>3, <2>11, HelpersTyped DEF Rendered
  <2>12. CASE NotRendered(c)
    BY <1>0, <1>2, <1>3, <2>12, HelpersTyped DEF NotRendered, Failure
  <2> QED
    BY <2>1, <2>2, <2>3, <2>4, <2>5, <2>6, <2>7, <2>8, <2>9, <2>10, <2>11, <2>12 DEF Fetch
<1>5. ASSUME Scrape PROVE Typed
  <2>1. CASE ForcedRun
    BY <1>0, <1>2, <2>1, HelpersTyped DEF ForcedRun
  <2>2. CASE Defer
    BY <1>0, <1>2, <2>2, HelpersTyped DEF Defer
  <2>3. CASE Skip
    BY <1>0, <1>2, <2>3, HelpersTyped DEF Skip, Success
  <2>4. CASE ParseFails
    BY <1>0, <1>2, <2>4, HelpersTyped DEF ParseFails, Failure
  <2>5. CASE Distrust
    BY <1>0, <1>2, <2>5, HelpersTyped DEF Distrust, Failure, Success
  <2>6. CASE Apply
    BY <1>0, <1>2, <1>3, <2>6, HelpersTyped DEF Apply, Success
  <2>7. CASE ApplyPartly
    BY <1>0, <1>2, <2>7, HelpersTyped DEF ApplyPartly, Success
  <2>8. CASE Unexpected
    BY <1>0, <1>2, <2>8, HelpersTyped DEF Unexpected, Failure
  <2>9. CASE KillScrape
    BY <1>0, <1>2, <2>9, HelpersTyped DEF KillScrape
  <2> QED
    BY <1>5, <2>1, <2>2, <2>3, <2>4, <2>5, <2>6, <2>7, <2>8, <2>9 DEF Scrape
<1>6. ASSUME NEW d \in Detectors, Look(d) PROVE Typed
  <2>1. d \in Clients
    BY DEF Clients
  <2> QED BY <1>0, <1>6, <2>1, HelpersTyped DEF Look
<1>7. CASE Readd
  BY <1>0, <1>2, <1>7 DEF Readd
<1>8. CASE Publish
  BY <1>0, <1>8 DEF Publish
<1>9. CASE Decide
  BY <1>0, <1>9 DEF Decide
<1>10. CASE UNCHANGED fetchingVars
  BY <1>0, <1>10 DEF fetchingVars
<1> QED BY <1>4, <1>5, <1>6, <1>7, <1>8, <1>9, <1>10 DEF FetchingNext

\* Every reachable state of the conditional GET state is well typed.
THEOREM FetchingTypeCorrect == FetchingSpec => []FetchingTypeOK
<1>1. FetchingInit => FetchingTypeOK
  BY FetchingInitial DEF FetchingInv
<1> QED BY <1>1, FetchingTyped, PTL DEF FetchingSpec

LEMMA ClearEffect ==
  ASSUME canonical \in BOOLEAN, Clear
  PROVE  \/ stored' = Blank
         \/ ~canonical /\ stored' = stored /\ lapses' # {}
  BY DEF Clear

LEMMA StampedClean ==
  ASSUME NEW v \in Stamps
  PROVE  Stamped(v).etag \in {0, Stamped(v).hash}
  BY DEF Stamped

\* A detection run disturbs the row of a page of the company's own only, and says so.
LEMMA DetectorKeeps ==
  ASSUME FetchingInv, NEW d \in Detectors, Fetch(d) \/ Look(d)
  PROVE  Clean' /\ OwnPage' /\ OfBoard'
<1>0. /\ FetchingTypeOK /\ Clean /\ OwnPage /\ OfBoard
      /\ Scraper # d /\ d \in Clients /\ Scraper \in Clients
      /\ source \in {"ats", "own"} /\ canonical \in BOOLEAN
      /\ DOMAIN pc = Clients /\ DOMAIN got = Clients /\ DOMAIN seen = Clients
      /\ got[d].ver \in Stamps
  BY FetchingAssumption DEF FetchingInv, FetchingTypeOK, Clients
<1>1. source = "own"
  <2>1. pc[d] # "idle" \/ MayFetch(d)
    BY DEF Fetch, Prepare, NotModified, Answer, AnswerOther, SameBody, NewBody, FetchFails,
           Plain, NoSelector, Escalate, Rendered, NotRendered, Look
  <2> QED BY <1>0, <2>1 DEF OfBoard, MayFetch
<1>2. pc'[Scraper] = pc[Scraper] /\ got'[Scraper] = got[Scraper]
  <2>1. \A p : Goto(d, p) => pc'[Scraper] = pc[Scraper]
    BY <1>0 DEF Goto
  <2>2. \A r : Receive(d, r) => got'[Scraper] = got[Scraper]
    BY <1>0 DEF Receive
  <2>3. Reset(d) => pc'[Scraper] = pc[Scraper] /\ got'[Scraper] = got[Scraper]
    BY <2>1, <2>2 DEF Reset
  <2> QED
    BY <2>1, <2>2, <2>3 
    DEF Fetch, Prepare, NotModified, Answer, AnswerOther, SameBody, NewBody, FetchFails,
        Plain, NoSelector, Escalate, Rendered, NotRendered, Look
<1>3. source' = source /\ applied' = applied
  BY DEF Fetch, Prepare, NotModified, Answer, AnswerOther, SameBody, NewBody, FetchFails,
         Plain, NoSelector, Escalate, Rendered, NotRendered, Look, siteVars
<1>4. \/ UNCHANGED <<stored, lapses>>
      \/ stored' = Stamped(got[d].ver) /\ lapses' # {}
      \/ Clear
  BY <1>0 DEF Fetch, Prepare, NotModified, Answer, AnswerOther, SameBody, NewBody, FetchFails,
         Plain, NoSelector, Escalate, Rendered, NotRendered, Look, Record
<1>5. \/ UNCHANGED <<stored, lapses>>
      \/ stored' = Stamped(got[d].ver) /\ lapses' # {}
      \/ stored' = Blank
      \/ stored' = stored /\ lapses' # {}
  BY <1>0, <1>4, ClearEffect
<1>6. stored'.etag \in {0, stored'.hash}
  BY <1>0, <1>5, StampedClean DEF Clean, Blank
<1>7. stored' = Blank => stored'.hash = 0
  BY DEF Blank
<1>8. Clean'
  BY <1>0, <1>2, <1>6 DEF Clean
<1>9. OwnPage'
  BY <1>0, <1>1, <1>2, <1>3, <1>5, <1>7 DEF OwnPage
<1>10. OfBoard'
  BY <1>1, <1>3 DEF OfBoard
<1> QED BY <1>8, <1>9, <1>10

\* The request of the scraper and its answer.
LEMMA ScraperFetches ==
  ASSUME FetchingInv, Fetch(Scraper)
  PROVE  Clean' /\ OwnPage' /\ OfBoard'
<1> DEFINE s == Scraper
<1>0. /\ Clean /\ OwnPage /\ OfBoard
      /\ s \in Clients /\ s \notin Detectors /\ Detectors \subseteq Clients
      /\ source \in {"ats", "own"} /\ canonical \in BOOLEAN
      /\ site \in Nat \ {0}
      /\ pc \in [Clients -> Places] /\ DOMAIN got = Clients /\ DOMAIN seen = Clients
      /\ got[s] \in Results /\ got[s].ver \in Stamps
      /\ stored \in Pages
  BY FetchingAssumption
  DEF FetchingInv, FetchingTypeOK, Clients, Versions, Places, Results, Pages
<1>1. Blank = [etag |-> 0, hash |-> 0]
      /\ Nothing = [ver |-> 0, notmod |-> FALSE, page |-> FALSE, browse |-> FALSE, why |-> FALSE]
  BY DEF Blank, Nothing
<1>2. ASSUME NEW p, Goto(s, p) PROVE pc'[s] = p /\ \A d \in Detectors : pc'[d] = pc[d]
  BY <1>0, <1>2 DEF Goto
<1>3. ASSUME NEW r, Receive(s, r) PROVE got'[s] = r
  BY <1>0, <1>3 DEF Receive
<1>4. ASSUME Reset(s)
      PROVE  pc'[s] = "idle" /\ got'[s] = Nothing /\ \A d \in Detectors : pc'[d] = pc[d]
  BY <1>2, <1>3, <1>4 DEF Reset
<1>5. ASSUME Clear PROVE stored' = Blank \/ (~canonical /\ stored' = stored /\ lapses' # {})
  BY <1>0, <1>5, ClearEffect
<1> HIDE DEF s
<1> USE DEF siteVars, Clean, OwnPage, OfBoard, Backed
<1>6. ASSUME NEW b \in BOOLEAN, Prepare(s, b) PROVE Clean' /\ OwnPage' /\ OfBoard'
  <2>1. b = (source = "own") /\ got'[s] = [Nothing EXCEPT !.browse = b]
    BY <1>3, <1>6 DEF Prepare, s
  <2>2. seen'[s] = stored
    BY <1>0, <1>6 DEF Prepare
  <2>3. ~got'[s].notmod /\ ~got'[s].why
    BY <1>1, <2>1
  <2>4. source = "own" => got'[s].browse
    BY <1>1, <2>1
  <2>5. source = "ats" => ~got'[s].browse
    BY <1>1, <2>1
  <2>6. /\ pc'[s] = "asking" /\ pc[s] = "idle" /\ \A d \in Detectors : pc'[d] = pc[d]
        /\ UNCHANGED <<siteVars, stored, applied, lapses, deferred>>
    BY <1>2, <1>6 DEF Prepare
  <2>7. Clean' /\ OwnPage'
    BY <1>0, <2>3, <2>4, <2>6 DEF s
  <2>8. OfBoard'
    BY <1>0, <2>2, <2>3, <2>5, <2>6 DEF s
  <2> QED BY <2>7, <2>8
<1>7. CASE NotModified(s)
  <2>1. got'[s] = [got[s] EXCEPT !.ver = site, !.notmod = TRUE] /\ pc'[s] = "fetched"
    BY <1>2, <1>3, <1>7 DEF NotModified
  <2>2. /\ got'[s].ver = site /\ got'[s].notmod
        /\ got'[s].browse = got[s].browse /\ got'[s].why = got[s].why
    BY <1>0, <2>1 DEF Results
  <2> QED BY <1>0, <1>2, <1>7, <2>1, <2>2 DEF NotModified, s
<1>8. CASE Answer(s) \/ AnswerOther(s)
  <2>1. /\ got'[s] = [got[s] EXCEPT !.ver = site, !.page = TRUE]
        /\ pc[s] = "asking" /\ pc'[s] \in {"fetched", "answered"}
    BY <1>2, <1>3, <1>8 DEF Answer, AnswerOther
  <2>2. /\ got'[s].notmod = got[s].notmod /\ got'[s].page
        /\ got'[s].browse = got[s].browse /\ got'[s].why = got[s].why
    BY <1>0, <2>1 DEF Results
  <2>3. UNCHANGED <<siteVars, stored, applied, lapses, deferred, seen>>
        /\ \A d \in Detectors : pc'[d] = pc[d]
    BY <1>2, <1>8 DEF Answer, AnswerOther
  <2> QED BY <1>0, <2>1, <2>2, <2>3 DEF s
<1>9. CASE SameBody(s)
  <2>1. got'[s] = [got[s] EXCEPT !.notmod = TRUE] /\ pc'[s] = "fetched"
    BY <1>2, <1>3, <1>9 DEF SameBody
  <2>2. /\ got'[s].ver = got[s].ver /\ got'[s].notmod /\ got'[s].page = got[s].page
        /\ got'[s].browse = got[s].browse /\ got'[s].why = got[s].why
    BY <1>0, <2>1 DEF Results
  <2> QED BY <1>0, <1>2, <1>9, <2>1, <2>2 DEF SameBody, s
<1>10. CASE NewBody(s)
  <2>1. stored' = Stamped(got[s].ver)
    BY <1>10 DEF NewBody, Record
  <2>2. stored'.etag \in {0, stored'.hash}
    BY <1>0, <2>1, StampedClean
  <2> QED BY <1>0, <1>2, <1>10, <2>2 DEF NewBody, s
<1>11. CASE FetchFails(s)
  BY <1>0, <1>1, <1>4, <1>5, <1>11 DEF FetchFails, s
<1>12. CASE Plain(s)
  BY <1>0, <1>2, <1>12 DEF Plain, s
<1>13. CASE NoSelector(s)
  BY <1>0, <1>1, <1>4, <1>5, <1>13 DEF NoSelector, s
<1>14. CASE Escalate(s)
  BY <1>0, <1>1, <1>2, <1>5, <1>14 DEF Escalate, s
<1>15. CASE Rendered(s)
  BY <1>0, <1>2, <1>15 DEF Rendered, s
<1>16. CASE NotRendered(s)
  BY <1>0, <1>1, <1>2, <1>4, <1>5, <1>16 DEF NotRendered, s
<1> QED
  BY <1>6, <1>7, <1>8, <1>9, <1>10, <1>11, <1>12, <1>13, <1>14, <1>15, <1>16 DEF Fetch, s

\* What the scrape task makes of the result.
LEMMA ScrapeKeeps ==
  ASSUME FetchingInv, Scrape
  PROVE  Clean' /\ OwnPage' /\ OfBoard'
<1> DEFINE s == Scraper
<1>0. /\ Clean /\ OwnPage /\ OfBoard
      /\ s \in Clients /\ s \notin Detectors /\ Detectors \subseteq Clients
      /\ source \in {"ats", "own"} /\ canonical \in BOOLEAN
      /\ DOMAIN pc = Clients /\ DOMAIN got = Clients /\ DOMAIN seen = Clients
  BY FetchingAssumption DEF FetchingInv, FetchingTypeOK, Clients
<1>1. Blank = [etag |-> 0, hash |-> 0]
      /\ Nothing = [ver |-> 0, notmod |-> FALSE, page |-> FALSE, browse |-> FALSE, why |-> FALSE]
  BY DEF Blank, Nothing
<1>2. ASSUME NEW p, Goto(s, p) PROVE pc'[s] = p /\ \A d \in Detectors : pc'[d] = pc[d]
  BY <1>0, <1>2 DEF Goto
<1>3. ASSUME Reset(s)
      PROVE  pc'[s] = "idle" /\ got'[s] = Nothing /\ \A d \in Detectors : pc'[d] = pc[d]
  <2>1. got'[s] = Nothing
    BY <1>0, <1>3 DEF Reset, Receive
  <2> QED BY <1>2, <1>3, <2>1 DEF Reset
<1>4. ASSUME Clear PROVE stored' = Blank \/ (~canonical /\ stored' = stored /\ lapses' # {})
  BY <1>0, <1>4, ClearEffect
<1> HIDE DEF s
<1> USE DEF siteVars, Clean, OwnPage, OfBoard, Backed, ToParse
<1>5. CASE ForcedRun
  BY <1>0, <1>2, <1>5 DEF ForcedRun, s
<1>6. CASE Defer
  BY <1>0, <1>1, <1>3, <1>6 DEF Defer, s
<1>7. CASE Skip
  BY <1>0, <1>1, <1>3, <1>7 DEF Skip, s
<1>8. CASE ParseFails
  BY <1>0, <1>1, <1>3, <1>4, <1>8 DEF ParseFails, s
<1>9. CASE Distrust
  BY <1>0, <1>1, <1>3, <1>4, <1>9 DEF Distrust, s
<1>10. CASE Apply
  BY <1>0, <1>1, <1>3, <1>10 DEF Apply, s
<1>11. CASE ApplyPartly
  BY <1>0, <1>1, <1>3, <1>11 DEF ApplyPartly, s
<1>12. CASE Unexpected
  BY <1>0, <1>1, <1>3, <1>4, <1>12 DEF Unexpected, s
<1>13. CASE KillScrape
  <2>1. /\ pc'[s] = "idle" /\ got'[s] = Nothing /\ \A d \in Detectors : pc'[d] = pc[d]
        /\ UNCHANGED <<siteVars, stored, applied, deferred>>
    BY <1>3, <1>13 DEF KillScrape, s
  <2>2. Clean'
    BY <1>0, <2>1 DEF s
  <2>3. CASE pc[s] \in {"fetched", "returned"} /\ ~got[s].notmod
    <3>1. lapses' # {}
      BY <1>13, <2>3 DEF KillScrape, s
    <3> QED BY <1>0, <1>1, <2>1, <2>2, <3>1 DEF s
  <2>4. CASE ~(pc[s] \in {"fetched", "returned"} /\ ~got[s].notmod)
    <3>1. lapses' = lapses /\ pc[s] # "idle"
      BY <1>13, <2>4 DEF KillScrape, s
    <3>2. OwnPage'
      BY <1>0, <2>1, <2>4, <3>1 DEF s
    <3>3. pc[s] \in Places
      BY DEF FetchingInv, FetchingTypeOK, Places, Clients, s
    <3>4. OfBoard'
      BY <1>0, <1>1, <2>1, <2>4, <3>1, <3>3 DEF s, Places
    <3> QED BY <2>2, <3>2, <3>4
  <2> QED BY <2>3, <2>4
<1> QED
  BY <1>5, <1>6, <1>7, <1>8, <1>9, <1>10, <1>11, <1>12, <1>13 DEF Scrape

LEMMA FetchingInvariant == FetchingSpec => []FetchingInv
<1>1. FetchingInv /\ [FetchingNext]_fetchingVars => FetchingInv'
  <2> SUFFICES ASSUME FetchingInv, [FetchingNext]_fetchingVars PROVE FetchingInv'
    OBVIOUS
  <2>1. FetchingTypeOK'
    BY FetchingTyped DEF FetchingInv
  <2>2. Clean' /\ OwnPage' /\ OfBoard'
    <3>1. CASE Scrape
      BY <3>1, ScrapeKeeps
    <3>2. ASSUME NEW c \in Clients, Fetch(c) PROVE Clean' /\ OwnPage' /\ OfBoard'
      BY <3>2, DetectorKeeps, ScraperFetches DEF Clients
    <3>3. ASSUME NEW d \in Detectors, Look(d) PROVE Clean' /\ OwnPage' /\ OfBoard'
      BY <3>3, DetectorKeeps
    <3>4. CASE Readd
      BY <3>4 DEF Readd, FetchingInv, Clean, OwnPage, OfBoard, Backed, siteVars, clientVars
    <3>5. CASE Publish
      BY <3>5 DEF Publish, FetchingInv, Clean, OwnPage, OfBoard, Backed, clientVars
    <3>6. CASE Decide
      BY <3>6 DEF Decide, FetchingInv, Clean, OwnPage, OfBoard, Backed, siteVars, clientVars
    <3>7. CASE UNCHANGED fetchingVars
      BY <3>7
      DEF fetchingVars, siteVars, clientVars, FetchingInv, Clean, OwnPage, OfBoard, Backed
    <3> QED BY <3>1, <3>2, <3>3, <3>4, <3>5, <3>6, <3>7 DEF FetchingNext
  <2> QED BY <2>1, <2>2 DEF FetchingInv
<1> QED BY <1>1, FetchingInitial, PTL DEF FetchingSpec

\* Between two runs the hash in the row stands for content that was applied, but for the
\* lapses.
THEOREM HashVouches == FetchingSpec => []Vouched
<1>1. FetchingInv => Vouched
  BY DEF FetchingInv, FetchingTypeOK, OwnPage, OfBoard, Backed, Vouched
<1> QED BY <1>1, FetchingInvariant, PTL

\* What a run on a board skips was applied, but for the lapses.
THEOREM OnlyAppliedIsSkipped == FetchingSpec => []SkipsOnlyApplied
<1>1. FetchingInv => SkipsOnlyApplied
  BY DEF FetchingInv, OfBoard, SkipsOnlyApplied
<1> QED BY <1>1, FetchingInvariant, PTL
=============================================================================
