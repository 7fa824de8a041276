----------------------------- MODULE ScrapeHistory -----------------------------
(***************************************************************************)
(* The scrape runs of one company: which messages start them, what they    *)
(* leave in the table of ScrapeRun rows, and what the next run concludes   *)
(* from that table (src/apps/scraping/tasks.py, sanity.py): the verdict on *)
(* its listing and the interval until the next one.                        *)
(*                                                                         *)
(* The rows are kept as far as the two queries over them can see them: the *)
(* last row with status success, and the three newest rows with verdict    *)
(* trusted.  PostgreSQL sorts a NULL finished_at first in descending       *)
(* order, so the rows of runs that never finished come before all others.  *)
(***************************************************************************)
EXTENDS Integers, Sequences, FiniteSets

CONSTANTS
  MaxFound,     \* bound: the longest listing
  MinBaseline,  \* SCRAPE_SANITY_MIN_BASELINE
  MaxRetries,   \* SCRAPE_MAX_RETRIES
  MinInterval,  \* MIN_SCRAPE_INTERVAL_MINUTES
  MaxInterval   \* SCRAPE_INTERVAL_MAX_MINUTES

ASSUME HistoryAssumption ==
  /\ MaxFound \in Nat
  /\ MinBaseline \in Nat
  /\ MaxRetries \in Nat
  /\ MinInterval \in Nat \ {0}
  /\ MaxInterval \in Nat
  /\ MinInterval <= MaxInterval

Attempts == 0..MaxRetries
Founds == 0..MaxFound
Intervals == MinInterval..MaxInterval

\* The number of trusted runs _maybe_apply_adaptive_interval looks at.
Window == 3

VARIABLES
  kind,      \* what the company's career page is: a board, or a page of its own
  queue,     \* the attempts whose messages wait in the queue scraping
  run,       \* the run that has the lock of the company
  unended,   \* the trusted rows without finished_at, Window standing for more
  recent,    \* the newest trusted rows with finished_at, newest first
  baseline,  \* jobs_found of the last row with status success, 0 if there is none
  interval,  \* the column scrape_interval_minutes
  lastGood,  \* history: jobs_found of the last trusted listing
  doubted    \* history: jobs_found of the listings quarantined since

rows == <<unended, recent, baseline>>
history == <<lastGood, doubted>>
vars == <<kind, queue, run, rows, interval, history>>

\* phase: "none": nobody has the lock; "on": the run goes on; "judged": it has its
\* verdict; "dead": it was killed, and its lock has not expired.
\* loaded is the interval of the instance of the company it has loaded.
NoRun == [phase |-> "none", attempt |-> 0, loaded |-> MinInterval, found |-> 0,
          verdict |-> "trusted", added |-> FALSE, missing |-> FALSE]

Init ==
  /\ kind \in {"ats", "own"}
  /\ queue = {}
  /\ run = NoRun
  /\ unended = 0
  /\ recent = <<>>
  /\ baseline = 0
  /\ interval \in Intervals
  /\ lastGood = 0
  /\ doubted = {}

-----------------------------------------------------------------------------
(* The verdict and the interval *)

\* evaluate_run, for a run whose status is success if it found anything.
Verdict(found, last) ==
  IF found = 0 THEN "untrusted"
  ELSE IF last >= MinBaseline /\ 2 * found < last THEN "quarantined"
  ELSE "trusted"

\* A row in which nothing was added or missing: all that a row without
\* finished_at can be, whatever its run did.
Quiet == [added |-> FALSE, missing |-> FALSE]

FirstRows(seq) == SubSeq(seq, 1, IF Len(seq) < Window THEN Len(seq) ELSE Window)

Newest(un, rec) == FirstRows([i \in 1..un |-> Quiet] \o rec)

CapInterval(n) == IF n > MaxInterval THEN MaxInterval ELSE n
FloorInterval(n) == IF n < MinInterval THEN MinInterval ELSE n

Adaptive_OldestAdded(current, three) ==
  IF Len(three) < Window THEN current
  ELSE IF \A i \in 1..Window : three[i] = Quiet THEN CapInterval(2 * current)
  ELSE IF three[Window].added THEN FloorInterval(current \div 2)
  ELSE current

\* compute_adaptive_interval.
Adaptive(current, three) ==
  IF Len(three) < Window THEN current
  ELSE IF \A i \in 1..Window : three[i] = Quiet THEN CapInterval(2 * current)
  ELSE IF three[1].added THEN FloorInterval(current \div 2)
  ELSE current

-----------------------------------------------------------------------------
(* The rows *)

Baseline_AnyStatus == run.found

\* Only a run that found something has status success.
Baseline == IF run.found > 0 THEN run.found ELSE baseline

Push(row) == FirstRows(<<row>> \o recent)

\* The row stays 'running', its verdict the default.
LeaveOpen == unended' = IF unended < Window THEN unended + 1 ELSE unended

-----------------------------------------------------------------------------
(* Messages *)

\* celery-beat finds the company due, or an admin asks for a scrape.
Dispatch ==
  /\ queue' = queue \cup {0}
  /\ UNCHANGED <<kind, run, rows, interval, history>>

\* A message is taken while the lock is taken: {"skipped": "locked"}.
SkipLocked(n) ==
  /\ n \in queue
  /\ run.phase # "none"
  /\ queue' = queue \ {n}
  /\ UNCHANGED <<kind, run, rows, interval, history>>

\* The row is created, status running, verdict trusted.
Start(n) ==
  /\ n \in queue
  /\ run.phase = "none"
  /\ queue' = queue \ {n}
  /\ run' = [NoRun EXCEPT !.phase = "on", !.attempt = n, !.loaded = interval]
  /\ UNCHANGED <<kind, rows, interval, history>>

-----------------------------------------------------------------------------
(* The end of a run *)

Ending == run.phase = "on" /\ run' = NoRun

\* The whole company row is written back, as it was loaded.
SaveCompany == interval' = run.loaded

\* Without a parser or a URL: failed, with the default verdict.
NoSource ==
  /\ Ending
  /\ recent' = Push(Quiet)
  /\ UNCHANGED <<kind, queue, unended, baseline, interval, history>>

\* A transient FetchError with a retry left: Retry leaves the row as it is.
RetryLater ==
  /\ Ending
  /\ run.attempt < MaxRetries
  /\ queue' = queue \cup {run.attempt + 1}
  /\ LeaveOpen
  /\ UNCHANGED <<kind, recent, baseline, interval, history>>

\* A permanent FetchError, the last retry, a parser or anything else that raises:
\* failed or partial, and untrusted.
Fail ==
  /\ Ending
  /\ SaveCompany
  /\ UNCHANGED <<kind, queue, rows, history>>

\* The browser is to fetch the page: success, 0 jobs, and trusted.
Deferred ==
  /\ kind = "own"
  /\ Ending
  /\ recent' = Push(Quiet)
  /\ baseline' = 0
  /\ UNCHANGED <<kind, queue, unended, interval, history>>

\* not_modified: nothing ever sets last_jobs_seen, so 0 jobs are found and the run
\* is partial; it is trusted, and the interval is adapted.
Unchanged_NewestOnly ==
  /\ Ending
  /\ recent' = Push(Quiet)
  /\ interval' = CapInterval(2 * run.loaded)
  /\ UNCHANGED <<kind, queue, unended, baseline, history>>

Unchanged ==
  /\ Ending
  /\ recent' = Push(Quiet)
  /\ interval' = Adaptive(run.loaded, Newest(unended, recent'))
  /\ UNCHANGED <<kind, queue, unended, baseline, history>>

\* The parser returned found postings, which only that of a board does; they are stored, the verdict is saved, and if
\* it is trusted the missing jobs get their strikes.
Judge(found, added, missing) ==
  /\ kind = "ats"
  /\ run.phase = "on"
  /\ added => found > 0
  /\ LET v == Verdict(found, baseline)
     IN run' = [run EXCEPT !.phase = "judged", !.found = found, !.verdict = v, !.added = added,
                           !.missing = missing /\ v = "trusted"]
  /\ UNCHANGED <<kind, queue, rows, interval, history>>

\* The row is finished, and a trusted run adapts the interval.
Finish ==
  /\ run.phase = "judged"
  /\ run' = NoRun
  /\ recent' = IF run.verdict = "trusted"
               THEN Push([added |-> run.added, missing |-> run.missing]) ELSE recent
  /\ baseline' = Baseline
  /\ interval' = IF run.verdict = "trusted"
                 THEN Adaptive(run.loaded, Newest(unended, recent')) ELSE run.loaded
  /\ lastGood' = IF run.verdict = "trusted" THEN run.found ELSE lastGood
  /\ doubted' = CASE run.verdict = "trusted"     -> {}
                  [] run.verdict = "quarantined" -> doubted \cup {run.found}
                  [] OTHER                       -> doubted
  /\ UNCHANGED <<kind, queue, unended>>

\* The worker is lost, which delivers its message again, or the hard time limit ends
\* the run, which does not.  The lock stays.
Kill ==
  /\ run.phase \in {"on", "judged"}
  /\ run' = [NoRun EXCEPT !.phase = "dead"]
  /\ \/ queue' = queue \cup {run.attempt}
     \/ queue' = queue
  /\ IF run.verdict = "trusted" THEN LeaveOpen ELSE UNCHANGED unended
  /\ UNCHANGED <<kind, recent, baseline, interval, history>>

LockExpires ==
  /\ run.phase = "dead"
  /\ run' = NoRun
  /\ UNCHANGED <<kind, queue, rows, interval, history>>

\* update_scrape_interval by an admin.
SetInterval ==
  /\ interval' \in Intervals
  /\ UNCHANGED <<kind, queue, run, rows, history>>

Next ==
  \/ Dispatch
  \/ \E n \in Attempts : SkipLocked(n) \/ Start(n)
  \/ NoSource
  \/ RetryLater
  \/ Fail
  \/ Deferred
  \/ Unchanged
  \/ \E found \in Founds, added, missing \in BOOLEAN : Judge(found, added, missing)
  \/ Finish
  \/ Kill
  \/ LockExpires
  \/ SetInterval

Spec == Init /\ [][Next]_vars
-----------------------------------------------------------------------------
(* Properties *)

\* Type invariant: what the queries can return.
TypeOK ==
  /\ kind \in {"ats", "own"}
  /\ queue \subseteq Attempts
  /\ run \in [phase : {"none", "on", "judged", "dead"}, attempt : Attempts, loaded : Intervals,
              found : Founds, verdict : {"trusted", "quarantined", "untrusted"},
              added : BOOLEAN, missing : BOOLEAN]
  /\ unended \in 0..Window
  /\ recent \in Seq([added : BOOLEAN, missing : BOOLEAN]) /\ Len(recent) <= Window
  /\ baseline \in Founds /\ lastGood \in Founds /\ doubted \subseteq Founds
  /\ interval \in Intervals

\* Missing jobs get a strike only for a listing that is not empty, and not for one
\* that lost more than half of the last trusted listing, unless a quarantined run
\* in between had listed as little: whatever runs failed, were retried or killed
\* meanwhile, one truncated answer of the board costs no job a strike.
StrikesConfirmed ==
  run.phase = "judged" /\ run.verdict = "trusted" =>
    /\ run.found > 0
    /\ \/ lastGood < MinBaseline
       \/ 2 * run.found >= lastGood
       \/ \E q \in doubted : q < MinBaseline \/ 2 * run.found >= q

\* A run lengthens the interval only if nothing was added or missing in the last three
\* trusted runs; each row that was never finished stands for one of them, so that three
\* of them let any run lengthen it.  As long as every run has finished its row, a run
\* that added postings brings a company with three trusted runs back to shorter intervals.
IntervalFollows ==
  [][/\ (Unchanged \/ Finish) /\ interval' > run.loaded =>
          \A i \in 1..Window - unended : i \in DOMAIN recent' /\ recent'[i] = Quiet
     /\ Finish /\ run.verdict = "trusted" /\ run.added /\ unended = 0 /\ Len(recent') = Window =>
          interval' = MinInterval \/ 2 * interval' <= run.loaded]_vars
=============================================================================
