-------------------------------- MODULE MCLeases --------------------------------
(***************************************************************************)
(* The two sides of Lease on small instances: RedisLock, which implements  *)
(* it, and the tasks of CompanySchedule, which use it.  A behaviour of     *)
(* this module is one of either, with the other at rest.                   *)
(***************************************************************************)
EXTENDS RedisLock, CompanySchedule

VARIABLE moving  \* which of the two is not at rest

bothVars == <<lockVars, vars, moving>>

OfLock(A) == moving = "lock" /\ A /\ UNCHANGED <<vars, moving>>
OfTasks(A) == moving = "tasks" /\ A /\ UNCHANGED <<lockVars, moving>>

BothInit ==
  /\ LockInit
  /\ Init
  /\ moving \in {"lock", "tasks"}

BothNext == OfLock(LockNext) \/ OfTasks(Next)

\* The fairness of CompanySchedule.
BothFairness ==
  /\ WF_bothVars(OfTasks(TimePasses))
  /\ WF_bothVars(OfTasks(Refresh))
  /\ WF_bothVars(OfTasks(LockExpires))
  /\ \A w \in Workers :
       /\ WF_bothVars(OfTasks(Take(w, "scraping")))
       /\ SF_bothVars(OfTasks(Lock(w) \/ Skip(w)))
       /\ WF_bothVars(OfTasks(w \in Running /\ Ends(w)))

BothSpec == BothInit /\ [][BothNext]_bothVars /\ BothFairness

\* ScheduledIsScraped, where the tasks run: a scheduled company is eventually
\* scraped, unless it stops being scheduled.
TasksScrape == moving = "tasks" => ScheduledIsScraped
=============================================================================
