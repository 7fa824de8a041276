------------------------------- MODULE Duplicates ------------------------------
(***************************************************************************)
(* Job.duplicate_of, the link from a job to the one it repeats, under      *)
(* admins who mark duplicates (mark_duplicate, src/apps/jobs/services.py)  *)
(* and handlers that save whole instances of a job.                        *)
(*                                                                         *)
(* mark_duplicate follows the links of the canonical job and refuses if    *)
(* they lead back; it reads them one row at a time, locks none, and saves  *)
(* after the last.  Jobs are deleted softly, so no link is set to null.    *)
(***************************************************************************)
CONSTANTS
  Jobs,
  Markers,  \* concurrent calls of mark_duplicate
  Writers,  \* handlers that save an instance they loaded before
  NoJob     \* the null link

ASSUME DuplicatesAssumption == NoJob \notin Jobs

VARIABLES
  duplicateOf,  \* duplicateOf[j]: the job that j is a duplicate of
  walk,         \* walk[m]: where the call of m is
  instance,     \* instance[w]: the job that w has loaded, with its link
  outrun,       \* history: the calls of which a link has changed behind them
  crossed      \* history: a link was written from what no longer was so

dupVars == <<duplicateOf, walk, instance, outrun, crossed>>

Link == Jobs \cup {NoJob}

\* next is the link that current had when it was read.
Walk == [job : Link, canonical : Link, current : Link, next : Link, seen : SUBSET Jobs]

NoWalk == [job |-> NoJob, canonical |-> NoJob, current |-> NoJob, next |-> NoJob, seen |-> {}]

NoInstance == [job |-> NoJob, link |-> NoJob]

Walking(m) == walk[m].job # NoJob

\* The jobs whose links the call of m has read.
Walked(m) == walk[m].seen \cup {walk[m].current}

DuplicatesInit ==
  /\ duplicateOf = [j \in Jobs |-> NoJob]
  /\ walk = [m \in Markers |-> NoWalk]
  /\ instance = [w \in Writers |-> NoInstance]
  /\ outrun = {}
  /\ crossed = FALSE

-----------------------------------------------------------------------------
(* mark_duplicate *)

\* A job is no duplicate of itself.  The link of the canonical job is the one it
\* was loaded with.
StartWalk(m, j, c) ==
  /\ ~Walking(m)
  /\ j # c
  /\ walk' = [walk EXCEPT ![m] = [job |-> j, canonical |-> c, current |-> c,
                                  next |-> duplicateOf[c], seen |-> {}]]
  /\ UNCHANGED <<duplicateOf, instance, outrun, crossed>>

Closes_SeenOnly(m) == walk[m].current \in walk[m].seen

\* The link read last closes a cycle, with the one to be made or by itself.
Closes(m) ==
  \/ walk[m].next = walk[m].job
  \/ walk[m].current \in walk[m].seen

\* One round of the loop: the next row is loaded.
Follow(m) ==
  /\ Walking(m)
  /\ walk[m].next # NoJob
  /\ ~Closes(m)
  /\ walk' = [walk EXCEPT ![m] = [job |-> @.job, canonical |-> @.canonical, current |-> @.next,
                                  next |-> duplicateOf[@.next], seen |-> Walked(m)]]
  /\ UNCHANGED <<duplicateOf, instance, outrun, crossed>>

\* ValueError("Duplicate cycle detected").
Refuse(m) ==
  /\ Walking(m)
  /\ walk[m].next # NoJob
  /\ Closes(m)
  /\ walk' = [walk EXCEPT ![m] = NoWalk]
  /\ outrun' = outrun \ {m}
  /\ UNCHANGED <<duplicateOf, instance, crossed>>

\* The link of j becomes c, behind the calls that have read another one.
SetLink(j, c) ==
  /\ duplicateOf' = [duplicateOf EXCEPT ![j] = c]
  /\ outrun' = {m \in Markers : /\ walk'[m].job # NoJob
                                /\ m \in outrun \/ (j \in Walked(m) /\ duplicateOf[j] # c)}

\* The end of the chain is reached: the named columns of the job are saved.
SaveLink(m) ==
  /\ Walking(m)
  /\ walk[m].next = NoJob
  /\ walk' = [walk EXCEPT ![m] = NoWalk]
  /\ SetLink(walk[m].job, walk[m].canonical)
  /\ crossed' = (crossed \/ m \in outrun)
  /\ UNCHANGED instance

-----------------------------------------------------------------------------
(* The handlers that save all columns: _update_job, edit_job_fields, the reviews *)

LoadWhole(w, j) ==
  /\ instance[w] = NoInstance
  /\ instance' = [instance EXCEPT ![w] = [job |-> j, link |-> duplicateOf[j]]]
  /\ UNCHANGED <<duplicateOf, walk, outrun, crossed>>

SaveWhole(w) ==
  /\ instance[w] # NoInstance
  /\ instance' = [instance EXCEPT ![w] = NoInstance]
  /\ UNCHANGED walk
  /\ SetLink(instance[w].job, instance[w].link)
  /\ crossed' = (crossed \/ duplicateOf[instance[w].job] # instance[w].link)

Mark(m) ==
  \/ \E j, c \in Jobs : StartWalk(m, j, c)
  \/ Follow(m)
  \/ Refuse(m)
  \/ SaveLink(m)

DuplicatesNext ==
  \/ \E m \in Markers : Mark(m)
  \/ \E w \in Writers : SaveWhole(w) \/ \E j \in Jobs : LoadWhole(w, j)

DuplicatesSpec == DuplicatesInit /\ [][DuplicatesNext]_dupVars

-----------------------------------------------------------------------------
(* Properties *)

\* Type invariant: links, calls and instances.
DuplicatesTypeOK ==
  /\ duplicateOf \in [Jobs -> Link]
  /\ walk \in [Markers -> Walk]
  /\ \A m \in Markers : Walking(m) => walk[m].canonical \in Jobs /\ walk[m].current \in Jobs
  /\ instance \in [Writers -> [job : Link, link : Link]]
  /\ \A w \in Writers : instance[w] # NoInstance => instance[w].job \in Jobs
  /\ outrun \subseteq Markers
  /\ crossed \in BOOLEAN

\* However the links are followed, they end: no set of jobs is closed under them.
Acyclic == \A S \in SUBSET Jobs : S # {} => \E j \in S : duplicateOf[j] \notin S

\* Duplicates never form a cycle ("cycle-guarded", docs/domain-model.md), however
\* many are marked at the same time and whatever chains exist, unless a link that
\* the walk relied on had changed when it saved, or an outdated instance was saved.
CyclesNeedRaces == ~crossed => Acyclic
=============================================================================
