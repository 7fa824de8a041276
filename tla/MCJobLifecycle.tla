--------------------------- MODULE MCJobLifecycle ---------------------------
(***************************************************************************)
(* The two catalogues of the site, JobLifecycle and Exams, on small        *)
(* instances.  They share no state: a behaviour of this module is one of   *)
(* either, with the other at rest.                                         *)
(***************************************************************************)
EXTENDS JobLifecycle, Exams, TLC

VARIABLE moving  \* which of the two is not at rest

EitherInit ==
  /\ Init
  /\ ExamsInit
  /\ moving \in {"jobs", "exams"}

EitherNext ==
  \/ moving = "jobs" /\ Next /\ UNCHANGED <<examsVars, moving>>
  \/ moving = "exams" /\ ExamsNext /\ UNCHANGED <<vars, moving>>

EitherSpec == EitherInit /\ [][EitherNext]_<<vars, examsVars, moving>>

\* Postings, admin requests and editors are interchangeable.
Symmetry == Permutations(Jobs) \cup Permutations(Admins) \cup Permutations(Editors)
=============================================================================
