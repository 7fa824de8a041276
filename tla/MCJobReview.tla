------------------------------ MODULE MCJobReview ------------------------------
(***************************************************************************)
(* What admins do with jobs, on small instances: one job between scrape,   *)
(* admins and users (JobReview), and the links of several jobs that repeat *)
(* each other (Duplicates).  The two share no variable: a behaviour of     *)
(* this module is one of either, with the other at rest.                   *)
(***************************************************************************)
EXTENDS JobReview, Duplicates, TLC

VARIABLE moving  \* which of the two is not at rest

EitherInit ==
  /\ Init
  /\ DuplicatesInit
  /\ \/ moving = "review"
     \/ moving = "duplicates" /\ ats /\ ~row.pub

EitherNext ==
  \/ moving = "review" /\ Next /\ UNCHANGED <<dupVars, moving>>
  \/ moving = "duplicates" /\ DuplicatesNext /\ UNCHANGED <<vars, moving>>

EitherSpec == EitherInit /\ [][EitherNext]_<<vars, dupVars, moving>>

Symmetry == Permutations(Users)
=============================================================================
