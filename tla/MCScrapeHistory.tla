---------------------------- MODULE MCScrapeHistory ----------------------------
(***************************************************************************)
(* What the scrapes of a company leave behind, on small instances: its run *)
(* history (ScrapeHistory) and the jobs found on its board (JobMatching).  *)
(* The two share no state: a behaviour of this module is one of either,    *)
(* with the other at rest.                                                 *)
(***************************************************************************)
EXTENDS ScrapeHistory, JobMatching, TLC

\* The first two differ on a board with descriptions only.
MCContents == {[heading |-> "padded", body |-> "long"], [heading |-> "padded", body |-> "short"],
               [heading |-> "plain", body |-> "long"]}

VARIABLE moving  \* which of the two is not at rest

EitherInit ==
  /\ Init
  /\ MatchingInit
  /\ \/ moving = "history" /\ board = "greenhouse"
     \/ moving = "postings" /\ kind = "ats" /\ interval = MinInterval

EitherNext ==
  \/ moving = "history" /\ Next /\ UNCHANGED <<matchingVars, moving>>
  \/ moving = "postings" /\ MatchingNext /\ UNCHANGED <<vars, moving>>

EitherSpec == EitherInit /\ [][EitherNext]_<<vars, matchingVars, moving>>

\* Postings are interchangeable.
Symmetry == Permutations(Postings)
=============================================================================
