--------------------------- MODULE MCCareerDetection ---------------------------
(***************************************************************************)
(* Career detection on small instances: what becomes of the candidates of  *)
(* one company (CareerDetection), and one run that finds some              *)
(* (DetectionPipeline).  The two share no variable: a behaviour of this    *)
(* module is one of either, with the other at rest.                        *)
(***************************************************************************)
EXTENDS CareerDetection, MCDetectionPipeline

VARIABLE moving  \* which of the two is not at rest

SiteAtRest == CHOOSE s \in Sites : TRUE

EitherInit ==
  /\ Init
  /\ PipelineInit
  /\ \/ moving = "company" /\ site = SiteAtRest /\ known = {}
     \/ moving = "pipeline" /\ company = NewCompany

\* Bound: a detection, an admin request and a scrape meet two at a time.
Crowded == held # {} /\ open # {} /\ \E d \in Detectors : pc[d] # "idle"

EitherNext ==
  \/ moving = "company" /\ Next /\ ~Crowded' /\ UNCHANGED <<pipelineVars, moving>>
  \/ moving = "pipeline" /\ PipelineNext /\ UNCHANGED <<vars, moving>>

EitherSpec == EitherInit /\ [][EitherNext]_<<vars, pipelineVars, moving>>

\* URLs are interchangeable, and so are the processes of each kind.
Symmetry ==
  Permutations(Urls) \cup Permutations(Detectors) \cup Permutations(Requests) \cup Permutations(Scrapes)
=============================================================================
