---------------------------- MODULE ThreeStrikes ----------------------------
(***************************************************************************)
(* What the job life cycle promises (docs/domain-model.md, section 3, and  *)
(* the statuses of src/apps/jobs/enums.py): a posting is closed by the     *)
(* scraper only one rung at a time, a posting closed by an admin is left   *)
(* to the admin, and a posting that is found again is open again.  A job   *)
(* one of whose updates was lost is out of the promise for good.           *)
(***************************************************************************)


CONSTANT Jobs

VARIABLE standing  \* standing[j]: what the promise knows of job j

Standing == {"unknown", "open", "possibly_closed", "likely_closed", "closed",
             "pinned",  \* closed by an admin
             "lost"}    \* an update of the job was lost

\* One round that misses a posting moves it to the next rung.
NextRung == [open            |-> "possibly_closed",
              possibly_closed |-> "likely_closed",
              likely_closed   |-> "closed"]

Init == standing = [j \in Jobs |-> "unknown"]

\* The posting is found for the first time, found again, or reopened by an admin.
Open(j) ==
  /\ standing[j] \notin {"lost", "pinned"}
  /\ standing' = [standing EXCEPT ![j] = "open"]

\* An admin reopens a posting an admin closed.
Unpin(j) ==
  /\ standing[j] = "pinned"
  /\ standing' = [standing EXCEPT ![j] = "open"]

\* An admin closes a posting that is not closed.
Pin(j) ==
  /\ standing[j] \in DOMAIN NextRung
  /\ standing' = [standing EXCEPT ![j] = "pinned"]

\* A round misses the postings S; updates of the postings T are lost in it.
Strike(S, T) ==
  /\ \A j \in S : standing[j] \in DOMAIN NextRung
  /\ standing' = [j \in Jobs |-> IF j \in T THEN "lost"
                                 ELSE IF j \in S THEN NextRung[standing[j]]
                                 ELSE standing[j]]

Next ==
  \/ \E j \in Jobs : Open(j) \/ Unpin(j) \/ Pin(j)
  \/ \E S, T \in SUBSET Jobs : Strike(S, T)

Spec == Init /\ [][Next]_standing
=============================================================================
