--------------------------- MODULE MCCompanySchedule ---------------------------
(* CompanySchedule on small instances. *)
EXTENDS CompanySchedule, TLC

\* Workers and requests are interchangeable.
Symmetry == Permutations(Workers) \cup Permutations(Requests)
=============================================================================
