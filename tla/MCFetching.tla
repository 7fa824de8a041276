------------------------------- MODULE MCFetching -------------------------------
(* Fetching on small instances. *)
EXTENDS Fetching
=============================================================================
