---------------------------- MODULE MCRegistryTokens ----------------------------
(***************************************************************************)
(* Two parts that requests race on, on small instances: the register of    *)
(* companies (Registry), and accounts with their tokens (Tokens).  They    *)
(* share no variable: a behaviour of this module is one of either, with    *)
(* the other at rest.                                                      *)
(***************************************************************************)
EXTENDS Registry, Tokens, TLC

VARIABLE moving  \* which of the two is not at rest

EitherInit ==
  /\ RegistryInit
  /\ Init
  /\ moving \in {"registry", "tokens"}

\* Bound: no service waits between its check and its write while a company is
\* being archived.
Apart == archiving = {} \/ \A r \in Services : service[r] = NoService

EitherNext ==
  \/ moving = "registry" /\ RegistryNext /\ Apart' /\ UNCHANGED <<vars, moving>>
  \/ moving = "tokens" /\ Next /\ UNCHANGED <<registryVars, moving>>

EitherSpec == EitherInit /\ [][EitherNext]_<<registryVars, vars, moving>>

\* Companies, the two addresses of the board, and requests are interchangeable.
\* Companies and requests are swapped together: only one of them is moving.
Swaps ==
  {f \in Permutations(Companies \cup Requests) :
     /\ {f[c] : c \in Companies} = Companies
     /\ (\E c \in Companies : f[c] # c) <=> (\E q \in Requests : f[q] # q)}

Symmetry == Swaps \cup Permutations(Boards)
=============================================================================
