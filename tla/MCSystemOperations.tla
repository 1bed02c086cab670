-------------------------- MODULE MCSystemOperations --------------------------
(***************************************************************************)
(* Instances of SystemOperations for TLC: calls on one system, which       *)
(* compete for its lock and for the permits.                               *)
(***************************************************************************)
EXTENDS SystemOperations, TLC

CONSTANTS a, b, c, s1

OnOneSystem == [o \in Ops |-> s1]
Calls == Permutations(Ops)
=============================================================================
