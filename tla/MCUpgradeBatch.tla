---------------------------- MODULE MCUpgradeBatch ----------------------------
(***************************************************************************)
(* Instances of UpgradeBatch for TLC: one system alone, and systems in two *)
(* groups, one after the other.                                            *)
(***************************************************************************)
EXTENDS UpgradeBatch

CONSTANTS s1, s2

OneGroupEach == [s \in Systems |-> IF s = s1 THEN 0 ELSE 1]
=============================================================================
