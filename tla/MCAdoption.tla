----------------------------- MODULE MCAdoption -----------------------------
(* Small instances of Adoption.                                            *)
EXTENDS Adoption, TLC

Symmetries == Permutations(Proc) \cup Permutations(Instance)
=============================================================================
