------------------------------ MODULE MCEngine ------------------------------
(***************************************************************************)
(* Values for the constants of Engine that TLC's runs use.                 *)
(***************************************************************************)
EXTENDS Engine, TLC

MCSymmetry == Permutations(Runs) \union Permutations(Downs) \union Permutations(Hooks)
=============================================================================
