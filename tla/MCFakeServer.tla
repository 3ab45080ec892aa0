---------------------------- MODULE MCFakeServer ----------------------------
(***************************************************************************)
(* Values for the constants of FakeServer that TLC's runs use.             *)
(***************************************************************************)
EXTENDS FakeServer, TLC

MCSymmetry == Permutations(Procs) \union Permutations(Ids) \union Permutations(ImageIds)
=============================================================================
