---------------------------- MODULE MCApiStartup ----------------------------
(***************************************************************************)
(* ApiStartup for TLC's runs: the constants are given values in the cfgs.  *)
(***************************************************************************)
EXTENDS ApiStartup
=============================================================================
