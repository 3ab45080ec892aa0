--------------------------- MODULE MCEventMonitor ---------------------------
(***************************************************************************)
(* Values for the constants of EventMonitor that TLC's runs use.           *)
(***************************************************************************)
EXTENDS EventMonitor, TLC

MCSymmetry == Permutations(Monitors) \union Permutations(Readers) \union Permutations(Slots)
                \union Permutations(Listeners)
=============================================================================
