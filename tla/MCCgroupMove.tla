---------------------------- MODULE MCCgroupMove ----------------------------
(***************************************************************************)
(* Values for the constants of CgroupMove that TLC's runs use.             *)
(***************************************************************************)
EXTENDS CgroupMove

CONSTANTS Cpu, Unknown

MCHierarchies == {Systemd, Cpu}

\* Nothing; one hierarchy of two; and a name that no hierarchy has, too.
MCSelections == { {}, {Systemd}, {Cpu, Unknown} }
=============================================================================
