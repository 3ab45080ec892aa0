---------------------------- MODULE MCDockerRun ----------------------------
(***************************************************************************)
(* Values for the constants of DockerRun that TLC's runs use.              *)
(***************************************************************************)
EXTENDS DockerRun, TLC

CONSTANTS r, q

MCCmds == {r, q}

Scene(k, f, l, g, faults, n) ==
  [kind |-> (r :> k @@ q :> l), flags |-> (r :> f @@ q :> g), faults |-> faults, maxSignals |-> n]

\* One command with any of its flags, when anything can go wrong.
Alone ==
  { Scene("run", f, "none", {"out"}, AllFaults, 0) : f \in SUBSET (Flags \ {"sig"}) }
  \union { Scene(k, f \union {"out"}, "none", {"out"}, AllFaults, 0) :
            k \in {"start", "attach"}, f \in SUBSET {"tty", "in", "term"} }

\* Up to two signals.
Signalled ==
  { Scene(k, f \union {"out", "sig"}, "none", {"out"}, {"call"}, 2) :
      k \in {"run", "start", "attach"}, f \in SUBSET {"in"} }

\* Two commands that may have the same --cidfile.
Together ==
  { Scene("run", f, "run", g, {"call", "image"}, 0) : f \in SUBSET {"cid"}, g \in SUBSET {"cid"} }

MCScenarios == Alone \union Signalled \union Together
=============================================================================
