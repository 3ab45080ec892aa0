--------------------------- MODULE MCService -------------------------------
(***************************************************************************)
(* Values for the constants of Service that TLC's runs use.          *)
(***************************************************************************)
EXTENDS Service, TLC

\* The invocation of example/nginx.service: systemd-docker run --rm --name %n.
Documented == [named |-> TRUE, rm |-> TRUE, logs |-> TRUE,
               notify |-> FALSE, socket |-> TRUE, pidFile |-> FALSE]

MCDocumented == { Documented }

\* Every pair of option values that can occur together occurs in one of these.
MCPairs ==
  { Documented,
    [Documented EXCEPT !.rm = FALSE, !.logs = FALSE, !.notify = TRUE],
    [Documented EXCEPT !.rm = FALSE, !.pidFile = TRUE, !.socket = FALSE],
    [Documented EXCEPT !.logs = FALSE, !.notify = TRUE, !.pidFile = TRUE],
    [Documented EXCEPT !.logs = FALSE, !.socket = FALSE],
    [Documented EXCEPT !.named = FALSE, !.notify = TRUE],
    [Documented EXCEPT !.named = FALSE, !.rm = FALSE, !.logs = FALSE,
                       !.pidFile = TRUE],
    [Documented EXCEPT !.named = FALSE, !.socket = FALSE] }

\* With and without --rm, for units of Type=notify.
MCRecovery == { Documented, [Documented EXCEPT !.rm = FALSE] }

\* One of each kind, for runs with two units.
MCMixed == { Documented,
             [Documented EXCEPT !.rm = FALSE, !.logs = FALSE],
             [Documented EXCEPT !.named = FALSE, !.rm = FALSE, !.logs = FALSE] }

MCSymmetry == Permutations(Ids) \union Permutations(Pids)
==============================================================================
