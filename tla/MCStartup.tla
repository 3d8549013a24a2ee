----------------------------- MODULE MCStartup -----------------------------
(* Two containers of one bypass4netns.                                     *)
EXTENDS Startup

CONSTANTS h1, h2, static, first, second

MCHandlers == {h1, h2}
MCIPs == {static, first, second}
MCLists == {<<first>>, <<second>>}

At3(hups, changes, lookups) == [hups |-> hups, changes |-> changes, lookups |-> lookups]

\* SIGHUPs while the interfaces change, lookups while lists arrive, lookups only,
\* and none of this.
MCBounds == {At3(2, 1, 0), At3(1, 0, 1), At3(0, 0, 2), At3(0, 0, 0)}

MCConfigs == CommandLine

\* Signals and lookups are followed with handlers that have no background task
\* to wait for: what they meet does not depend on how the start-up went.
Plain == [c2c |-> FALSE, multinode |-> FALSE, tracer |-> FALSE, auto |-> TRUE, ports |-> FALSE]

MCInit ==
    /\ Init
    /\ left = At3(0, 0, 0) \/ config = Plain

MCSpec == MCInit /\ [][Next]_vars /\ Fairness
=============================================================================
