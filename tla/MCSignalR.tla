------------------------------ MODULE MCSignalR ------------------------------
(***************************************************************************)
(* TLC instances of SignalR.  As in MCSignalRManager, nothing puts another *)
(* charger on its way while one has MaxRetries goroutines waiting to retry *)
(* it: neither a registration nor a link that comes up.                    *)
(***************************************************************************)
EXTENDS SignalR, TLC

CONSTANTS s1, s2, c1, c2, MaxRetries

OneSession  == {s1}
TwoSessions == {s1, s2}
OneCharger  == {c1}
TwoChargers == {c1, c2}

Symmetry == Permutations(TwoSessions) \cup Permutations(TwoChargers)

Bounded ==
    \/ \A c \in Charger : retries[c] < MaxRetries
    \/ /\ chargers' \subseteq chargers
       /\ \A s \in Session : link'[s] = "connected" => link[s] = "connected"

BoundedSpec       == Init /\ [][Next /\ Bounded]_vars
BoundedSteadySpec == Init /\ [][Steady /\ Bounded]_vars
=============================================================================
