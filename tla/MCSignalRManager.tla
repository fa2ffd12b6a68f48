-------------------------- MODULE MCSignalRManager ---------------------------
(***************************************************************************)
(* TLC instances of SignalRManager.  Each registration and each connection  *)
(* puts a charger once more on its way, and a failed subscription keeps it *)
(* there, so the goroutines waiting to retry are bounded: nothing adds to  *)
(* them while a charger has MaxRetries of them.                            *)
(***************************************************************************)
EXTENDS SignalRManager, TLC

CONSTANTS c1, c2, MaxRetries

OneCharger  == {c1}
TwoChargers == {c1, c2}
Symmetry    == Permutations(TwoChargers)

Bounded ==
    \/ \A c \in Charger : retries[c] < MaxRetries
    \/ chargers' \subseteq chargers /\ Len(states') <= Len(states)

BoundedSpec == Init /\ [][Next /\ Bounded]_vars
FairSpec    == BoundedSpec /\ FairnessFor({c1})

\* The behaviours in which nobody stops the manager.
RunningSpec == Init /\ [][Next /\ Bounded /\ done' # "closed"]_vars /\ FairnessFor({c1})

(* A charger that stays registered ends up subscribed, while the other comes,
   goes and is retried, fairly or not; the two are interchangeable. *)
EventuallySubscribed == EndsUpSubscribed(c1)
=============================================================================
