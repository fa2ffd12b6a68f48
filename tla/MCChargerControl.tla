--------------------------- MODULE MCChargerControl ---------------------------
(***************************************************************************)
(* ChargerHistory, and with it ChargerControl and ObservationCache, for    *)
(* TLC.  Kinds share no state except the grid and the phase mode, so a     *)
(* behaviour is about one part of the charger only, chosen at the start:   *)
(* the kinds that are observed, the commands that are given and whether    *)
(* time passes.                                                            *)
(***************************************************************************)
EXTENDS ChargerHistory

CONSTANTS
    Parts,      \* sets of kinds, of commands and of "clock"
    JointLength \* bound: observations of a kind that has its part not to itself

ASSUME PartsAssumption == UNION Parts = Kinds \cup Ops \cup {"clock"}

VARIABLE part

mcVars == <<historyVars, part>>

\* The installation that was fetched matters where it is observed.
MCInit ==
    /\ part \in Parts
    /\ HistoryInit
    /\ "grid" \notin part => cache["grid"].value = NoGrid /\ cache["phaseMode"].value = 1

\* Bounds: commands and time only in the parts that say so.
Given(c) ==
    /\ part \cap Ops # {}
    /\ Give(c) /\ (call[c].at = "idle" => call'[c].op \in part)

Observed(k) ==
    /\ part # {k} => Len(history[k]) < JointLength
    /\ Observe(k)

MCNext ==
    /\ UNCHANGED part
    /\ \/ "clock" \in part /\ Pass
       \/ Reconnect
       \/ \E c \in Callers : Given(c)
       \/ \E k \in part \cap Kinds : Observed(k) \/ \E n \in DOMAIN history[k] : Deliver(k, n)

MCSpec == MCInit /\ [][MCNext]_mcVars /\ ControlFairness
=============================================================================
