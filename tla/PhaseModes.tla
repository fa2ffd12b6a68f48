----------------------------- MODULE PhaseModes ------------------------------
(***************************************************************************)
(* The pure mappings of internal/model: what a detected power grid and an  *)
(* internal phase mode mean, which phase modes a charger supports with     *)
(* them, and what a state of the charger means.                            *)
(***************************************************************************)
EXTENDS Integers

\* GridType codes, ToFimpGridType; any other code is unknown.
GridCode == [TN3 |-> {1, 37}, TN2 |-> {2, 30, 36, 38}, TN1 |-> {3, 31},
             IT3 |-> {4, 32, 34}, IT1 |-> {5, 33, 35}, TN0 |-> {51}, IT0 |-> {52}]

Grid(type, phases) == [type |-> type, phases |-> phases]
NoGrid == Grid("", 0)

ToFimpGridType(code) ==
    CASE code \in GridCode.TN3 -> Grid("TN", 3)
      [] code \in GridCode.TN2 -> Grid("TN", 2)
      [] code \in GridCode.TN1 -> Grid("TN", 1)
      [] code \in GridCode.IT3 -> Grid("IT", 3)
      [] code \in GridCode.IT1 -> Grid("IT", 1)
      [] code \in GridCode.TN0 -> Grid("TN", 0)
      [] code \in GridCode.IT0 -> Grid("IT", 0)
      [] OTHER                 -> NoGrid

\* The modes with one live phase, in the order of the matrix, and the mode
\* with all of them.
OnePhase(type) ==
    IF type = "TN" THEN <<"NL1", "NL2", "NL3">> ELSE <<"L1L2", "L2L3", "L3L1">>
AllPhases(type) ==
    IF type = "TN" THEN <<"NL1L2L3">> ELSE <<"L1L2L3">>

\* Easee's internal phase mode: 1 is locked to one phase, 2 automatic, 3 locked
\* to three phases.
SupportedPhaseModes(grid, phaseMode) ==
    CASE grid.type # "" /\ grid.phases = 1 /\ phaseMode \in {1, 2} -> <<OnePhase(grid.type)[1]>>
      [] grid.type # "" /\ grid.phases = 3 /\ phaseMode = 1 -> OnePhase(grid.type)
      [] grid.type # "" /\ grid.phases = 3 /\ phaseMode = 2 ->
            <<OnePhase(grid.type)[1], OnePhase(grid.type)[2], OnePhase(grid.type)[3],
              AllPhases(grid.type)[1]>>
      [] grid.type # "" /\ grid.phases = 3 /\ phaseMode = 3 -> AllPhases(grid.type)
      [] OTHER -> <<>>

-----------------------------------------------------------------------------
\* ChargerState codes.
Offline == 0
IsSessionFinished(state) == state \in {-1, 0, 1, 4, 5, 7, 8}

ToFimpState(state) ==
    CASE state = 1 -> "disconnected"
      [] state = 2 -> "ready_to_charge"
      [] state = 3 -> "charging"
      [] state = 4 -> "finished"
      [] state = 5 -> "error"
      [] state = 6 -> "suspended_by_evse_or_ev"
      [] state = 7 -> "requesting"
      [] OTHER     -> "unknown"
=============================================================================
