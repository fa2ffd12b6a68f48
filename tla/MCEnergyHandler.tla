--------------------------- MODULE MCEnergyHandler ---------------------------
(* Meters for EnergyHandler: one that only grows, one that starts again.      *)
EXTENDS EnergyHandler

Growing    == [t \in 1 .. Last |-> t]
StartsOver == [t \in 1 .. Last |-> IF t < 4 THEN t ELSE t - 2]

(* The runs in which no collector misses anything.                            *)
PromptSpec == Init /\ [][Next /\ ~Miss]_vars /\ Fairness
=============================================================================
