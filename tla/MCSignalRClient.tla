--------------------------- MODULE MCSignalRClient ---------------------------
(***************************************************************************)
(* TLC instances of SignalRClient: two goroutines alive together, enough   *)
(* for one that outlives its Close and the one that replaces it.           *)
(***************************************************************************)
EXTENDS SignalRClient, TLC

CONSTANTS s1, s2

MCSession == {s1, s2}
Symmetry  == Permutations(MCSession)
=============================================================================
