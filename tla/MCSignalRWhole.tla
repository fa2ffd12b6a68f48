---------------------------- MODULE MCSignalRWhole ----------------------------
(***************************************************************************)
(* The whole life of the composition for TLC: logins and logouts, starts   *)
(* and stops of the service.  left remembers that the client was closed by *)
(* the application, or the manager stopped: a loss is then not reported.   *)
(***************************************************************************)
EXTENDS MCSignalR

VARIABLE left

Remember == left' = (left \/ ~(cancelled' = {} /\ done' # "closed"))

\* Bound: what left remembers happens once.
Once == left => cancelled' \subseteq cancelled /\ (done' = "closed" => done = "closed")

WholeSpec ==
    /\ Init /\ left = FALSE
    /\ [][Next /\ Bounded /\ Remember /\ Once]_<<vars, left>>
    /\ Fairness

(* A subscription the cloud no longer serves does not count for ever: as long
   as nobody closes the client and nobody stops the manager, the loss is
   noticed, unless the manager is wedged (see SignalRManager). *)
LossIsNoticed ==
    \A c \in Charger : Unserved(c) ~> (Noticed(c) \/ left)
=============================================================================
