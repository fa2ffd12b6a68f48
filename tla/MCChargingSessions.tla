-------------------------- MODULE MCChargingSessions --------------------------
(***************************************************************************)
(* ChargingSessions for TLC.  failed remembers that an observation could   *)
(* not be stored; missed, that one could not, or that a batch listed a     *)
(* stop before a start: what is stored may then differ from what the       *)
(* charger did.                                                            *)
(***************************************************************************)
EXTENDS ChargingSessions

VARIABLES missed, failed

StopBeforeStart ==
    \E i \in DOMAIN stream' \ DOMAIN stream :
        /\ stream'[i].kind = "stop"
        /\ \E j \in DOMAIN stream' : j > i /\ stream'[j].kind = "start"

MCInit == Init /\ missed = FALSE /\ failed = FALSE
MCNext == \/ Reliable /\ missed' = (missed \/ StopBeforeStart) /\ UNCHANGED failed
          \/ Fail /\ missed' = TRUE /\ failed' = TRUE
MCSpec == MCInit /\ [][MCNext]_<<vars, missed, failed>>

(* Whatever was lost, repeated or interrupted before: once everything sent on
   a served subscription is handled, the stored sessions are the charger's,
   unless an observation was handled that could not be stored. *)
ReliablyConverged == ~missed => Converged

(* A batch that lists the stop of a session before a start may leave a finished
   session open, and never more: once everything sent is handled, the latest
   stored session is the charger's latest, and it is open if the charger is in
   it. *)
LatestIsCurrent ==
    ~failed /\ served /\ stream = <<>> /\ pending = 0 /\ begun > 0 =>
        /\ Latest = begun
        /\ ended < begun => stored[Latest].stop = Never

(* At most the latest stored session is open, under the same condition. *)
ReliablyOnlyLatestOpen == ~missed => OnlyLatestOpen
=============================================================================
