-------------------------- MODULE SubscriptionBook ---------------------------
(***************************************************************************)
(* What the SignalR manager promises about its chargers: a charger is      *)
(* subscribed by a subscription made while the connection is up, it stays  *)
(* subscribed until it is removed or the connection is lost, and the loss  *)
(* of the connection ends every subscription at once.                      *)
(***************************************************************************)
CONSTANT Charger

VARIABLES
    status,  \* what is known of each charger
    up       \* the connection takes subscriptions

vars == <<status, up>>

TypeOK ==
    /\ status \in [Charger -> {"absent", "waiting", "subscribed"}]
    /\ up \in BOOLEAN

Init ==
    /\ status = [c \in Charger |-> "absent"]
    /\ up = FALSE

Add(c) ==
    /\ status[c] = "absent"
    /\ status' = [status EXCEPT ![c] = "waiting"]
    /\ UNCHANGED up

Remove(c) ==
    /\ status[c] # "absent"
    /\ status' = [status EXCEPT ![c] = "absent"]
    /\ UNCHANGED up

Subscribe(c) ==
    /\ up
    /\ status[c] = "waiting"
    /\ status' = [status EXCEPT ![c] = "subscribed"]
    /\ UNCHANGED up

ConnectionUp ==
    /\ up' = TRUE
    /\ UNCHANGED status

ConnectionDown ==
    /\ up' = FALSE
    /\ status' = [c \in Charger |-> IF status[c] = "absent" THEN "absent" ELSE "waiting"]

Next ==
    \/ ConnectionUp
    \/ ConnectionDown
    \/ \E c \in Charger : Add(c) \/ Remove(c) \/ Subscribe(c)

Spec == Init /\ [][Next]_vars
=============================================================================
