--------------------------- MODULE SignalRManager ----------------------------
(***************************************************************************)
(* The SignalR manager of internal/signalr/manager.go: the registry of     *)
(* chargers, the channel of chargers waiting to be subscribed, and the one *)
(* goroutine (run) that empties that channel and follows the client's      *)
(* state.                                                                  *)
(*                                                                         *)
(* Register, Unregister, the run loop and the retry goroutines share the   *)
(* lock m.mu, and some of them keep it while they wait: for the answer of  *)
(* the cloud (SubscribeCharger, UnsubscribeCharger), or for room in the    *)
(* channel (Register, addChargerSubscription).  holder says who has the    *)
(* lock between two steps; a step that takes it and gives it back at once  *)
(* needs holder = "none".                                                  *)
(*                                                                         *)
(* The client is left open here: its states arrive in any order and an     *)
(* invocation ends either way.  Module SignalR puts the real one in.       *)
(***************************************************************************)
EXTENDS Naturals, Sequences, FiniteSets

CONSTANTS
    Charger,     \* charger identifiers
    NoCharger,   \* the loop, or the holder of the lock, has no charger
    StatesCap    \* capacity of the client's StateC (10 in the code)

ASSUME ChargerAssumption    == IsFiniteSet(Charger) /\ NoCharger \notin Charger
ASSUME StatesCapAssumption  == StatesCap \in Nat \ {0}

VARIABLES
    running,        \* m.running
    done,           \* m.done: nil, open or closed
    chargers,       \* the keys of m.chargers
    subscribed,     \* the registered chargers with isSubscribed set
    made,           \* m.subscriptions is not nil
    subscriptions,  \* what the channel m.subscriptions holds
    capacity,       \* its capacity
    retries,        \* addChargerSubscription goroutines waiting for their timer
    holder,         \* who keeps m.mu between two steps
    held,           \* the charger that holder is busy with
    loop,           \* where run is
    item,           \* the charger the loop is busy with
    states,         \* the channel StateC
    panicked        \* a closed m.done was closed again

serviceVars == <<running, done, panicked>>
bookVars    == <<chargers, subscribed>>
channelVars == <<made, subscriptions, capacity, retries>>
lockVars    == <<holder, held>>
loopVars    == <<loop, item>>
vars == <<serviceVars, bookVars, channelVars, lockVars, loopVars, states>>

ClientState == {"connected", "disconnected"}

TypeOK ==
    /\ running \in BOOLEAN
    /\ done \in {"none", "open", "closed"}
    /\ chargers \subseteq Charger
    /\ subscribed \subseteq chargers
    /\ made \in BOOLEAN
    /\ subscriptions \in Seq(Charger)
    /\ capacity \in Nat
    /\ Len(subscriptions) <= capacity
    /\ retries \in [Charger -> Nat]
    /\ holder \in {"none", "loop", "register", "unregister", "close", "retry"}
    /\ held \in Charger \cup {NoCharger}
    /\ loop \in {"off", "select", "subscription", "invoke", "connected",
                 "disconnected", "observation", "report", "exited"}
    /\ item \in Charger \cup {NoCharger}
    /\ states \in Seq(ClientState)
    /\ panicked \in BOOLEAN

Init ==
    /\ running = FALSE
    /\ done = "none"
    /\ chargers = {}
    /\ subscribed = {}
    /\ made = FALSE
    /\ subscriptions = <<>>
    /\ capacity = 0
    /\ retries = [c \in Charger |-> 0]
    /\ holder = "none"
    /\ held = NoCharger
    /\ loop = "off"
    /\ item = NoCharger
    /\ states = <<>>
    /\ panicked = FALSE

Free      == holder = "none"
Release   == holder' = "none" /\ held' = NoCharger
Take(w,c) == Free /\ holder' = w /\ held' = c
Room      == Len(subscriptions) < capacity

-----------------------------------------------------------------------------
(* The service. *)

\* Start closes m.done when there is one; after a Stop it is closed already.
ManagerStart ==
    /\ Free
    /\ CASE running         -> UNCHANGED <<serviceVars, loop>>
         [] done = "closed" -> panicked' = TRUE /\ UNCHANGED <<running, done, loop>>
         [] OTHER           -> /\ running' = TRUE
                               /\ done' = "open"
                               /\ loop' = "select"
                               /\ UNCHANGED panicked
    /\ UNCHANGED <<bookVars, channelVars, lockVars, item, states>>

ManagerStop ==
    /\ Free
    /\ running' = FALSE
    /\ done' = IF running THEN "closed" ELSE done
    /\ UNCHANGED <<panicked, bookVars, channelVars, lockVars, loopVars, states>>

-----------------------------------------------------------------------------
(* Register and Unregister. *)

\* The lock is kept until the charger is in the channel, if there is one.
Register(c) ==
    /\ Free
    /\ IF c \in chargers
       THEN UNCHANGED <<chargers, lockVars>>
       ELSE /\ chargers' = chargers \cup {c}
            /\ IF made THEN Take("register", c) ELSE UNCHANGED lockVars
    /\ UNCHANGED <<serviceVars, subscribed, channelVars, loopVars, states>>

\* m.subscriptions <- chargerID, by Register or by a retry: it waits for room.
SendSubscription ==
    /\ holder \in {"register", "retry"}
    /\ Room
    /\ subscriptions' = Append(subscriptions, held)
    /\ Release
    /\ UNCHANGED <<serviceVars, bookVars, made, capacity, retries, loopVars, states>>

\* The charger is gone before the cloud is asked to unsubscribe it.
Unregister(c) ==
    /\ Free
    /\ chargers' = chargers \ {c}
    /\ subscribed' = subscribed \ {c}
    /\ IF c \in chargers THEN Take("unregister", c) ELSE UNCHANGED lockVars
    /\ UNCHANGED <<serviceVars, channelVars, loopVars, states>>

\* UnsubscribeCharger has failed: Unregister returns its error.
UnsubscribeFailed ==
    /\ holder = "unregister"
    /\ Release
    /\ UNCHANGED <<serviceVars, bookVars, channelVars, loopVars, states>>

\* It has succeeded: the client is closed if that was the last charger.
UnsubscribeSucceeded ==
    /\ holder = "unregister"
    /\ IF chargers = {} THEN holder' = "close" /\ UNCHANGED held ELSE Release
    /\ UNCHANGED <<serviceVars, bookVars, channelVars, loopVars, states>>

\* client.Close() has returned.
ClientClosed ==
    /\ holder = "close"
    /\ Release
    /\ UNCHANGED <<serviceVars, bookVars, channelVars, loopVars, states>>

-----------------------------------------------------------------------------
(* addChargerSubscription, after a failed subscription. *)

\* Mutant of RetryFires: the timer fires for nothing.
RetryFizzles(c) ==
    /\ Free
    /\ retries[c] > 0
    /\ retries' = [retries EXCEPT ![c] = @ - 1]
    /\ UNCHANGED <<serviceVars, bookVars, made, subscriptions, capacity,
                   lockVars, loopVars, states>>

\* The timer fires; the lock is kept until the charger is in the channel.
RetryFires(c) ==
    /\ Free
    /\ retries[c] > 0
    /\ retries' = [retries EXCEPT ![c] = @ - 1]
    /\ IF made THEN Take("retry", c) ELSE UNCHANGED lockVars
    /\ UNCHANGED <<serviceVars, bookVars, made, subscriptions, capacity, loopVars, states>>

\* case <-m.done
RetryStops(c) ==
    /\ retries[c] > 0
    /\ done = "closed"
    /\ retries' = [retries EXCEPT ![c] = @ - 1]
    /\ UNCHANGED <<serviceVars, bookVars, made, subscriptions, capacity,
                   lockVars, loopVars, states>>

-----------------------------------------------------------------------------
(* run: one case of its select, and then the handler, which waits for m.mu. *)

Receive(there, c) ==
    /\ loop = "select"
    /\ loop' = there
    /\ item' = c

Select == loop' = "select" /\ item' = NoCharger

ExitLoop ==
    /\ done = "closed"
    /\ Receive("exited", NoCharger)
    /\ UNCHANGED <<serviceVars, bookVars, channelVars, lockVars, states>>

ReceiveSubscription ==
    /\ made
    /\ subscriptions # <<>>
    /\ Receive("subscription", Head(subscriptions))
    /\ subscriptions' = Tail(subscriptions)
    /\ UNCHANGED <<serviceVars, bookVars, made, capacity, retries, lockVars, states>>

ReceiveState ==
    /\ states # <<>>
    /\ Receive(Head(states), NoCharger)
    /\ states' = Tail(states)
    /\ UNCHANGED <<serviceVars, bookVars, channelVars, lockVars>>

ReceiveObservation(c) ==
    /\ Receive("observation", c)
    /\ UNCHANGED <<serviceVars, bookVars, channelVars, lockVars, states>>

\* Mutant of HandleSubscription: a charger that has been unregistered since it
\* was put into the channel is subscribed all the same.
HandleSubscriptionUnchecked ==
    /\ loop = "subscription"
    /\ Free
    /\ Take("loop", item) /\ loop' = "invoke" /\ UNCHANGED item
    /\ UNCHANGED <<serviceVars, bookVars, channelVars, states>>

\* handleSubscription up to SubscribeCharger, which runs with the lock.
HandleSubscription ==
    /\ loop = "subscription"
    /\ Free
    /\ IF item \in chargers
       THEN Take("loop", item) /\ loop' = "invoke" /\ UNCHANGED item
       ELSE Select /\ UNCHANGED lockVars
    /\ UNCHANGED <<serviceVars, bookVars, channelVars, states>>

SubscribeSucceeded ==
    /\ loop = "invoke"
    /\ subscribed' = subscribed \cup {item}
    /\ Release
    /\ Select
    /\ UNCHANGED <<serviceVars, chargers, channelVars, states>>

\* Mutant of SubscribeFailed: no retry.
SubscribeGivesUp ==
    /\ loop = "invoke"
    /\ Release
    /\ Select
    /\ UNCHANGED <<serviceVars, bookVars, channelVars, states>>

\* A retry is spawned unless the channel is gone.
SubscribeFailed ==
    /\ loop = "invoke"
    /\ retries' = IF made THEN [retries EXCEPT ![item] = @ + 1] ELSE retries
    /\ Release
    /\ Select
    /\ UNCHANGED <<serviceVars, bookVars, made, subscriptions, capacity, states>>

\* The orders in which a map is iterated over.
Orders(S) ==
    {order \in [1 .. Cardinality(S) -> S] :
        \A c \in S : \E i \in 1 .. Cardinality(S) : order[i] = c}

\* Mutant of HandleConnected: only the chargers that are not subscribed.
HandleConnectedUnsubscribed ==
    /\ loop = "connected"
    /\ Free
    /\ made' = TRUE
    /\ capacity' = 1 + Cardinality(chargers)
    /\ subscriptions' \in Orders(chargers \ subscribed)
    /\ Select
    /\ UNCHANGED <<serviceVars, bookVars, retries, lockVars, states>>

\* A new channel for all the chargers.  Once m.done is closed each of them may
\* lose the draw of the select.
HandleConnected ==
    /\ loop = "connected"
    /\ Free
    /\ made' = TRUE
    /\ capacity' = 1 + Cardinality(chargers)
    /\ \E filled \in IF done = "closed" THEN SUBSET chargers ELSE {chargers} :
           subscriptions' \in Orders(filled)
    /\ Select
    /\ UNCHANGED <<serviceVars, bookVars, retries, lockVars, states>>

\* Mutant of HandleDisconnected: isSubscribed is not reset.
HandleDisconnectedKeeps ==
    /\ loop = "disconnected"
    /\ Free
    /\ made' = FALSE
    /\ subscriptions' = <<>>
    /\ capacity' = 0
    /\ Select
    /\ UNCHANGED <<serviceVars, bookVars, retries, lockVars, states>>

HandleDisconnected ==
    /\ loop = "disconnected"
    /\ Free
    /\ subscribed' = {}
    /\ made' = FALSE
    /\ subscriptions' = <<>>
    /\ capacity' = 0
    /\ Select
    /\ UNCHANGED <<serviceVars, chargers, retries, lockVars, states>>

\* The lookup of the handler, under the read lock.
HandleObservation ==
    /\ loop = "observation"
    /\ Free
    /\ loop' = IF item \in chargers THEN "report" ELSE "select"
    /\ item' = NoCharger
    /\ UNCHANGED <<serviceVars, bookVars, channelVars, lockVars, states>>

\* The handler's reports, which ask Connected and so read-lock m.mu again.
ReportObservation ==
    /\ loop = "report"
    /\ Free
    /\ Select
    /\ UNCHANGED <<serviceVars, bookVars, channelVars, lockVars, states>>

Handle ==
    \/ HandleSubscription \/ HandleConnected \/ HandleDisconnected
    \/ HandleObservation \/ ReportObservation

-----------------------------------------------------------------------------
\* The client: any change of state, in any order.
ClientReports(state) ==
    /\ Len(states) < StatesCap
    /\ states' = Append(states, state)
    /\ UNCHANGED <<serviceVars, bookVars, channelVars, lockVars, loopVars>>

Next ==
    /\ ~panicked
    /\ \/ ManagerStart \/ ManagerStop
       \/ SendSubscription
       \/ UnsubscribeFailed \/ UnsubscribeSucceeded \/ ClientClosed
       \/ ExitLoop \/ ReceiveSubscription \/ ReceiveState
       \/ Handle \/ SubscribeSucceeded \/ SubscribeFailed
       \/ \E c \in Charger :
              \/ Register(c) \/ Unregister(c)
              \/ RetryFires(c) \/ RetryStops(c)
              \/ ReceiveObservation(c)
       \/ \E state \in ClientState : ClientReports(state)

Spec == Init /\ [][Next]_vars

(* The fairness that the given chargers need.  The mutex is granted in order
   and select draws its case: whoever asks for the lock, and whatever the loop
   can receive, is served as long as it keeps becoming possible (strong
   fairness).  Timers fire and an invocation ends.
   The cloud does not refuse a charger for ever. *)
FairnessFor(Chargers) ==
    /\ WF_vars(SendSubscription)
    /\ WF_vars(UnsubscribeFailed \/ UnsubscribeSucceeded)
    /\ WF_vars(ClientClosed)
    /\ WF_vars(SubscribeSucceeded \/ SubscribeFailed)
    /\ SF_vars(ReceiveSubscription)
    /\ SF_vars(ReceiveState)
    /\ SF_vars(Handle)
    /\ \A c \in Chargers :
          /\ SF_vars(RetryFires(c))
          /\ SF_vars(item = c /\ SubscribeSucceeded)

-----------------------------------------------------------------------------
(* While there is a connection, a registered charger that is not subscribed
   is on its way: in the channel, with a goroutine that will put it there, or
   in the hands of the loop.  Nothing else would ever subscribe it, and until
   the connection is lost its reports would be suppressed. *)
Queued(c)   == \E i \in DOMAIN subscriptions : subscriptions[i] = c
Retrying(c) == retries[c] > 0
Sending(c)  == holder \in {"register", "retry"} /\ held = c
Handled(c)  == loop \in {"subscription", "invoke"} /\ item = c

NoForgottenCharger ==
    made /\ done # "closed" =>
        \A c \in chargers \ subscribed :
            Queued(c) \/ Retrying(c) \/ Sending(c) \/ Handled(c)

(* The loop and the sender wait for each other: the sender has the lock and
   needs the loop to make room, the loop needs the lock. *)
Wedged ==
    /\ holder \in {"register", "retry"}
    /\ ~Room
    /\ loop \in {"subscription", "connected", "disconnected", "observation", "report"}

(* A charger that stays registered, on a connection whose state no longer
   changes, ends up subscribed, whatever is retried and unregistered meanwhile; unless the
   manager is wedged. *)
EndsUpSubscribed(c) ==
    <>[](/\ c \in chargers /\ made /\ done # "closed"
         /\ loop \notin {"connected", "disconnected"})
        => <>(c \in subscribed \/ Wedged)

(* manager.go:32, "Register registers a charger to be managed": the call
   returns.  It does not when it meets the loop as described above. *)
RegisterReturns == holder = "register" ~> holder # "register"

-----------------------------------------------------------------------------
(* The manager keeps the book: a charger counts as subscribed only after a
   subscription made on the connection the manager believes in, and all of
   them stop counting when that connection is reported lost. *)
Book == INSTANCE SubscriptionBook WITH
    status <- [c \in Charger |-> IF c \in subscribed THEN "subscribed"
                                 ELSE IF c \in chargers THEN "waiting" ELSE "absent"],
    up <- made

BookSpec == Book!Spec
=============================================================================
