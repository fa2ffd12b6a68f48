------------------------------- MODULE SignalR -------------------------------
(***************************************************************************)
(* The SignalR client and the manager put together, with the application   *)
(* that starts the client after a login and closes it at a logout          *)
(* (internal/app/app.go), and with the cloud, which serves a charger on    *)
(* the connection it was subscribed on.                                    *)
(*                                                                         *)
(* The manager reads the channel the client's goroutines write, starts the *)
(* client from Register, invokes it with its own lock held, and closes it  *)
(* when the last charger is gone.  The application closes the same client  *)
(* without telling the manager.                                            *)
(***************************************************************************)
EXTENDS Naturals, Sequences, FiniteSets

CONSTANTS
    Session, NoSession,     \* see SignalRClient
    Charger, NoCharger,     \* see SignalRManager
    StatesCap

ASSUME SessionsAssumption   == NoSession \notin Session
ASSUME ChargersAssumption   == IsFiniteSet(Charger) /\ NoCharger \notin Charger
ASSUME CapacityAssumption   == StatesCap \in Nat \ {0}

VARIABLES
    clientRunning, current, cancelled, phase, watching, events, forgotten, connection,
    connState, invocation, target, link, crashed,
    managerRunning, done, chargers, subscribed, made, subscriptions, capacity,
    retries, holder, held, loop, item, panicked,
    states,  \* the channel from the client to the manager
    served   \* cloud: the chargers served on each goroutine's connection

Client == INSTANCE SignalRClient WITH running <- clientRunning
Manager == INSTANCE SignalRManager WITH running <- managerRunning

\* What each side has to itself.
clientVars == <<clientRunning, current, cancelled, phase, watching, events, forgotten,
                connection, connState, invocation, target, link, crashed>>
managerVars == <<managerRunning, done, chargers, subscribed, made, subscriptions,
                 capacity, retries, holder, held, loop, item, panicked>>
vars == <<clientVars, managerVars, states, served>>

TypeOK ==
    /\ Client!TypeOK
    /\ Manager!TypeOK
    /\ served \in [Session -> SUBSET Charger]

Init ==
    /\ Client!Init
    /\ Manager!Init
    /\ served = [s \in Session |-> {}]

ClientOnly(A)  == A /\ UNCHANGED <<managerVars, served>>
ManagerOnly(A) == A /\ UNCHANGED <<clientVars, served>>

-----------------------------------------------------------------------------
(* The application: registerChargers after a login, Logout. *)

AppStart == ClientOnly(Client!Start)
AppClose == ClientOnly(Client!Close)

-----------------------------------------------------------------------------
(* Register and Unregister reach the client. *)

\* Mutant of Register: the client is not started.
RegisterOnly(c) == ManagerOnly(Manager!Register(c))

\* ensureClientStarted: Start does nothing on a client that runs.
Register(c) ==
    /\ Manager!Register(c)
    /\ IF c \in chargers THEN UNCHANGED clientVars ELSE Client!Start
    /\ UNCHANGED served

CloseAfterLast ==
    /\ Manager!ClientClosed
    /\ Client!Close
    /\ UNCHANGED served

-----------------------------------------------------------------------------
(* One invocation, by whoever has the manager's lock for it: the loop
   (SubscribeCharger) or Unregister (UnsubscribeCharger). *)

Invoking == holder \in {"loop", "unregister"}

Invoke == ClientOnly(Invoking /\ (Client!InvokeCheck \/ Client!InvokeUse))

\* The cloud starts, or stops, sending the charger's observations.
CloudAnswers ==
    /\ Client!InvokeAnswered
    /\ served' = [served EXCEPT ![target] = IF holder = "loop" THEN @ \cup {held}
                                                               ELSE @ \ {held}]
    /\ UNCHANGED managerVars

InvocationSucceeds ==
    /\ Client!InvokeOk
    /\ IF holder = "loop" THEN Manager!SubscribeSucceeded
                          ELSE Manager!UnsubscribeSucceeded
    /\ UNCHANGED served

InvocationFails ==
    /\ Client!InvokeRefused \/ Client!InvokeFail
    /\ IF holder = "loop" THEN Manager!SubscribeFailed
                          ELSE Manager!UnsubscribeFailed
    /\ UNCHANGED served

-----------------------------------------------------------------------------
(* Steps of one side. *)

\* A connection that closes, or that a new one replaces, serves nobody any more.
ServedOnLinks(s) ==
    IF link[s] # "none" /\ link'[s] = "none"
    THEN served' = [served EXCEPT ![s] = {}]
    ELSE UNCHANGED served

Loop(s) ==
    /\ Client!Loop(s)
    /\ ServedOnLinks(s)
    /\ UNCHANGED managerVars

Library(s) ==
    /\ Client!Library(s)
    /\ ServedOnLinks(s)
    /\ UNCHANGED managerVars

Service == ManagerOnly(Manager!ManagerStart \/ Manager!ManagerStop)

Receive ==
    ManagerOnly(\/ Manager!ExitLoop
                \/ Manager!ReceiveSubscription
                \/ Manager!ReceiveState
                \/ \E c \in Charger : Manager!ReceiveObservation(c))

Next ==
    /\ ~crashed /\ ~panicked
    /\ \/ AppStart \/ AppClose \/ Service
       \/ Invoke \/ CloudAnswers \/ InvocationSucceeds \/ InvocationFails
       \/ CloseAfterLast \/ Receive
       \/ ManagerOnly(Manager!Handle \/ Manager!SendSubscription)
       \/ \E c \in Charger :
              \/ Register(c)
              \/ ManagerOnly(\/ Manager!Unregister(c)
                             \/ Manager!RetryFires(c)
                             \/ Manager!RetryStops(c))
       \/ \E s \in Session : Loop(s) \/ Library(s)

Spec == Init /\ [][Next]_vars

\* The behaviours in which nobody closes the client and nobody stops the
\* manager.
Steady == Next /\ cancelled' = {} /\ done' # "closed"

SteadySpec == Init /\ [][Steady]_vars

\* The behaviours in which the client is started again only after the goroutine
\* of its last close has returned.
OneAlive == \A s, t \in Session : phase[s] # "idle" /\ phase[t] # "idle" => s = t

OneAliveSpec == Init /\ [][Next /\ OneAlive']_vars

(* The fairness of the two components; of the cloud, only that an invocation
   ends.  *)
Fairness ==
    /\ \A s \in Session :
          /\ WF_vars(Loop(s) /\ phase[s] # "watch")
          /\ WF_vars(Loop(s) /\ phase[s] = "watch")
          /\ SF_vars(Loop(s) /\ states' # states)
    /\ WF_vars(Invoke \/ InvocationSucceeds \/ InvocationFails)
    /\ WF_vars(CloseAfterLast)
    /\ WF_vars(ManagerOnly(Manager!SendSubscription))
    /\ SF_vars(ManagerOnly(Manager!Handle))
    /\ SF_vars(ManagerOnly(Manager!ReceiveState))
    /\ \A c \in Charger : SF_vars(ManagerOnly(Manager!RetryFires(c)))

-----------------------------------------------------------------------------
(* The news of a lost connection on its way to the manager: in the library,
   with the goroutine that watched it, in the channel, in the loop's hands. *)
LossUnderWay ==
    \/ \E s \in Session :
          \/ phase[s] = "reportDisconnected"
          \/ \E i \in DOMAIN events[s] : events[s][i] = "closed"
    \/ \E i \in DOMAIN states : states[i] = "disconnected"
    \/ loop = "disconnected"

(* A charger the manager counts as subscribed, and whose cached state is
   therefore reported as current, is really served by the cloud, unless the
   loss of its connection is on its way to the manager.  Subscriptions,
   retries, unregistrations and reconnections may overlap. *)
SubscribedAreServed ==
    \A c \in subscribed : LossUnderWay \/ \E s \in Session : c \in served[s]

\* The news of a new connection is on its way in the same manner.
ConnectionUnderWay ==
    \/ \E s \in Session : phase[s] = "reportConnected"
    \/ \E i \in DOMAIN states : states[i] = "connected"
    \/ loop = "connected"

(* A logout leaves the manager with chargers that count as subscribed on a
   connection that is gone (see InactiveIsNotConnected).  The next connection
   makes up for it: whatever counts, every registered charger is served, or on
   its way to a subscription, or the news of a loss or of the connection is.
   This needs OneAlive.  A goroutine that outlives its Close may put its own
   connection in the place of the next one's; the charger is then subscribed
   on a connection that nobody watches any more, and its end is no news. *)
ServedOrOnItsWay ==
    connState = "connected" /\ done # "closed" =>
        \A c \in chargers :
            \/ \E s \in Session : c \in served[s]
            \/ Manager!Queued(c) \/ Manager!Retrying(c) \/ Manager!Sending(c) \/ Manager!Handled(c)
            \/ LossUnderWay \/ ConnectionUnderWay

(* The last state sent and not overtaken is the client's own: what the manager
   will believe once it has read the channel is what Connected() answers. *)
Believed ==
    IF \E s \in Session : phase[s] = "reportConnected" THEN "connected"
    ELSE IF \E s \in Session : phase[s] = "reportDisconnected" THEN "disconnected"
    ELSE IF states # <<>> THEN states[Len(states)]
    ELSE IF loop \in {"connected", "disconnected"} THEN loop
    ELSE IF made THEN "connected" ELSE "disconnected"

ManagerCatchesUp == Believed = connState

(* A registered charger keeps a running client: the close that follows the
   last Unregister cannot overtake the start of the next Register.  Only the
   application closes the client of a registered charger, at a logout. *)
ChargersHaveClient ==
    [][/\ chargers' \ chargers # {} => clientRunning'
       /\ holder = "close" /\ clientRunning /\ ~clientRunning' => chargers' = {}]_vars

(* A charger that counts as subscribed while the cloud does not serve it; and
   what ends that, for good or by the deadlock described in SignalRManager. *)
Unserved(c) == c \in subscribed /\ \A s \in Session : c \notin served[s]
Noticed(c)  == ~Unserved(c) \/ Manager!Wedged

(* manager.go:29-30, of Connected: "If the connection is not active, it
   returns false and a reason for the disconnection."  Read when all is quiet:
   no goroutine left, nothing in the channel, the loop idle.  A logout closes
   the client without a word to the manager, so this does not hold. *)
Quiet ==
    /\ \A s \in Session : phase[s] = "idle" /\ link[s] = "none"
    /\ states = <<>>
    /\ loop = "select"
    /\ holder = "none"

InactiveIsNotConnected == Quiet => subscribed = {}
=============================================================================
