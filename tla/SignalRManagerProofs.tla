------------------------ MODULE SignalRManagerProofs -------------------------
(***************************************************************************)
(* Proofs about SignalRManager, for any finite set of chargers.            *)
(*                                                                         *)
(* NoForgottenCharger is not inductive alone: that a failed subscription   *)
(* is retried needs the channel to exist while the loop handles one, and   *)
(* that an answer is booked for a registered charger needs the lock to be  *)
(* kept from the lookup to the answer.  ServiceInv, LoopInv and SenderInv  *)
(* say so.                                                                 *)
(***************************************************************************)
EXTENDS SignalRManager, FiniteSetTheorems, TLAPS

\* The service has a channel done exactly while it runs, and no loop before.
ServiceInv ==
    /\ running = (done = "open")
    /\ done = "none" => loop = "off"

\* The loop handles a subscription only while the channel exists, and has the
\* lock while it asks the cloud.
LoopInv ==
    /\ loop \in {"subscription", "invoke"} => made /\ item \in Charger
    /\ loop = "invoke" => holder = "loop" /\ item \in chargers

\* A sender has a charger to send.
SenderInv == holder \in {"register", "retry"} => held \in Charger

IInv == TypeOK /\ ServiceInv /\ LoopInv /\ SenderInv /\ NoForgottenCharger

USE ChargerAssumption, StatesCapAssumption

\* An order of a set of chargers is a sequence that holds each of them.
LEMMA OrdersOf ==
    ASSUME NEW S, S \subseteq Charger, NEW order \in Orders(S)
    PROVE  /\ order \in Seq(Charger)
           /\ Len(order) = Cardinality(S)
           /\ \A c \in S : \E i \in DOMAIN order : order[i] = c
<1>1. IsFiniteSet(S) /\ Cardinality(S) \in Nat
  BY FS_Subset, FS_CardinalityType
<1>2. order \in [1 .. Cardinality(S) -> Charger]
  BY <1>1 DEF Orders
<1>3. order \in Seq(Charger) /\ Len(order) = Cardinality(S)
  BY <1>1, <1>2
<1> QED BY <1>2, <1>3 DEF Orders

\* The initial state satisfies the inductive invariant.
LEMMA InitInv == Init => IInv
<1> SUFFICES ASSUME Init PROVE IInv
  OBVIOUS
<1>1. running \in BOOLEAN /\ made \in BOOLEAN /\ panicked \in BOOLEAN /\ running = (done = "open")
  BY Zenon DEF Init
<1>2. subscriptions \in Seq(Charger) /\ states \in Seq(ClientState)
  BY DEF Init
<1>3. TypeOK
  BY <1>1, <1>2 DEF Init, TypeOK
<1>4. ~made
  BY Zenon DEF Init
<1>5. ServiceInv /\ LoopInv /\ SenderInv
  BY <1>1, <1>4 DEF Init, ServiceInv, LoopInv, SenderInv
<1> QED BY <1>3, <1>4, <1>5 DEF IInv, NoForgottenCharger

\* ManagerStart and ManagerStop: a loop starts only where there was none.
LEMMA ServiceSteps == IInv /\ (ManagerStart \/ ManagerStop) => IInv'
<1> SUFFICES ASSUME IInv, ManagerStart \/ ManagerStop PROVE IInv'
  OBVIOUS
<1>1. /\ UNCHANGED <<bookVars, channelVars, lockVars, item, states>>
      /\ panicked' \in BOOLEAN /\ running' \in BOOLEAN
      /\ \/ UNCHANGED <<done, loop>> /\ running' = running
         \/ running' = TRUE /\ done' = "open" /\ loop' = "select" /\ done # "closed" /\ ~running
         \/ running' = FALSE /\ done' = "closed" /\ loop' = loop
         \/ running' = FALSE /\ ~running /\ UNCHANGED <<done, loop>>
  <2>1. CASE ManagerStop
    BY <2>1, Zenon DEF ManagerStop, loopVars, IInv, TypeOK
  <2>2. CASE ManagerStart /\ running
    BY <2>2, Zenon DEF ManagerStart, serviceVars, IInv, TypeOK
  <2>3. CASE ManagerStart /\ ~running /\ done = "closed"
    BY <2>3, Zenon DEF ManagerStart, IInv, TypeOK
  <2>4. CASE ManagerStart /\ ~running /\ done # "closed"
    BY <2>4, Zenon DEF ManagerStart, IInv, TypeOK
  <2> QED BY <2>1, <2>2, <2>3, <2>4
<1>2. ServiceInv'
  BY <1>1 DEF IInv, ServiceInv, TypeOK
<1>3. TypeOK'
  BY <1>1 DEF IInv, TypeOK, bookVars, channelVars, lockVars
<1>4. loop' = loop \/ (loop = "off" /\ loop' = "select")
  BY <1>1 DEF IInv, ServiceInv, TypeOK
<1>5. LoopInv' /\ SenderInv'
  BY <1>1, <1>4 DEF IInv, LoopInv, SenderInv, bookVars, channelVars, lockVars
<1>6. done' # "closed" => done # "closed"
  BY <1>1
<1>7. NoForgottenCharger'
  BY <1>1, <1>4, <1>6 DEF IInv, NoForgottenCharger, Queued, Retrying, Sending, Handled,
     bookVars, channelVars, lockVars
<1> QED BY <1>2, <1>3, <1>5, <1>7 DEF IInv

\* The definitions every step below needs.
USE DEF IInv, serviceVars, bookVars, channelVars, lockVars, loopVars, Free, Room

\* Register: a new charger is with the sender at once, when there is a channel.
LEMMA RegisterInv == \A c \in Charger : IInv /\ Register(c) => IInv'
<1> SUFFICES ASSUME NEW c \in Charger, IInv, Register(c) PROVE IInv'
  OBVIOUS
<1>1. /\ holder = "none"
      /\ UNCHANGED <<serviceVars, subscribed, channelVars, loopVars, states>>
      /\ \/ UNCHANGED <<chargers, lockVars>>
         \/ chargers' = chargers \cup {c} /\ made /\ holder' = "register" /\ held' = c
         \/ chargers' = chargers \cup {c} /\ ~made /\ UNCHANGED lockVars
  BY Zenon DEF Register, Take
<1>2. TypeOK'
  BY <1>1 DEF TypeOK
<1>3. ServiceInv' /\ LoopInv' /\ SenderInv'
  BY <1>1 DEF ServiceInv, LoopInv, SenderInv
<1>4. NoForgottenCharger'
  BY <1>1 DEF NoForgottenCharger, Queued, Retrying, Sending, Handled
<1> QED BY <1>2, <1>3, <1>4

\* m.subscriptions <- chargerID: the charger moves from the sender to the channel.
LEMMA SendSubscriptionInv == IInv /\ SendSubscription => IInv'
<1> SUFFICES ASSUME IInv, SendSubscription PROVE IInv'
  OBVIOUS
<1>1. /\ holder \in {"register", "retry"} /\ held \in Charger
      /\ Len(subscriptions) < capacity
      /\ subscriptions' = Append(subscriptions, held)
      /\ holder' = "none" /\ held' = NoCharger
      /\ UNCHANGED <<serviceVars, bookVars, made, capacity, retries, loopVars, states>>
  BY DEF SendSubscription, Release, SenderInv
<1>2. /\ subscriptions' \in Seq(Charger) /\ Len(subscriptions') <= capacity
      /\ \A c \in Charger : Queued(c) \/ c = held => Queued(c)'
  <2>1. subscriptions \in Seq(Charger) /\ capacity \in Nat
    BY DEF TypeOK
  <2>2. /\ subscriptions' \in Seq(Charger)
        /\ Len(subscriptions') = Len(subscriptions) + 1
        /\ subscriptions'[Len(subscriptions) + 1] = held
        /\ \A i \in DOMAIN subscriptions :
              i \in DOMAIN subscriptions' /\ subscriptions'[i] = subscriptions[i]
    BY <1>1, <2>1
  <2> QED BY <1>1, <2>1, <2>2 DEF Queued
<1>3. TypeOK'
  BY <1>1, <1>2 DEF TypeOK
<1>4. ServiceInv' /\ LoopInv' /\ SenderInv'
  BY <1>1 DEF ServiceInv, LoopInv, SenderInv
<1>5. NoForgottenCharger'
  BY <1>1, <1>2 DEF TypeOK, NoForgottenCharger, Retrying, Sending, Handled
<1> QED BY <1>3, <1>4, <1>5

\* Unregister and the ends of its two calls.
LEMMA UnregisterInv ==
    IInv /\ (\/ UnsubscribeFailed \/ UnsubscribeSucceeded \/ ClientClosed
             \/ \E c \in Charger : Unregister(c)) => IInv'
<1>1. ASSUME IInv, NEW c \in Charger, Unregister(c) PROVE IInv'
  <2>1. /\ holder = "none"
        /\ chargers' = chargers \ {c} /\ subscribed' = subscribed \ {c}
        /\ \/ UNCHANGED lockVars
           \/ holder' = "unregister" /\ held' = c
        /\ UNCHANGED <<serviceVars, channelVars, loopVars, states>>
    BY <1>1, Zenon DEF Unregister, Take
  <2>2. TypeOK'
    BY <1>1, <2>1 DEF TypeOK
  <2>3. ServiceInv' /\ LoopInv' /\ SenderInv'
    BY <1>1, <2>1 DEF ServiceInv, LoopInv, SenderInv
  <2>4. NoForgottenCharger'
    BY <1>1, <2>1 DEF NoForgottenCharger, Queued, Retrying, Sending, Handled
  <2> QED BY <2>2, <2>3, <2>4
<1>2. ASSUME IInv, UnsubscribeFailed \/ UnsubscribeSucceeded \/ ClientClosed PROVE IInv'
  <2>1. /\ holder \in {"unregister", "close"}
        /\ \/ holder' = "close" /\ held' = held
           \/ holder' = "none" /\ held' = NoCharger
        /\ UNCHANGED <<serviceVars, bookVars, channelVars, loopVars, states>>
    BY <1>2, Zenon DEF UnsubscribeFailed, UnsubscribeSucceeded, ClientClosed, Release
  <2>2. TypeOK'
    BY <1>2, <2>1 DEF TypeOK
  <2>3. ServiceInv' /\ LoopInv' /\ SenderInv'
    BY <1>2, <2>1 DEF ServiceInv, LoopInv, SenderInv
  <2>4. NoForgottenCharger'
    BY <1>2, <2>1 DEF NoForgottenCharger, Queued, Retrying, Sending, Handled
  <2> QED BY <2>2, <2>3, <2>4
<1> QED BY <1>1, <1>2

\* addChargerSubscription: the charger moves from the timer to the sender, and
\* is dropped only without a channel or after a stop.
LEMMA RetryInv == \A c \in Charger : IInv /\ (RetryFires(c) \/ RetryStops(c)) => IInv'
<1> SUFFICES ASSUME NEW c \in Charger, IInv, RetryFires(c) \/ RetryStops(c) PROVE IInv'
  OBVIOUS
<1>1. /\ retries[c] > 0
      /\ retries' = [retries EXCEPT ![c] = @ - 1]
      /\ UNCHANGED <<serviceVars, bookVars, made, subscriptions, capacity, loopVars, states>>
      /\ \/ UNCHANGED lockVars /\ (~made \/ done = "closed")
         \/ holder = "none" /\ holder' = "retry" /\ held' = c
  BY Zenon DEF RetryFires, RetryStops, Take
<1>2. /\ retries' \in [Charger -> Nat]
      /\ \A d \in Charger : d # c => retries'[d] = retries[d]
  BY <1>1 DEF TypeOK
<1>3. TypeOK'
  BY <1>1, <1>2 DEF TypeOK
<1>4. ServiceInv' /\ LoopInv' /\ SenderInv'
  BY <1>1 DEF ServiceInv, LoopInv, SenderInv
<1>5. NoForgottenCharger'
  BY <1>1, <1>2 DEF TypeOK, NoForgottenCharger, Queued, Retrying, Sending, Handled
<1> QED BY <1>3, <1>4, <1>5

\* The cases of select: a charger received is in the hands of the loop.
LEMMA ReceiveInv ==
    IInv /\ (\/ ExitLoop \/ ReceiveSubscription \/ ReceiveState
             \/ \E c \in Charger : ReceiveObservation(c)) => IInv'
<1>1. ASSUME IInv, ReceiveSubscription PROVE IInv'
  <2>1. /\ made /\ loop = "select" /\ subscriptions # <<>>
        /\ loop' = "subscription" /\ item' = Head(subscriptions)
        /\ subscriptions' = Tail(subscriptions)
        /\ UNCHANGED <<serviceVars, bookVars, made, capacity, retries, lockVars, states>>
    BY <1>1 DEF ReceiveSubscription, Receive
  <2>2. subscriptions \in Seq(Charger) /\ Len(subscriptions) <= capacity /\ capacity \in Nat
    BY <1>1 DEF TypeOK
  <2>3. /\ item' \in Charger /\ subscriptions' \in Seq(Charger)
        /\ Len(subscriptions') <= capacity
        /\ \A c : Queued(c) => Queued(c)' \/ c = item'
    <3>1. item' = subscriptions[1] /\ Len(subscriptions) > 0
      BY <2>1, <2>2
    <3>2. Len(subscriptions') = Len(subscriptions) - 1 /\ subscriptions' \in Seq(Charger)
      BY <2>1, <2>2
    <3>3. \A i \in DOMAIN subscriptions' : subscriptions'[i] = subscriptions[i + 1]
      BY <2>1, <2>2
    <3>4. \A i \in DOMAIN subscriptions : i = 1 \/ i - 1 \in DOMAIN subscriptions'
      BY <2>2, <3>2
    <3> QED BY <2>2, <3>1, <3>2, <3>3, <3>4 DEF Queued
  <2>4. TypeOK'
    BY <1>1, <2>1, <2>3 DEF TypeOK
  <2>5. ServiceInv' /\ LoopInv' /\ SenderInv'
    BY <1>1, <2>1, <2>3 DEF ServiceInv, LoopInv, SenderInv
  <2>6. NoForgottenCharger'
    BY <1>1, <2>1, <2>3 DEF NoForgottenCharger, Retrying, Sending, Handled
  <2> QED BY <2>4, <2>5, <2>6
<1>2. ASSUME IInv, ExitLoop \/ ReceiveState \/ \E c \in Charger : ReceiveObservation(c)
      PROVE  IInv'
  <2>1. /\ loop = "select" /\ item' \in Charger \cup {NoCharger}
        /\ loop' \in {"exited", "connected", "disconnected", "observation"}
        /\ loop' = "exited" => done # "none"
        /\ states' \in Seq(ClientState)
        /\ UNCHANGED <<serviceVars, bookVars, channelVars, lockVars>>
    <3>1. CASE ReceiveState
      <4>1. states \in Seq(ClientState) /\ states # <<>>
        BY <1>2, <3>1 DEF ReceiveState, TypeOK
      <4>2. Head(states) \in ClientState /\ Tail(states) \in Seq(ClientState)
        BY <4>1
      <4> QED BY <3>1, <4>2 DEF ReceiveState, Receive, ClientState
    <3>2. CASE ExitLoop \/ \E c \in Charger : ReceiveObservation(c)
      BY <1>2, <3>2 DEF ExitLoop, ReceiveObservation, Receive, TypeOK
    <3> QED BY <1>2, <3>1, <3>2
  <2>2. TypeOK'
    BY <1>2, <2>1 DEF TypeOK
  <2>3. ServiceInv' /\ LoopInv' /\ SenderInv'
    BY <1>2, <2>1 DEF ServiceInv, LoopInv, SenderInv
  <2>4. NoForgottenCharger'
    BY <1>2, <2>1 DEF NoForgottenCharger, Queued, Retrying, Sending, Handled
  <2> QED BY <2>2, <2>3, <2>4
<1> QED BY <1>1, <1>2

\* handleSubscription: the charger stays in the loop's hands until the answer,
\* which subscribes it or gives it a retry.
LEMMA SubscriptionInv ==
    IInv /\ (HandleSubscription \/ SubscribeSucceeded \/ SubscribeFailed) => IInv'
<1> USE DEF Select, Release
<1>1. ASSUME IInv, HandleSubscription PROVE IInv'
  <2>1. /\ loop = "subscription" /\ holder = "none"
        /\ UNCHANGED <<serviceVars, bookVars, channelVars, states>>
        /\ \/ /\ item \in chargers /\ holder' = "loop" /\ held' = item
              /\ loop' = "invoke" /\ item' = item
           \/ /\ item \notin chargers /\ UNCHANGED lockVars
              /\ loop' = "select" /\ item' = NoCharger
    BY <1>1, Zenon DEF HandleSubscription, Take
  <2>2. TypeOK'
    BY <1>1, <2>1 DEF TypeOK
  <2>3. ServiceInv' /\ LoopInv' /\ SenderInv'
    BY <1>1, <2>1 DEF ServiceInv, LoopInv, SenderInv
  <2>4. NoForgottenCharger'
    BY <1>1, <2>1 DEF NoForgottenCharger, Queued, Retrying, Sending, Handled
  <2> QED BY <2>2, <2>3, <2>4
<1>2. ASSUME IInv, SubscribeSucceeded PROVE IInv'
  <2>1. /\ loop = "invoke" /\ holder = "loop" /\ item \in chargers
        /\ subscribed' = subscribed \cup {item}
        /\ holder' = "none" /\ held' = NoCharger /\ loop' = "select" /\ item' = NoCharger
        /\ UNCHANGED <<serviceVars, chargers, channelVars, states>>
    BY <1>2 DEF SubscribeSucceeded, LoopInv
  <2>2. TypeOK'
    BY <1>2, <2>1 DEF TypeOK
  <2>3. ServiceInv' /\ LoopInv' /\ SenderInv'
    BY <1>2, <2>1 DEF ServiceInv, LoopInv, SenderInv
  <2>4. NoForgottenCharger'
    BY <1>2, <2>1 DEF NoForgottenCharger, Queued, Retrying, Sending, Handled
  <2> QED BY <2>2, <2>3, <2>4
<1>3. ASSUME IInv, SubscribeFailed PROVE IInv'
  <2>1. /\ loop = "invoke" /\ holder = "loop" /\ made /\ item \in Charger
        /\ retries' = [retries EXCEPT ![item] = @ + 1]
        /\ holder' = "none" /\ held' = NoCharger /\ loop' = "select" /\ item' = NoCharger
        /\ UNCHANGED <<serviceVars, bookVars, made, subscriptions, capacity, states>>
    BY <1>3 DEF SubscribeFailed, LoopInv
  <2>2. /\ retries' \in [Charger -> Nat] /\ retries'[item] > 0
        /\ \A c \in Charger : retries[c] > 0 => retries'[c] > 0
    BY <1>3, <2>1 DEF TypeOK
  <2>3. TypeOK'
    BY <1>3, <2>1, <2>2 DEF TypeOK
  <2>4. ServiceInv' /\ LoopInv' /\ SenderInv'
    BY <1>3, <2>1 DEF ServiceInv, LoopInv, SenderInv
  <2>5. NoForgottenCharger'
    BY <1>3, <2>1, <2>2 DEF TypeOK, NoForgottenCharger, Queued, Retrying, Sending, Handled
  <2> QED BY <2>3, <2>4, <2>5
<1> QED BY <1>1, <1>2, <1>3

\* handleClientState: a new channel holds every charger.
LEMMA ConnectedInv == IInv /\ HandleConnected => IInv'
<1> SUFFICES ASSUME IInv, HandleConnected PROVE IInv'
  OBVIOUS
<1>1. /\ loop = "connected" /\ holder = "none" /\ made' = TRUE
      /\ capacity' = 1 + Cardinality(chargers)
      /\ loop' = "select" /\ item' = NoCharger
      /\ UNCHANGED <<serviceVars, bookVars, retries, lockVars, states>>
  BY DEF HandleConnected, Select
<1>2. PICK filled \in SUBSET chargers :
          /\ subscriptions' \in Orders(filled)
          /\ done # "closed" => filled = chargers
  BY Zenon DEF HandleConnected
<1>3. filled \subseteq Charger /\ chargers \subseteq Charger
  BY <1>2 DEF TypeOK
<1>4. Cardinality(chargers) \in Nat /\ Cardinality(filled) <= Cardinality(chargers)
  BY <1>2, <1>3, FS_Subset, FS_CardinalityType
<1>5. /\ subscriptions' \in Seq(Charger)
      /\ Len(subscriptions') = Cardinality(filled)
      /\ \A c \in filled : Queued(c)'
  BY <1>2, <1>3, OrdersOf DEF Queued
<1>6. made' \in BOOLEAN
  BY <1>1, Zenon
<1>7. TypeOK'
  <2>1. capacity' \in Nat /\ Len(subscriptions') <= capacity'
    <3>1. Cardinality(filled) \in Nat
      BY <1>3, FS_Subset, FS_CardinalityType
    <3> QED BY <1>1, <1>4, <1>5, <3>1
  <2> QED BY <1>1, <1>5, <1>6, <2>1 DEF TypeOK
<1>8. ServiceInv' /\ LoopInv' /\ SenderInv'
  BY <1>1 DEF ServiceInv, LoopInv, SenderInv
<1>9. NoForgottenCharger'
  BY <1>1, <1>2, <1>5 DEF NoForgottenCharger
<1> QED BY <1>7, <1>8, <1>9

\* The handlers that leave no channel, or leave everything as it is.
LEMMA HandleInv ==
    IInv /\ (HandleDisconnected \/ HandleObservation \/ ReportObservation) => IInv'
<1> USE DEF Select
<1>1. ASSUME IInv, HandleDisconnected PROVE IInv'
  <2>1. made' = FALSE
    BY <1>1, Zenon DEF HandleDisconnected
  <2>2. TypeOK' /\ ServiceInv' /\ LoopInv' /\ SenderInv'
    <3>1. made' \in BOOLEAN
      BY <2>1, Zenon
    <3>2. TypeOK'
      <4>1. subscriptions' = <<>> /\ capacity' = 0
        BY <1>1 DEF HandleDisconnected
      <4>2. subscriptions' \in Seq(Charger) /\ Len(subscriptions') <= capacity' /\ capacity' \in Nat
        BY <4>1
      <4> QED BY <1>1, <3>1, <4>2 DEF HandleDisconnected, TypeOK
    <3> QED BY <1>1, <3>2 DEF HandleDisconnected, ServiceInv, LoopInv, SenderInv
  <2> QED BY <2>1, <2>2 DEF NoForgottenCharger
<1>2. ASSUME IInv, HandleObservation \/ ReportObservation PROVE IInv'
  <2>1. /\ loop \in {"observation", "report"} /\ loop' \in {"select", "report"}
        /\ item' = NoCharger
        /\ UNCHANGED <<serviceVars, bookVars, channelVars, lockVars, states>>
    BY <1>2 DEF HandleObservation, ReportObservation
  <2>2. TypeOK' /\ ServiceInv' /\ LoopInv' /\ SenderInv'
    BY <1>2, <2>1 DEF TypeOK, ServiceInv, LoopInv, SenderInv
  <2>3. NoForgottenCharger'
    BY <1>2, <2>1 DEF NoForgottenCharger, Queued, Retrying, Sending, Handled
  <2> QED BY <2>2, <2>3
<1> QED BY <1>1, <1>2

\* Every step keeps the inductive invariant.
LEMMA NextInv == IInv /\ [Next]_vars => IInv'
<1>1. ASSUME IInv, NEW state \in ClientState, ClientReports(state) PROVE IInv'
  <2>1. states' \in Seq(ClientState)
    <3>1. states \in Seq(ClientState) /\ states' = Append(states, state)
      BY <1>1 DEF ClientReports, TypeOK
    <3> QED BY <3>1
  <2>2. UNCHANGED <<serviceVars, bookVars, channelVars, lockVars, loopVars>>
    BY <1>1 DEF ClientReports
  <2>3. TypeOK' /\ ServiceInv' /\ LoopInv' /\ SenderInv'
    BY <1>1, <2>1, <2>2 DEF TypeOK, ServiceInv, LoopInv, SenderInv
  <2>4. NoForgottenCharger'
    BY <1>1, <2>2 DEF NoForgottenCharger, Queued, Retrying, Sending, Handled
  <2> QED BY <2>3, <2>4
<1>2. ASSUME IInv, UNCHANGED vars PROVE IInv'
  BY <1>2 DEF vars, TypeOK, ServiceInv, LoopInv, SenderInv, NoForgottenCharger,
     Queued, Retrying, Sending, Handled
<1> HIDE DEF IInv
<1>3. ASSUME IInv, Next PROVE IInv'
  BY <1>1, <1>3, ServiceSteps, RegisterInv, SendSubscriptionInv, UnregisterInv, RetryInv,
     ReceiveInv, SubscriptionInv, ConnectedInv, HandleInv
  DEF Next, Handle
<1> QED BY <1>2, <1>3

\* The inductive invariant holds of every behaviour of the manager.
THEOREM Invariance == Spec => []IInv
<1> HIDE DEF IInv
<1> QED BY InitInv, NextInv, PTL DEF Spec

\* Every variable keeps its type; in particular the channel never holds more
\* than it was made for, so that filling it at a connection cannot block.
THEOREM TypeCorrect == Spec => []TypeOK
<1>1. IInv => TypeOK
  OBVIOUS
<1> HIDE DEF IInv
<1> QED BY <1>1, Invariance, PTL

\* While there is a connection no registered charger is forgotten: it is
\* subscribed, or something is left that will subscribe it.
THEOREM NoForgottenChargerHolds == Spec => []NoForgottenCharger
<1>1. IInv => NoForgottenCharger
  OBVIOUS
<1> HIDE DEF IInv
<1> QED BY <1>1, Invariance, PTL

-----------------------------------------------------------------------------
(* The manager implements the book of subscriptions. *)

\* A step that changes neither the book nor the channel is a stutter of it.
LEMMA BookStutters == UNCHANGED <<bookVars, made>> => UNCHANGED Book!vars
BY DEF Book!vars

\* Every step of the manager is a step of the book, or stutters.
LEMMA BookStep == IInv /\ [Next]_vars => [Book!Next]_(Book!vars)
<1> SUFFICES ASSUME IInv, [Next]_vars PROVE Book!Next \/ UNCHANGED Book!vars
  OBVIOUS
<1> USE DEF Book!vars
<1>1. ASSUME NEW c \in Charger, Register(c) PROVE Book!Next \/ UNCHANGED Book!vars
  <2>1. UNCHANGED <<subscribed, made>> /\ chargers' = chargers \cup {c}
    BY <1>1, Zenon DEF Register
  <2>2. CASE c \in chargers
    <3>1. chargers' = chargers
      BY <2>1, <2>2
    <3> QED BY <2>1, <3>1
  <2>3. CASE c \notin chargers
    <3>1. Book!Add(c)
      BY <2>1, <2>3 DEF Book!Add, TypeOK
    <3> QED BY <3>1 DEF Book!Next
  <2> QED BY <2>2, <2>3
<1>2. ASSUME NEW c \in Charger, Unregister(c) PROVE Book!Next \/ UNCHANGED Book!vars
  <2>1. made' = made /\ chargers' = chargers \ {c} /\ subscribed' = subscribed \ {c}
    BY <1>2 DEF Unregister
  <2>2. CASE c \notin chargers
    <3>1. chargers' = chargers /\ subscribed' = subscribed
      BY <2>1, <2>2 DEF TypeOK
    <3> QED BY <2>1, <3>1
  <2>3. CASE c \in chargers
    <3>1. Book!Remove(c)
      BY <2>1, <2>3 DEF Book!Remove, TypeOK
    <3> QED BY <3>1 DEF Book!Next
  <2> QED BY <2>2, <2>3
<1>3. ASSUME SubscribeSucceeded PROVE Book!Next \/ UNCHANGED Book!vars
  <2>1. /\ made /\ item \in chargers /\ item \in Charger
        /\ UNCHANGED <<made, chargers>> /\ subscribed' = subscribed \cup {item}
    BY <1>3 DEF SubscribeSucceeded, LoopInv
  <2>2. CASE item \in subscribed
    <3>1. subscribed' = subscribed
      BY <2>1, <2>2
    <3> QED BY <2>1, <3>1
  <2>3. CASE item \notin subscribed
    <3>1. PICK c \in Charger : c = item
      BY <2>1
    <3>2. Book!Subscribe(c)
      BY <2>1, <2>3, <3>1 DEF Book!Subscribe
    <3> QED BY <3>2 DEF Book!Next
  <2> QED BY <2>2, <2>3
<1>4. ASSUME HandleConnected PROVE Book!Next \/ UNCHANGED Book!vars
  <2>1. Book!ConnectionUp
    BY <1>4, Zenon DEF HandleConnected, Book!ConnectionUp
  <2> QED BY <2>1 DEF Book!Next
<1>5. ASSUME HandleDisconnected PROVE Book!Next \/ UNCHANGED Book!vars
  <2>1. made' = FALSE /\ chargers' = chargers /\ subscribed' = {}
    BY <1>5, Zenon DEF HandleDisconnected
  <2>2. Book!ConnectionDown
    BY <2>1 DEF Book!ConnectionDown, TypeOK
  <2> QED BY <2>2 DEF Book!Next
<1>6. ASSUME NEW c \in Charger, RetryFires(c) \/ RetryStops(c) \/ ReceiveObservation(c)
      PROVE  UNCHANGED <<bookVars, made>>
  BY <1>6 DEF RetryFires, RetryStops, ReceiveObservation
<1>7. ASSUME \/ ManagerStart \/ ManagerStop \/ SendSubscription \/ UnsubscribeFailed
             \/ UnsubscribeSucceeded \/ ClientClosed \/ ExitLoop
      PROVE  UNCHANGED <<bookVars, made>>
  BY <1>7, Zenon DEF ManagerStart, ManagerStop, SendSubscription, UnsubscribeFailed,
     UnsubscribeSucceeded, ClientClosed, ExitLoop
<1>8. ASSUME \/ ReceiveSubscription \/ ReceiveState \/ HandleSubscription
             \/ HandleObservation \/ ReportObservation \/ SubscribeFailed
             \/ \E state \in ClientState : ClientReports(state)
      PROVE  UNCHANGED <<bookVars, made>>
  BY <1>8, Zenon DEF ReceiveSubscription, ReceiveState, HandleSubscription,
     HandleObservation, ReportObservation, SubscribeFailed, ClientReports
<1>9. CASE UNCHANGED vars
  BY <1>9 DEF vars
<1> QED
  BY <1>1, <1>2, <1>3, <1>4, <1>5, <1>6, <1>7, <1>8, <1>9, BookStutters
  DEF Next, Handle

\* The manager keeps the promise of SubscriptionBook: no charger counts as
\* subscribed but by a subscription on the present connection.
THEOREM KeepsTheBook == Spec => BookSpec
<1>1. Init => Book!Init
  BY DEF Init, Book!Init
<1> HIDE DEF IInv
<1> QED BY <1>1, BookStep, Invariance, PTL DEF Spec, BookSpec, Book!Spec
=============================================================================
