---------------------------- MODULE SignalRProofs ----------------------------
(***************************************************************************)
(* Proofs about SignalR, the client and the manager put together, for any  *)
(* sessions, chargers and capacity.                                        *)
(*                                                                         *)
(* Every step of the composition is a step, or a stuttering step, of each  *)
(* component, which therefore keeps its specification: what                *)
(* SignalRClientProofs and SignalRManagerProofs show by induction holds    *)
(* here (ClientFacts, ManagerFacts).  To that comes what neither component *)
(* can see: the lock and the invocation (LockInv), whose connection is     *)
(* whose (ConnectionInv), what the manager will believe (BeliefStep), news *)
(* that is under way (NewsStep, LossStays), and whom the cloud serves      *)
(* (ServedInv, FreshInv).                                                  *)
(***************************************************************************)
EXTENDS SignalR, SequenceTheorems, TLAPS

ClientP  == INSTANCE SignalRClientProofs WITH running <- clientRunning
ManagerP == INSTANCE SignalRManagerProofs WITH running <- managerRunning

USE SessionsAssumption, ChargersAssumption, CapacityAssumption

-----------------------------------------------------------------------------
(* The instances with the proofs are the components. *)

LEMMA SameClient ==
    /\ Client!Init => ClientP!Init
    /\ [Client!Next]_(Client!vars) => [ClientP!Next]_(ClientP!vars)
BY DEF Client!Init, ClientP!Init,
       Client!ctlVars, ClientP!ctlVars, Client!watchVars, ClientP!watchVars,
       Client!connVars, ClientP!connVars, Client!loopVars, ClientP!loopVars,
       Client!callVars, ClientP!callVars, Client!otherVars, ClientP!otherVars,
       Client!vars, ClientP!vars, Client!Spawn, ClientP!Spawn, Client!Start, ClientP!Start,
       Client!Close, ClientP!Close, Client!Goto, ClientP!Goto,
       Client!DialOk, ClientP!DialOk, Client!DialFail, ClientP!DialFail,
       Client!NilConnection, ClientP!NilConnection, Client!StartLink, ClientP!StartLink,
       Client!Observe, ClientP!Observe, Client!StopWatching, ClientP!StopWatching,
       Client!CtxDone, ClientP!CtxDone, Client!NotifyConnected, ClientP!NotifyConnected,
       Client!NotifyClosed, ClientP!NotifyClosed, Client!SendState, ClientP!SendState,
       Client!Drop, ClientP!Drop, Client!BackoffTimer, ClientP!BackoffTimer,
       Client!BackoffDone, ClientP!BackoffDone, Client!Loop, ClientP!Loop,
       Client!InvokeRefused, ClientP!InvokeRefused,
       Client!InvokeCheck, ClientP!InvokeCheck, Client!InvokeUse, ClientP!InvokeUse,
       Client!InvokeAnswered, ClientP!InvokeAnswered, Client!InvokeOk, ClientP!InvokeOk,
       Client!InvokeFail, ClientP!InvokeFail, Client!Watchers, ClientP!Watchers,
       Client!Unwatch, ClientP!Unwatch, Client!ForgottenUp, ClientP!ForgottenUp,
       Client!ForgottenClosed, ClientP!ForgottenClosed, Client!Library, ClientP!Library,
       Client!Emit, ClientP!Emit, Client!LinkUp, ClientP!LinkUp,
       Client!LinkClosed, ClientP!LinkClosed, Client!TakeState, ClientP!TakeState,
       Client!Caller, ClientP!Caller, Client!Next, ClientP!Next

LEMMA SameManager ==
    /\ Manager!Init => ManagerP!Init
    /\ [Manager!Next]_(Manager!vars) => [ManagerP!Next]_(ManagerP!vars)
BY DEF Manager!Init, ManagerP!Init,
       Manager!serviceVars, ManagerP!serviceVars, Manager!bookVars, ManagerP!bookVars,
       Manager!channelVars, ManagerP!channelVars, Manager!lockVars, ManagerP!lockVars,
       Manager!loopVars, ManagerP!loopVars, Manager!vars, ManagerP!vars,
       Manager!ClientState, ManagerP!ClientState, Manager!Free, ManagerP!Free,
       Manager!Release, ManagerP!Release, Manager!Take, ManagerP!Take,
       Manager!Room, ManagerP!Room, Manager!ManagerStart, ManagerP!ManagerStart,
       Manager!ManagerStop, ManagerP!ManagerStop, Manager!Register, ManagerP!Register,
       Manager!SendSubscription, ManagerP!SendSubscription,
       Manager!Unregister, ManagerP!Unregister,
       Manager!UnsubscribeFailed, ManagerP!UnsubscribeFailed,
       Manager!UnsubscribeSucceeded, ManagerP!UnsubscribeSucceeded,
       Manager!ClientClosed, ManagerP!ClientClosed,
       Manager!RetryFires, ManagerP!RetryFires, Manager!RetryStops, ManagerP!RetryStops,
       Manager!Receive, ManagerP!Receive, Manager!Select, ManagerP!Select,
       Manager!ExitLoop, ManagerP!ExitLoop,
       Manager!ReceiveSubscription, ManagerP!ReceiveSubscription,
       Manager!ReceiveState, ManagerP!ReceiveState,
       Manager!ReceiveObservation, ManagerP!ReceiveObservation,
       Manager!HandleSubscription, ManagerP!HandleSubscription,
       Manager!SubscribeSucceeded, ManagerP!SubscribeSucceeded,
       Manager!SubscribeFailed, ManagerP!SubscribeFailed, Manager!Orders, ManagerP!Orders,
       Manager!Cardinality, ManagerP!Cardinality,
       Manager!HandleConnected, ManagerP!HandleConnected,
       Manager!HandleDisconnected, ManagerP!HandleDisconnected,
       Manager!HandleObservation, ManagerP!HandleObservation,
       Manager!ReportObservation, ManagerP!ReportObservation,
       Manager!Handle, ManagerP!Handle, Manager!ClientReports, ManagerP!ClientReports,
       Manager!Next, ManagerP!Next

-----------------------------------------------------------------------------
(* Every step is a step of each component. *)

\* A step that leaves the client's own variables and its channel alone.
LEMMA ClientStutters == UNCHANGED <<clientVars, states>> => UNCHANGED Client!vars
BY DEF clientVars, Client!vars, Client!ctlVars, Client!loopVars, Client!watchVars, Client!connVars,
       Client!callVars

\* The manager's steps on its own, but for the one that receives a state.
OwnSteps ==
    \/ Manager!ManagerStart \/ Manager!ManagerStop
    \/ Manager!ExitLoop \/ Manager!ReceiveSubscription
    \/ Manager!Handle \/ Manager!SendSubscription
    \/ \E c \in Charger :
          \/ Manager!ReceiveObservation(c) \/ Manager!Unregister(c)
          \/ Manager!RetryFires(c) \/ Manager!RetryStops(c)

LEMMA OwnStepsKeepStates == OwnSteps => states' = states
BY DEF OwnSteps, Manager!ManagerStart, Manager!ManagerStop, Manager!ExitLoop,
       Manager!ReceiveSubscription, Manager!ReceiveObservation, Manager!Handle,
       Manager!HandleSubscription, Manager!HandleConnected, Manager!HandleDisconnected,
       Manager!HandleObservation, Manager!ReportObservation, Manager!SendSubscription,
       Manager!Unregister, Manager!RetryFires, Manager!RetryStops

\* The steps of the composition, by the side that takes them.
LEMMA Sides ==
    ASSUME Next
    PROVE  \/ AppStart \/ AppClose
           \/ Invoke \/ CloudAnswers \/ InvocationSucceeds \/ InvocationFails \/ CloseAfterLast
           \/ \E c \in Charger : Register(c)
           \/ \E s \in Session : Loop(s) \/ Library(s)
           \/ ManagerOnly(OwnSteps)
           \/ ManagerOnly(Manager!ReceiveState)
BY Zenon DEF Next, Service, Receive, ManagerOnly, OwnSteps

\* The steps of the library, by what they do to the cloud.
LinkUp(s)     == Client!LinkUp(s) /\ UNCHANGED <<managerVars, served>>
LinkClosed(s) == Client!LinkClosed(s) /\ served' = [served EXCEPT ![s] = {}] /\ UNCHANGED managerVars
Forgotten(s)  ==
    /\ Client!ForgottenUp(s) \/ Client!ForgottenClosed(s)
    /\ UNCHANGED <<managerVars, served>>

LEMMA LibraryIs ==
    ASSUME Client!TypeOK, NEW s \in Session, Library(s)
    PROVE  LinkUp(s) \/ LinkClosed(s) \/ Forgotten(s)
<1>1. Client!Library(s) /\ UNCHANGED managerVars /\ ServedOnLinks(s)
  BY DEF Library
<1>2. link \in [Session -> Client!LinkState]
  BY DEF Client!TypeOK
<1>3. CASE Client!LinkUp(s)
  <2>1. link'[s] = "connected"
    BY <1>2, <1>3 DEF Client!LinkUp
  <2> QED BY <1>1, <1>3, <2>1 DEF ServedOnLinks, LinkUp
<1>4. CASE Client!LinkClosed(s)
  <2>1. link[s] # "none" /\ link'[s] = "none"
    BY <1>2, <1>4 DEF Client!LinkClosed
  <2> QED BY <1>1, <1>4, <2>1 DEF ServedOnLinks, LinkClosed
<1>5. CASE Client!ForgottenUp(s) \/ Client!ForgottenClosed(s)
  <2>1. link' = link
    BY <1>5 DEF Client!ForgottenUp, Client!ForgottenClosed, Client!otherVars
  <2> QED BY <1>1, <1>5, <2>1 DEF ServedOnLinks, Forgotten
<1> QED BY <1>1, <1>3, <1>4, <1>5 DEF Client!Library

\* What the library leaves alone.
LEMMA LibraryIsLocal ==
    ASSUME NEW s \in Session, Client!Library(s)
    PROVE  UNCHANGED <<clientRunning, current, cancelled, phase, connection, connState, states,
                       invocation, target>>
BY DEF Client!Library, Client!LinkUp, Client!LinkClosed, Client!ForgottenUp,
   Client!ForgottenClosed, Client!otherVars, Client!ctlVars, Client!connVars, Client!callVars

LEMMA ClientStep == [Next]_vars => [Client!Next]_(Client!vars)
<1> SUFFICES ASSUME Next PROVE Client!Next \/ UNCHANGED Client!vars
  BY ClientStutters DEF vars
<1> USE DEF ClientOnly, ManagerOnly
<1>1. ~crashed
  BY DEF Next
<1>2. CASE AppStart \/ AppClose
  BY <1>1, <1>2 DEF AppStart, AppClose, Client!Next, Client!Caller
<1>3. CASE Invoke
  BY <1>1, <1>3 DEF Invoke, Client!Next, Client!Caller
<1>4. CASE CloudAnswers \/ InvocationSucceeds \/ InvocationFails \/ CloseAfterLast
  BY <1>1, <1>4, Zenon DEF CloudAnswers, InvocationSucceeds, InvocationFails, CloseAfterLast,
     Client!Next, Client!Caller
<1>5. ASSUME NEW c \in Charger, Register(c) PROVE Client!Next \/ UNCHANGED Client!vars
  <2>1. CASE c \in chargers
    BY <1>5, <2>1, ClientStutters, Zenon DEF Register, Manager!Register
  <2>2. CASE c \notin chargers
    BY <1>1, <1>5, <2>2 DEF Register, Client!Next, Client!Caller
  <2> QED BY <2>1, <2>2
<1>6. ASSUME NEW s \in Session, Loop(s) \/ Library(s)
      PROVE  Client!Next
  BY <1>1, <1>6 DEF Loop, Library, Client!Next
<1>7. CASE ManagerOnly(OwnSteps)
  BY <1>7, OwnStepsKeepStates, ClientStutters
<1>8. CASE ManagerOnly(Manager!ReceiveState)
  <2>1. Client!TakeState
    BY <1>8 DEF clientVars, Manager!ReceiveState, Client!TakeState, Client!otherVars,
       Client!ctlVars, Client!watchVars, Client!callVars
  <2> QED BY <1>1, <2>1 DEF Client!Next
<1> QED BY <1>2, <1>3, <1>4, <1>5, <1>6, <1>7, <1>8, Sides

\* A step that leaves the manager's own variables and its channel alone.
LEMMA ManagerStutters == UNCHANGED <<managerVars, states>> => UNCHANGED Manager!vars
BY DEF managerVars, Manager!vars, Manager!serviceVars, Manager!bookVars, Manager!channelVars,
       Manager!lockVars, Manager!loopVars

\* A goroutine either sends one state or leaves the channel alone.
LEMMA LoopSends ==
    ASSUME NEW s \in Session, Client!Loop(s)
    PROVE  \/ states' = states
           \/ /\ Len(states) < StatesCap
              /\ \E state \in Manager!ClientState : states' = Append(states, state)
<1>1. CASE Client!SendState(s)
  BY <1>1 DEF Client!SendState, Manager!ClientState
<1>2. CASE \/ Client!DialOk(s) \/ Client!DialFail(s) \/ Client!StartLink(s) \/ Client!Observe(s)
           \/ Client!CtxDone(s) \/ Client!NotifyConnected(s) \/ Client!NotifyClosed(s)
           \/ Client!Drop(s) \/ Client!BackoffTimer(s) \/ Client!BackoffDone(s)
  BY <1>2 DEF Client!DialOk, Client!DialFail, Client!StartLink, Client!Observe,
     Client!NilConnection, Client!CtxDone, Client!NotifyConnected, Client!NotifyClosed,
     Client!Drop, Client!BackoffTimer, Client!BackoffDone, Client!connVars, Client!loopVars
<1> QED BY <1>1, <1>2 DEF Client!Loop

LEMMA ManagerStep == [Next]_vars => [Manager!Next]_(Manager!vars)
<1> SUFFICES ASSUME Next PROVE Manager!Next \/ UNCHANGED Manager!vars
  BY ManagerStutters DEF vars
<1> USE DEF ClientOnly, ManagerOnly
<1>1. ~panicked
  BY DEF Next
<1>2. CASE AppStart \/ AppClose \/ Invoke \/ CloudAnswers
  <2>1. UNCHANGED <<managerVars, states>>
    BY <1>2 DEF AppStart, AppClose, Invoke, CloudAnswers, Client!Start, Client!Close,
       Client!InvokeCheck, Client!InvokeUse, Client!InvokeAnswered, Client!connVars, Client!loopVars
  <2> QED BY <2>1, ManagerStutters
<1>3. CASE InvocationSucceeds
  BY <1>1, <1>3, Zenon DEF InvocationSucceeds, Manager!Next
<1>4. CASE InvocationFails
  BY <1>1, <1>4, Zenon DEF InvocationFails, Manager!Next
<1>5. CASE CloseAfterLast
  BY <1>1, <1>5, Zenon DEF CloseAfterLast, Manager!Next
<1>6. ASSUME NEW c \in Charger, Register(c) PROVE Manager!Next
  BY <1>1, <1>6, Zenon DEF Register, Manager!Next
<1>7. ASSUME NEW s \in Session, Loop(s) PROVE Manager!Next \/ UNCHANGED Manager!vars
  <2>1. UNCHANGED managerVars /\ Client!Loop(s)
    BY <1>7 DEF Loop
  <2>2. CASE states' = states
    BY <2>1, <2>2, ManagerStutters
  <2>3. CASE Len(states) < StatesCap /\ \E state \in Manager!ClientState : states' = Append(states, state)
    BY <1>1, <2>1, <2>3 DEF managerVars, Manager!Next, Manager!ClientReports, Manager!serviceVars,
       Manager!bookVars, Manager!channelVars, Manager!lockVars, Manager!loopVars
  <2> QED BY <2>1, <2>2, <2>3, LoopSends
<1>8. ASSUME NEW s \in Session, Library(s) PROVE UNCHANGED Manager!vars
  BY <1>8, LibraryIsLocal, ManagerStutters DEF Library
<1>9. CASE ManagerOnly(OwnSteps)
  BY <1>1, <1>9, Zenon DEF OwnSteps, Manager!Next
<1>10. CASE ManagerOnly(Manager!ReceiveState)
  BY <1>1, <1>10, Zenon DEF Manager!Next
<1> QED BY <1>2, <1>3, <1>4, <1>5, <1>6, <1>7, <1>8, <1>9, <1>10, Sides

-----------------------------------------------------------------------------
\* The client keeps its specification in the composition, whoever starts it,
\* closes it and invokes it.
THEOREM ClientKeepsSpec == Spec => Client!Spec
<1>1. Init => Client!Init
  BY DEF Init
<1> QED BY <1>1, ClientStep, PTL DEF Spec, Client!Spec

\* The manager keeps its specification with the real client behind it: what
\* the client sends it and answers is among what the manager is ready for.
THEOREM ManagerKeepsSpec == Spec => Manager!Spec
<1>1. Init => Manager!Init
  BY DEF Init
<1> QED BY <1>1, ManagerStep, PTL DEF Spec, Manager!Spec

-----------------------------------------------------------------------------
(* What is proved of the components holds in the composition. *)

LEMMA SameFiniteSets == ManagerP!IsFiniteSet(Charger)
BY DEF IsFiniteSet, ManagerP!IsFiniteSet

LEMMA ComponentsInv == Spec => [](ClientP!IInv /\ ManagerP!IInv)
<1>1. Spec => []ClientP!IInv
  <2>1. Init => ClientP!Init
    BY SameClient DEF Init
  <2>2. [Next]_vars => [ClientP!Next]_(ClientP!vars)
    BY SameClient, ClientStep
  <2>3. ClientP!Init => ClientP!IInv
    BY ClientP!InitInv
  <2>4. ClientP!IInv /\ [ClientP!Next]_(ClientP!vars) => ClientP!IInv'
    BY ClientP!NextInv
  <2> QED BY <2>1, <2>2, <2>3, <2>4, PTL DEF Spec
<1>2. Spec => []ManagerP!IInv
  <2>1. Init => ManagerP!Init
    BY SameManager DEF Init
  <2>2. [Next]_vars => [ManagerP!Next]_(ManagerP!vars)
    BY SameManager, ManagerStep
  <2>3. ManagerP!Init => ManagerP!IInv
    BY ManagerP!InitInv, SameFiniteSets
  <2>4. ManagerP!IInv /\ [ManagerP!Next]_(ManagerP!vars) => ManagerP!IInv'
    BY ManagerP!NextInv, SameFiniteSets
  <2> QED BY <2>1, <2>2, <2>3, <2>4, PTL DEF Spec
<1> QED BY <1>1, <1>2, PTL

\* What is needed of the components' inductive invariants.
LEMMA ClientFacts ==
    ASSUME ClientP!IInv
    PROVE  Client!TypeOK /\ Client!OneLiveLoop /\ Client!ConnectionHeld
BY DEF ClientP!IInv, ClientP!TypeOK, Client!TypeOK, ClientP!OneLiveLoop, Client!OneLiveLoop,
       ClientP!ConnectionHeld, Client!ConnectionHeld, ClientP!Maybe, Client!Maybe,
       ClientP!ClientState, Client!ClientState, ClientP!LinkState, Client!LinkState,
       ClientP!Phase, Client!Phase

LEMMA ManagerFacts ==
    ASSUME ManagerP!IInv
    PROVE  /\ Manager!TypeOK
           /\ Manager!NoForgottenCharger
           /\ managerRunning = (done = "open")
           /\ done = "none" => loop = "off"
           /\ loop \in {"subscription", "invoke"} => made /\ item \in Charger
           /\ loop = "invoke" => holder = "loop" /\ item \in chargers
BY DEF ManagerP!IInv, ManagerP!TypeOK, Manager!TypeOK, ManagerP!ServiceInv, ManagerP!LoopInv,
       ManagerP!ClientState, Manager!ClientState,
       ManagerP!NoForgottenCharger, Manager!NoForgottenCharger, ManagerP!Queued, Manager!Queued,
       ManagerP!Retrying, Manager!Retrying, ManagerP!Sending, Manager!Sending,
       ManagerP!Handled, Manager!Handled

-----------------------------------------------------------------------------
(* The lock and the invocation: whoever invokes has the lock, for the charger
   it is busy with, and a charger that is unregistered is no longer in the
   registry. *)
LockInv ==
    /\ holder = "loop" => loop = "invoke" /\ held = item
    /\ holder = "unregister" => held \notin chargers
    /\ holder = "close" => chargers = {}
    /\ invocation # "none" => Invoking
    /\ subscribed # {} => made

\* On its own the manager only takes chargers out of the registry.
LEMMA OwnStepsUnregister == OwnSteps => chargers' \subseteq chargers
<1> SUFFICES ASSUME OwnSteps PROVE chargers' \subseteq chargers
  OBVIOUS
<1>1. ASSUME NEW c \in Charger, Manager!Unregister(c) PROVE chargers' \subseteq chargers
  BY <1>1 DEF Manager!Unregister
<1>2. CASE UNCHANGED chargers
  BY <1>2
<1> QED BY <1>1, <1>2, Zenon DEF OwnSteps, Manager!ManagerStart, Manager!ManagerStop,
       Manager!ExitLoop, Manager!ReceiveSubscription, Manager!ReceiveObservation, Manager!Handle,
       Manager!HandleSubscription, Manager!HandleConnected, Manager!HandleDisconnected,
       Manager!HandleObservation, Manager!ReportObservation, Manager!SendSubscription,
       Manager!RetryFires, Manager!RetryStops, Manager!bookVars

\* The steps of one side that the lock is not needed for.
LEMMA ClientKeepsLock ==
    ASSUME LockInv, UNCHANGED managerVars, invocation' = "none" \/ invocation' = invocation \/ Invoking
    PROVE  LockInv'
BY DEF LockInv, Invoking, managerVars

LEMMA OwnStepsLock ==
    ASSUME ManagerP!IInv, LockInv, UNCHANGED clientVars, OwnSteps
    PROVE  LockInv'
<1> USE DEF Manager!serviceVars, Manager!bookVars, Manager!channelVars, Manager!lockVars,
            Manager!loopVars, Manager!Free, Manager!Take, Manager!Release, Manager!Receive,
            Manager!Select
<1>1. invocation' = invocation
  BY DEF clientVars
<1>2. CASE Manager!ManagerStart \/ Manager!ManagerStop
  <2>1. holder = "none" /\ UNCHANGED <<chargers, subscribed, made, holder, held, item>>
    BY <1>2, Zenon DEF Manager!ManagerStart, Manager!ManagerStop
  <2> QED BY <1>1, <2>1 DEF LockInv, Invoking
<1>3. ASSUME \/ Manager!ExitLoop \/ Manager!ReceiveSubscription
             \/ \E c \in Charger : Manager!ReceiveObservation(c)
      PROVE  LockInv'
  <2>1. loop = "select" /\ UNCHANGED <<chargers, subscribed, made, holder, held>>
    BY <1>3 DEF Manager!ExitLoop, Manager!ReceiveSubscription, Manager!ReceiveObservation
  <2> QED BY <1>1, <2>1 DEF LockInv, Invoking
<1>4. CASE Manager!SendSubscription
  BY <1>1, <1>4 DEF Manager!SendSubscription, LockInv, Invoking
<1>5. ASSUME NEW c \in Charger, Manager!Unregister(c) PROVE LockInv'
  <2>1. /\ holder = "none" /\ chargers' = chargers \ {c} /\ subscribed' = subscribed \ {c}
        /\ \/ UNCHANGED <<holder, held>>
           \/ holder' = "unregister" /\ held' = c
        /\ UNCHANGED <<made, loop, item>>
    BY <1>5, Zenon DEF Manager!Unregister
  <2> QED BY <1>1, <2>1 DEF LockInv, Invoking
<1>6. ASSUME NEW c \in Charger, Manager!RetryFires(c) \/ Manager!RetryStops(c) PROVE LockInv'
  <2>1. /\ UNCHANGED <<chargers, subscribed, made, loop, item>>
        /\ \/ UNCHANGED <<holder, held>>
           \/ holder = "none" /\ holder' = "retry"
    BY <1>6, Zenon DEF Manager!RetryFires, Manager!RetryStops
  <2> QED BY <1>1, <2>1 DEF LockInv, Invoking
<1>7. CASE Manager!HandleSubscription
  <2>1. /\ holder = "none" /\ UNCHANGED <<chargers, subscribed, made>>
        /\ \/ holder' = "loop" /\ held' = item /\ loop' = "invoke" /\ item' = item
           \/ UNCHANGED <<holder, held>>
    BY <1>7, Zenon DEF Manager!HandleSubscription
  <2> QED BY <1>1, <2>1 DEF LockInv, Invoking
<1>8. CASE Manager!HandleConnected
  <2>1. holder = "none" /\ made' = TRUE /\ UNCHANGED <<chargers, subscribed, holder, held>>
    BY <1>8, Zenon DEF Manager!HandleConnected
  <2> QED BY <1>1, <2>1 DEF LockInv, Invoking
<1>9. CASE Manager!HandleDisconnected
  <2>1. holder = "none" /\ subscribed' = {} /\ UNCHANGED <<chargers, holder, held>>
    BY <1>9, Zenon DEF Manager!HandleDisconnected
  <2> QED BY <1>1, <2>1 DEF LockInv, Invoking
<1>10. CASE Manager!HandleObservation \/ Manager!ReportObservation
  BY <1>1, <1>10 DEF Manager!HandleObservation, Manager!ReportObservation, LockInv, Invoking
<1> QED BY <1>2, <1>3, <1>4, <1>5, <1>6, <1>7, <1>8, <1>9, <1>10 DEF OwnSteps, Manager!Handle

LEMMA LockStep == ClientP!IInv /\ ManagerP!IInv /\ LockInv /\ [Next]_vars => LockInv'
<1> SUFFICES ASSUME ClientP!IInv, ManagerP!IInv, LockInv, Next PROVE LockInv'
  BY DEF vars, managerVars, clientVars, LockInv, Invoking
<1> USE DEF ClientOnly, ManagerOnly, Manager!serviceVars, Manager!bookVars, Manager!channelVars,
            Manager!lockVars, Manager!loopVars, Manager!Release, Manager!Select
<1>1. CASE AppStart \/ AppClose
  BY <1>1, ClientKeepsLock DEF AppStart, AppClose, Client!Start, Client!Close, Client!callVars
<1>2. CASE Invoke \/ CloudAnswers
  <2>1. UNCHANGED managerVars
    BY <1>2 DEF Invoke, CloudAnswers
  <2>2. Invoking
    BY <1>2 DEF Invoke, CloudAnswers, Client!InvokeAnswered, LockInv
  <2> QED BY <2>1, <2>2, ClientKeepsLock
<1>3. CASE InvocationSucceeds
  <2>1. invocation' = "none" /\ holder \in {"loop", "unregister"}
    BY <1>3 DEF InvocationSucceeds, Client!InvokeOk, LockInv, Invoking
  <2>2. CASE holder = "loop"
    <3>1. made /\ holder' = "none" /\ made' = made
      BY <1>3, <2>2, ManagerFacts DEF InvocationSucceeds, Manager!SubscribeSucceeded, LockInv
    <3> QED BY <2>1, <3>1 DEF LockInv
  <2>3. CASE holder = "unregister"
    <3>1. /\ holder' = "none" \/ (chargers = {} /\ holder' = "close")
          /\ UNCHANGED <<chargers, subscribed, made>>
      BY <1>3, <2>3, Zenon DEF InvocationSucceeds, Manager!UnsubscribeSucceeded
    <3> QED BY <2>1, <3>1 DEF LockInv
  <2> QED BY <2>1, <2>2, <2>3
<1>4. CASE InvocationFails
  <2>1. invocation' = "none"
    BY <1>4 DEF InvocationFails, Client!InvokeRefused, Client!InvokeFail, Client!vars, Client!callVars
  <2>2. holder' = "none" /\ UNCHANGED <<chargers, subscribed, made>>
    BY <1>4, Zenon DEF InvocationFails, Manager!SubscribeFailed, Manager!UnsubscribeFailed
  <2> QED BY <2>1, <2>2 DEF LockInv
<1>5. CASE CloseAfterLast
  <2>1. invocation' = invocation /\ invocation = "none"
    BY <1>5 DEF CloseAfterLast, Client!Close, Client!callVars, Manager!ClientClosed, LockInv, Invoking
  <2>2. holder' = "none" /\ UNCHANGED <<chargers, subscribed, made>>
    BY <1>5 DEF CloseAfterLast, Manager!ClientClosed
  <2> QED BY <2>1, <2>2 DEF LockInv
<1>6. ASSUME NEW c \in Charger, Register(c) PROVE LockInv'
  <2>1. invocation' = invocation
    BY <1>6, Zenon DEF Register, clientVars, Client!Start, Client!callVars
  <2>2. /\ holder = "none" /\ UNCHANGED <<subscribed, made, loop, item>>
        /\ holder' = "register" \/ UNCHANGED <<holder, held>>
    BY <1>6, Zenon DEF Register, Manager!Register, Manager!Free, Manager!Take
  <2> QED BY <2>1, <2>2 DEF LockInv, Invoking
<1>7. ASSUME NEW s \in Session, Loop(s) \/ Library(s) PROVE LockInv'
  <2>1. UNCHANGED managerVars
    BY <1>7 DEF Loop, Library
  <2>2. invocation' = invocation
    <3>1. CASE Loop(s)
      <4>1. Client!Loop(s)
        BY <3>1 DEF Loop
      <4> QED BY <4>1 DEF Client!Loop, Client!DialOk, Client!DialFail, Client!StartLink,
                Client!Observe, Client!NilConnection, Client!CtxDone, Client!NotifyConnected,
                Client!NotifyClosed, Client!SendState, Client!Drop, Client!BackoffTimer,
                Client!BackoffDone, Client!otherVars, Client!callVars
    <3>2. CASE Library(s)
      BY <3>2, LibraryIsLocal DEF Library
    <3> QED BY <1>7, <3>1, <3>2
  <2> QED BY <2>1, <2>2, ClientKeepsLock
<1>8. CASE ManagerOnly(OwnSteps)
  BY <1>8, OwnStepsLock
<1>9. CASE ManagerOnly(Manager!ReceiveState)
  <2>1. /\ loop = "select" /\ invocation' = invocation
        /\ UNCHANGED <<chargers, subscribed, made, holder, held>>
    BY <1>9 DEF clientVars, Manager!ReceiveState, Manager!Receive
  <2> QED BY <2>1 DEF LockInv, Invoking
<1> QED BY <1>1, <1>2, <1>3, <1>4, <1>5, <1>6, <1>7, <1>8, <1>9, Sides

LEMMA ComponentsAndLock == Spec => [](ClientP!IInv /\ ManagerP!IInv /\ LockInv)
<1>1. Init => LockInv
  <2>1. Init => chargers = {} /\ subscribed = {} /\ holder = "none" /\ invocation = "none"
    BY DEF Init, Client!Init, Manager!Init
  <2> QED BY <2>1 DEF LockInv
<1>2. ClientP!IInv /\ ManagerP!IInv /\ LockInv /\ [Next]_vars => LockInv'
  BY LockStep
<1> QED BY <1>1, <1>2, ComponentsInv, PTL DEF Spec

-----------------------------------------------------------------------------
\* Only chargers are served, and by the goroutines' connections: whoever asks
\* the cloud to send a charger's observations has the lock for a charger.
ServedTypeOK == served \in [Session -> SUBSET Charger]

LEMMA ServedTypes == ManagerP!IInv /\ LockInv /\ ServedTypeOK /\ [Next]_vars => ServedTypeOK'
<1> SUFFICES ASSUME ManagerP!IInv, LockInv, ServedTypeOK, [Next]_vars PROVE ServedTypeOK'
  OBVIOUS
<1> USE DEF ServedTypeOK
<1>1. CASE CloudAnswers
  <2>1. holder = "loop" => held \in Charger
    BY ManagerFacts DEF LockInv
  <2>2. served' = [served EXCEPT ![target] = IF holder = "loop" THEN @ \cup {held} ELSE @ \ {held}]
    BY <1>1 DEF CloudAnswers
  <2> QED BY <2>1, <2>2
<1>2. ASSUME NEW s \in Session, Loop(s) \/ Library(s) PROVE ServedTypeOK'
  BY <1>2 DEF Loop, Library, ServedOnLinks
<1>3. CASE UNCHANGED served
  BY <1>3
<1>4. CASE CloudAnswers \/ (\E s \in Session : Loop(s) \/ Library(s)) \/ UNCHANGED served
  BY <1>1, <1>2, <1>3, <1>4
<1>5. Next => CloudAnswers \/ (\E s \in Session : Loop(s) \/ Library(s)) \/ UNCHANGED served
  BY Sides, Zenon DEF AppStart, AppClose, Invoke, ClientOnly, ManagerOnly, InvocationSucceeds,
     InvocationFails, CloseAfterLast, Register
<1> QED BY <1>4, <1>5 DEF vars

\* Types are kept by the whole, for any sessions, chargers and capacity.
THEOREM TypeCorrect == Spec => []TypeOK
<1>1. Init => ServedTypeOK
  BY DEF Init, ServedTypeOK
<1>2. Spec => []ServedTypeOK
  BY <1>1, ServedTypes, ComponentsAndLock, PTL DEF Spec
<1>3. ClientP!IInv /\ ManagerP!IInv => Client!TypeOK /\ Manager!TypeOK
  BY ClientFacts, ManagerFacts
<1>4. Client!TypeOK /\ Manager!TypeOK /\ ServedTypeOK => TypeOK
  BY DEF TypeOK, ServedTypeOK
<1> QED BY <1>2, <1>3, <1>4, ComponentsAndLock, PTL

\* A step that adds a charger leaves a client that runs; the close that
\* follows the last Unregister finds no charger.
LEMMA ChargersHaveClientStep ==
    ManagerP!IInv /\ LockInv /\ [Next]_vars =>
        [/\ chargers' \ chargers # {} => clientRunning'
         /\ holder = "close" /\ clientRunning /\ ~clientRunning' => chargers' = {}]_vars
<1> SUFFICES ASSUME ManagerP!IInv, LockInv, Next
             PROVE  /\ chargers' \ chargers # {} => clientRunning'
                    /\ holder = "close" /\ clientRunning /\ ~clientRunning' => chargers' = {}
  OBVIOUS
<1>1. ASSUME NEW c \in Charger, Register(c), c \notin chargers PROVE clientRunning'
  BY <1>1 DEF Register, Client!Start
<1>2. (\A c \in Charger : ~(Register(c) /\ c \notin chargers)) => chargers' \subseteq chargers
  <2> SUFFICES ASSUME \A c \in Charger : Register(c) => c \in chargers PROVE chargers' \subseteq chargers
    BY Zenon
  <2>1. ASSUME NEW c \in Charger, Register(c) PROVE chargers' \subseteq chargers
    BY <2>1 DEF Register, Manager!Register
  <2>2. CASE \/ AppStart \/ AppClose \/ Invoke \/ CloudAnswers
             \/ \E s \in Session : Loop(s) \/ Library(s)
    BY <2>2, Zenon DEF AppStart, AppClose, Invoke, CloudAnswers, Loop, Library,
       ClientOnly, managerVars
  <2>3. CASE InvocationSucceeds \/ InvocationFails \/ CloseAfterLast
    BY <2>3, Zenon DEF InvocationSucceeds, InvocationFails, CloseAfterLast,
       Manager!SubscribeSucceeded, Manager!SubscribeFailed, Manager!UnsubscribeSucceeded,
       Manager!UnsubscribeFailed, Manager!ClientClosed, Manager!bookVars
  <2>4. CASE ManagerOnly(OwnSteps) \/ ManagerOnly(Manager!ReceiveState)
    BY <2>4, OwnStepsUnregister DEF ManagerOnly, Manager!ReceiveState, Manager!bookVars
  <2> QED BY <2>1, <2>2, <2>3, <2>4, Sides
<1>3. ASSUME holder = "close", clientRunning, ~clientRunning' PROVE chargers' = {}
  <2>1. chargers = {}
    BY <1>3 DEF LockInv
  <2>2. ASSUME NEW c \in Charger, Register(c) PROVE FALSE
    BY <1>3, <2>2 DEF Register, Manager!Register, Manager!Free
  <2> QED BY <1>2, <2>1, <2>2
<1> QED BY <1>1, <1>2, <1>3

\* A registered charger keeps a running client, unless the application closes
\* it: for any chargers, and however Register and Unregister overlap.
THEOREM ChargersKeepClient == Spec => ChargersHaveClient
BY ChargersHaveClientStep, ComponentsAndLock, PTL DEF Spec, ChargersHaveClient

-----------------------------------------------------------------------------
(* The connection of the goroutine that is alive, when there is only one.    *)

Closed(s) == \E i \in DOMAIN events[s] : events[s][i] = "closed"

\* A goroutine observes the connection it has dialled, and for as long as it is
\* there and nothing stops it; a connection whose end it has still to notice
\* is gone.
ConnectionOf(s) ==
    /\ phase[s] \in {"assigned", "started", "watch", "reportConnected"} => connection = s
    /\ watching[s] \in {s, NoSession}
    /\ phase[s] \notin {"watch", "reportConnected"} => watching[s] = NoSession /\ events[s] = <<>>
    /\ phase[s] \in {"watch", "reportConnected"} /\ link[s] # "none" => watching[s] = s
    /\ Closed(s) => link[s] = "none"
    /\ forgotten[s] = "none"

\* An invocation that was sent was sent on a connection.
ConnectionInv ==
    /\ \A s \in Session : ConnectionOf(s)
    /\ invocation \in {"sent", "answered"} => target \in Session

LEMMA OneGoroutine ==
    ASSUME OneAlive, NEW s \in Session, phase[s] # "idle"
    PROVE  \A t \in Session : t # s => phase[t] = "idle"
BY DEF OneAlive

\* The steps of a goroutine, by what they report.
Silent(s) ==
    /\ phase[s] \notin {"watch", "reportConnected", "reportDisconnected"}
    /\ \/ phase' = phase
       \/ \E there \in Client!Phase \ {"reportConnected", "reportDisconnected"} :
             phase' = [phase EXCEPT ![s] = there]
    /\ UNCHANGED <<events, connState, states, invocation, target>>

LEMMA LoopCases ==
    ASSUME NEW s \in Session, Client!Loop(s)
    PROVE  \/ Silent(s) \/ Client!CtxDone(s)
           \/ Client!NotifyConnected(s) \/ Client!NotifyClosed(s) \/ Client!SendState(s)
<1> USE DEF Client!Goto, Client!otherVars, Client!ctlVars, Client!watchVars, Client!connVars,
            Client!loopVars, Client!callVars, Client!Phase
<1>1. CASE Client!DialOk(s) \/ Client!DialFail(s) \/ Client!Drop(s) \/ Client!BackoffTimer(s)
  BY <1>1, Zenon DEF Silent, Client!DialOk, Client!DialFail, Client!Drop, Client!BackoffTimer
<1>2. CASE Client!StartLink(s) \/ Client!Observe(s)
  BY <1>2, Zenon DEF Silent, Client!StartLink, Client!Observe, Client!NilConnection
<1>3. CASE Client!BackoffDone(s)
  BY <1>3, Zenon DEF Silent, Client!BackoffDone
<1> QED BY <1>1, <1>2, <1>3 DEF Client!Loop

\* What a close, a start and an invocation leave alone.
LEMMA CloseIsLocal ==
    ASSUME Client!Close
    PROVE  UNCHANGED <<phase, watching, events, forgotten, connection, connState, states,
                       invocation, target, link>>
BY DEF Client!Close, Client!loopVars, Client!watchVars, Client!connVars, Client!callVars

LEMMA StartIsLocal ==
    ASSUME Client!TypeOK, Client!Start
    PROVE  /\ UNCHANGED <<watching, events, forgotten, connection, connState, states, invocation,
                          target, link>>
           /\ \A s \in Session : phase'[s] = phase[s] \/ (phase[s] = "idle" /\ phase'[s] = "dial")
<1>1. UNCHANGED <<watching, events, forgotten, connection, connState, states, invocation,
                          target, link>>
  BY DEF Client!Start, Client!connVars, Client!callVars, Client!watchVars
<1>2. \/ phase' = phase
      \/ \E t \in Session : phase[t] = "idle" /\ phase' = [phase EXCEPT ![t] = "dial"]
  BY DEF Client!Start, Client!Spawn
<1>3. phase \in [Session -> Client!Phase]
  BY DEF Client!TypeOK
<1> QED BY <1>1, <1>2, <1>3

LEMMA InvocationIsLocal ==
    ASSUME \/ Client!InvokeCheck \/ Client!InvokeUse \/ Client!InvokeAnswered \/ Client!InvokeOk
           \/ Client!InvokeRefused \/ Client!InvokeFail
    PROVE  UNCHANGED <<phase, watching, events, forgotten, connection, connState, states, link,
                       cancelled>>
BY DEF Client!InvokeCheck, Client!InvokeUse, Client!InvokeAnswered, Client!InvokeOk,
   Client!InvokeRefused, Client!InvokeFail, Client!vars, Client!loopVars, Client!ctlVars,
   Client!watchVars, Client!connVars

LEMMA LoopKeepsCalls ==
    ASSUME NEW s \in Session, Client!Loop(s)
    PROVE  UNCHANGED <<invocation, target>> /\ phase[s] # "idle"
BY DEF Client!Loop, Client!DialOk, Client!DialFail, Client!StartLink, Client!Observe,
   Client!NilConnection, Client!CtxDone, Client!NotifyConnected, Client!NotifyClosed,
   Client!SendState, Client!Drop, Client!BackoffTimer, Client!BackoffDone,
   Client!otherVars, Client!callVars

LEMMA ConnectionLoop ==
    ASSUME Client!TypeOK, OneAlive, ConnectionInv, NEW s \in Session, Client!Loop(s)
    PROVE  ConnectionInv'
<1> USE DEF Client!Goto, Client!otherVars, Client!ctlVars, Client!watchVars, Client!connVars,
            Client!loopVars, Client!callVars, Client!Phase, Client!StopWatching
<1>1. phase[s] # "idle" /\ UNCHANGED <<invocation, target>>
  BY LoopKeepsCalls
<1>2. \A t \in Session : t # s => phase[t] = "idle"
  BY <1>1, OneGoroutine
<1>3. /\ phase \in [Session -> Client!Phase] /\ link \in [Session -> {"none", "connecting", "connected"}]
      /\ watching \in [Session -> Session \cup {NoSession}]
      /\ events \in [Session -> Seq({"connected", "closed"})]
      /\ forgotten \in [Session -> {"none", "connecting", "connected"}]
  BY DEF Client!TypeOK, Client!Maybe, Client!LinkState
<1> SUFFICES ASSUME NEW t \in Session PROVE ConnectionOf(t)'
  BY <1>1 DEF ConnectionInv
<1>4. ConnectionOf(t) /\ ConnectionOf(s)
  BY DEF ConnectionInv
<1> USE DEF ConnectionOf, Closed
<1>5. CASE Client!DialOk(s)
  BY <1>2, <1>3, <1>4, <1>5 DEF Client!DialOk, Client!Watchers, Client!Unwatch
<1>6. CASE Client!DialFail(s) \/ Client!BackoffTimer(s) \/ Client!BackoffDone(s)
  BY <1>2, <1>3, <1>4, <1>6 DEF Client!DialFail, Client!BackoffTimer, Client!BackoffDone
<1>7. CASE Client!StartLink(s)
  BY <1>2, <1>3, <1>4, <1>7 DEF Client!StartLink, Client!NilConnection
<1>8. CASE Client!Observe(s)
  BY <1>2, <1>3, <1>4, <1>8 DEF Client!Observe, Client!NilConnection
<1>9. CASE Client!NotifyConnected(s)
  <2>1. /\ events[s] \in Seq({"connected", "closed"}) /\ events[s] # <<>>
        /\ events' = [events EXCEPT ![s] = Tail(events[s])]
        /\ phase' = [phase EXCEPT ![s] = IF connState = "connected" THEN "watch" ELSE "reportConnected"]
        /\ phase[s] = "watch" /\ UNCHANGED <<watching, forgotten, connection, link>>
    BY <1>3, <1>9 DEF Client!NotifyConnected
  <2>2. \A i \in DOMAIN Tail(events[s]) : i + 1 \in DOMAIN events[s] /\ Tail(events[s])[i] = events[s][i + 1]
    BY <2>1
  <2>3. Closed(t)' => Closed(t)
    BY <1>3, <2>1, <2>2
  <2> QED BY <1>2, <1>3, <1>4, <2>1, <2>3
<1>10. CASE Client!NotifyClosed(s) \/ Client!CtxDone(s)
  <2>1. /\ events' = [events EXCEPT ![s] = <<>>]
        /\ watching' = [watching EXCEPT ![s] = NoSession]
        /\ forgotten' = [forgotten EXCEPT ![s] = "none"]
        /\ \E there \in {"drop", "reportDisconnected"} : phase' = [phase EXCEPT ![s] = there]
        /\ phase[s] = "watch" /\ UNCHANGED <<connection, link>>
    BY <1>3, <1>10 DEF Client!NotifyClosed, Client!CtxDone
  <2> QED BY <1>2, <1>3, <1>4, <2>1
<1>11. CASE Client!SendState(s)
  BY <1>2, <1>3, <1>4, <1>11 DEF Client!SendState
<1>12. CASE Client!Drop(s)
  BY <1>2, <1>3, <1>4, <1>12 DEF Client!Drop
<1> QED BY <1>5, <1>6, <1>7, <1>8, <1>9, <1>10, <1>11, <1>12 DEF Client!Loop

LEMMA ConnectionLink ==
    ASSUME Client!TypeOK, ConnectionInv, NEW s \in Session, Client!LinkUp(s) \/ Client!LinkClosed(s)
    PROVE  ConnectionInv'
<1> USE DEF Client!ctlVars, Client!connVars, Client!callVars, Client!Watchers, Client!Emit,
            Client!Unwatch
<1>1. /\ link \in [Session -> {"none", "connecting", "connected"}]
      /\ watching \in [Session -> Session \cup {NoSession}]
      /\ events \in [Session -> Seq({"connected", "closed"})]
  BY DEF Client!TypeOK, Client!Maybe, Client!LinkState
<1>2. UNCHANGED <<invocation, target, phase, connection, forgotten>>
  BY DEF Client!LinkUp, Client!LinkClosed
<1> SUFFICES ASSUME NEW t \in Session PROVE ConnectionOf(t)'
  BY <1>2 DEF ConnectionInv
<1>3. ConnectionOf(t) /\ ConnectionOf(s)
  BY DEF ConnectionInv
<1>4. (t \in Client!Watchers(s)) = (watching[t] = s) /\ (watching[t] = s => t = s)
  BY <1>3 DEF ConnectionOf
<1>5. link[s] # "none"
  BY DEF Client!LinkUp, Client!LinkClosed
<1>6. CASE watching[t] # s /\ (t = s => phase[s] \notin {"watch", "reportConnected"})
  <2>1. /\ events'[t] = events[t] /\ watching'[t] = watching[t]
        /\ t # s => link'[t] = link[t]
    BY <1>1, <1>4, <1>6 DEF Client!LinkUp, Client!LinkClosed
  <2>2. t = s => events[t] = <<>>
    BY <1>3, <1>6 DEF ConnectionOf
  <2> QED BY <1>2, <1>3, <1>6, <2>1, <2>2 DEF ConnectionOf, Closed
<1>7. CASE t = s /\ watching[s] = s /\ Client!LinkUp(s)
  <2>1. /\ events'[s] = Append(events[s], "connected") /\ link'[s] = "connected"
        /\ UNCHANGED watching
    BY <1>1, <1>4, <1>7 DEF Client!LinkUp
  <2>2. Closed(s)' => Closed(s)
    BY <1>1, <2>1 DEF Closed
  <2> QED BY <1>2, <1>3, <1>5, <1>7, <2>1, <2>2 DEF ConnectionOf
<1>8. CASE t = s /\ watching[s] = s /\ Client!LinkClosed(s)
  <2>1. watching'[s] = NoSession /\ link'[s] = "none"
    BY <1>1, <1>4, <1>8 DEF Client!LinkClosed
  <2>2. phase[s] \in {"watch", "reportConnected"}
    BY <1>3, <1>8 DEF ConnectionOf
  <2> QED BY <1>2, <1>3, <1>8, <2>1, <2>2 DEF ConnectionOf
<1>9. t = s /\ phase[s] \in {"watch", "reportConnected"} => watching[s] = s
  BY <1>3, <1>5 DEF ConnectionOf
<1> QED BY <1>4, <1>6, <1>7, <1>8, <1>9

\* No goroutine observes a connection that was replaced.
LEMMA NoneForgotten ==
    ASSUME ConnectionInv, NEW s \in Session
    PROVE  ~Client!ForgottenUp(s) /\ ~Client!ForgottenClosed(s)
BY DEF ConnectionInv, ConnectionOf, Client!ForgottenUp, Client!ForgottenClosed

LEMMA ConnectionStep ==
    ASSUME Client!TypeOK, OneAlive, ConnectionInv, [Client!Next]_(Client!vars)
    PROVE  ConnectionInv'
<1> USE DEF Client!ctlVars, Client!watchVars, Client!connVars, Client!loopVars, Client!callVars,
            Client!otherVars
<1>1. ASSUME NEW s \in Session, Client!Loop(s) PROVE ConnectionInv'
  BY <1>1, ConnectionLoop
<1>2. ASSUME NEW s \in Session, Client!Library(s) PROVE ConnectionInv'
  BY <1>2, ConnectionLink, NoneForgotten DEF Client!Library
<1>3. CASE Client!Start
  BY <1>3, StartIsLocal DEF ConnectionInv, ConnectionOf, Closed
<1>4. CASE /\ UNCHANGED <<phase, watching, events, forgotten, connection, link>>
           /\ invocation' \in {"sent", "answered"} => target' \in Session
  BY <1>4 DEF ConnectionInv, ConnectionOf, Closed
<1>5. CASE \/ Client!Close \/ Client!InvokeRefused \/ Client!InvokeCheck \/ Client!InvokeUse
           \/ Client!InvokeAnswered \/ Client!InvokeOk \/ Client!InvokeFail
           \/ Client!TakeState \/ UNCHANGED Client!vars
  BY <1>4, <1>5 DEF Client!Close, Client!InvokeRefused, Client!InvokeCheck, Client!InvokeUse, Client!vars,
     Client!InvokeAnswered, Client!InvokeOk, Client!InvokeFail, Client!TakeState, Client!TypeOK,
     Client!Maybe, ConnectionInv
<1> QED BY <1>1, <1>2, <1>3, <1>5 DEF Client!Next, Client!Caller

-----------------------------------------------------------------------------
\* What the manager's steps on its own do to what it believes, to what counts
\* and to the lock.
LEMMA OwnEffects ==
    ASSUME ManagerP!IInv, OwnSteps
    PROVE  /\ subscribed' \subseteq subscribed
           /\ Invoking => UNCHANGED <<holder, held>>
           /\ \/ made' = made /\ loop' = loop
              \/ /\ made' = made
                 /\ loop \notin Manager!ClientState /\ loop' \notin Manager!ClientState
              \/ Manager!HandleConnected
              \/ Manager!HandleDisconnected
<1> USE DEF Manager!serviceVars, Manager!bookVars, Manager!channelVars, Manager!lockVars,
            Manager!loopVars, Manager!Free, Manager!Take, Manager!Release, Manager!Receive,
            Manager!Select, Invoking, Manager!ClientState
<1>1. CASE Manager!ManagerStart
  <2>1. UNCHANGED <<subscribed, holder, held, made>>
    BY <1>1, Zenon DEF Manager!ManagerStart
  <2>2. UNCHANGED loop \/ (loop = "off" /\ loop' = "select")
    BY <1>1, ManagerFacts DEF Manager!ManagerStart, Manager!TypeOK
  <2> QED BY <2>1, <2>2
<1>2. CASE Manager!ManagerStop
  BY <1>2 DEF Manager!ManagerStop
<1>3. CASE Manager!ExitLoop
  BY <1>3 DEF Manager!ExitLoop
<1>4. CASE Manager!ReceiveSubscription
  BY <1>4 DEF Manager!ReceiveSubscription
<1>5. CASE Manager!SendSubscription
  BY <1>5 DEF Manager!SendSubscription
<1>6. ASSUME NEW c \in Charger,
             \/ Manager!ReceiveObservation(c) \/ Manager!Unregister(c)
             \/ Manager!RetryFires(c) \/ Manager!RetryStops(c)
      PROVE  /\ subscribed' \subseteq subscribed
             /\ Invoking => UNCHANGED <<holder, held>>
             /\ made' = made
             /\ loop' = loop \/ (loop \notin Manager!ClientState /\ loop' \notin Manager!ClientState)
  <2>1. CASE Manager!ReceiveObservation(c)
    BY <2>1 DEF Manager!ReceiveObservation
  <2>2. CASE Manager!Unregister(c)
    BY <2>2, Zenon DEF Manager!Unregister
  <2>3. CASE Manager!RetryFires(c)
    BY <2>3 DEF Manager!RetryFires
  <2>4. CASE Manager!RetryStops(c)
    BY <2>4 DEF Manager!RetryStops
  <2> QED BY <1>6, <2>1, <2>2, <2>3, <2>4
<1>7. CASE Manager!HandleSubscription
  BY <1>7 DEF Manager!HandleSubscription
<1>8. CASE Manager!HandleConnected \/ Manager!HandleDisconnected
  <2>1. subscribed' \in {subscribed, {}} /\ UNCHANGED <<holder, held>>
    BY <1>8, Zenon DEF Manager!HandleConnected, Manager!HandleDisconnected
  <2> QED BY <1>8, <2>1
<1>9. CASE Manager!HandleObservation \/ Manager!ReportObservation
  BY <1>9 DEF Manager!HandleObservation, Manager!ReportObservation
<1> QED BY <1>1, <1>2, <1>3, <1>4, <1>5, <1>6, <1>7, <1>8, <1>9 DEF OwnSteps, Manager!Handle

-----------------------------------------------------------------------------
(* What the manager will believe: the client's own answer takes its place,   *)
(* or nothing about either changes.                                          *)

Reporting(r) == \E s \in Session : phase[s] = r

BeliefStays == Believed' = Believed /\ connState' = connState

\* Nothing that it depends on changes.
LEMMA SameBelief ==
    ASSUME UNCHANGED <<states, made, connState>>,
           \A r \in {"reportConnected", "reportDisconnected"} : Reporting(r)' = Reporting(r),
           \/ loop' = loop
           \/ loop \notin Manager!ClientState /\ loop' \notin Manager!ClientState
    PROVE  BeliefStays
BY DEF BeliefStays, Believed, Manager!ClientState, Reporting

LEMMA SamePhases ==
    ASSUME UNCHANGED phase
    PROVE  \A r \in {"reportConnected", "reportDisconnected"} : Reporting(r)' = Reporting(r)
BY DEF Reporting

LEMMA StartReportsNothing ==
    ASSUME Client!TypeOK, Client!Start
    PROVE  \A r \in {"reportConnected", "reportDisconnected"} : Reporting(r)' = Reporting(r)
<1> SUFFICES ASSUME NEW r \in {"reportConnected", "reportDisconnected"}
             PROVE  \A s \in Session : (phase'[s] = r) = (phase[s] = r)
  BY DEF Reporting
<1> QED BY StartIsLocal

LEMMA BeliefLoop ==
    ASSUME Client!TypeOK, OneAlive, UNCHANGED managerVars, NEW s \in Session, Client!Loop(s)
    PROVE  BeliefStays \/ Believed' = connState' \/ Client!CtxDone(s)
<1> USE DEF Client!Goto, Client!otherVars, Client!connVars, Client!watchVars
<1>1. phase \in [Session -> Client!Phase] /\ connState \in {"connected", "disconnected"}
      /\ states \in Seq({"connected", "disconnected"})
  BY DEF Client!TypeOK, Client!ClientState
<1>2. \A t \in Session : t # s => phase[t] = "idle"
  BY OneGoroutine, LoopKeepsCalls
<1>3. UNCHANGED <<made, loop>>
  BY DEF managerVars
<1>4. CASE Silent(s)
  <2>1. \A r \in {"reportConnected", "reportDisconnected"} : \A t \in Session : (phase'[t] = r) = (phase[t] = r)
    BY <1>1, <1>4 DEF Silent
  <2>2. \A r \in {"reportConnected", "reportDisconnected"} : Reporting(r)' = Reporting(r)
    BY <2>1 DEF Reporting
  <2> QED BY <1>3, <1>4, <2>2, SameBelief DEF Silent
<1>5. ASSUME UNCHANGED <<states, connState>>, NEW there \in {"watch", "drop"},
             phase[s] = "watch", phase' = [phase EXCEPT ![s] = there]
      PROVE  BeliefStays
  <2>1. \A r \in {"reportConnected", "reportDisconnected"} : \A t \in Session : (phase'[t] = r) = (phase[t] = r)
    BY <1>1, <1>5
  <2>2. \A r \in {"reportConnected", "reportDisconnected"} : Reporting(r)' = Reporting(r)
    BY <2>1 DEF Reporting
  <2> QED BY <1>3, <1>5, <2>2, SameBelief
<1>6. CASE Client!NotifyConnected(s)
  <2>1. CASE connState = "connected"
    BY <1>5, <1>6, <2>1 DEF Client!NotifyConnected
  <2>2. CASE connState # "connected"
    <3>1. connState' = "connected" /\ phase' = [phase EXCEPT ![s] = "reportConnected"]
      BY <1>6, <2>2 DEF Client!NotifyConnected
    <3>2. phase'[s] = "reportConnected"
      BY <1>1, <3>1
    <3> QED BY <3>1, <3>2 DEF Believed
  <2> QED BY <2>1, <2>2
<1>7. CASE Client!NotifyClosed(s)
  <2>1. CASE connState = "disconnected"
    BY <1>5, <1>7, <2>1 DEF Client!NotifyClosed
  <2>2. CASE connState # "disconnected"
    <3>1. connState' = "disconnected" /\ phase' = [phase EXCEPT ![s] = "reportDisconnected"]
      BY <1>7, <2>2 DEF Client!NotifyClosed
    <3>2. phase'[s] = "reportDisconnected" /\ \A t \in Session : phase'[t] # "reportConnected"
      BY <1>1, <1>2, <3>1
    <3> QED BY <3>1, <3>2 DEF Believed
  <2> QED BY <2>1, <2>2
<1>8. CASE Client!SendState(s)
  <2>1. PICK x \in {"connected", "disconnected"} :
          /\ phase[s] = IF x = "connected" THEN "reportConnected" ELSE "reportDisconnected"
          /\ states' = Append(states, x)
          /\ phase' = [phase EXCEPT ![s] = IF x = "connected" THEN "watch" ELSE "drop"]
          /\ connState' = connState
    BY <1>8 DEF Client!SendState
  <2>2. \A t \in Session : phase'[t] \notin {"reportConnected", "reportDisconnected"}
    BY <1>1, <1>2, <2>1
  <2>3. states' # <<>> /\ states'[Len(states')] = x
    BY <1>1, <2>1
  <2>4. Believed = x
    BY <1>1, <1>2, <2>1 DEF Believed
  <2>5. Believed' = x
    BY <2>2, <2>3 DEF Believed
  <2> QED BY <2>1, <2>4, <2>5 DEF BeliefStays
<1> QED BY <1>4, <1>6, <1>7, <1>8, LoopCases

LEMMA BeliefReceive ==
    ASSUME Manager!TypeOK, UNCHANGED <<phase, connState>>, Manager!ReceiveState
    PROVE  BeliefStays
<1>1. /\ states \in Seq({"connected", "disconnected"}) /\ states # <<>>
      /\ states' = Tail(states) /\ loop' = Head(states) /\ loop = "select" /\ made' = made
  BY DEF Manager!TypeOK, Manager!ClientState, Manager!ReceiveState, Manager!Receive,
     Manager!channelVars
<1>2. CASE Len(states) = 1
  <2>1. loop' = states[1] /\ loop' \in {"connected", "disconnected"}
    BY <1>1, <1>2
  <2>2. states' \in Seq({"connected", "disconnected"}) /\ Len(states') = 0
    BY <1>1, <1>2
  <2>3. states' = <<>>
    BY <2>2, EmptySeq
  <2> QED BY <1>1, <1>2, <2>1, <2>3 DEF BeliefStays, Believed
<1>3. CASE Len(states) # 1
  <2>1. Len(states) \in Nat /\ Len(states) > 1
    <3>1. Len(states) \in Nat \ {0}
      BY <1>1, EmptySeq, Zenon
    <3>2. \A n \in Nat \ {0} : n # 1 => n \in Nat /\ n > 1
      OBVIOUS
    <3> QED BY <1>3, <3>1, <3>2, Zenon
  <2>2. Len(states') = Len(states) - 1 /\ states'[Len(states) - 1] = states[Len(states)]
    BY <1>1, <2>1
  <2>3. states' # <<>>
    BY <2>1, <2>2
  <2> QED BY <1>1, <2>2, <2>3 DEF BeliefStays, Believed
<1> QED BY <1>2, <1>3

LEMMA BeliefOwn ==
    ASSUME ManagerP!IInv, UNCHANGED clientVars, OwnSteps
    PROVE  BeliefStays
<1>1. UNCHANGED <<phase, connState, states>>
  BY OwnStepsKeepStates DEF clientVars
<1>2. CASE Manager!HandleConnected
  <2>1. loop = "connected" /\ loop' = "select" /\ made' = TRUE
    BY <1>2 DEF Manager!HandleConnected, Manager!Select
  <2> QED BY <1>1, <2>1 DEF BeliefStays, Believed
<1>3. CASE Manager!HandleDisconnected
  <2>1. loop = "disconnected" /\ loop' = "select" /\ made' = FALSE
    BY <1>3, Zenon DEF Manager!HandleDisconnected, Manager!Select
  <2> QED BY <1>1, <2>1 DEF BeliefStays, Believed
<1> QED BY <1>1, <1>2, <1>3, OwnEffects, SameBelief, SamePhases

LEMMA BeliefStep ==
    ASSUME ClientP!IInv, ManagerP!IInv, OneAlive, Next
    PROVE  \/ BeliefStays \/ Believed' = connState'
           \/ \E s \in Session : Client!CtxDone(s)
<1>1. Client!TypeOK /\ Manager!TypeOK
  BY ClientFacts, ManagerFacts
<1> USE DEF ClientOnly, ManagerOnly
<1>2. CASE AppStart
  BY <1>1, <1>2, StartIsLocal, StartReportsNothing, SameBelief DEF AppStart, managerVars
<1>3. CASE AppClose
  BY <1>3, CloseIsLocal, SameBelief, SamePhases DEF AppClose, managerVars
<1>4. CASE Invoke \/ CloudAnswers
  <2>1. UNCHANGED <<phase, connState, states>> /\ UNCHANGED managerVars
    BY <1>4, InvocationIsLocal DEF Invoke, CloudAnswers
  <2> QED BY <2>1, SameBelief, SamePhases DEF managerVars
<1>5. CASE InvocationSucceeds \/ InvocationFails
  <2>1. UNCHANGED <<phase, connState, states>>
    BY <1>5, InvocationIsLocal DEF InvocationSucceeds, InvocationFails
  <2>2. made' = made /\ (loop' = loop \/ (loop = "invoke" /\ loop' = "select"))
    BY <1>5, Zenon DEF InvocationSucceeds, InvocationFails, Manager!SubscribeSucceeded,
       Manager!SubscribeFailed, Manager!UnsubscribeSucceeded, Manager!UnsubscribeFailed,
       Manager!channelVars, Manager!loopVars, Manager!Select
  <2> QED BY <2>1, <2>2, SameBelief, SamePhases DEF Manager!ClientState
<1>6. CASE CloseAfterLast
  BY <1>6, CloseIsLocal, SameBelief, SamePhases DEF CloseAfterLast, Manager!ClientClosed,
     Manager!channelVars, Manager!loopVars
<1>7. ASSUME NEW c \in Charger, Register(c) PROVE BeliefStays
  <2>1. UNCHANGED <<made, loop, states>>
    BY <1>7, Zenon DEF Register, Manager!Register, Manager!channelVars, Manager!loopVars
  <2>2. UNCHANGED clientVars \/ Client!Start
    BY <1>7, Zenon DEF Register
  <2>3. CASE UNCHANGED clientVars
    BY <2>1, <2>3, SameBelief, SamePhases DEF clientVars
  <2>4. CASE Client!Start
    BY <1>1, <2>1, <2>4, StartIsLocal, StartReportsNothing, SameBelief
  <2> QED BY <2>2, <2>3, <2>4
<1>8. ASSUME NEW s \in Session, Loop(s)
      PROVE  BeliefStays \/ Believed' = connState' \/ Client!CtxDone(s)
  BY <1>1, <1>8, BeliefLoop DEF Loop
<1>9. ASSUME NEW s \in Session, Library(s) PROVE BeliefStays
  <2>1. UNCHANGED <<phase, connState, states>> /\ UNCHANGED managerVars
    BY <1>9, LibraryIsLocal DEF Library
  <2> QED BY <2>1, SameBelief, SamePhases DEF managerVars
<1>10. CASE ManagerOnly(OwnSteps)
  BY <1>10, BeliefOwn
<1>11. CASE ManagerOnly(Manager!ReceiveState)
  BY <1>1, <1>11, BeliefReceive DEF clientVars
<1> QED BY <1>2, <1>3, <1>4, <1>5, <1>6, <1>7, <1>8, <1>9, <1>10, <1>11, Sides

-----------------------------------------------------------------------------
(* News of a state stays under way until the manager handles it, an end that *)
(* is still to be noticed until the goroutine notices it or is stopped.      *)

Reports(x) == IF x = "connected" THEN "reportConnected" ELSE "reportDisconnected"

UnderWay(x) ==
    \/ Reporting(Reports(x))
    \/ \E i \in DOMAIN states : states[i] = x
    \/ loop = x

LEMMA UnderWayIs ==
    /\ LossUnderWay = (UnderWay("disconnected") \/ \E s \in Session : Closed(s))
    /\ ConnectionUnderWay = UnderWay("connected")
BY DEF LossUnderWay, ConnectionUnderWay, UnderWay, Reporting, Reports, Closed

LEMMA UnderWayIsNext ==
    (/\ LossUnderWay = (UnderWay("disconnected") \/ \E s \in Session : Closed(s))
     /\ ConnectionUnderWay = UnderWay("connected"))'
BY UnderWayIs, PTL

\* Nothing that it depends on changes.
LEMMA SameNews ==
    ASSUME NEW x, states' = states, Reporting(Reports(x))' = Reporting(Reports(x)),
           loop = x => loop' = x, UnderWay(x)
    PROVE  UnderWay(x)'
BY DEF UnderWay

LEMMA SameReporting ==
    ASSUME UNCHANGED phase, NEW x PROVE Reporting(Reports(x))' = Reporting(Reports(x))
BY SamePhases DEF Reports

LEMMA NewsLoop ==
    ASSUME Client!TypeOK, UNCHANGED managerVars, NEW x \in Manager!ClientState, UnderWay(x),
           NEW s \in Session, Client!Loop(s)
    PROVE  UnderWay(x)'
<1> USE DEF Client!Goto, Client!otherVars, Client!connVars, Client!watchVars, Manager!ClientState
<1>1. phase \in [Session -> Client!Phase] /\ states \in Seq({"connected", "disconnected"})
  BY DEF Client!TypeOK, Client!ClientState
<1>2. loop' = loop
  BY DEF managerVars
<1>3. ASSUME states' = states, \A t \in Session : t # s => phase'[t] = phase[t],
             phase[s] \notin {"reportConnected", "reportDisconnected"}
      PROVE  UnderWay(x)'
  BY <1>2, <1>3 DEF UnderWay, Reporting, Reports
<1>4. CASE Silent(s) \/ Client!NotifyConnected(s) \/ Client!NotifyClosed(s) \/ Client!CtxDone(s)
  BY <1>1, <1>3, <1>4 DEF Silent, Client!NotifyConnected, Client!NotifyClosed, Client!CtxDone
<1>5. CASE Client!SendState(s)
  <2>1. PICK y \in {"connected", "disconnected"} :
          /\ phase[s] = Reports(y)
          /\ states' = Append(states, y)
          /\ phase' = [phase EXCEPT ![s] = IF y = "connected" THEN "watch" ELSE "drop"]
    BY <1>5 DEF Client!SendState, Reports
  <2>2. /\ \A i \in DOMAIN states : i \in DOMAIN states' /\ states'[i] = states[i]
        /\ \E i \in DOMAIN states' : states'[i] = y
    <3>1. Len(states) + 1 \in DOMAIN states' /\ states'[Len(states) + 1] = y
      BY <1>1, <2>1
    <3> QED BY <1>1, <2>1, <3>1
  <2>3. \A t \in Session : t # s => phase'[t] = phase[t]
    BY <1>1, <2>1
  <2> QED BY <1>2, <2>1, <2>2, <2>3 DEF UnderWay, Reporting, Reports
<1> QED BY <1>4, <1>5, LoopCases

\* Nothing is lost on the way from the channel into the loop's hands.
LEMMA NewsReceive ==
    ASSUME Manager!TypeOK, UNCHANGED phase, Manager!ReceiveState,
           NEW x \in Manager!ClientState, UnderWay(x)
    PROVE  UnderWay(x)'
<1>1. /\ states \in Seq({"connected", "disconnected"}) /\ states # <<>>
      /\ states' = Tail(states) /\ loop' = Head(states) /\ loop = "select"
  BY DEF Manager!TypeOK, Manager!ClientState, Manager!ReceiveState, Manager!Receive
<1>2. ASSUME NEW i \in DOMAIN states, states[i] = x
      PROVE  loop' = x \/ \E j \in DOMAIN states' : states'[j] = x
  <2>1. CASE i = 1
    BY <1>1, <1>2, <2>1
  <2>2. CASE i # 1
    <3>1. i - 1 \in DOMAIN Tail(states) /\ Tail(states)[i - 1] = states[i]
      BY <1>1, <2>2
    <3> QED BY <1>1, <1>2, <3>1
  <2> QED BY <2>1, <2>2
<1> QED BY <1>1, <1>2 DEF UnderWay, Reporting, Manager!ClientState

LEMMA NewsStep ==
    ASSUME ClientP!IInv, ManagerP!IInv, Next, NEW x \in Manager!ClientState, UnderWay(x)
    PROVE  \/ UnderWay(x)'
           \/ x = "connected" /\ ManagerOnly(Manager!HandleConnected)
           \/ x = "disconnected" /\ ManagerOnly(Manager!HandleDisconnected)
<1>1. Client!TypeOK /\ Manager!TypeOK
  BY ClientFacts, ManagerFacts
<1> USE DEF ClientOnly, ManagerOnly
<1>2. ASSUME Client!Start, loop' = loop PROVE UnderWay(x)'
  BY <1>1, <1>2, StartIsLocal, StartReportsNothing, SameNews DEF Reports
<1>3. CASE AppStart
  BY <1>2, <1>3 DEF AppStart, managerVars
<1>4. CASE AppClose
  BY <1>4, CloseIsLocal, SameNews, SameReporting DEF AppClose, managerVars
<1>5. CASE Invoke \/ CloudAnswers
  <2>1. UNCHANGED <<phase, states>> /\ UNCHANGED managerVars
    BY <1>5, InvocationIsLocal DEF Invoke, CloudAnswers
  <2> QED BY <2>1, SameNews, SameReporting DEF managerVars
<1>6. CASE InvocationSucceeds \/ InvocationFails
  <2>1. UNCHANGED <<phase, states>>
    BY <1>6, InvocationIsLocal DEF InvocationSucceeds, InvocationFails
  <2>2. loop' = loop \/ (loop = "invoke" /\ loop' = "select")
    BY <1>6, Zenon DEF InvocationSucceeds, InvocationFails, Manager!SubscribeSucceeded,
       Manager!SubscribeFailed, Manager!UnsubscribeSucceeded, Manager!UnsubscribeFailed,
       Manager!loopVars, Manager!Select
  <2> QED BY <2>1, <2>2, SameNews, SameReporting DEF Manager!ClientState
<1>7. CASE CloseAfterLast
  BY <1>7, CloseIsLocal, SameNews, SameReporting DEF CloseAfterLast, Manager!ClientClosed,
     Manager!loopVars
<1>8. ASSUME NEW c \in Charger, Register(c) PROVE UnderWay(x)'
  <2>1. loop' = loop /\ states' = states
    BY <1>8, Zenon DEF Register, Manager!Register, Manager!loopVars
  <2>2. UNCHANGED clientVars \/ Client!Start
    BY <1>8, Zenon DEF Register
  <2>3. CASE UNCHANGED clientVars
    BY <2>1, <2>3, SameNews, SameReporting DEF clientVars
  <2> QED BY <1>2, <2>1, <2>2, <2>3
<1>9. ASSUME NEW s \in Session, Loop(s) PROVE UnderWay(x)'
  BY <1>1, <1>9, NewsLoop DEF Loop
<1>10. ASSUME NEW s \in Session, Library(s) PROVE UnderWay(x)'
  <2>1. UNCHANGED <<phase, states>> /\ UNCHANGED managerVars
    BY <1>10, LibraryIsLocal DEF Library
  <2> QED BY <2>1, SameNews, SameReporting DEF managerVars
<1>11. CASE ManagerOnly(OwnSteps)
  <2>1. UNCHANGED <<phase, states>>
    BY <1>11, OwnStepsKeepStates DEF clientVars
  <2>2. CASE Manager!HandleConnected
    <3>1. loop = "connected"
      BY <2>2 DEF Manager!HandleConnected
    <3> QED BY <1>11, <2>1, <2>2, <3>1, SameNews, SameReporting DEF Manager!ClientState
  <2>3. CASE Manager!HandleDisconnected
    <3>1. loop = "disconnected"
      BY <2>3 DEF Manager!HandleDisconnected
    <3> QED BY <1>11, <2>1, <2>3, <3>1, SameNews, SameReporting DEF Manager!ClientState
  <2> QED BY <1>11, <2>1, <2>2, <2>3, OwnEffects, SameNews, SameReporting DEF Manager!ClientState
<1>12. CASE ManagerOnly(Manager!ReceiveState)
  BY <1>1, <1>12, NewsReceive DEF clientVars
<1> QED BY <1>3, <1>4, <1>5, <1>6, <1>7, <1>8, <1>9, <1>10, <1>11, <1>12, Sides

\* An end in a goroutine's channel stays there for the goroutine.
LEMMA ClosedStep ==
    ASSUME Client!TypeOK, [Client!Next]_(Client!vars), NEW s \in Session, Closed(s)
    PROVE  Closed(s)' \/ Client!NotifyClosed(s) \/ Client!CtxDone(s)
<1> USE DEF Client!ctlVars, Client!watchVars, Client!connVars, Client!loopVars, Client!callVars,
            Client!otherVars
<1>1. events \in [Session -> Seq({"connected", "closed"})]
  BY DEF Client!TypeOK
<1>2. CASE events' = events
  BY <1>2 DEF Closed
<1>3. ASSUME NEW t \in Session, Client!Loop(t) PROVE Closed(s)' \/ Client!NotifyClosed(s) \/ Client!CtxDone(s)
  <2>1. CASE Silent(t) \/ Client!SendState(t)
    BY <1>2, <2>1 DEF Silent, Client!SendState
  <2>2. CASE Client!NotifyConnected(t)
    <3>1. /\ events[t] \in Seq({"connected", "closed"}) /\ events[t] # <<>> /\ events[t][1] = "connected"
          /\ events' = [events EXCEPT ![t] = Tail(events[t])]
      BY <1>1, <2>2 DEF Client!NotifyConnected
    <3>2. PICK i \in DOMAIN events[s] : events[s][i] = "closed"
      BY DEF Closed
    <3>3. CASE s = t
      <4>1. i - 1 \in DOMAIN Tail(events[s]) /\ Tail(events[s])[i - 1] = events[s][i]
        BY <3>1, <3>2, <3>3
      <4>2. events'[s] = Tail(events[s])
        BY <1>1, <3>1, <3>3
      <4> QED BY <3>2, <4>1, <4>2 DEF Closed
    <3>4. CASE s # t
      BY <1>1, <3>1, <3>4 DEF Closed
    <3> QED BY <3>3, <3>4
  <2>3. CASE Client!NotifyClosed(t) \/ Client!CtxDone(t)
    <3>1. s # t => events'[s] = events[s]
      BY <1>1, <2>3 DEF Client!NotifyClosed, Client!CtxDone, Client!StopWatching
    <3> QED BY <2>3, <3>1 DEF Closed
  <2> QED BY <1>3, <2>1, <2>2, <2>3, LoopCases
<1>4. ASSUME NEW t \in Session, Client!Library(t) PROVE Closed(s)'
  <2>1. PICK e \in {"connected", "closed"}, W \in SUBSET Session :
          events' = [u \in Session |-> IF u \in W THEN Append(events[u], e) ELSE events[u]]
    <3>1. CASE Client!LinkUp(t) \/ Client!LinkClosed(t)
      <4>1. Client!Watchers(t) \in SUBSET Session
        BY DEF Client!Watchers
      <4> QED BY <3>1, <4>1 DEF Client!LinkUp, Client!LinkClosed, Client!Emit
    <3>2. CASE Client!ForgottenUp(t) \/ Client!ForgottenClosed(t)
      <4>1. PICK e \in {"connected", "closed"} : events' = [events EXCEPT ![t] = Append(@, e)]
        BY <3>2 DEF Client!ForgottenUp, Client!ForgottenClosed
      <4>2. events' = [u \in Session |-> IF u \in {t} THEN Append(events[u], e) ELSE events[u]]
        BY <1>1, <4>1
      <4> QED BY <4>2
    <3> QED BY <1>4, <3>1, <3>2 DEF Client!Library
  <2>2. \A i \in DOMAIN events[s] : i \in DOMAIN events'[s] /\ events'[s][i] = events[s][i]
    BY <1>1, <2>1
  <2> QED BY <2>2 DEF Closed
<1>5. CASE \/ Client!Start \/ Client!Close \/ Client!InvokeRefused \/ Client!InvokeCheck
           \/ Client!InvokeUse \/ Client!InvokeAnswered \/ Client!InvokeOk \/ Client!InvokeFail
           \/ Client!TakeState \/ UNCHANGED Client!vars
  BY <1>2, <1>5, Zenon DEF Client!Start, Client!Close, Client!InvokeRefused, Client!InvokeCheck,
     Client!InvokeUse, Client!InvokeAnswered, Client!InvokeOk, Client!InvokeFail,
     Client!TakeState, Client!vars
<1> QED BY <1>3, <1>4, <1>5 DEF Client!Next, Client!Caller

LEMMA LossStays ==
    ASSUME ClientP!IInv, ManagerP!IInv, Next, LossUnderWay
    PROVE  \/ LossUnderWay'
           \/ \E s \in Session : Client!NotifyClosed(s) \/ Client!CtxDone(s)
           \/ ManagerOnly(Manager!HandleDisconnected)
<1>1. CASE UnderWay("disconnected")
  <2>1. "disconnected" \in Manager!ClientState
    BY DEF Manager!ClientState
  <2> QED BY <1>1, <2>1, NewsStep, UnderWayIsNext
<1>2. ASSUME NEW s \in Session, Closed(s)
      PROVE  LossUnderWay' \/ Client!NotifyClosed(s) \/ Client!CtxDone(s)
  BY <1>2, ClosedStep, ClientStep, ClientFacts, UnderWayIsNext
<1> QED BY <1>1, <1>2, UnderWayIs

\* A connection that closes while it is observed is a loss under way.
LEMMA ClosedIsLoss ==
    ASSUME Client!TypeOK, NEW s \in Session, Client!LinkClosed(s), watching[s] = s
    PROVE  LossUnderWay'
<1>1. events'[s] = Append(events[s], "closed") /\ events[s] \in Seq({"connected", "closed"})
  BY DEF Client!LinkClosed, Client!Emit, Client!Watchers, Client!TypeOK
<1>2. Len(events[s]) + 1 \in DOMAIN events'[s] /\ events'[s][Len(events[s]) + 1] = "closed"
  BY <1>1
<1> QED BY <1>2 DEF LossUnderWay

-----------------------------------------------------------------------------
(* The behaviours in which nobody closes the client and nobody stops the     *)
(* manager: what counts is served, or its loss is under way.                 *)

Alone == cancelled = {} /\ done # "closed"

\* A goroutine that is never told to stop leaves no connection unobserved.
AllWatched == \A s \in Session : link[s] # "none" => phase[s] = "started" \/ watching[s] = s

\* A charger that counts as subscribed, or is about to: the cloud has answered.
Counted(c) == c \in subscribed \/ (invocation = "answered" /\ holder = "loop" /\ held = c)

ServedSomewhere(c) == \E s \in Session : c \in served[s]

ServedInv == \A c \in Charger : Counted(c) => LossUnderWay \/ ServedSomewhere(c)

LEMMA AloneIsOne == Client!OneLiveLoop /\ Alone => OneAlive
BY DEF Client!OneLiveLoop, Alone, OneAlive

LEMMA AllWatchedStep ==
    ASSUME Client!TypeOK, OneAlive, Alone, ConnectionInv, AllWatched, [Client!Next]_(Client!vars)
    PROVE  AllWatched'
<1> USE DEF Client!ctlVars, Client!watchVars, Client!connVars, Client!loopVars, Client!callVars,
            Client!otherVars
<1>1. /\ phase \in [Session -> Client!Phase] /\ link \in [Session -> {"none", "connecting", "connected"}]
      /\ watching \in [Session -> Session \cup {NoSession}]
  BY DEF Client!TypeOK, Client!Maybe, Client!LinkState
<1>2. ASSUME NEW s \in Session, Client!Loop(s), NEW t \in Session, link'[t] # "none"
      PROVE  phase'[t] = "started" \/ watching'[t] = t
  <2>1. (link[t] # "none" => phase[t] = "started" \/ watching[t] = t) /\ ConnectionOf(s)
    BY DEF AllWatched, ConnectionInv
  <2>2. CASE Client!StartLink(s) \/ Client!Observe(s)
    BY <1>1, <1>2, <2>1, <2>2 DEF Client!StartLink, Client!Observe, Client!NilConnection,
       Client!Goto, ConnectionOf
  <2>3. CASE Client!NotifyClosed(s)
    <3>1. Closed(s) /\ link' = link
      <4>1. events[s] \in Seq({"connected", "closed"}) /\ events[s] # <<>> /\ Head(events[s]) = "closed"
        BY <2>3 DEF Client!NotifyClosed, Client!TypeOK
      <4>2. 1 \in DOMAIN events[s] /\ events[s][1] = "closed"
        BY <4>1
      <4> QED BY <2>3, <4>2 DEF Closed, Client!NotifyClosed
    <3> QED BY <1>1, <1>2, <2>1, <2>3, <3>1 DEF Client!NotifyClosed, Client!Goto, Client!StopWatching,
           ConnectionOf
  <2>4. CASE Client!DialOk(s)
    <3>1. /\ phase[s] = "dial" /\ link' = [link EXCEPT ![s] = "none"]
          /\ phase' = [phase EXCEPT ![s] = "assigned"]
          /\ watching'[t] = IF watching[t] = s THEN NoSession ELSE watching[t]
      BY <2>4 DEF Client!DialOk, Client!Goto, Client!Unwatch, Client!Watchers
    <3>2. t # s
      BY <1>1, <1>2, <3>1
    <3> QED BY <1>1, <1>2, <2>1, <3>1, <3>2
  <2>5. CASE \/ Client!DialFail(s) \/ Client!NotifyConnected(s)
             \/ Client!SendState(s) \/ Client!Drop(s) \/ Client!BackoffTimer(s)
    BY <1>1, <1>2, <2>1, <2>5 DEF Client!DialFail, Client!NotifyConnected,
       Client!SendState, Client!Drop, Client!BackoffTimer, Client!Goto
  <2>6. ~Client!CtxDone(s) /\ ~Client!BackoffDone(s)
    BY DEF Client!CtxDone, Client!BackoffDone, Alone
  <2> QED BY <1>2, <2>2, <2>3, <2>5, <2>6, <2>4 DEF Client!Loop
<1>3. ASSUME NEW s \in Session, Client!Library(s),
             NEW t \in Session, link'[t] # "none"
      PROVE  phase'[t] = "started" \/ watching'[t] = t
  <2>1. (link[t] # "none" => phase[t] = "started" \/ watching[t] = t) /\ ConnectionOf(t)
    BY DEF AllWatched, ConnectionInv
  <2>2. CASE Client!LinkUp(s) \/ Client!LinkClosed(s)
    BY <1>1, <1>3, <2>1, <2>2 DEF Client!LinkUp, Client!LinkClosed, Client!Watchers,
       Client!Unwatch, ConnectionOf
  <2> QED BY <1>3, <2>2, NoneForgotten DEF Client!Library
<1>4. CASE Client!Start
  BY <1>4, StartIsLocal DEF AllWatched
<1>5. CASE \/ Client!Close \/ Client!InvokeRefused \/ Client!InvokeCheck \/ Client!InvokeUse
           \/ Client!InvokeAnswered \/ Client!InvokeOk \/ Client!InvokeFail
           \/ Client!TakeState \/ UNCHANGED Client!vars
  <2>1. UNCHANGED <<phase, watching, link>>
    BY <1>5, CloseIsLocal, InvocationIsLocal DEF Client!TakeState, Client!vars
  <2> QED BY <2>1 DEF AllWatched
<1> QED BY <1>2, <1>3, <1>4, <1>5 DEF Client!Next, Client!Caller, AllWatched

\* A loss the manager will believe in, and does not yet, is under way.
LEMMA DisbeliefIsLoss ==
    Manager!TypeOK /\ made /\ Believed = "disconnected" => LossUnderWay
<1> SUFFICES ASSUME Manager!TypeOK, made, Believed = "disconnected" PROVE LossUnderWay
  OBVIOUS
<1>1. CASE states = <<>>
  BY <1>1 DEF Believed, LossUnderWay
<1>2. CASE states # <<>>
  <2>1. states \in Seq(Manager!ClientState)
    BY DEF Manager!TypeOK
  <2>2. Len(states) \in Nat \ {0}
    BY <1>2, <2>1, EmptySeq, Zenon
  <2>3. Len(states) \in 1 .. Len(states) /\ DOMAIN states = 1 .. Len(states)
    BY <2>1, <2>2
  <2> QED BY <1>2, <2>3 DEF Believed, LossUnderWay
<1> QED BY <1>1, <1>2

LEMMA CountedMade ==
    ManagerP!IInv /\ LockInv => \A c \in Charger : Counted(c) => made
BY ManagerFacts DEF Counted, LockInv

\* Whoever counts from a step on was counted before it, or has its answer.
LEMMA CountedBefore ==
    ASSUME ManagerP!IInv, LockInv, Next, NEW c \in Charger, Counted(c)'
    PROVE  Counted(c) \/ (CloudAnswers /\ holder = "loop" /\ c = held)
<1> USE DEF ClientOnly, ManagerOnly
<1>1. CASE AppStart \/ AppClose
  <2>1. UNCHANGED managerVars /\ invocation' = invocation
    BY <1>1 DEF AppStart, AppClose, Client!Start, Client!Close, Client!callVars
  <2> QED BY <2>1 DEF Counted, managerVars
<1>2. CASE Invoke
  <2>1. UNCHANGED managerVars /\ (invocation' = "answered" => invocation = "answered")
    BY <1>2 DEF Invoke, Client!InvokeCheck, Client!InvokeUse, Client!callVars
  <2> QED BY <2>1 DEF Counted, managerVars
<1>3. CASE CloudAnswers
  BY <1>3 DEF CloudAnswers, Counted, managerVars
<1>4. CASE InvocationSucceeds
  <2>1. invocation = "answered" /\ invocation' = "none"
    BY <1>4 DEF InvocationSucceeds, Client!InvokeOk
  <2>2. CASE holder = "loop"
    <3>1. subscribed' = subscribed \cup {item}
      BY <1>4, <2>2 DEF InvocationSucceeds, Manager!SubscribeSucceeded
    <3> QED BY <2>1, <2>2, <3>1 DEF Counted, LockInv
  <2>3. CASE holder # "loop"
    <3>1. subscribed' = subscribed
      BY <1>4, <2>3 DEF InvocationSucceeds, Manager!UnsubscribeSucceeded, Manager!bookVars
    <3> QED BY <2>1, <3>1 DEF Counted
  <2> QED BY <2>2, <2>3
<1>5. CASE InvocationFails
  <2>1. invocation' = "none"
    BY <1>5 DEF InvocationFails, Client!InvokeRefused, Client!InvokeFail, Client!vars, Client!callVars
  <2>2. subscribed' = subscribed
    BY <1>5, Zenon DEF InvocationFails, Manager!SubscribeFailed, Manager!UnsubscribeFailed,
       Manager!bookVars
  <2> QED BY <2>1, <2>2 DEF Counted
<1>6. CASE CloseAfterLast
  BY <1>6, CloseIsLocal DEF CloseAfterLast, Manager!ClientClosed, Manager!Release, Manager!bookVars,
     Counted
<1>7. ASSUME NEW d \in Charger, Register(d) PROVE Counted(c)
  <2>1. invocation' = invocation /\ subscribed' = subscribed
    BY <1>7, Zenon DEF Register, clientVars, Client!Start, Client!callVars, Manager!Register
  <2>2. holder = "none" /\ holder' # "loop"
    BY <1>7, Zenon DEF Register, Manager!Register, Manager!Free, Manager!Take, Manager!lockVars
  <2> QED BY <2>1, <2>2 DEF Counted
<1>8. ASSUME NEW s \in Session, Loop(s) \/ Library(s) PROVE Counted(c)
  <2>1. UNCHANGED managerVars
    BY <1>8 DEF Loop, Library
  <2>2. invocation' = invocation
    <3>1. CASE Loop(s)
      BY <3>1, LoopKeepsCalls DEF Loop
    <3>2. CASE Library(s)
      BY <3>2, LibraryIsLocal DEF Library
    <3> QED BY <1>8, <3>1, <3>2
  <2> QED BY <2>1, <2>2 DEF Counted, managerVars
<1>9. CASE ManagerOnly(OwnSteps)
  <2>1. invocation' = invocation /\ subscribed' \subseteq subscribed
    BY <1>9, OwnEffects DEF clientVars
  <2>2. invocation = "answered" => UNCHANGED <<holder, held>>
    BY <1>9, OwnEffects DEF LockInv
  <2> QED BY <2>1, <2>2 DEF Counted
<1>10. CASE ManagerOnly(Manager!ReceiveState)
  BY <1>10 DEF Manager!ReceiveState, Manager!bookVars, Manager!lockVars, clientVars, Counted
<1> QED BY <1>1, <1>2, <1>3, <1>4, <1>5, <1>6, <1>7, <1>8, <1>9, <1>10, Sides

\* A goroutine takes a connection from the cloud only by dialling over it.
LEMMA LoopServed ==
    ASSUME Client!TypeOK, NEW s \in Session, Loop(s)
    PROVE  UNCHANGED served \/ (Client!DialOk(s) /\ link[s] # "none")
<1>1. Client!Loop(s) /\ ServedOnLinks(s) /\ link \in [Session -> Client!LinkState]
  BY DEF Loop, Client!TypeOK
<1>2. CASE Client!StartLink(s)
  <2>1. link' = link \/ \E t \in Session : link' = [link EXCEPT ![t] = IF @ = "none" THEN "connecting" ELSE @]
    BY <1>2 DEF Client!StartLink, Client!NilConnection, Client!TypeOK, Client!Maybe
  <2>2. link[s] # "none" => link'[s] # "none"
    BY <1>1, <2>1
  <2> QED BY <1>1, <2>2 DEF ServedOnLinks
<1>3. CASE link' = link \/ Client!DialOk(s)
  BY <1>1, <1>3 DEF ServedOnLinks
<1>4. link' = link \/ Client!DialOk(s) \/ Client!StartLink(s)
  BY <1>1, Zenon DEF Client!Loop, Client!DialFail, Client!Observe, Client!NilConnection,
     Client!CtxDone, Client!NotifyConnected, Client!NotifyClosed, Client!SendState, Client!Drop,
     Client!BackoffTimer, Client!BackoffDone, Client!otherVars
<1> QED BY <1>2, <1>3, <1>4

\* Whoever was served is served, unless it asked not to be, or its connection
\* was closed or replaced.
LEMMA ServedStays ==
    ASSUME Client!TypeOK, Next, NEW c \in Charger, ServedSomewhere(c), served \in [Session -> SUBSET Charger]
    PROVE  \/ ServedSomewhere(c)'
           \/ CloudAnswers /\ holder # "loop" /\ c = held
           \/ \E s \in Session : Client!LinkClosed(s) \/ (Client!DialOk(s) /\ link[s] # "none")
<1>1. CASE CloudAnswers
  <2>1. served' = [served EXCEPT ![target] = IF holder = "loop" THEN @ \cup {held} ELSE @ \ {held}]
    BY <1>1 DEF CloudAnswers
  <2> QED BY <1>1, <2>1 DEF ServedSomewhere
<1>2. ASSUME NEW s \in Session, LinkClosed(s) PROVE Client!LinkClosed(s)
  BY <1>2 DEF LinkClosed
<1>3. CASE UNCHANGED served
  BY <1>3 DEF ServedSomewhere
<1>4. CloudAnswers \/ (\E s \in Session : Loop(s) \/ Library(s)) \/ UNCHANGED served
  BY Sides, Zenon DEF AppStart, AppClose, Invoke, ClientOnly, ManagerOnly, InvocationSucceeds,
     InvocationFails, CloseAfterLast, Register
<1>5. ASSUME NEW s \in Session, Library(s) PROVE Client!LinkClosed(s) \/ UNCHANGED served
  BY <1>2, <1>5, LibraryIs DEF LinkUp, Forgotten
<1> QED BY <1>1, <1>3, <1>4, <1>5, LoopServed

\* The two lemmas above about the state that a step leads to.
LEMMA CountedMadeNext ==
    (ManagerP!IInv /\ LockInv => \A c \in Charger : Counted(c) => made)'
BY CountedMade, PTL

LEMMA DisbeliefIsLossNext ==
    (Manager!TypeOK /\ made /\ Believed = "disconnected" => LossUnderWay)'
BY DisbeliefIsLoss, PTL

LEMMA ServedStep ==
    ASSUME ClientP!IInv, ManagerP!IInv, LockInv, Alone, ConnectionInv, AllWatched, ServedTypeOK,
           ServedInv, Next,
           ManagerP!IInv', LockInv', Client!TypeOK', Manager!TypeOK', ManagerCatchesUp'
    PROVE  ServedInv'
<1> SUFFICES ASSUME NEW c \in Charger, Counted(c)', ~LossUnderWay'
             PROVE  ServedSomewhere(c)'
  BY DEF ServedInv
<1>1. Client!TypeOK /\ Client!OneLiveLoop /\ Manager!TypeOK
  BY ClientFacts, ManagerFacts
<1>2. ~LossUnderWay
  <2> SUFFICES ASSUME LossUnderWay PROVE FALSE
    OBVIOUS
  <2>1. ASSUME NEW s \in Session, Client!NotifyClosed(s) PROVE FALSE
    <3>1. connState' = "disconnected"
      BY <2>1 DEF Client!NotifyClosed
    <3>2. made'
      BY CountedMadeNext
    <3>3. LossUnderWay'
      BY <3>1, <3>2, DisbeliefIsLossNext DEF ManagerCatchesUp
    <3> QED BY <3>3
  <2>2. ASSUME ManagerOnly(Manager!HandleDisconnected) PROVE FALSE
    <3>1. subscribed' = {} /\ holder' = "none"
      BY <2>2, Zenon DEF ManagerOnly, Manager!HandleDisconnected, Manager!Free, Manager!lockVars
    <3> QED BY <3>1 DEF Counted
  <2>3. \A s \in Session : ~Client!CtxDone(s)
    BY DEF Client!CtxDone, Alone
  <2> QED BY <2>1, <2>2, <2>3, LossStays
<1>3. ASSUME NEW s \in Session, Client!LinkClosed(s) \/ (Client!DialOk(s) /\ link[s] # "none")
      PROVE  FALSE
  <2>1. CASE Client!LinkClosed(s)
    BY <1>1, <2>1, ClosedIsLoss DEF AllWatched, Client!LinkClosed
  <2>2. CASE Client!DialOk(s) /\ link[s] # "none"
    BY <2>2 DEF AllWatched, Client!DialOk, ConnectionInv, ConnectionOf
  <2> QED BY <1>3, <2>1, <2>2
<1>4. CASE CloudAnswers /\ holder = "loop" /\ c = held
  <2>1. target \in Session
    BY <1>4 DEF CloudAnswers, Client!InvokeAnswered, ConnectionInv
  <2>2. served' = [served EXCEPT ![target] = served[target] \cup {held}]
    BY <1>4 DEF CloudAnswers
  <2> QED BY <1>4, <2>1, <2>2 DEF ServedSomewhere, ServedTypeOK
<1>5. CASE Counted(c)
  <2>1. ServedSomewhere(c)
    BY <1>2, <1>5 DEF ServedInv
  <2>2. CASE CloudAnswers /\ holder # "loop" /\ c = held
    <3>1. holder = "unregister" /\ held \notin chargers
      BY <2>2 DEF CloudAnswers, Client!InvokeAnswered, LockInv, Invoking
    <3>2. c \in subscribed /\ subscribed \subseteq chargers
      BY <1>1, <1>5, <2>2 DEF Counted, Manager!TypeOK
    <3> QED BY <2>2, <3>1, <3>2
  <2> QED BY <1>1, <1>3, <2>1, <2>2, ServedStays DEF ServedTypeOK
<1> QED BY <1>1, <1>4, <1>5, CountedBefore

-----------------------------------------------------------------------------
LEMMA SteadyIsSpec == SteadySpec => Spec
<1>1. [Steady]_vars => [Next]_vars
  BY DEF Steady
<1> QED BY <1>1, PTL DEF SteadySpec, Spec

LEMMA SteadyInvs ==
    SteadySpec => [](/\ ClientP!IInv /\ ManagerP!IInv /\ LockInv /\ ServedTypeOK
                     /\ Client!TypeOK /\ Client!OneLiveLoop /\ Manager!TypeOK
                     /\ Alone /\ OneAlive /\ ConnectionInv /\ AllWatched)
<1>1. SteadySpec => [](ClientP!IInv /\ ManagerP!IInv /\ LockInv)
  BY ComponentsAndLock, SteadyIsSpec, PTL
<1>2. SteadySpec => []ServedTypeOK
  <2>1. Init => ServedTypeOK
    BY DEF Init, ServedTypeOK
  <2> QED BY <2>1, ServedTypes, ComponentsAndLock, SteadyIsSpec, PTL DEF Spec
<1>3. ClientP!IInv /\ ManagerP!IInv => Client!TypeOK /\ Client!OneLiveLoop /\ Manager!TypeOK
  BY ClientFacts, ManagerFacts
<1>4. SteadySpec => []Alone
  <2>1. Init => Alone
    BY DEF Init, Client!Init, Manager!Init, Alone
  <2>2. Alone /\ [Steady]_vars => Alone'
    BY DEF Steady, Alone, vars, clientVars, managerVars
  <2> QED BY <2>1, <2>2, PTL DEF SteadySpec
<1>5. [Steady]_vars /\ Client!TypeOK => [Client!Next]_(Client!vars)
  BY ClientStep DEF Steady
<1>6. SteadySpec => []ConnectionInv
  <2>1. Init => ConnectionInv
    BY DEF Init, Client!Init, ConnectionInv, ConnectionOf, Closed
  <2>2. Client!TypeOK /\ OneAlive /\ ConnectionInv /\ [Client!Next]_(Client!vars) => ConnectionInv'
    BY ConnectionStep
  <2> QED BY <2>1, <2>2, <1>1, <1>3, <1>4, <1>5, AloneIsOne, PTL DEF SteadySpec
<1>7. SteadySpec => []AllWatched
  <2>1. Init => AllWatched
    BY DEF Init, Client!Init, AllWatched
  <2>2. /\ Client!TypeOK /\ OneAlive /\ Alone /\ ConnectionInv /\ AllWatched
        /\ [Client!Next]_(Client!vars)
        => AllWatched'
    BY AllWatchedStep
  <2> QED BY <2>1, <2>2, <1>1, <1>3, <1>4, <1>5, <1>6, AloneIsOne, PTL DEF SteadySpec
<1> QED BY <1>1, <1>2, <1>3, <1>4, <1>6, <1>7, AloneIsOne, PTL

\* As long as nobody closes the client and nobody stops the manager, what the
\* manager will believe once it has read the channel is what the client itself
\* answers: no state is lost, doubled or overtaken on the way.
THEOREM BeliefCatchesUp == SteadySpec => []ManagerCatchesUp
<1>1. Init => ManagerCatchesUp
  <2> SUFFICES ASSUME Init PROVE ManagerCatchesUp
    OBVIOUS
  <2>1. /\ \A s \in Session : phase[s] = "idle"
        /\ states = <<>> /\ loop = "off" /\ connState = "disconnected"
    BY DEF Init, Client!Init, Manager!Init
  <2>2. ~made
    BY Zenon DEF Init, Manager!Init
  <2> QED BY <2>1, <2>2 DEF ManagerCatchesUp, Believed
<1>2. ClientP!IInv /\ ManagerP!IInv /\ OneAlive /\ Alone /\ ManagerCatchesUp /\ [Steady]_vars
        => ManagerCatchesUp'
  <2>1. ManagerCatchesUp /\ UNCHANGED vars => ManagerCatchesUp'
    BY DEF ManagerCatchesUp, Believed, vars, clientVars, managerVars
  <2>2. Alone => \A s \in Session : ~Client!CtxDone(s)
    BY DEF Client!CtxDone, Alone
  <2> QED BY <2>1, <2>2, BeliefStep DEF Steady, BeliefStays, ManagerCatchesUp
<1> QED BY <1>1, <1>2, SteadyInvs, PTL DEF SteadySpec

\* Under the same condition a charger that counts as subscribed is served by
\* the cloud, or the loss of its connection is on its way to the manager: for
\* any chargers, sessions and capacity, whatever is retried, unregistered and
\* reconnected meanwhile.
THEOREM CountedAreServed == SteadySpec => []SubscribedAreServed
<1>1. Init => ServedInv
  <2>1. Init => subscribed = {} /\ invocation = "none"
    BY DEF Init, Client!Init, Manager!Init
  <2> QED BY <2>1 DEF ServedInv, Counted
<1>2. ClientP!IInv /\ ManagerP!IInv /\ LockInv /\ Alone /\ ConnectionInv /\ AllWatched
      /\ ServedTypeOK /\ ServedInv /\ [Steady]_vars
      /\ ManagerP!IInv' /\ LockInv' /\ Client!TypeOK' /\ Manager!TypeOK' /\ ManagerCatchesUp'
        => ServedInv'
  <2>1. ServedInv /\ UNCHANGED vars => ServedInv'
    BY DEF ServedInv, Counted, ServedSomewhere, LossUnderWay, vars, clientVars, managerVars
  <2>2. CASE Steady
    BY <2>2, ServedStep, Zenon DEF Steady
  <2> QED BY <2>1, <2>2
<1>3. Manager!TypeOK /\ ServedInv => SubscribedAreServed
  BY DEF Manager!TypeOK, ServedInv, SubscribedAreServed, Counted, ServedSomewhere
<1> QED BY <1>1, <1>2, <1>3, SteadyInvs, BeliefCatchesUp, PTL DEF SteadySpec

-----------------------------------------------------------------------------
(* The behaviours in which goroutines do not overlap.  Once the manager has  *)
(* heard of a connection and nothing new is under way, whoever counts is     *)
(* served on that connection, or on its way to a subscription.               *)

\* A client that is connected will be believed to be; its connection is watched.
Weak    == connState = "connected" => Believed = "connected"
Watched == connState = "connected" => \E s \in Session : phase[s] \in {"watch", "reportConnected"}

Fresh == connState = "connected" /\ ~LossUnderWay /\ ~ConnectionUnderWay

OnItsWay(c) == Manager!Queued(c) \/ Manager!Retrying(c) \/ Manager!Sending(c) \/ Manager!Handled(c)

FreshOn(s) ==
    /\ invocation \in {"sent", "answered"} => target = s
    /\ invocation = "answered" /\ holder = "loop" => held \in served[s]
    /\ \A c \in subscribed : c \in served[s] \/ OnItsWay(c)

FreshInv ==
    Fresh /\ done # "closed" => \A s \in Session : phase[s] = "watch" => FreshOn(s)

LEMMA WeakStep ==
    ASSUME ClientP!IInv, ManagerP!IInv, OneAlive, Weak, Next PROVE Weak'
<1>1. ASSUME NEW s \in Session, Client!CtxDone(s) PROVE connState' = "disconnected"
  BY <1>1 DEF Client!CtxDone
<1> QED BY <1>1, BeliefStep DEF Weak, BeliefStays

LEMMA FreshMade ==
    ASSUME Manager!TypeOK, Weak, Fresh PROVE made
<1>1. Believed = "connected"
  BY DEF Weak, Fresh
<1>2. states = <<>>
  <2>1. states \in Seq({"connected", "disconnected"})
    BY DEF Manager!TypeOK, Manager!ClientState
  <2>2. CASE states # <<>>
    <3>1. 1 \in DOMAIN states /\ states[1] \in {"connected", "disconnected"}
      BY <2>1, <2>2
    <3> QED BY <3>1 DEF Fresh, LossUnderWay, ConnectionUnderWay
  <2> QED BY <2>2
<1>3. /\ ~\E s \in Session : phase[s] = "reportConnected"
      /\ ~\E s \in Session : phase[s] = "reportDisconnected"
      /\ loop \notin {"connected", "disconnected"}
  BY DEF Fresh, LossUnderWay, ConnectionUnderWay
<1> QED BY <1>1, <1>2, <1>3, Zenon DEF Believed

LEMMA FreshMadeNext == (Manager!TypeOK /\ Weak /\ Fresh => made)'
BY FreshMade, PTL

LEMMA WatchedStep ==
    ASSUME Client!TypeOK, Watched, [Client!Next]_(Client!vars) PROVE Watched'
<1> USE DEF Client!ctlVars, Client!watchVars, Client!connVars, Client!loopVars, Client!callVars,
            Client!otherVars, Client!Goto
<1>1. phase \in [Session -> Client!Phase]
  BY DEF Client!TypeOK
<1>2. CASE UNCHANGED <<phase, connState>>
  BY <1>2 DEF Watched
<1>3. CASE Client!Start
  BY <1>3, StartIsLocal DEF Watched
<1>4. ASSUME NEW s \in Session, Client!Loop(s) PROVE Watched'
  <2>1. CASE Silent(s)
    <3>1. /\ connState' = connState
          /\ \A t \in Session : t # s => phase'[t] = phase[t]
          /\ phase[s] \notin {"watch", "reportConnected"}
      BY <1>1, <2>1 DEF Silent
    <3> QED BY <3>1 DEF Watched
  <2>2. CASE Client!NotifyConnected(s)
    <3>1. phase'[s] \in {"watch", "reportConnected"}
      BY <1>1, <2>2 DEF Client!NotifyConnected
    <3> QED BY <3>1 DEF Watched
  <2>3. CASE Client!NotifyClosed(s) \/ Client!CtxDone(s)
    BY <2>3 DEF Client!NotifyClosed, Client!CtxDone, Watched
  <2>4. CASE Client!SendState(s)
    <3>1. /\ connState' = connState
          /\ \A t \in Session : t # s => phase'[t] = phase[t]
          /\ phase[s] = "reportConnected" => phase'[s] = "watch"
          /\ phase[s] # "watch"
      BY <1>1, <2>4 DEF Client!SendState
    <3> QED BY <3>1 DEF Watched
  <2> QED BY <1>4, <2>1, <2>2, <2>3, <2>4, LoopCases
<1>5. CASE UNCHANGED Client!vars \/ \E s \in Session : Client!Library(s)
  BY <1>2, <1>5, LibraryIsLocal DEF Client!vars
<1>6. CASE \/ Client!Close \/ Client!InvokeRefused \/ Client!InvokeCheck \/ Client!InvokeUse
           \/ Client!InvokeAnswered \/ Client!InvokeOk \/ Client!InvokeFail \/ Client!TakeState
  BY <1>2, <1>6 DEF Client!Close, Client!InvokeRefused, Client!InvokeCheck, Client!InvokeUse,
     Client!vars, Client!InvokeAnswered, Client!InvokeOk, Client!InvokeFail, Client!TakeState
<1> QED BY <1>3, <1>4, <1>5, <1>6 DEF Client!Next, Client!Caller

\* Only the manager's handler makes the state of things fresh.
LEMMA FreshEntered ==
    ASSUME ClientP!IInv, ManagerP!IInv, Next, Fresh', ~Fresh, Weak', Manager!TypeOK'
    PROVE  ManagerOnly(Manager!HandleConnected)
<1>1. made'
  BY FreshMadeNext
<1>2. CASE LossUnderWay
  <2>1. ASSUME NEW s \in Session, Client!NotifyClosed(s) \/ Client!CtxDone(s) PROVE FALSE
    BY <2>1 DEF Client!NotifyClosed, Client!CtxDone, Fresh
  <2>2. ASSUME ManagerOnly(Manager!HandleDisconnected) PROVE FALSE
    <3>1. made' = FALSE
      BY <2>2, Zenon DEF ManagerOnly, Manager!HandleDisconnected
    <3> QED BY <1>1, <3>1
  <2> QED BY <1>2, <2>1, <2>2, LossStays DEF Fresh
<1>3. CASE ConnectionUnderWay
  <2>1. "connected" \in Manager!ClientState
    BY DEF Manager!ClientState
  <2> QED BY <1>3, <2>1, NewsStep, UnderWayIs, UnderWayIsNext DEF Fresh
<1>4. CASE connState # "connected"
  <2>1. Client!TypeOK /\ connState' = "connected"
    BY ClientFacts DEF Fresh
  <2>2. PICK s \in Session : Client!NotifyConnected(s)
    <3> USE DEF Client!ctlVars, Client!watchVars, Client!connVars, Client!loopVars,
                Client!callVars, Client!otherVars
    <3>1. ASSUME NEW s \in Session, Client!Loop(s) PROVE Client!NotifyConnected(s)
      BY <1>4, <2>1, <3>1, LoopCases DEF Silent, Client!NotifyClosed, Client!CtxDone,
         Client!SendState
    <3>2. connState' = connState \/ \E s \in Session : Client!Loop(s)
      <4>1. [Client!Next]_(Client!vars)
        BY ClientStep
      <4>2. \/ \E s \in Session : Client!Loop(s) \/ Client!Library(s)
            \/ Client!Start \/ Client!Close \/ Client!TakeState \/ UNCHANGED Client!vars
            \/ Client!InvokeCheck \/ Client!InvokeUse \/ Client!InvokeAnswered \/ Client!InvokeOk
            \/ Client!InvokeRefused \/ Client!InvokeFail
        BY <4>1 DEF Client!Next, Client!Caller
      <4>3. ASSUME NEW s \in Session, Client!Library(s) PROVE connState' = connState
        BY <4>3, LibraryIsLocal
      <4>4. UNCHANGED Client!vars \/ Client!TakeState => connState' = connState
        BY DEF Client!vars, Client!TakeState
      <4> QED BY <2>1, <4>2, <4>3, <4>4, CloseIsLocal, StartIsLocal, InvocationIsLocal
    <3> QED BY <1>4, <2>1, <3>1, <3>2
  <2>3. phase'[s] = "reportConnected"
    BY <1>4, <2>1, <2>2 DEF Client!NotifyConnected, Client!Goto, Client!TypeOK
  <2> QED BY <2>3 DEF Fresh, ConnectionUnderWay
<1> QED BY <1>2, <1>3, <1>4 DEF Fresh

\* While the connection lasts, whoever is on its way and registered stays so in
\* the steps that the manager takes on its own.
LEMMA WayOwn ==
    ASSUME ManagerP!IInv, OwnSteps, made, made', done # "closed", ~Manager!HandleConnected,
           NEW c \in Charger, OnItsWay(c), c \in chargers'
    PROVE  OnItsWay(c)'
<1> USE DEF Manager!serviceVars, Manager!bookVars, Manager!channelVars, Manager!lockVars,
            Manager!loopVars, Manager!Free, Manager!Take, Manager!Release, Manager!Receive,
            Manager!Select
<1>0. /\ retries \in [Charger -> Nat] /\ subscriptions \in Seq(Charger)
      /\ c # NoCharger
      /\ Manager!TypeOK
  BY ManagerFacts, ChargersAssumption DEF Manager!TypeOK
<1>1. Manager!Queued(c) \/ Manager!Retrying(c) \/ Manager!Sending(c) \/ Manager!Handled(c)
  BY DEF OnItsWay
<1> USE DEF Manager!Queued, Manager!Retrying, Manager!Sending, Manager!Handled
<1>2. CASE Manager!ManagerStart
  <2>1. UNCHANGED <<subscriptions, retries, holder, held, item>>
    BY <1>2, Zenon DEF Manager!ManagerStart
  <2>2. loop' = loop \/ loop = "off"
    BY <1>0, <1>2, ManagerFacts DEF Manager!ManagerStart, Manager!TypeOK
  <2> QED BY <1>1, <2>1, <2>2 DEF OnItsWay
<1>3. CASE Manager!ManagerStop
  BY <1>1, <1>3 DEF Manager!ManagerStop, OnItsWay
<1>4. CASE Manager!ExitLoop
  BY <1>4 DEF Manager!ExitLoop
<1>5. CASE Manager!ReceiveSubscription
  <2>1. /\ subscriptions # <<>> /\ subscriptions' = Tail(subscriptions)
        /\ loop' = "subscription" /\ item' = Head(subscriptions) /\ loop = "select"
        /\ UNCHANGED <<retries, holder, held>>
    BY <1>5 DEF Manager!ReceiveSubscription
  <2>2. ASSUME NEW i \in DOMAIN subscriptions, subscriptions[i] = c
        PROVE  item' = c \/ \E j \in DOMAIN subscriptions' : subscriptions'[j] = c
    <3>1. CASE i = 1
      BY <1>0, <2>1, <2>2, <3>1
    <3>2. CASE i # 1
      <4>1. i - 1 \in DOMAIN Tail(subscriptions) /\ Tail(subscriptions)[i - 1] = subscriptions[i]
        BY <1>0, <2>1, <3>2
      <4> QED BY <2>1, <2>2, <4>1
    <3> QED BY <3>1, <3>2
  <2> QED BY <1>1, <2>1, <2>2 DEF OnItsWay
<1>6. CASE Manager!SendSubscription
  <2>1. /\ subscriptions' = Append(subscriptions, held)
        /\ UNCHANGED <<retries, loop, item>>
    BY <1>6 DEF Manager!SendSubscription
  <2>2. \A i \in DOMAIN subscriptions : i \in DOMAIN subscriptions' /\ subscriptions'[i] = subscriptions[i]
    BY <1>0, <2>1
  <2>3. Len(subscriptions) + 1 \in DOMAIN subscriptions' /\ subscriptions'[Len(subscriptions) + 1] = held
    BY <1>0, <2>1
  <2> QED BY <1>1, <2>1, <2>2, <2>3 DEF OnItsWay
<1>7. ASSUME NEW d \in Charger, Manager!ReceiveObservation(d) PROVE OnItsWay(c)'
  BY <1>1, <1>7 DEF Manager!ReceiveObservation, OnItsWay
<1>8. ASSUME NEW d \in Charger, Manager!Unregister(d) PROVE OnItsWay(c)'
  <2>1. holder = "none" /\ UNCHANGED <<subscriptions, retries, loop, item>>
    BY <1>8, Zenon DEF Manager!Unregister
  <2> QED BY <1>1, <2>1 DEF OnItsWay
<1>9. ASSUME NEW d \in Charger, Manager!RetryFires(d) PROVE OnItsWay(c)'
  <2>1. /\ holder = "none" /\ holder' = "retry" /\ held' = d
        /\ retries' = [retries EXCEPT ![d] = @ - 1]
        /\ UNCHANGED <<subscriptions, loop, item>>
    BY <1>9 DEF Manager!RetryFires
  <2> QED BY <1>0, <1>1, <2>1 DEF OnItsWay
<1>10. ASSUME NEW d \in Charger, Manager!RetryStops(d) PROVE OnItsWay(c)'
  BY <1>10 DEF Manager!RetryStops
<1>11. CASE Manager!HandleSubscription
  <2>1. CASE item \in chargers
    <3>1. /\ holder = "none" /\ loop = "subscription" /\ loop' = "invoke" /\ item' = item
          /\ UNCHANGED <<subscriptions, retries>>
      BY <1>11, <2>1 DEF Manager!HandleSubscription
    <3> QED BY <1>1, <3>1 DEF OnItsWay
  <2>2. CASE item \notin chargers
    <3>1. item # c /\ UNCHANGED <<subscriptions, retries, holder, held>>
      BY <1>11, <2>2 DEF Manager!HandleSubscription
    <3> QED BY <1>1, <3>1 DEF OnItsWay
  <2> QED BY <2>1, <2>2
<1>12. CASE Manager!HandleDisconnected
  BY <1>12 DEF Manager!HandleDisconnected
<1>13. CASE Manager!HandleObservation \/ Manager!ReportObservation
  BY <1>1, <1>13 DEF Manager!HandleObservation, Manager!ReportObservation, OnItsWay
<1> QED BY <1>2, <1>3, <1>4, <1>5, <1>6, <1>7, <1>8, <1>9, <1>10, <1>11, <1>12, <1>13
        DEF OwnSteps, Manager!Handle

\* The handler puts every charger that counts into the channel.
LEMMA FreshBegins ==
    ASSUME ManagerP!IInv, LockInv, done # "closed", ManagerOnly(Manager!HandleConnected),
           NEW s \in Session
    PROVE  FreshOn(s)'
<1>1. /\ subscriptions' \in Manager!Orders(chargers)
      /\ holder' = "none" /\ invocation' = invocation /\ subscribed' = subscribed
      /\ holder = "none"
  BY DEF ManagerOnly, clientVars, Manager!HandleConnected, Manager!Free, Manager!lockVars,
     Manager!bookVars
<1>2. invocation' = "none"
  BY <1>1 DEF LockInv, Invoking
<1>3. ASSUME NEW c \in subscribed' PROVE OnItsWay(c)'
  <2>1. c \in chargers /\ chargers \subseteq Charger
    BY <1>1, <1>3, ManagerFacts DEF Manager!TypeOK
  <2>2. subscriptions' \in ManagerP!Orders(chargers)
    BY <1>1 DEF Manager!Orders, ManagerP!Orders, Manager!Cardinality, ManagerP!Cardinality
  <2>3. \E i \in DOMAIN subscriptions' : subscriptions'[i] = c
    BY <2>1, <2>2, ManagerP!OrdersOf, SameFiniteSets, ChargersAssumption, CapacityAssumption
  <2> QED BY <2>3 DEF OnItsWay, Manager!Queued
<1> QED BY <1>2, <1>3 DEF FreshOn

\* A manager that is stopped is not started again.
LEMMA DoneStays == Next /\ done = "closed" => done' = "closed"
<1> SUFFICES ASSUME [Manager!Next]_(Manager!vars), done = "closed" PROVE done' = "closed"
  BY ManagerStep
<1> USE DEF Manager!serviceVars
<1>1. ASSUME NEW c \in Charger,
             \/ Manager!Register(c) \/ Manager!Unregister(c) \/ Manager!RetryFires(c)
             \/ Manager!RetryStops(c) \/ Manager!ReceiveObservation(c)
      PROVE  done' = done
  BY <1>1, Zenon DEF Manager!Register, Manager!Unregister, Manager!RetryFires, Manager!RetryStops,
     Manager!ReceiveObservation
<1>2. CASE Manager!ManagerStart \/ Manager!ManagerStop
  BY <1>2, Zenon DEF Manager!ManagerStart, Manager!ManagerStop
<1>3. CASE UNCHANGED done
  BY <1>3
<1> QED BY <1>1, <1>2, <1>3, Zenon DEF Manager!Next, Manager!vars, Manager!SendSubscription,
        Manager!UnsubscribeFailed, Manager!UnsubscribeSucceeded, Manager!ClientClosed,
        Manager!ExitLoop, Manager!ReceiveSubscription, Manager!ReceiveState, Manager!Handle,
        Manager!HandleSubscription, Manager!HandleConnected, Manager!HandleDisconnected,
        Manager!HandleObservation, Manager!ReportObservation, Manager!SubscribeSucceeded,
        Manager!SubscribeFailed, Manager!ClientReports

\* A fresh state is not the one in which a goroutine starts to watch.
LEMMA WatchStarts ==
    ASSUME ClientP!IInv, OneAlive, Watched, Fresh, Next, NEW s \in Session, phase'[s] = "watch"
    PROVE  phase[s] = "watch"
<1>1. Client!TypeOK
  BY ClientFacts
<1>2. PICK t \in Session : phase[t] = "watch"
  BY DEF Watched, Fresh, ConnectionUnderWay
<1>3. t # s => phase[s] = "idle"
  BY <1>2, OneGoroutine
<1>4. phase[s] # "idle"
  <2> SUFFICES ASSUME phase[s] = "idle" PROVE FALSE
    OBVIOUS
  <2>1. phase \in [Session -> Client!Phase]
    BY <1>1 DEF Client!TypeOK
  <2>2. ASSUME NEW u \in Session, Client!Loop(u) PROVE phase'[s] = phase[s]
    <3>1. u # s
      BY <2>2, LoopKeepsCalls
    <3> QED BY <2>1, <2>2, <3>1, LoopCases DEF Silent, Client!CtxDone, Client!NotifyConnected,
            Client!NotifyClosed, Client!SendState, Client!Goto
  <2>3. CASE Client!Start
    BY <1>1, <2>3, StartIsLocal
  <2>4. phase' = phase \/ Client!Start \/ \E u \in Session : Client!Loop(u)
    <3>1. [Client!Next]_(Client!vars)
      BY ClientStep
    <3>2. ASSUME NEW u \in Session, Client!Library(u) PROVE phase' = phase
      BY <3>2, LibraryIsLocal
    <3>3. UNCHANGED Client!vars \/ Client!TakeState => phase' = phase
      BY DEF Client!vars, Client!loopVars, Client!TakeState
    <3>4. \/ \E u \in Session : Client!Loop(u) \/ Client!Library(u)
          \/ Client!Start \/ Client!Close \/ Client!TakeState \/ UNCHANGED Client!vars
          \/ Client!InvokeCheck \/ Client!InvokeUse \/ Client!InvokeAnswered \/ Client!InvokeOk
          \/ Client!InvokeRefused \/ Client!InvokeFail
      BY <3>1 DEF Client!Next, Client!Caller
    <3> QED BY <3>2, <3>3, <3>4, CloseIsLocal, InvocationIsLocal
  <2> QED BY <2>2, <2>3, <2>4
<1> QED BY <1>2, <1>3, <1>4

\* And every other step keeps them served or on their way.
LEMMA FreshStays ==
    ASSUME ClientP!IInv, ManagerP!IInv, LockInv, OneAlive, ConnectionInv, ServedTypeOK,
           Watched, Weak, Fresh, Fresh', FreshInv, Next, done' # "closed", Manager!TypeOK', Weak',
           ManagerP!IInv', ~ManagerOnly(Manager!HandleConnected),
           NEW s \in Session, phase'[s] = "watch"
    PROVE  FreshOn(s)'
<1>1. /\ Client!TypeOK /\ Manager!TypeOK /\ Manager!TypeOK'
      /\ loop = "invoke" => item \in Charger /\ holder = "loop"
  BY ManagerFacts, ClientFacts
<1>2. made /\ made'
  BY <1>1, FreshMade, FreshMadeNext
<1>3. done # "closed"
  <2>1. done = "closed" => done' = "closed"
    BY DoneStays
  <2> QED BY <2>1
<1>4. phase[s] = "watch"
  BY WatchStarts, Zenon
<1>5. FreshOn(s)
  BY <1>3, <1>4 DEF FreshInv
<1>6. ASSUME UNCHANGED <<served, invocation, target, subscribed>>,
             invocation # "none" => UNCHANGED <<holder, held>>,
             \A c \in subscribed : OnItsWay(c) => OnItsWay(c)'
      PROVE  FreshOn(s)'
  BY <1>5, <1>6 DEF FreshOn
<1>7. UNCHANGED managerVars => \A c \in subscribed : OnItsWay(c) => OnItsWay(c)'
  BY DEF managerVars, OnItsWay, Manager!Queued, Manager!Retrying, Manager!Sending, Manager!Handled
<1> USE DEF ClientOnly, ManagerOnly
<1>8. CASE AppStart \/ AppClose
  BY <1>1, <1>6, <1>7, <1>8, StartIsLocal, CloseIsLocal DEF AppStart, AppClose, managerVars
<1>9. CASE Invoke
  <2>1. UNCHANGED <<served, subscribed, holder, held>>
    BY <1>9 DEF Invoke, managerVars
  <2>2. invocation' # "answered" /\ (invocation' = "sent" => target' = s)
    BY <1>4, <1>9 DEF Invoke, Client!InvokeCheck, Client!InvokeUse, ConnectionInv, ConnectionOf,
       Client!callVars
  <2> QED BY <1>5, <1>7, <1>9, <2>1, <2>2 DEF FreshOn, Invoke
<1>10. CASE CloudAnswers
  <2>1. /\ target = s /\ target' = s
        /\ served' = [served EXCEPT ![s] = IF holder = "loop" THEN @ \cup {held} ELSE @ \ {held}]
        /\ UNCHANGED <<subscribed, holder, held>>
    BY <1>5, <1>10 DEF CloudAnswers, Client!InvokeAnswered, FreshOn, managerVars
  <2>2. holder # "loop" => held \notin subscribed
    <3>1. holder # "loop" => held \notin chargers
      BY <1>10 DEF CloudAnswers, Client!InvokeAnswered, LockInv, Invoking
    <3> QED BY <1>1, <3>1 DEF Manager!TypeOK
  <2>3. \A c \in subscribed : c \in served[s] => c \in served'[s]
    BY <2>1, <2>2 DEF ServedTypeOK
  <2>4. holder = "loop" => held \in served'[s]
    BY <2>1 DEF ServedTypeOK
  <2> QED BY <1>5, <1>7, <1>10, <2>1, <2>3, <2>4 DEF FreshOn, CloudAnswers
<1>11. CASE InvocationSucceeds
  <2>1. invocation' = "none" /\ UNCHANGED served /\ invocation = "answered"
    BY <1>11 DEF InvocationSucceeds, Client!InvokeOk
  <2>2. CASE holder = "loop"
    <3>1. /\ subscribed' = subscribed \cup {item} /\ item = held
          /\ UNCHANGED <<subscriptions, retries>> /\ loop = "invoke" /\ holder' = "none"
      BY <1>11, <2>2, Zenon DEF InvocationSucceeds, Manager!SubscribeSucceeded, LockInv,
         Manager!channelVars, Manager!Release
    <3>2. item \in served[s]
      BY <1>5, <2>1, <2>2, <3>1 DEF FreshOn
    <3>3. \A c \in subscribed : c # item /\ OnItsWay(c) => OnItsWay(c)'
      BY <2>2, <3>1 DEF OnItsWay, Manager!Queued, Manager!Retrying, Manager!Sending, Manager!Handled
    <3> QED BY <1>5, <2>1, <3>1, <3>2, <3>3 DEF FreshOn
  <2>3. CASE holder # "loop"
    <3>1. UNCHANGED <<subscribed, subscriptions, retries, loop, item>> /\ holder = "unregister"
      BY <1>11, <2>3, Zenon DEF InvocationSucceeds, Manager!UnsubscribeSucceeded,
         Manager!channelVars, Manager!bookVars, Manager!loopVars
    <3>2. \A c \in subscribed : OnItsWay(c) => OnItsWay(c)'
      BY <3>1 DEF OnItsWay, Manager!Queued, Manager!Retrying, Manager!Sending, Manager!Handled
    <3> QED BY <1>5, <2>1, <3>1, <3>2 DEF FreshOn
  <2> QED BY <2>2, <2>3
<1>12. CASE InvocationFails
  <2>1. UNCHANGED served
    BY <1>12 DEF InvocationFails
  <2>2. invocation' = "none"
    BY <1>12 DEF InvocationFails, Client!InvokeRefused, Client!InvokeFail, Client!vars, Client!callVars
  <2>3. CASE holder = "loop"
    <3>1. /\ retries' = [retries EXCEPT ![item] = @ + 1] /\ loop = "invoke"
          /\ UNCHANGED <<subscribed, subscriptions>>
      BY <1>2, <1>12, <2>3, Zenon DEF InvocationFails, Manager!SubscribeFailed, Manager!bookVars
    <3>2. retries \in [Charger -> Nat] /\ item \in Charger /\ subscribed \subseteq Charger
      BY <1>1, <3>1 DEF Manager!TypeOK
    <3>3. \A c \in subscribed : OnItsWay(c) => OnItsWay(c)'
      BY <2>3, <3>1, <3>2 DEF OnItsWay, Manager!Queued, Manager!Retrying, Manager!Sending,
         Manager!Handled
    <3> QED BY <1>5, <2>1, <2>2, <3>1, <3>3 DEF FreshOn
  <2>4. CASE holder # "loop"
    <3>1. UNCHANGED <<subscribed, subscriptions, retries, loop, item>> /\ holder = "unregister"
      BY <1>12, <2>4, Zenon DEF InvocationFails, Manager!UnsubscribeFailed,
         Manager!channelVars, Manager!bookVars, Manager!loopVars
    <3>2. \A c \in subscribed : OnItsWay(c) => OnItsWay(c)'
      BY <3>1 DEF OnItsWay, Manager!Queued, Manager!Retrying, Manager!Sending, Manager!Handled
    <3> QED BY <1>5, <2>1, <2>2, <3>1, <3>2 DEF FreshOn
  <2> QED BY <2>3, <2>4
<1>13. CASE CloseAfterLast
  <2>1. UNCHANGED <<subscribed, subscriptions, retries, loop, item, served>> /\ holder = "close"
    BY <1>13 DEF CloseAfterLast, Manager!ClientClosed, Manager!channelVars, Manager!bookVars,
       Manager!loopVars
  <2>2. invocation = "none" /\ UNCHANGED <<invocation, target>>
    BY <1>13, <2>1, CloseIsLocal DEF CloseAfterLast, LockInv, Invoking
  <2>3. \A c \in subscribed : OnItsWay(c) => OnItsWay(c)'
    BY <2>1 DEF OnItsWay, Manager!Queued, Manager!Retrying, Manager!Sending, Manager!Handled
  <2> QED BY <1>6, <2>1, <2>2, <2>3
<1>14. ASSUME NEW d \in Charger, Register(d) PROVE FreshOn(s)'
  <2>1. /\ UNCHANGED <<subscribed, subscriptions, retries, loop, item, served>>
        /\ holder = "none"
    BY <1>14, Zenon DEF Register, Manager!Register, Manager!channelVars, Manager!loopVars, Manager!Free
  <2>2. UNCHANGED <<invocation, target>>
    <3>1. UNCHANGED clientVars \/ Client!Start
      BY <1>14, Zenon DEF Register
    <3> QED BY <1>1, <3>1, StartIsLocal DEF clientVars
  <2>3. invocation = "none"
    BY <2>1 DEF LockInv, Invoking
  <2>4. \A c \in subscribed : OnItsWay(c) => OnItsWay(c)'
    BY <2>1 DEF OnItsWay, Manager!Queued, Manager!Retrying, Manager!Sending, Manager!Handled
  <2> QED BY <1>6, <2>1, <2>2, <2>3, <2>4
<1>15. ASSUME NEW t \in Session, Loop(t) PROVE FreshOn(s)'
  <2>1. Client!Loop(t) /\ UNCHANGED managerVars
    BY <1>15 DEF Loop
  <2>2. t = s
    BY <1>4, <2>1, OneGoroutine, LoopKeepsCalls
  <2>3. UNCHANGED served
    BY <1>1, <1>4, <1>15, <2>2, LoopServed DEF Client!DialOk
  <2> QED BY <1>6, <1>7, <2>1, <2>3, LoopKeepsCalls DEF managerVars
<1>16. ASSUME NEW t \in Session, LinkUp(t) PROVE FreshOn(s)'
  BY <1>6, <1>7, <1>16 DEF LinkUp, Client!LinkUp, Client!callVars, managerVars
<1>17. ASSUME NEW t \in Session, LinkClosed(t) PROVE FreshOn(s)'
  <2>1. t # s
    <3>1. t = s => watching[s] = s
      BY <1>4, <1>17 DEF LinkClosed, Client!LinkClosed, ConnectionInv, ConnectionOf
    <3> QED BY <1>1, <1>17, <3>1, ClosedIsLoss DEF LinkClosed, Fresh
  <2>2. served'[s] = served[s] /\ UNCHANGED <<invocation, target>> /\ UNCHANGED managerVars
    BY <1>17, <2>1 DEF LinkClosed, Client!LinkClosed, Client!callVars, ServedTypeOK
  <2> QED BY <1>5, <1>7, <2>2 DEF FreshOn, managerVars
<1>18. ASSUME NEW t \in Session, Library(t) PROVE FreshOn(s)'
  BY <1>1, <1>16, <1>17, <1>18, LibraryIs, NoneForgotten DEF Forgotten
<1>19. CASE ManagerOnly(OwnSteps)
  <2>1. /\ subscribed' \subseteq subscribed /\ UNCHANGED <<invocation, target, served>>
        /\ invocation # "none" => UNCHANGED <<holder, held>>
    BY <1>19, OwnEffects DEF clientVars, LockInv
  <2>2. \A c \in subscribed' : OnItsWay(c) => OnItsWay(c)'
    <3>1. \A c \in subscribed' : c \in Charger /\ c \in chargers'
      BY <1>1 DEF Manager!TypeOK
    <3> QED BY <1>2, <1>3, <1>19, <3>1, WayOwn
  <2> QED BY <1>5, <2>1, <2>2 DEF FreshOn
<1>20. CASE ManagerOnly(Manager!ReceiveState)
  <2>1. /\ UNCHANGED <<subscribed, subscriptions, retries, holder, held, served>> /\ loop = "select"
        /\ UNCHANGED <<invocation, target>>
    BY <1>20 DEF Manager!ReceiveState, Manager!channelVars, Manager!bookVars, Manager!lockVars,
       Manager!Receive, clientVars
  <2>2. \A c \in subscribed : OnItsWay(c) => OnItsWay(c)'
    BY <2>1 DEF OnItsWay, Manager!Queued, Manager!Retrying, Manager!Sending, Manager!Handled
  <2> QED BY <1>6, <2>1, <2>2
<1> QED BY <1>8, <1>9, <1>10, <1>11, <1>12, <1>13, <1>14, <1>15, <1>16, <1>17, <1>19, <1>20, <1>18, Sides

LEMMA ManagerFactsNext == (ManagerP!IInv => Manager!TypeOK /\ Manager!NoForgottenCharger)'
BY ManagerFacts, PTL

LEMMA FreshStep ==
    ASSUME ClientP!IInv, ManagerP!IInv, LockInv, OneAlive, ConnectionInv, ServedTypeOK,
           Watched, Weak, FreshInv, Next, ManagerP!IInv', Weak'
    PROVE  FreshInv'
<1> SUFFICES ASSUME Fresh', done' # "closed", NEW s \in Session, phase'[s] = "watch"
             PROVE  FreshOn(s)'
  BY DEF FreshInv
<1>1. Manager!TypeOK'
  BY ManagerFactsNext
<1>2. CASE ManagerOnly(Manager!HandleConnected)
  <2>1. done' = done
    BY <1>2, Zenon DEF ManagerOnly, Manager!HandleConnected, Manager!serviceVars
  <2> QED BY <1>2, <2>1, FreshBegins
<1> QED BY <1>1, <1>2, FreshEntered, FreshStays

\* A client whose goroutine returns before the next one is spawned: while it is
\* connected, every registered charger is served, or on its way to a
\* subscription, or the news that will put it there is.  Logouts and logins may
\* come in between, and the manager may go by a connection that is gone.
THEOREM ServedOrComing == OneAliveSpec => []ServedOrOnItsWay
<1>1. OneAliveSpec => Spec
  <2>1. [Next /\ OneAlive']_vars => [Next]_vars
    OBVIOUS
  <2> QED BY <2>1, PTL DEF OneAliveSpec, Spec
<1>2. OneAliveSpec => [](ClientP!IInv /\ ManagerP!IInv /\ LockInv)
  BY <1>1, ComponentsAndLock, PTL
<1>3. OneAliveSpec => []ServedTypeOK
  <2>1. Init => ServedTypeOK
    BY DEF Init, ServedTypeOK
  <2> QED BY <1>1, <2>1, ServedTypes, ComponentsAndLock, PTL DEF Spec
<1>4. OneAliveSpec => []OneAlive
  <2>1. Init => OneAlive
    BY DEF Init, Client!Init, OneAlive
  <2>2. OneAlive /\ [Next /\ OneAlive']_vars => OneAlive'
    BY DEF OneAlive, vars, clientVars
  <2> QED BY <2>1, <2>2, PTL DEF OneAliveSpec
<1>5. Init => ConnectionInv /\ Watched /\ Weak /\ FreshInv
  <2>1. Init => connState = "disconnected" /\ ConnectionInv
    BY DEF Init, Client!Init, ConnectionInv, ConnectionOf, Closed
  <2> QED BY <2>1 DEF Watched, Weak, FreshInv, Fresh
<1>6. ClientP!IInv /\ ManagerP!IInv /\ OneAlive /\ ConnectionInv /\ Watched /\ Weak
      /\ [Next /\ OneAlive']_vars => ConnectionInv' /\ Watched' /\ Weak'
  <2> SUFFICES ASSUME ClientP!IInv, ManagerP!IInv, OneAlive, ConnectionInv, Watched, Weak,
                      [Next /\ OneAlive']_vars
               PROVE  ConnectionInv' /\ Watched' /\ Weak'
    OBVIOUS
  <2>1. Client!TypeOK /\ [Client!Next]_(Client!vars)
    BY ClientFacts, ClientStep
  <2>2. UNCHANGED vars => Weak'
    BY DEF Weak, Believed, vars, clientVars, managerVars
  <2> QED BY <2>1, <2>2, ConnectionStep, WatchedStep, WeakStep
<1>7. OneAliveSpec => [](ConnectionInv /\ Watched /\ Weak)
  BY <1>2, <1>4, <1>5, <1>6, PTL DEF OneAliveSpec
<1>8. ClientP!IInv /\ ManagerP!IInv /\ LockInv /\ ServedTypeOK /\ OneAlive
      /\ ConnectionInv /\ Watched /\ Weak /\ FreshInv /\ [Next /\ OneAlive']_vars
      /\ ManagerP!IInv' /\ Weak' => FreshInv'
  <2>1. FreshInv /\ UNCHANGED vars => FreshInv'
    BY DEF FreshInv, Fresh, FreshOn, LossUnderWay, ConnectionUnderWay, OnItsWay, Manager!Queued,
       Manager!Retrying, Manager!Sending, Manager!Handled, vars, clientVars, managerVars
  <2> QED BY <2>1, FreshStep
<1>9. OneAliveSpec => []FreshInv
  BY <1>2, <1>3, <1>4, <1>5, <1>7, <1>8, PTL DEF OneAliveSpec
<1>10. ManagerP!IInv /\ Watched /\ Weak /\ FreshInv => ServedOrOnItsWay
  <2> SUFFICES ASSUME ManagerP!IInv, Watched, Weak, FreshInv, Fresh, done # "closed",
                      NEW c \in chargers
               PROVE  (\E s \in Session : c \in served[s]) \/ OnItsWay(c)
    BY DEF ServedOrOnItsWay, OnItsWay, Fresh
  <2>1. Manager!TypeOK /\ Manager!NoForgottenCharger /\ made
    BY ManagerFacts, FreshMade
  <2>2. PICK s \in Session : phase[s] = "watch"
    BY DEF Watched, Fresh, ConnectionUnderWay
  <2> QED BY <2>1, <2>2 DEF FreshInv, FreshOn, OnItsWay, Manager!NoForgottenCharger
<1> QED BY <1>2, <1>7, <1>9, <1>10, PTL
=============================================================================
