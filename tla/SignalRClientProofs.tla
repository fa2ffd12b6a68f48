------------------------- MODULE SignalRClientProofs -------------------------
(***************************************************************************)
(* Proofs about SignalRClient, for any number of goroutines and any        *)
(* capacity of the states channel.                                         *)
(*                                                                         *)
(* OneLiveLoop needs a companion: a goroutine whose context is cancelled   *)
(* has not returned.  Without it Start could pick, as the new goroutine,   *)
(* one that is cancelled before it begins.                                 *)
(***************************************************************************)
EXTENDS SignalRClient, TLAPS

CancelledAlive == \A s \in cancelled : phase[s] # "idle"

IInv == TypeOK /\ CancelledAlive /\ OneLiveLoop /\ ConnectionHeld

USE NoSessionAssumption, StatesCapAssumption
USE DEF ctlVars, watchVars, connVars, loopVars, callVars, otherVars

\* The initial state satisfies the inductive invariant.
LEMMA InitInv == Init => IInv
<1> SUFFICES ASSUME Init PROVE IInv
  OBVIOUS
<1>1. TypeOK
  <2>1. running \in BOOLEAN /\ crashed \in BOOLEAN
    BY Zenon DEF Init
  <2>2. events \in [Session -> Seq({"connected", "closed"})] /\ states \in Seq(ClientState)
    BY DEF Init
  <2> QED BY <2>1, <2>2 DEF Init, TypeOK, Maybe, Phase, ClientState, LinkState
<1>2. CancelledAlive /\ ConnectionHeld
  BY DEF Init, CancelledAlive, ConnectionHeld
<1>3. running <=> current # NoSession
  BY Zenon DEF Init
<1>4. OneLiveLoop
  BY <1>3 DEF Init, OneLiveLoop
<1> QED BY <1>1, <1>2, <1>4 DEF IInv

\* Start: the new goroutine is not cancelled, and it is the only live one.
LEMMA StartInv == IInv /\ Start => IInv'
<1> SUFFICES ASSUME IInv, Start PROVE IInv'
  OBVIOUS
<1> USE DEF IInv, TypeOK, Maybe, Phase, ClientState
<1>1. CASE running
  BY <1>1 DEF Start, CancelledAlive, OneLiveLoop, ConnectionHeld
<1>2. CASE ~running
  <2>1. PICK s \in Session : Spawn(s)
    BY <1>2 DEF Start
  <2>2. running' = TRUE /\ UNCHANGED <<cancelled, connection>>
    BY <1>2 DEF Start
  <2>3. s \notin cancelled
    BY <2>1 DEF Spawn, CancelledAlive
  <2>4. TypeOK'
    BY <1>2, <2>1, <2>2 DEF Start, Spawn
  <2>5. CancelledAlive'
    BY <2>1, <2>2, <2>3 DEF Spawn, CancelledAlive
  <2>6. OneLiveLoop'
    BY <1>2, <2>1, <2>2, <2>3 DEF Spawn, OneLiveLoop
  <2>7. ConnectionHeld'
    BY <2>1, <2>2 DEF Spawn, ConnectionHeld
  <2> QED BY <2>4, <2>5, <2>6, <2>7
<1> QED BY <1>1, <1>2

\* Close: the live goroutine becomes a cancelled one.
LEMMA CloseInv == IInv /\ Close => IInv'
<1> SUFFICES ASSUME IInv, Close PROVE IInv'
  OBVIOUS
<1> USE DEF IInv
<1>1. CASE ~running
  BY <1>1 DEF Close, TypeOK, CancelledAlive, OneLiveLoop, ConnectionHeld
<1>2. CASE running
  <2>1. /\ running' = FALSE /\ current' = NoSession
        /\ cancelled' = cancelled \cup {current}
        /\ UNCHANGED <<loopVars, callVars, link, crashed>>
    BY <1>2, Zenon DEF Close
  <2>2. current \in Session /\ phase[current] # "idle" /\ current \notin cancelled
    BY <1>2 DEF TypeOK, Maybe, OneLiveLoop
  <2>3. TypeOK'
    BY <2>1, <2>2 DEF TypeOK, Maybe
  <2>4. CancelledAlive'
    BY <2>1, <2>2 DEF CancelledAlive
  <2>5. running' <=> current' # NoSession
    BY <2>1, Zenon
  <2>6. OneLiveLoop'
    BY <2>1, <2>2, <2>5 DEF OneLiveLoop
  <2>7. ConnectionHeld'
    BY <2>1 DEF ConnectionHeld
  <2> QED BY <2>3, <2>4, <2>6, <2>7
<1> QED BY <1>1, <1>2

\* The steps of a goroutine that neither dials nor returns.
Walk(s) ==
    \/ DialFail(s) \/ StartLink(s) \/ Observe(s) \/ CtxDone(s)
    \/ NotifyConnected(s) \/ NotifyClosed(s) \/ SendState(s)

\* They keep the live set and stay between an assignment and its reset.
LEMMA WalkInv == \A s \in Session : IInv /\ Walk(s) => IInv'
<1> SUFFICES ASSUME NEW s \in Session, IInv, Walk(s) PROVE IInv'
  OBVIOUS
<1> USE DEF IInv, TypeOK, Maybe, Phase, ClientState, LinkState, Goto, StopWatching
<1>1. CASE DialFail(s)
  BY <1>1 DEF DialFail, CancelledAlive, OneLiveLoop, ConnectionHeld
<1>2. CASE NilConnection(s, "assigned") \/ NilConnection(s, "started")
  <2>1. crashed' \in BOOLEAN /\ UNCHANGED <<ctlVars, loopVars, callVars, link>>
    BY <1>2, Zenon DEF NilConnection
  <2> QED BY <2>1 DEF CancelledAlive, OneLiveLoop, ConnectionHeld
<1>3. CASE StartLink(s) /\ ~NilConnection(s, "assigned")
  <2>1. /\ phase[s] = "assigned" /\ connection \in Session
        /\ link' = [link EXCEPT ![connection] = IF @ = "none" THEN "connecting" ELSE @]
        /\ phase' = [phase EXCEPT ![s] = "started"]
        /\ UNCHANGED <<ctlVars, watchVars, connection, connState, states, callVars, crashed>>
    BY <1>3, Zenon DEF StartLink
  <2> QED BY <2>1 DEF CancelledAlive, OneLiveLoop, ConnectionHeld
<1>8. CASE Observe(s) /\ ~NilConnection(s, "started")
  <2>1. /\ phase[s] = "started" /\ connection \in Session
        /\ watching' = [watching EXCEPT ![s] = connection]
        /\ phase' = [phase EXCEPT ![s] = "watch"]
        /\ UNCHANGED <<ctlVars, events, forgotten, connection, connState, states, callVars,
                       link, crashed>>
    BY <1>8, Zenon DEF Observe
  <2> QED BY <2>1 DEF CancelledAlive, OneLiveLoop, ConnectionHeld
<1>4. CASE CtxDone(s)
  BY <1>4 DEF CtxDone, CancelledAlive, OneLiveLoop, ConnectionHeld
<1>5. CASE NotifyConnected(s)
  BY <1>5 DEF NotifyConnected, CancelledAlive, OneLiveLoop, ConnectionHeld
<1>6. CASE NotifyClosed(s)
  BY <1>6 DEF NotifyClosed, CancelledAlive, OneLiveLoop, ConnectionHeld
<1>7. CASE SendState(s)
  <2>1. states' \in Seq(ClientState)
    <3>1. states \in Seq(ClientState)
      OBVIOUS
    <3>2. \E state \in ClientState : states' = Append(states, state)
      BY <1>7 DEF SendState
    <3> HIDE DEF ClientState
    <3> QED BY <3>1, <3>2
  <2>2. /\ s \in Session /\ phase[s] \in {"reportConnected", "reportDisconnected"}
        /\ phase' \in {[phase EXCEPT ![s] = "watch"], [phase EXCEPT ![s] = "drop"]}
        /\ UNCHANGED <<ctlVars, watchVars, connection, connState, callVars, link, crashed>>
    BY <1>7 DEF SendState
  <2> QED BY <2>1, <2>2 DEF CancelledAlive, OneLiveLoop, ConnectionHeld
<1> QED
  BY <1>1, <1>2, <1>3, <1>4, <1>5, <1>6, <1>7, <1>8 DEF Walk, StartLink, Observe

\* A dial takes the connection over; the reset, the timer and the return
\* happen to a goroutine that does not hold it.
LEMMA TurnInv ==
    \A s \in Session :
        IInv /\ (DialOk(s) \/ Drop(s) \/ BackoffTimer(s) \/ BackoffDone(s)) => IInv'
<1> SUFFICES ASSUME NEW s \in Session, IInv,
                    DialOk(s) \/ Drop(s) \/ BackoffTimer(s) \/ BackoffDone(s)
             PROVE IInv'
  OBVIOUS
<1> USE DEF IInv, TypeOK, Maybe, Phase, ClientState, LinkState, Goto
<1>1. CASE DialOk(s)
  BY <1>1 DEF DialOk, Unwatch, CancelledAlive, OneLiveLoop, ConnectionHeld
<1>2. CASE Drop(s)
  BY <1>2 DEF Drop, CancelledAlive, OneLiveLoop, ConnectionHeld
<1>3. CASE BackoffTimer(s)
  BY <1>3 DEF BackoffTimer, CancelledAlive, OneLiveLoop, ConnectionHeld
<1>4. CASE BackoffDone(s)
  BY <1>4 DEF BackoffDone, CancelledAlive, OneLiveLoop, ConnectionHeld
<1> QED BY <1>1, <1>2, <1>3, <1>4

\* Invocations, the library and the reader of the channel touch neither the
\* goroutines nor c.connection.
LEMMA OthersInv ==
    IInv /\ (\/ InvokeRefused \/ InvokeCheck \/ InvokeUse \/ InvokeAnswered
             \/ InvokeOk \/ InvokeFail \/ TakeState
             \/ \E s \in Session : Library(s)) => IInv'
<1> USE DEF IInv, TypeOK, Maybe, Phase, ClientState, LinkState, vars,
            CancelledAlive, OneLiveLoop, ConnectionHeld
<1>1. IInv /\ InvokeRefused => IInv'
  BY DEF InvokeRefused
<1>2. IInv /\ InvokeCheck => IInv'
  BY DEF InvokeCheck
<1>3. ASSUME IInv, InvokeUse PROVE IInv'
  <2>1. crashed' \in BOOLEAN
    BY <1>3, Zenon DEF InvokeUse
  <2>2. /\ invocation' \in {"checked", "sent"} /\ target' \in {target, connection}
        /\ UNCHANGED <<ctlVars, loopVars, link>>
    BY <1>3 DEF InvokeUse
  <2> QED BY <1>3, <2>1, <2>2
<1>4. IInv /\ (InvokeAnswered \/ InvokeOk \/ InvokeFail) => IInv'
  BY DEF InvokeAnswered, InvokeOk, InvokeFail
<1>5. IInv /\ TakeState => IInv'
  BY DEF TakeState
<1>6. ASSUME IInv, NEW s \in Session, LinkUp(s) PROVE IInv'
  BY <1>6 DEF LinkUp, Emit, Watchers
<1>7. ASSUME IInv, NEW s \in Session, LinkClosed(s) PROVE IInv'
  BY <1>7 DEF LinkClosed, Emit, Watchers, Unwatch
<1>8. ASSUME IInv, NEW s \in Session, ForgottenUp(s) \/ ForgottenClosed(s) PROVE IInv'
  <2>1. events' \in [Session -> Seq({"connected", "closed"})]
    <3> DEFINE Event == {"connected", "closed"}
    <3>1. events \in [Session -> Seq(Event)] /\ s \in Session
      BY <1>8
    <3>2. \E event \in Event : events' = [events EXCEPT ![s] = Append(events[s], event)]
      BY <1>8 DEF ForgottenUp, ForgottenClosed
    <3> HIDE DEF Event
    <3>3. events' \in [Session -> Seq(Event)]
      BY <3>1, <3>2
    <3> QED BY <3>3 DEF Event
  <2>2. /\ forgotten' \in [Session -> LinkState]
        /\ UNCHANGED <<ctlVars, callVars, link, crashed, phase, watching, connVars>>
    BY <1>8 DEF ForgottenUp, ForgottenClosed
  <2>3. TypeOK'
    BY <1>8, <2>1, <2>2
  <2>4. CancelledAlive' /\ OneLiveLoop' /\ ConnectionHeld'
    BY <1>8, <2>2
  <2> QED BY <2>3, <2>4
<1> QED BY <1>1, <1>2, <1>3, <1>4, <1>5, <1>6, <1>7, <1>8 DEF Library

\* Every step keeps the inductive invariant.
LEMMA NextInv == IInv /\ [Next]_vars => IInv'
<1>1. ASSUME IInv, UNCHANGED vars PROVE IInv'
  BY <1>1 DEF IInv, TypeOK, CancelledAlive, OneLiveLoop, ConnectionHeld, vars
<1>2. ASSUME IInv, Next PROVE IInv'
  BY <1>2, StartInv, CloseInv, WalkInv, TurnInv, OthersInv
  DEF Next, Caller, Loop, Walk
<1> QED BY <1>1, <1>2

\* The inductive invariant holds of every behaviour of the client.
THEOREM Invariance == Spec => []IInv
BY InitInv, NextInv, PTL DEF Spec

\* Every variable keeps its type.
THEOREM TypeCorrect == Spec => []TypeOK
<1>1. IInv => TypeOK
  BY DEF IInv
<1> QED BY <1>1, Invariance, PTL

\* However Start and Close interleave with goroutines that have not returned
\* yet, at most one goroutine is live and Close cancels that one.
THEOREM OneLiveLoopHolds == Spec => []OneLiveLoop
<1>1. IInv => OneLiveLoop
  BY DEF IInv
<1> QED BY <1>1, Invariance, PTL

\* c.connection is never the connection of a goroutine that has returned or
\* is dialling again.
THEOREM ConnectionHeldHolds == Spec => []ConnectionHeld
<1>1. IInv => ConnectionHeld
  BY DEF IInv
<1> QED BY <1>1, Invariance, PTL
=============================================================================
