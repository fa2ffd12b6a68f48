---------------------------- MODULE SignalRClient ----------------------------
(***************************************************************************)
(* The SignalR client of internal/signalr/client.go: one client object     *)
(* whose Start spawns a goroutine (handleConnection) that dials, watches   *)
(* and redials the cloud connection until Close cancels its context.       *)
(*                                                                         *)
(* Close does not wait for the goroutine, which may be asleep in a dial    *)
(* for a minute, so a later Start can make several of them live at once;   *)
(* all of them read and write the single field c.connection, without the   *)
(* lock.  A session is one such goroutine; an idle session whose link is   *)
(* gone is free to be the next one, so Session only bounds how many are    *)
(* alive together.                                                         *)
(*                                                                         *)
(* The SignalR library (link, events) and the peer that answers            *)
(* invocations are external.  Assumed of it: the events of a connection    *)
(* reach its observers in order; none is emitted before the goroutine that *)
(* started the connection has made its two calls Start and                 *)
(* ObserveStateChanged; a connection whose context is cancelled closes.    *)
(* A goroutine may dial again while the connection it dialled before still *)
(* lives: that one is then kept only as far as another goroutine observes  *)
(* it (forgotten).                                                         *)
(***************************************************************************)
EXTENDS Naturals, Sequences

CONSTANTS
    Session,    \* handleConnection goroutines that may be alive together
    NoSession,  \* a nil connection, a nil cancel function
    StatesCap   \* capacity of c.states (10 in the code)

ASSUME NoSessionAssumption == NoSession \notin Session
ASSUME StatesCapAssumption == StatesCap \in Nat \ {0}

VARIABLES
    running,     \* c.running
    current,     \* the goroutine whose context c.cancel cancels
    cancelled,   \* the live goroutines whose context is done
    phase,       \* where each goroutine is
    watching,    \* the connection a goroutine in notifyState observes
    events,      \* library events on their way to each goroutine's channel ch
    forgotten,   \* library: state of the replaced connection a goroutine observes
    connection,  \* c.connection, by the goroutine that dialled it
    connState,   \* c.connState
    states,      \* the channel c.states
    invocation,  \* progress of the one invocation in flight
    target,      \* the connection that invocation was sent on
    link,        \* library: state of the connection each goroutine dialled
    crashed      \* a nil c.connection was dereferenced: the process is gone

ctlVars  == <<running, current, cancelled>>
watchVars == <<watching, events, forgotten>>
connVars == <<connection, connState, states>>
loopVars == <<phase, watchVars, connVars>>
callVars == <<invocation, target>>
otherVars == <<ctlVars, callVars, link, crashed>>  \* what the goroutines leave alone
vars     == <<ctlVars, loopVars, callVars, link, crashed>>

Maybe(S)    == S \cup {NoSession}
ClientState == {"connected", "disconnected"}
LinkState   == {"none", "connecting", "connected"}
Phase == {"idle", "dial", "assigned", "started", "watch",
          "reportConnected", "reportDisconnected", "drop", "backoff"}

TypeOK ==
    /\ running \in BOOLEAN
    /\ current \in Maybe(Session)
    /\ cancelled \subseteq Session
    /\ phase \in [Session -> Phase]
    /\ watching \in [Session -> Maybe(Session)]
    /\ events \in [Session -> Seq({"connected", "closed"})]
    /\ forgotten \in [Session -> LinkState]
    /\ connection \in Maybe(Session)
    /\ connState \in ClientState
    /\ states \in Seq(ClientState)
    /\ invocation \in {"none", "checked", "sent", "answered"}
    /\ target \in Maybe(Session)
    /\ link \in [Session -> LinkState]
    /\ crashed \in BOOLEAN

Init ==
    /\ running = FALSE
    /\ current = NoSession
    /\ cancelled = {}
    /\ phase = [s \in Session |-> "idle"]
    /\ watching = [s \in Session |-> NoSession]
    /\ events = [s \in Session |-> <<>>]
    /\ forgotten = [s \in Session |-> "none"]
    /\ connection = NoSession
    /\ connState = "disconnected"
    /\ states = <<>>
    /\ invocation = "none"
    /\ target = NoSession
    /\ link = [s \in Session |-> "none"]
    /\ crashed = FALSE

\* Connected(): what the manager asks before it starts the client.
Connected == running /\ connState = "connected"

-----------------------------------------------------------------------------
(* Start and Close, under c.mu. *)

\* An idle session stands for the goroutine that Start spawns.
Spawn(s) ==
    /\ phase[s] = "idle"
    /\ link[s] = "none"
    /\ current' = s
    /\ phase' = [phase EXCEPT ![s] = "dial"]

\* Mutant of Start: a second Start spawns a second goroutine.
StartAgain ==
    /\ running' = TRUE
    /\ \E s \in Session : Spawn(s)
    /\ UNCHANGED <<cancelled, watchVars, connVars, callVars, link, crashed>>

Start ==
    /\ IF running
       THEN UNCHANGED <<running, current, phase>>
       ELSE running' = TRUE /\ \E s \in Session : Spawn(s)
    /\ UNCHANGED <<cancelled, watchVars, connVars, callVars, link, crashed>>

\* Mutant of Close: it cancels without looking at running.
CloseAlways ==
    /\ running' = FALSE
    /\ cancelled' = cancelled \cup {current}
    /\ current' = NoSession
    /\ UNCHANGED <<loopVars, callVars, link, crashed>>

Close ==
    /\ IF running
       THEN /\ running' = FALSE
            /\ cancelled' = cancelled \cup {current}
            /\ current' = NoSession
       ELSE UNCHANGED ctlVars
    /\ UNCHANGED <<loopVars, callVars, link, crashed>>

-----------------------------------------------------------------------------
(* handleConnection and notifyState, one goroutine per session. *)

Goto(s, there) == phase' = [phase EXCEPT ![s] = there]

Watchers(s) == {t \in Session : watching[t] = s}

\* What becomes of the observers of s when its connection is gone or replaced.
Unwatch(s) == watching' = [t \in Session |-> IF t \in Watchers(s) THEN NoSession ELSE watching[t]]

\* getClient succeeds: c.connection = client, a new connection, whatever has become of
\* the one this goroutine dialled before.
DialOk(s) ==
    /\ phase[s] = "dial"
    /\ connection' = s
    /\ link' = [link EXCEPT ![s] = "none"]
    /\ Unwatch(s)
    /\ forgotten' = [t \in Session |-> IF t \in Watchers(s) THEN link[s] ELSE forgotten[t]]
    /\ Goto(s, "assigned")
    /\ UNCHANGED <<ctlVars, callVars, crashed, events, connState, states>>

\* getClient fails: no token, no connection (after its sleep).
DialFail(s) ==
    /\ phase[s] = "dial"
    /\ Goto(s, "drop")
    /\ UNCHANGED <<otherVars, watchVars, connVars>>

\* A method call on c.connection, read again: another goroutine may have
\* replaced it, or set it to nil.
NilConnection(s, at) ==
    /\ phase[s] = at
    /\ connection = NoSession
    /\ crashed' = TRUE
    /\ UNCHANGED <<ctlVars, loopVars, callVars, link>>

\* c.connection.Start(), without effect on a connection that is started.
StartLink(s) ==
    \/ NilConnection(s, "assigned")
    \/ /\ phase[s] = "assigned"
       /\ connection # NoSession
       /\ link' = [link EXCEPT ![connection] = IF @ = "none" THEN "connecting" ELSE @]
       /\ Goto(s, "started")
       /\ UNCHANGED <<ctlVars, watchVars, connVars, callVars, crashed>>

\* ch := ...; c.connection.ObserveStateChanged(ch)
Observe(s) ==
    \/ NilConnection(s, "started")
    \/ /\ phase[s] = "started"
       /\ connection # NoSession
       /\ watching' = [watching EXCEPT ![s] = connection]
       /\ Goto(s, "watch")
       /\ UNCHANGED <<otherVars, events, forgotten, connVars>>

\* defer cancel(): the observer is removed when notifyState returns.
StopWatching(s) ==
    /\ watching' = [watching EXCEPT ![s] = NoSession]
    /\ events' = [events EXCEPT ![s] = <<>>]
    /\ forgotten' = [forgotten EXCEPT ![s] = "none"]

\* case <-ctx.Done() of notifyState: the change is not sent to c.states.
CtxDone(s) ==
    /\ phase[s] = "watch"
    /\ s \in cancelled
    /\ connState' = "disconnected"
    /\ StopWatching(s)
    /\ Goto(s, "drop")
    /\ UNCHANGED <<otherVars, connection, states>>

\* case clientState := <-ch with a connected client.
NotifyConnected(s) ==
    /\ phase[s] = "watch"
    /\ events[s] # <<>> /\ Head(events[s]) = "connected"
    /\ events' = [events EXCEPT ![s] = Tail(@)]
    /\ connState' = "connected"
    /\ Goto(s, IF connState = "connected" THEN "watch" ELSE "reportConnected")
    /\ UNCHANGED <<otherVars, watching, forgotten, connection, states>>

\* Mutants of NotifyClosed: the loss is not recorded; it is not reported.
NotifyClosedUnrecorded(s) ==
    /\ phase[s] = "watch"
    /\ events[s] # <<>> /\ Head(events[s]) = "closed"
    /\ StopWatching(s)
    /\ Goto(s, "drop")
    /\ UNCHANGED <<otherVars, connVars>>

NotifyClosedUnreported(s) ==
    /\ phase[s] = "watch"
    /\ events[s] # <<>> /\ Head(events[s]) = "closed"
    /\ connState' = "disconnected"
    /\ StopWatching(s)
    /\ Goto(s, "drop")
    /\ UNCHANGED <<otherVars, connection, states>>

\* case clientState := <-ch with a closed client: the last event.
NotifyClosed(s) ==
    /\ phase[s] = "watch"
    /\ events[s] # <<>> /\ Head(events[s]) = "closed"
    /\ connState' = "disconnected"
    /\ StopWatching(s)
    /\ Goto(s, IF connState = "disconnected" THEN "drop" ELSE "reportDisconnected")
    /\ UNCHANGED <<otherVars, connection, states>>

\* c.states <- state, which blocks while the channel is full.
SendState(s) ==
    /\ Len(states) < StatesCap
    /\ \/ /\ phase[s] = "reportConnected"
          /\ states' = Append(states, "connected")
          /\ Goto(s, "watch")
       \/ /\ phase[s] = "reportDisconnected"
          /\ states' = Append(states, "disconnected")
          /\ Goto(s, "drop")
    /\ UNCHANGED <<otherVars, watchVars, connection, connState>>

\* Mutant of Drop: the connection is not reset.
DropKeeps(s) ==
    /\ phase[s] = "drop"
    /\ Goto(s, "backoff")
    /\ UNCHANGED <<otherVars, watchVars, connVars>>

\* c.connection = nil, whoever's connection it is, also after a failed dial.
Drop(s) ==
    /\ phase[s] = "drop"
    /\ connection' = NoSession
    /\ Goto(s, "backoff")
    /\ UNCHANGED <<otherVars, watchVars, connState, states>>

\* The timer of the final select: redial, also when the context is done too
\* (select picks among the ready cases at random).
BackoffTimer(s) ==
    /\ phase[s] = "backoff"
    /\ Goto(s, "dial")
    /\ UNCHANGED <<otherVars, watchVars, connVars>>

\* case <-ctx.Done() of the final select: the goroutine returns.
BackoffDone(s) ==
    /\ phase[s] = "backoff"
    /\ s \in cancelled
    /\ cancelled' = cancelled \ {s}
    /\ Goto(s, "idle")
    /\ UNCHANGED <<running, current, watchVars, connVars, callVars, link, crashed>>

Loop(s) ==
    \/ DialOk(s) \/ DialFail(s) \/ StartLink(s) \/ Observe(s)
    \/ CtxDone(s) \/ NotifyConnected(s) \/ NotifyClosed(s) \/ SendState(s)
    \/ Drop(s) \/ BackoffTimer(s) \/ BackoffDone(s)

-----------------------------------------------------------------------------
(* invoke: the caller (the manager, under its own lock) has one at a time. *)

InvokeRefused ==
    /\ invocation = "none"
    /\ ~running \/ connection = NoSession
    /\ UNCHANGED vars

\* The check under c.mu, which is then released.
InvokeCheck ==
    /\ invocation = "none"
    /\ running
    /\ connection # NoSession
    /\ invocation' = "checked"
    /\ UNCHANGED <<ctlVars, loopVars, target, link, crashed>>

\* c.connection.Invoke(...), on the connection read again without the lock.
InvokeUse ==
    /\ invocation = "checked"
    /\ IF connection = NoSession
       THEN crashed' = TRUE /\ UNCHANGED callVars
       ELSE invocation' = "sent" /\ target' = connection /\ UNCHANGED crashed
    /\ UNCHANGED <<ctlVars, loopVars, link>>

\* Peer: the request arrives and is carried out.
InvokeAnswered ==
    /\ invocation = "sent"
    /\ link[target] = "connected"
    /\ invocation' = "answered"
    /\ UNCHANGED <<ctlVars, loopVars, target, link, crashed>>

\* result := <-results
InvokeOk ==
    /\ invocation = "answered"
    /\ invocation' = "none"
    /\ target' = NoSession
    /\ UNCHANGED <<ctlVars, loopVars, link, crashed>>

\* A result with an error, or the timer: the request may have been carried out.
InvokeFail ==
    /\ invocation \in {"sent", "answered"}
    /\ invocation' = "none"
    /\ target' = NoSession
    /\ UNCHANGED <<ctlVars, loopVars, link, crashed>>

-----------------------------------------------------------------------------
(* The library and the reader of StateC. *)

Emit(s, event) ==
    events' = [t \in Session |-> IF t \in Watchers(s) THEN Append(events[t], event)
                                                      ELSE events[t]]

LinkUp(s) ==
    /\ link[s] = "connecting"
    /\ phase[s] # "started"
    /\ link' = [link EXCEPT ![s] = "connected"]
    /\ Emit(s, "connected")
    /\ UNCHANGED <<ctlVars, phase, watching, forgotten, connVars, callVars, crashed>>

LinkClosed(s) ==
    /\ link[s] # "none"
    /\ phase[s] # "started"
    /\ link' = [link EXCEPT ![s] = "none"]
    /\ Emit(s, "closed")
    /\ Unwatch(s)
    /\ UNCHANGED <<ctlVars, phase, forgotten, connVars, callVars, crashed>>

\* A connection that its goroutine has replaced comes up, or closes, for the goroutine t
\* that still observes it.
ForgottenUp(t) ==
    /\ forgotten[t] = "connecting"
    /\ forgotten' = [forgotten EXCEPT ![t] = "connected"]
    /\ events' = [events EXCEPT ![t] = Append(@, "connected")]
    /\ UNCHANGED <<otherVars, phase, watching, connVars>>

ForgottenClosed(t) ==
    /\ forgotten[t] # "none"
    /\ forgotten' = [forgotten EXCEPT ![t] = "none"]
    /\ events' = [events EXCEPT ![t] = Append(@, "closed")]
    /\ UNCHANGED <<otherVars, phase, watching, connVars>>

Library(s) == LinkUp(s) \/ LinkClosed(s) \/ ForgottenUp(s) \/ ForgottenClosed(s)

\* The manager's loop receives from c.states.
TakeState ==
    /\ states # <<>>
    /\ states' = Tail(states)
    /\ UNCHANGED <<otherVars, phase, watchVars, connection, connState>>

-----------------------------------------------------------------------------
Caller ==
    \/ Start \/ Close
    \/ InvokeRefused \/ InvokeCheck \/ InvokeUse \/ InvokeOk \/ InvokeFail

Next ==
    /\ ~crashed
    /\ \/ Caller
       \/ InvokeAnswered
       \/ TakeState
       \/ \E s \in Session : Loop(s) \/ Library(s)

Spec == Init /\ [][Next]_vars

(* A goroutine that can take a step takes it: Go schedules every runnable
   goroutine, dials end (both attempts are bounded by timers) and timers
   fire.  The select of a done context is assumed not to lose the draw
   against the backoff timer for ever.  The library ends a handshake, with a
   connection or without, and closes the connection of a cancelled context;
   the manager keeps reading StateC.  Nothing is assumed of Start, of Close or
   of how long a link lives. *)
Runs(s) ==
    /\ WF_vars(~crashed /\ (DialOk(s) \/ DialFail(s)))
    /\ WF_vars(~crashed /\ (StartLink(s) \/ Observe(s) \/ Drop(s)))
    /\ WF_vars(~crashed /\ (CtxDone(s) \/ NotifyConnected(s) \/ NotifyClosed(s)))
    /\ SF_vars(~crashed /\ SendState(s))
    /\ WF_vars(~crashed /\ (BackoffTimer(s) \/ BackoffDone(s)))
    /\ SF_vars(~crashed /\ BackoffDone(s))

Fairness ==
    /\ \A s \in Session :
          /\ Runs(s)
          /\ WF_vars(~crashed /\ link[s] = "connecting" /\ (LinkUp(s) \/ LinkClosed(s)))
          /\ WF_vars(~crashed /\ forgotten[s] = "connecting"
                             /\ (ForgottenUp(s) \/ ForgottenClosed(s)))
          /\ WF_vars(~crashed /\ s \in cancelled /\ LinkClosed(s))
    /\ WF_vars(~crashed /\ TakeState)

\* The goroutines read nothing that an invocation writes: their progress is
\* checked without invocations.
FairSpec == Init /\ [][Next /\ invocation' = "none"]_vars /\ Fairness

-----------------------------------------------------------------------------
(* Close and Start are handed to the application and to the manager, which
   pair them as they like: at any time at most one goroutine has a context
   that is not done, it is the one Close would cancel, and it exists exactly
   while the client is running.  A second one would keep a second connection
   to the cloud that nothing could ever close. *)
OneLiveLoop ==
    /\ running <=> current # NoSession
    /\ \A s \in Session : phase[s] # "idle" /\ s \notin cancelled <=> s = current

(* invoke never picks up the connection of a goroutine that has returned, or
   that has given its connection up and is dialling again: whoever assigned
   c.connection last has not reached its reset. *)
ConnectionHeld ==
    connection # NoSession =>
        phase[connection] \in {"assigned", "started", "watch",
                               "reportConnected", "reportDisconnected", "drop"}

(* A goroutine whose context is cancelled returns, from wherever it is: in a
   dial, watching, blocked on the states channel or between two dials. *)
ClosedLoopsExit ==
    \A s \in Session : s \in cancelled ~> (s \notin cancelled \/ crashed)

(* The client does not go on saying "connected" with no link up: the loss is
   noticed, unless a new link comes up first. *)
LinkIsUp == \E s \in Session : link[s] = "connected" \/ forgotten[s] = "connected"

DeadLinkNoticed ==
    (connState = "connected" /\ ~LinkIsUp)
        ~> (connState = "disconnected" \/ LinkIsUp \/ crashed)

(* client.go:146: an invocation on a client without a connection is refused
   with "client is not running".  The connection is read again after the
   check, so this does not hold. *)
NilConnectionRefused == ~crashed

(* client.go:34, "Connected returns true if the SignalR client is connected".
   Read once everything has settled: no goroutine is still being closed, and
   the one left has nothing to do.  Then a connected client can invoke.  A
   goroutine that outlives its Close resets the connection of the next one,
   so this does not hold. *)
Settled ==
    /\ cancelled = {}
    /\ \A s \in Session : phase[s] \in {"idle", "watch"} /\ events[s] = <<>>

ConnectedCanInvoke == Settled /\ Connected => connection # NoSession
=============================================================================
