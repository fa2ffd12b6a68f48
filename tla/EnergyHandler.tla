---------------------------- MODULE EnergyHandler ----------------------------
(***************************************************************************)
(* The lifetime energy of one charger (energyHandler in                    *)
(* internal/signalr/handler.go): the manager's run loop hands every        *)
(* observation of a new hour to a goroutine that collects for a while,     *)
(* stores the latest and reports it.  The two share a field that names the *)
(* channel between them; it is nil when no goroutine collects.  Only the   *)
(* writes of the field are under the lock.                                 *)
(*                                                                         *)
(* Time passes in units; observation t is the one made at time t, and may  *)
(* come late or again.                                                     *)
(***************************************************************************)
EXTENDS Naturals, Sequences, FiniteSets, Functions

CONSTANTS
    Last,      \* bound: the last moment at which there is an observation
    PerHour,   \* moments in an hour
    Meter,     \* what the meter of the charger shows at each moment
    Cap        \* capacity of the channel (10 in the code)

ASSUME LastAssumption    == Last \in Nat \ {0}
ASSUME PerHourAssumption == PerHour \in Nat \ {0}
ASSUME MeterAssumption   == Meter \in [1 .. Last -> Nat \ {0}]
ASSUME CapAssumption     == Cap \in Nat \ {0}

VARIABLES
    now,        \* the present moment
    cached,     \* the lifetime energy in the cache, 0 at time 0 when there is none
    step,       \* where the run loop is in handle
    handled,    \* the observation it has there
    channel,    \* energyObservationChan is not nil
    queue,      \* what is in that channel, or in the last one once it is nil
    collector,  \* manageEnergyObservation
    latest      \* its energy and energyAt

loopVars      == <<step, handled>>
collectorVars == <<collector, latest>>
vars == <<now, cached, loopVars, channel, queue, collectorVars>>

Moment  == 1 .. Last
Nothing == [energy |-> 0, at |-> 0]
Value(t) == [energy |-> Meter[t], at |-> t]
Values  == {Nothing} \cup {Value(t) : t \in Moment}

Hour(t) == IF t = 0 THEN 0 ELSE 1 + (t - 1) \div PerHour   \* Truncate(time.Hour)

TypeOK ==
    /\ now \in Moment
    /\ cached \in Values
    /\ step \in {"idle", "checked", "found", "sending", "nil"}
    /\ handled \in Moment
    /\ channel \in BOOLEAN
    /\ queue \in Seq(Moment) /\ Len(queue) <= Cap
    /\ collector \in {"none", "collecting", "reporting"}
    /\ latest \in Values

Init ==
    /\ now = 1
    /\ cached = Nothing
    /\ step = "idle" /\ handled = 1
    /\ channel = FALSE /\ queue = <<>>
    /\ collector = "none" /\ latest = Nothing

Tick ==
    /\ now < Last
    /\ now' = now + 1
    /\ UNCHANGED <<cached, loopVars, channel, queue, collectorVars>>

-----------------------------------------------------------------------------
(* handle, in the run loop. *)

\* An observation of a later hour than the cached one; any other is dropped.
Observe(t) ==
    /\ step = "idle"
    /\ t <= now
    /\ Hour(t) > Hour(cached.at)
    /\ step' = "checked" /\ handled' = t
    /\ UNCHANGED <<now, cached, channel, queue, collectorVars>>

\* Nobody collects: a new channel and a new goroutine.
Create ==
    /\ step = "checked" /\ ~channel
    /\ channel' = TRUE /\ queue' = <<>>
    /\ collector' = "collecting" /\ latest' = Nothing
    /\ step' = "found"
    /\ UNCHANGED <<now, cached, handled>>

Find ==
    /\ step = "checked" /\ channel
    /\ step' = "found"
    /\ UNCHANGED <<now, cached, handled, channel, queue, collectorVars>>

\* The field is read again for the send, without the lock: a build may as well
\* use what it read before.
Resolve ==
    /\ step = "found"
    /\ \/ step' = "sending"
       \/ ~channel /\ step' = "nil"
    /\ UNCHANGED <<now, cached, handled, channel, queue, collectorVars>>

\* The channel may be one that nobody reads any more.
Send ==
    /\ step = "sending"
    /\ Len(queue) < Cap
    /\ queue' = Append(queue, handled)
    /\ step' = "idle"
    /\ UNCHANGED <<now, cached, handled, channel, collectorVars>>

-----------------------------------------------------------------------------
(* manageEnergyObservation. *)

\* Mutant of Receive: the energy of one observation with the time of another.
ReceiveUnpaired ==
    /\ collector = "collecting" /\ queue # <<>>
    /\ queue' = Tail(queue)
    /\ latest' = [Value(Head(queue)) EXCEPT !.at = IF latest = Nothing THEN @ ELSE latest.at]
    /\ UNCHANGED <<now, cached, loopVars, channel, collector>>

Receive ==
    /\ collector = "collecting" /\ queue # <<>>
    /\ queue' = Tail(queue)
    /\ latest' = IF Head(queue) < latest.at THEN latest ELSE Value(Head(queue))
    /\ UNCHANGED <<now, cached, loopVars, channel, collector>>

\* The value is not a number.
Discard ==
    /\ collector = "collecting" /\ queue # <<>>
    /\ queue' = Tail(queue)
    /\ UNCHANGED <<now, cached, loopVars, channel, collectorVars>>

\* SetLifetimeEnergy of the cache.
SetLifetimeEnergy(value) ==
    IF value.at < cached.at \/ value.energy < cached.energy
    THEN UNCHANGED cached ELSE cached' = value

\* Mutant of Fire: the goroutine stops without storing what it has.
FireEmpty ==
    /\ collector = "collecting"
    /\ collector' = "reporting"
    /\ UNCHANGED <<now, cached, loopVars, channel, queue, latest>>

\* The timer; what is still in the channel is left there.
Fire ==
    /\ collector = "collecting"
    /\ SetLifetimeEnergy(latest)
    /\ collector' = "reporting"
    /\ UNCHANGED <<now, loopVars, channel, queue, latest>>

\* Mutant of Exit: the collector starts over instead of returning.
ExitAgain ==
    /\ collector = "reporting"
    /\ collector' = "collecting"
    /\ UNCHANGED <<now, cached, loopVars, channel, queue, latest>>

\* The reports are sent, or one of them failed.
Exit ==
    /\ collector = "reporting"
    /\ channel' = FALSE
    /\ collector' = "none"
    /\ UNCHANGED <<now, cached, loopVars, queue, latest>>

-----------------------------------------------------------------------------
Loop      == Create \/ Find \/ Resolve \/ Send
Collector == Receive \/ Fire \/ Exit

Next == Tick \/ (\E t \in Moment : Observe(t)) \/ Loop \/ Collector \/ Discard

Spec == Init /\ [][Next]_vars

\* A value that is not a number, or a timer (15 seconds) that fires before the
\* first observation is received.
Miss == Discard \/ (latest = Nothing /\ Fire)

\* The goroutines go on, the timer fires, and the charger sends its last
\* observation again as long as it is let.
Fairness ==
    /\ WF_vars(Tick) /\ WF_vars(Loop)
    /\ WF_vars(Receive) /\ WF_vars(latest # Nothing /\ Fire) /\ WF_vars(Exit)
    /\ SF_vars(Observe(Last))

FairSpec == Spec /\ Fairness

-----------------------------------------------------------------------------
\* Observations that the collector may still store.
Ahead ==
    (Range(queue) \cup {latest.at}) \ {0}

(* One reading per hour, but for one that was let in before the first was
   stored: a collector that follows has at most that one of an hour already
   read. *)
AtMostOneRepeated ==
    collector = "collecting" => Cardinality({t \in Ahead : Hour(t) <= Hour(cached.at)}) <= 1

\* The run loop waits for ever: on no channel, or on a full one that is not read.
Stuck ==
    \/ step = "nil"
    \/ step = "sending" /\ collector = "none" /\ Len(queue) = Cap

(* The energy of the last hour gets into the cache, unless the run loop stops
   for ever, whatever is left behind in channels and whatever a collector
   missed; it must not miss for ever. *)
ReadingArrives == <>[][~Miss]_vars => <>(Hour(cached.at) = Hour(Last) \/ Stuck)

(* handler.go:28, "HandleObservation handles signalr observation callback":
   the callback comes to an end, and with it the turn of the run loop that
   serves all chargers.  It does not when the collector exits between the check
   and the send. *)
HandlerReturns == step # "idle" ~> step = "idle"
=============================================================================
