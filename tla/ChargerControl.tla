---------------------------- MODULE ChargerControl ----------------------------
(***************************************************************************)
(* The commands that set a charger's currents: internal/easee/controller.go,*)
(* through internal/api/client.go and internal/api/http.go to the cloud,   *)
(* and back to internal/cache/cache.go, where a command waits until the    *)
(* new current has been observed.                                          *)
(*                                                                         *)
(* A caller is a goroutine in which the hub gives a command to the         *)
(* controller.  Callers share the throttle of the HTTP client and the      *)
(* listeners of the cache, and meet the run loop, which handles the        *)
(* observations of ObservationCache, in the cache.                         *)
(***************************************************************************)
EXTENDS ObservationCache

CONSTANTS
    Callers,
    SlowCurrents, \* what a start in slow mode may be configured to use
    WaitTime,     \* offeredCurrentWaitTime
    Horizon       \* bound: the last point in time

ASSUME ControlAssumption == /\ WaitTime \in Nat /\ Horizon \in Nat
                            /\ SlowCurrents \subseteq Readings
                            /\ {"offered", "max"} \subseteq Plain /\ "state" \in Special

VARIABLES
    now,       \* clock.Now of the hub
    lastSet,   \* lastMaxCurrentSet of the charger, or Never
    call,      \* each caller's command
    listeners, \* the callers whose channel is in currentListeners
    channel,   \* what is in a caller's channel
    known,     \* auxiliary: when the newest change that was answered was made
    crowded    \* auxiliary: the callers a value was dropped for since they listen

controlVars == <<now, lastSet, call, listeners, channel, known, crowded>>
allVars     == <<vars, controlVars>>

Times == 0 .. Horizon
Never == -1

\* UpdateDynamicCurrent, from two commands, and StopCharging look at the
\* throttle; UpdateMaxCurrent does not.
Ops       == {"offer", "start", "stop", "max"}
Throttled == {"offer", "start", "stop"}

\* The group a command waits in is named after the kind that wakes it.
Group(op) == IF op = "max" THEN "max" ELSE "offered"

Steps == {"idle", "reading", "token", "sending", "accepted", "storing",
          "listening", "waiting", "leaving"}

\* made is when the charger carried the command out; before is what known was
\* when the command was given.
Calls == [at : Steps, op : Ops, current : Readings,
          made : Times \cup {Never}, before : Times \cup {Never}]

Idle == [at |-> "idle", op |-> "max", current |-> 0, made |-> Never, before |-> Never]

Waiting == {c \in Callers : call[c].at \in {"waiting", "leaving"}}

ControlTypeOK ==
    /\ now \in Times
    /\ lastSet \in {Never} \cup 0 .. now
    /\ known \in {Never} \cup 0 .. now
    /\ call \in [Callers -> Calls]
    /\ listeners = Waiting /\ crowded \subseteq Waiting
    /\ \A c \in Callers : /\ channel[c] \in Seq(Readings) /\ Len(channel[c]) <= 1
                          /\ c \notin Waiting => channel[c] = <<>>

ControlInit ==
    /\ Init
    /\ now = 0 /\ lastSet = Never /\ known = Never
    /\ call = [c \in Callers |-> Idle]
    /\ listeners = {} /\ crowded = {}
    /\ channel = [c \in Callers |-> <<>>]

Goes(c, step) == call' = [call EXCEPT ![c].at = step]
Returns(c)    == call' = [call EXCEPT ![c] = Idle]

\* Nothing but the call changes.
CallOnly == UNCHANGED <<vars, now, lastSet, listeners, channel, known, crowded>>

Tick ==
    /\ now < Horizon
    /\ now' = now + 1
    /\ UNCHANGED <<vars, lastSet, call, listeners, channel, known, crowded>>

-----------------------------------------------------------------------------
(* controller.go: the commands. *)

\* SetChargepointOfferedCurrent, SetChargepointMaxCurrent, StopChargepointCharging.
Command(c, op, current) ==
    /\ call[c].at = "idle"
    /\ op # "start" /\ (op = "stop" => current = 0)
    /\ call' = [call EXCEPT ![c] = [at |-> "token", op |-> op, current |-> current,
                                    made |-> Never, before |-> known]]
    /\ CallOnly

\* StartChargepointCharging reads the maximal current and then the requested one.
Start(c) ==
    /\ call[c].at = "idle"
    /\ call' = [call EXCEPT ![c] = [at |-> "reading", op |-> "start",
                                    current |-> cache["max"].value,
                                    made |-> Never, before |-> known]]
    /\ CallOnly

\* slow is 0 when the mode is another, or nothing is configured.
ReadRequested(c) ==
    /\ call[c].at = "reading"
    /\ \E slow \in {0} \cup SlowCurrents :
          LET current == IF slow > 0 THEN slow
                         ELSE IF requested > 0 THEN requested ELSE call[c].current
          IN  IF current = 0 THEN Returns(c)
              ELSE call' = [call EXCEPT ![c].at = "token", ![c].current = current]
    /\ CallOnly

-----------------------------------------------------------------------------
(* client.go and http.go: a token, the throttle, the request. *)

\* Mutant of ShouldBackoff: off by one.
BackoffShort == lastSet # Never /\ now - lastSet < WaitTime - 1

ShouldBackoff == lastSet # Never /\ now - lastSet < WaitTime

\* Nothing is shared between the wait for a token and the look at the throttle.
Admit(c) ==
    /\ call[c].at = "token"
    /\ \/ Goes(c, "sending") /\ ~(call[c].op \in Throttled /\ ShouldBackoff)
       \/ Returns(c)  \* no token, or too many requests
    /\ CallOnly

\* The charger carries the command out.
Accept(c) ==
    /\ call[c].at = "sending"
    /\ call' = [call EXCEPT ![c].at = "accepted", ![c].made = now]
    /\ CallOnly

\* Mutant of Refuse: the error is not looked at before the request is stored.
RefuseStored(c) ==
    /\ call[c].at = "sending"
    /\ Returns(c)
    /\ requested' = IF call[c].op = "offer" THEN call[c].current ELSE requested
    /\ UNCHANGED <<history, cache, isCloudOnline, isStateOnline, announced, failed, seen, heard,
                   now, lastSet, listeners, channel, known, crowded>>

\* The request does not get through, or is answered with another status.
Refuse(c) ==
    /\ call[c].at = "sending"
    /\ Returns(c)
    /\ CallOnly

\* It was carried out, and the answer is lost: the caller gets an error.
AnswerLost(c) ==
    /\ call[c].at = "accepted"
    /\ Returns(c)
    /\ CallOnly

\* registerMaxCurrentChange, in UpdateDynamicCurrent only.
Registered(c) == call[c].op \in {"offer", "start"}

Answered(c) ==
    /\ call[c].at = "accepted"
    /\ CASE call[c].op = "offer" -> Goes(c, "storing")
         [] call[c].op = "max"   -> Goes(c, "listening")
         [] OTHER                -> Returns(c)
    /\ lastSet' = IF Registered(c) THEN now ELSE lastSet
    /\ known'   = IF Registered(c) /\ call[c].made > known THEN call[c].made ELSE known
    /\ UNCHANGED <<vars, now, listeners, channel, crowded>>

StoreRequested(c) ==
    /\ call[c].at = "storing"
    /\ Request(call[c].current)
    /\ Goes(c, "listening")
    /\ UNCHANGED <<now, lastSet, listeners, channel, known, crowded>>

-----------------------------------------------------------------------------
(* cache.go: waitForCurrent, and the setters that wake it. *)

\* Mutant of Listen: the cache is not looked at.
ListenAnyway(c) ==
    /\ call[c].at = "listening"
    /\ Goes(c, "waiting")
    /\ listeners' = listeners \cup {c}
    /\ UNCHANGED <<vars, now, lastSet, channel, known, crowded>>

\* In one critical section: the value is compared and the channel is added.
Listen(c) ==
    /\ call[c].at = "listening"
    /\ IF cache[Group(call[c].op)].value = call[c].current
       THEN Returns(c) /\ UNCHANGED listeners
       ELSE Goes(c, "waiting") /\ listeners' = listeners \cup {c}
    /\ UNCHANGED <<vars, now, lastSet, channel, known, crowded>>

Receive(c) ==
    /\ call[c].at = "waiting"
    /\ channel[c] # <<>>
    /\ Goes(c, IF Head(channel[c]) = call[c].current THEN "leaving" ELSE "waiting")
    /\ channel' = [channel EXCEPT ![c] = <<>>]
    /\ UNCHANGED <<vars, now, lastSet, listeners, known, crowded>>

\* Mutant of Timeout: a timer of its own for each value that is received.
TimeoutWhenQuiet(c) ==
    /\ call[c].at = "waiting"
    /\ channel[c] = <<>>
    /\ Goes(c, "leaving")
    /\ CallOnly

Timeout(c) ==
    /\ call[c].at = "waiting"
    /\ Goes(c, "leaving")
    /\ CallOnly

\* Mutant of Leave: the channel is closed and stays among the listeners.
LeaveClosed(c) ==
    /\ call[c].at = "leaving"
    /\ Returns(c)
    /\ channel' = [channel EXCEPT ![c] = <<>>]
    /\ crowded' = crowded \ {c}
    /\ UNCHANGED <<vars, now, lastSet, listeners, known>>

\* In one critical section: the channel is closed and removed.
Leave(c) ==
    /\ call[c].at = "leaving"
    /\ Returns(c)
    /\ listeners' = listeners \ {c}
    /\ channel' = [channel EXCEPT ![c] = <<>>]
    /\ crowded' = crowded \ {c}
    /\ UNCHANGED <<vars, now, lastSet, known>>

\* SetMaxCurrent and SetOfferedCurrent send to every listener of their group
\* that has room, with the lock of the cache held.
Publish(k, n) ==
    LET addressed == {c \in listeners : Group(call[c].op) = k /\ ~Outdated(k, n)}
        full      == {c \in addressed : channel[c] # <<>>}
    IN  /\ channel' = [c \in Callers |-> IF c \in addressed \ full THEN <<history[k][n]>>
                                         ELSE channel[c]]
        /\ crowded' = crowded \cup full

HandleAndPublish(k, n) ==
    /\ Handle(k, n)
    /\ Publish(k, n)
    /\ UNCHANGED <<now, lastSet, call, listeners, known>>

-----------------------------------------------------------------------------
Step(c) ==
    \/ ReadRequested(c) \/ Admit(c)
    \/ Accept(c) \/ Refuse(c) \/ AnswerLost(c) \/ Answered(c) \/ StoreRequested(c)
    \/ Listen(c) \/ Receive(c) \/ Leave(c)

Commands(c) ==
    \/ Start(c)
    \/ \E op \in Ops, current \in Readings : Command(c, op, current)
    \/ Step(c)
    \/ Timeout(c)

Observations ==
    \/ Connect /\ UNCHANGED controlVars
    \/ \E k \in Kinds : \/ Make(k) /\ UNCHANGED controlVars
                        \/ \E n \in DOMAIN history[k] : HandleAndPublish(k, n)

ControlNext == Tick \/ Observations \/ \E c \in Callers : Commands(c)

ControlSpec == ControlInit /\ [][ControlNext]_allVars

(* A caller goes on, an HTTP request is answered or times out (the timeout of
   the client, cmd/factory.go), the timer of a wait fires, and the select does
   not prefer the channel to the timer for ever. *)
ControlFairness ==
    \A c \in Callers : WF_allVars(Step(c)) /\ WF_allVars(Timeout(c))

-----------------------------------------------------------------------------
(* A change that was answered before a command was given, and the change this
   command makes at the charger, are at least the wait time apart: the time is
   recorded after the charger has made the change and compared before the next
   one is sent.  A stop is the exception, and so are commands that overlap. *)
UpdatesApart ==
    [][\A c \in Callers :
          Accept(c) /\ call[c].op \in Throttled /\ call[c].before # Never
              => now - call[c].before >= WaitTime]_allVars

(* A caller sleeps, with nothing in its channel, while the current it waits for
   is in the cache, only when a value was dropped because its channel was full:
   no change slips in between the comparison and the registration. *)
NoLostWakeup ==
    \A c \in Callers :
        call[c].at = "waiting" /\ cache[Group(call[c].op)].value = call[c].current
            => channel[c] # <<>> \/ c \in crowded

(* Every command returns, however often the charger's values change while it
   waits. *)
CommandsReturn == \A c \in Callers : call[c].at # "idle" ~> call[c].at = "idle"

(* http.go:223-224: "When stop charging command is sent, Easee sets dynamic
   current to 0. That's why a protection against changing offered current more
   often than once in 30 seconds is needed."  After a stop, as after any other
   change, the next one is refused for a while.  The code does not record it. *)
StopIsProtected ==
    [][\A c \in Callers : Answered(c) /\ call[c].op = "stop" => ShouldBackoff']_allVars
=============================================================================
