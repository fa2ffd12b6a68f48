------------------------- MODULE ChargerControlProofs -------------------------
(***************************************************************************)
(* Proofs about ChargerControl, for any callers, currents, wait time and   *)
(* horizon.                                                                *)
(*                                                                         *)
(* Changes are apart because what a caller knows of an earlier change was  *)
(* known no later than the time the throttle compares with was recorded;   *)
(* and no wait misses a value because, until one is dropped, a channel     *)
(* that is not empty holds what the cache holds.  The theorems about what  *)
(* is remembered of a behaviour come last: at most one accepted offer is   *)
(* still to be stored, and it is the last one.                             *)
(***************************************************************************)
EXTENDS ChargerHistory, ObservationCacheProofs

\* A caller's command, and what is in its channel.
ApartInv(c) ==
    /\ call[c].made <= now /\ call[c].before <= known
    /\ call[c].at = "sending" /\ call[c].op \in Throttled /\ call[c].before # Never
          => now - call[c].before >= WaitTime

WakeInv(c) ==
    call[c].at = "waiting" /\ c \notin crowded =>
        IF channel[c] = <<>> THEN cache[Group(call[c].op)].value # call[c].current
                             ELSE channel[c] = <<cache[Group(call[c].op)].value>>

\* The change that is known is not newer than the one the throttle knows.
ControlInv ==
    /\ ControlTypeOK
    /\ channel = [c \in Callers |-> channel[c]]
    /\ known <= lastSet
    /\ \A c \in Callers : ApartInv(c) /\ WakeInv(c)

WholeInv == IInv /\ ControlInv

USE ControlAssumption

-----------------------------------------------------------------------------
LEMMA GroupTypes ==
    /\ \A op \in Ops : Group(op) \in Plain /\ Group(op) \in Cached
    /\ "max" \in Plain
BY KindsTypes DEF Group, Timed

\* Currents that are stored, or observed, are readings.
LEMMA PlainReadings ==
    ASSUME IInv, NEW k \in Plain
    PROVE  /\ cache[k].value \in Readings
           /\ \A n \in DOMAIN history[k] : history[k][n] \in Readings
<1>1. k \in Kinds /\ k \in Cached
  BY KindsTypes
<1>2. /\ \A raw : Stored(k, raw) = raw
      /\ RawValues(k) = Readings /\ Unset(k) = {0}
  BY StoredPlain
<1>3. cache[k].value \in {Stored(k, raw) : raw \in RawValues(k)} \cup Unset(k)
  BY <1>1 DEF IInv, TypeOK
<1>4. cache[k].value \in Readings
  BY <1>2, <1>3, ReadingsAssumption
<1>5. \A n \in DOMAIN history[k] : history[k][n] \in RawValues(k)
  BY <1>1, ObservationTypes DEF IInv
<1> QED BY <1>2, <1>4, <1>5

LEMMA CallTypes ==
    ASSUME ControlInv, NEW c \in Callers
    PROVE  /\ call[c] \in Calls
           /\ call[c].at \in Steps /\ call[c].op \in Ops /\ call[c].current \in Readings
           /\ call[c].made \in Times \cup {Never} /\ call[c].before \in Times \cup {Never}
           /\ now \in Times /\ now \in Nat /\ lastSet \in Int /\ known \in Int
           /\ lastSet <= now /\ known <= lastSet
BY DEF ControlInv, ControlTypeOK, Calls, Times, Never

LEMMA IdleTypes == Idle \in Calls /\ Idle.at = "idle" /\ Idle.made = -1 /\ Idle.before = -1
BY ReadingsAssumption DEF Idle, Calls, Times, Steps, Ops, Never

LEMMA ControlInitHolds == ControlInit => WholeInv
<1> SUFFICES ASSUME ControlInit PROVE ControlInv /\ IInv
  BY DEF WholeInv
<1>1. IInv
  BY InitHolds DEF ControlInit
<1>2. \A c \in Callers : call[c] = Idle /\ channel[c] = <<>>
  BY DEF ControlInit
<1>3. ControlTypeOK
  BY <1>2, IdleTypes DEF ControlInit, ControlTypeOK, Waiting, Times, Never
<1> QED BY <1>1, <1>2, <1>3, IdleTypes DEF ControlInit, ControlInv, ApartInv, WakeInv, Never

-----------------------------------------------------------------------------
(* The steps of a call that neither begin nor end a wait. *)

LEMMA MoveHolds ==
    ASSUME ControlInv, NEW c \in Callers, NEW next \in Calls,
           call[c].at \notin {"waiting", "leaving"}, next.at \notin {"waiting", "leaving"},
           call' = [call EXCEPT ![c] = next],
           UNCHANGED <<cache, now, listeners, channel, crowded>>,
           lastSet' \in {lastSet, now}, known' >= known, known' \in {known} \cup 0 .. lastSet',
           next.made <= now, next.before <= known,
           next.at = "sending" /\ next.op \in Throttled /\ next.before # Never
              => now - next.before >= WaitTime
    PROVE  ControlInv'
<1>1. /\ call \in [Callers -> Calls] /\ call' \in [Callers -> Calls]
      /\ call'[c] = next
      /\ \A d \in Callers : d # c => call'[d] = call[d]
  BY DEF ControlInv, ControlTypeOK
<1>2. Waiting' = Waiting
  BY <1>1 DEF Waiting
<1>3. /\ lastSet' \in {Never} \cup 0 .. now /\ known' \in {Never} \cup 0 .. now
      /\ known' <= lastSet' /\ known \in Int /\ known' \in Int /\ now \in Nat
  BY CallTypes DEF ControlInv, ControlTypeOK, Times, Never
<1>4. ControlTypeOK'
  BY <1>1, <1>2, <1>3 DEF ControlInv, ControlTypeOK
<1>5. ASSUME NEW d \in Callers PROVE ApartInv(d)'
  <2>1. CASE d = c
    <3>1. next.before \in Int
      BY DEF Calls, Times, Never
    <3> QED BY <1>1, <1>3, <2>1, <3>1 DEF ApartInv
  <2>2. CASE d # c
    <3>1. call[d].before \in Int /\ call[d].before <= known
      BY CallTypes DEF ControlInv, ApartInv, Times, Never
    <3> QED BY <1>1, <1>3, <2>2, <3>1 DEF ControlInv, ApartInv
  <2> QED BY <2>1, <2>2
<1>6. ASSUME NEW d \in Callers PROVE WakeInv(d)'
  BY <1>1 DEF ControlInv, WakeInv
<1> QED BY <1>3, <1>4, <1>5, <1>6 DEF ControlInv

\* What CallOnly leaves alone.
LEMMA OnlyCall ==
    ASSUME WholeInv, CallOnly
    PROVE  /\ UNCHANGED <<cache, now, listeners, channel, crowded>>
           /\ lastSet' \in {lastSet, now} /\ known' >= known /\ known' \in {known} \cup 0 .. lastSet'
BY DEF CallOnly, vars, WholeInv, ControlInv, ControlTypeOK, Times, Never

LEMMA CommandHolds ==
    ASSUME WholeInv, NEW c \in Callers, NEW op \in Ops, NEW current \in Readings, Command(c, op, current)
    PROVE  ControlInv'
<1> DEFINE next == [at |-> "token", op |-> op, current |-> current, made |-> Never, before |-> known]
<1>1. next \in Calls /\ next.made <= now /\ next.before <= known
  BY CallTypes DEF Calls, Steps, Never, Times, WholeInv, ControlInv, ControlTypeOK
<1> HIDE DEF next
<1>2. /\ call[c].at = "idle" /\ call' = [call EXCEPT ![c] = next] /\ next.at = "token" /\ CallOnly
  BY DEF Command, next
<1> QED BY <1>1, <1>2, MoveHolds, OnlyCall DEF WholeInv

LEMMA StartHolds == ASSUME WholeInv, NEW c \in Callers, Start(c) PROVE ControlInv'
<1> DEFINE next == [at |-> "reading", op |-> "start", current |-> cache["max"].value,
                    made |-> Never, before |-> known]
<1>1. next \in Calls /\ next.made <= now /\ next.before <= known
  BY CallTypes, GroupTypes, PlainReadings
  DEF Calls, Steps, Ops, Never, Times, WholeInv, ControlInv, ControlTypeOK
<1> HIDE DEF next
<1>2. /\ call[c].at = "idle" /\ call' = [call EXCEPT ![c] = next] /\ next.at = "reading" /\ CallOnly
  BY DEF Start, next
<1> QED BY <1>1, <1>2, MoveHolds, OnlyCall DEF WholeInv

\* A step in which a call goes on, and one in which it returns.
LEMMA GoesHolds ==
    ASSUME WholeInv, NEW c \in Callers, NEW step \in Steps, Goes(c, step),
           call[c].at \notin {"waiting", "leaving"}, step \notin {"waiting", "leaving"},
           UNCHANGED <<cache, now, listeners, channel, crowded>>,
           lastSet' \in {lastSet, now}, known' >= known, known' \in {known} \cup 0 .. lastSet',
           step = "sending" => ~(call[c].op \in Throttled /\ ShouldBackoff)
    PROVE  ControlInv'
<1> DEFINE next == [call[c] EXCEPT !.at = step]
<1>0. ControlInv /\ call[c] \in Calls
  BY CallTypes DEF WholeInv
<1>1. /\ next \in Calls /\ next.at = step /\ next.op = call[c].op
      /\ next.made = call[c].made /\ next.before = call[c].before
  BY <1>0 DEF Calls
<1>2. call' = [call EXCEPT ![c] = next]
  BY DEF Goes
<1>3. next.made <= now /\ next.before <= known
  BY <1>0, <1>1 DEF ControlInv, ApartInv
<1>4. ASSUME step = "sending", next.op \in Throttled, next.before # Never
      PROVE  now - next.before >= WaitTime
  <2>1. lastSet = Never \/ ~(now - lastSet < WaitTime)
    BY <1>1, <1>4 DEF ShouldBackoff
  <2>2. next.before \in Times /\ next.before <= lastSet
    BY <1>0, <1>1, <1>3, <1>4, CallTypes DEF Times, Never
  <2> QED BY <1>0, <2>1, <2>2, CallTypes DEF Times, Never
<1> HIDE DEF next
<1> QED BY <1>0, <1>1, <1>2, <1>3, <1>4, MoveHolds

LEMMA ReturnsHolds ==
    ASSUME WholeInv, NEW c \in Callers, Returns(c), call[c].at \notin {"waiting", "leaving"},
           UNCHANGED <<cache, now, listeners, channel, crowded>>,
           lastSet' \in {lastSet, now}, known' >= known, known' \in {known} \cup 0 .. lastSet'
    PROVE  ControlInv'
<1>1. Idle.made <= now /\ Idle.before <= known
  BY CallTypes, IdleTypes DEF WholeInv, ControlInv, ControlTypeOK, Times, Never
<1> QED BY <1>1, IdleTypes, MoveHolds DEF WholeInv, Returns

LEMMA ReadRequestedHolds == ASSUME WholeInv, NEW c \in Callers, ReadRequested(c) PROVE ControlInv'
<1>1. PICK slow \in {0} \cup SlowCurrents :
          LET current == IF slow > 0 THEN slow
                         ELSE IF requested > 0 THEN requested ELSE call[c].current
          IN  IF current = 0 THEN Returns(c)
              ELSE call' = [call EXCEPT ![c].at = "token", ![c].current = current]
  BY DEF ReadRequested
<1> DEFINE current == IF slow > 0 THEN slow ELSE IF requested > 0 THEN requested ELSE call[c].current
           next    == [call[c] EXCEPT !.at = "token", !.current = current]
<1>2. ControlInv /\ call[c] \in Calls /\ call[c].at = "reading" /\ CallOnly
  BY CallTypes DEF WholeInv, ReadRequested
<1>3. current \in Readings
  BY <1>2, CallTypes, ReadingsAssumption DEF WholeInv, IInv, TypeOK
<1> HIDE DEF current
<1>4. /\ next \in Calls /\ next.at = "token"
      /\ next.made = call[c].made /\ next.before = call[c].before
  BY <1>2, <1>3 DEF Calls, Steps
<1>5. next.made <= now /\ next.before <= known
  BY <1>2, <1>4 DEF ControlInv, ApartInv
<1>6. Returns(c) \/ call' = [call EXCEPT ![c] = next]
  BY <1>1, <1>2 DEF current, Returns, ControlInv, ControlTypeOK
<1> HIDE DEF next
<1>7. CASE Returns(c)
  BY <1>2, <1>7, ReturnsHolds, OnlyCall
<1>8. CASE call' = [call EXCEPT ![c] = next]
  BY <1>2, <1>4, <1>5, <1>8, MoveHolds, OnlyCall
<1> QED BY <1>6, <1>7, <1>8

LEMMA AdmitHolds == ASSUME WholeInv, NEW c \in Callers, Admit(c) PROVE ControlInv'
BY GoesHolds, ReturnsHolds, OnlyCall DEF Admit, Steps

LEMMA AcceptHolds == ASSUME WholeInv, NEW c \in Callers, Accept(c) PROVE ControlInv'
<1> DEFINE next == [call[c] EXCEPT !.at = "accepted", !.made = now]
<1>1. ControlInv /\ call[c] \in Calls /\ now \in Times /\ call[c].at = "sending" /\ CallOnly
  BY CallTypes DEF WholeInv, Accept
<1>2. next \in Calls /\ next.at = "accepted" /\ next.made = now /\ next.before = call[c].before
  BY <1>1 DEF Calls, Steps
<1>3. next.made <= now /\ next.before <= known
  BY <1>1, <1>2 DEF ControlInv, ApartInv, Times
<1>4. call' = [call EXCEPT ![c] = next]
  BY <1>1 DEF Accept, ControlInv, ControlTypeOK
<1> HIDE DEF next
<1> QED BY <1>1, <1>2, <1>3, <1>4, MoveHolds, OnlyCall

LEMMA RefusedHolds ==
    ASSUME WholeInv, NEW c \in Callers, Refuse(c) \/ AnswerLost(c)
    PROVE  ControlInv'
BY ReturnsHolds, OnlyCall DEF Refuse, AnswerLost

LEMMA AnsweredHolds == ASSUME WholeInv, NEW c \in Callers, Answered(c) PROVE ControlInv'
<1>1. /\ call[c].at = "accepted" /\ UNCHANGED <<vars, now, listeners, channel, crowded>>
      /\ Goes(c, "storing") \/ Goes(c, "listening") \/ Returns(c)
      /\ lastSet' = IF Registered(c) THEN now ELSE lastSet
      /\ known' = IF Registered(c) /\ call[c].made > known THEN call[c].made ELSE known
  BY DEF Answered
<1>2. /\ lastSet' \in {lastSet, now} /\ known' >= known /\ known' \in {known} \cup 0 .. lastSet'
  <2>1. call[c].made \in Times \cup {Never} /\ call[c].made <= now /\ known \in {Never} \cup 0 .. now
    BY CallTypes DEF WholeInv, ControlInv, ApartInv, ControlTypeOK
  <2> QED BY <1>1, <2>1, CallTypes DEF WholeInv, Times, Never
<1> QED BY <1>1, <1>2, GoesHolds, ReturnsHolds DEF vars, Steps

LEMMA StoreRequestedHolds == ASSUME WholeInv, NEW c \in Callers, StoreRequested(c) PROVE ControlInv'
<1>1. /\ call[c].at = "storing" /\ Goes(c, "listening")
      /\ UNCHANGED <<cache, now, lastSet, listeners, channel, known, crowded>>
  BY DEF StoreRequested, Request
<1> QED BY <1>1, GoesHolds DEF WholeInv, ControlInv, ControlTypeOK, Times, Never, Steps

-----------------------------------------------------------------------------
(* The steps of a wait. *)

LEMMA TurnHolds ==
    ASSUME ControlInv, NEW c \in Callers, NEW next \in Calls,
           call' = [call EXCEPT ![c] = next], next.at # "sending",
           next.made <= now, next.before <= known,
           UNCHANGED <<cache, now, lastSet, known>>,
           listeners' = IF next.at \in {"waiting", "leaving"} THEN listeners \cup {c}
                                                             ELSE listeners \ {c},
           crowded' \in {crowded, crowded \ {c}},
           channel' = channel \/ channel' = [channel EXCEPT ![c] = <<>>],
           next.at \notin {"waiting", "leaving"} => c \notin crowded' /\ channel'[c] = <<>>,
           WakeInv(c)'
    PROVE  ControlInv'
<1>1. /\ call \in [Callers -> Calls] /\ call' \in [Callers -> Calls]
      /\ call'[c] = next
      /\ \A d \in Callers : d # c => call'[d] = call[d]
  BY DEF ControlInv, ControlTypeOK
<1>2. Waiting' = listeners'
  BY <1>1 DEF Waiting, ControlInv, ControlTypeOK
<1>3. /\ channel' = [d \in Callers |-> channel'[d]]
      /\ \A d \in Callers : d # c => channel'[d] = channel[d]
      /\ channel'[c] \in {channel[c], <<>>}
  BY DEF ControlInv
<1>4. ControlTypeOK'
  <2>1. crowded' \subseteq Waiting'
    BY <1>2 DEF ControlInv, ControlTypeOK
  <2>2. ASSUME NEW d \in Callers
        PROVE  /\ channel'[d] \in Seq(Readings) /\ Len(channel'[d]) <= 1
               /\ d \notin Waiting' => channel'[d] = <<>>
    <3>1. /\ channel[d] \in Seq(Readings) /\ Len(channel[d]) <= 1
          /\ d \notin listeners => channel[d] = <<>>
      BY DEF ControlInv, ControlTypeOK
    <3>2. channel'[d] \in {channel[d], <<>>} /\ <<>> \in Seq(Readings) /\ Len(<<>>) = 0
      BY <1>3
    <3>3. channel'[d] \in Seq(Readings) /\ Len(channel'[d]) <= 1
      <4>1. CASE channel'[d] = channel[d]
        BY <3>1, <4>1
      <4>2. CASE channel'[d] = <<>>
        BY <4>2
      <4> QED BY <3>2, <4>1, <4>2
    <3>4. d \notin listeners' => channel'[d] = <<>>
      BY <1>3, <3>1, <3>2
    <3> QED BY <1>2, <3>3, <3>4
  <2> QED BY <1>1, <1>2, <2>1, <2>2 DEF ControlInv, ControlTypeOK
<1>5. ASSUME NEW d \in Callers PROVE ApartInv(d)' /\ WakeInv(d)'
  BY <1>1, <1>3 DEF ControlInv, ApartInv, WakeInv
<1> QED BY <1>3, <1>4, <1>5 DEF ControlInv

LEMMA ListenHolds == ASSUME WholeInv, NEW c \in Callers, Listen(c) PROVE ControlInv'
<1>1. /\ ControlInv /\ call[c] \in Calls /\ call[c].at = "listening"
      /\ UNCHANGED <<cache, now, lastSet, channel, known, crowded>>
  BY CallTypes DEF WholeInv, Listen, vars
<1>2. CASE cache[Group(call[c].op)].value = call[c].current
  BY <1>1, <1>2, ReturnsHolds, CallTypes DEF Listen, ControlInv, ControlTypeOK, Times, Never
<1>3. CASE cache[Group(call[c].op)].value # call[c].current
  <2> DEFINE next == [call[c] EXCEPT !.at = "waiting"]
  <2>1. /\ next \in Calls /\ next.at = "waiting" /\ next.op = call[c].op /\ next.current = call[c].current
        /\ next.made = call[c].made /\ next.before = call[c].before
    BY <1>1 DEF Calls, Steps
  <2>2. call' = [call EXCEPT ![c] = next] /\ listeners' = listeners \cup {c}
    BY <1>3 DEF Listen, Goes
  <2> HIDE DEF next
  <2>3. channel[c] = <<>> /\ call'[c] = next
    BY <1>1, <2>2 DEF ControlInv, ControlTypeOK, Waiting
  <2>4. WakeInv(c)'
    BY <1>1, <1>3, <2>1, <2>3 DEF WakeInv
  <2>5. next.made <= now /\ next.before <= known
    BY <1>1, <2>1 DEF ControlInv, ApartInv
  <2> QED BY <1>1, <2>1, <2>2, <2>4, <2>5, TurnHolds
<1> QED BY <1>2, <1>3

\* A value that was not the one waited for has been the cached one.
LEMMA ReceiveHolds == ASSUME WholeInv, NEW c \in Callers, Receive(c) PROVE ControlInv'
<1> DEFINE step == IF Head(channel[c]) = call[c].current THEN "leaving" ELSE "waiting"
           next == [call[c] EXCEPT !.at = step]
<1>1. /\ ControlInv /\ call[c] \in Calls /\ call[c].at = "waiting" /\ channel[c] # <<>>
      /\ UNCHANGED <<cache, now, lastSet, known, listeners, crowded>>
      /\ call' = [call EXCEPT ![c] = next] /\ channel' = [channel EXCEPT ![c] = <<>>]
  BY CallTypes DEF WholeInv, Receive, Goes, vars
<1>2. /\ next \in Calls /\ next.at = step /\ next.op = call[c].op /\ next.current = call[c].current
      /\ next.made = call[c].made /\ next.before = call[c].before
  BY <1>1 DEF Calls, Steps
<1>3. next.made <= now /\ next.before <= known
  BY <1>1, <1>2 DEF ControlInv, ApartInv
<1>4. call'[c] = next /\ channel'[c] = <<>> /\ c \in listeners
  BY <1>1, <1>2 DEF ControlInv, ControlTypeOK, Waiting
<1>5. WakeInv(c)'
  <2>1. SUFFICES ASSUME step = "waiting", c \notin crowded
                 PROVE  cache[Group(call[c].op)].value # call[c].current
    BY <1>1, <1>2, <1>4 DEF WakeInv
  <2>2. channel[c] = <<cache[Group(call[c].op)].value>>
    BY <1>1, <2>1 DEF ControlInv, WakeInv
  <2> QED BY <2>1, <2>2
<1>6. listeners' = listeners \cup {c}
  BY <1>1, <1>4
<1> HIDE DEF next
<1>7. next.at \in {"waiting", "leaving"}
  BY <1>2
<1> QED BY <1>1, <1>2, <1>3, <1>5, <1>6, <1>7, TurnHolds

LEMMA TimeoutHolds == ASSUME WholeInv, NEW c \in Callers, Timeout(c) PROVE ControlInv'
<1> DEFINE next == [call[c] EXCEPT !.at = "leaving"]
<1>1. /\ ControlInv /\ call[c] \in Calls /\ call[c].at = "waiting" /\ CallOnly
      /\ call' = [call EXCEPT ![c] = next]
  BY CallTypes DEF WholeInv, Timeout, Goes
<1>2. /\ next \in Calls /\ next.at = "leaving"
      /\ next.made = call[c].made /\ next.before = call[c].before
  BY <1>1 DEF Calls, Steps
<1>3. next.made <= now /\ next.before <= known
  BY <1>1, <1>2 DEF ControlInv, ApartInv
<1>4. call'[c] = next /\ listeners = listeners \cup {c}
  BY <1>1, <1>2 DEF ControlInv, ControlTypeOK, Waiting
<1>5. WakeInv(c)'
  BY <1>2, <1>4 DEF WakeInv
<1> HIDE DEF next
<1> QED BY <1>1, <1>2, <1>3, <1>4, <1>5, TurnHolds DEF CallOnly, vars

LEMMA LeaveHolds == ASSUME WholeInv, NEW c \in Callers, Leave(c) PROVE ControlInv'
<1>1. /\ ControlInv /\ call \in [Callers -> Calls]
      /\ call' = [call EXCEPT ![c] = Idle] /\ listeners' = listeners \ {c}
      /\ channel' = [channel EXCEPT ![c] = <<>>] /\ crowded' = crowded \ {c}
      /\ UNCHANGED <<cache, now, lastSet, known>>
  BY DEF WholeInv, ControlInv, ControlTypeOK, Leave, Returns, vars
<1>2. call'[c] = Idle /\ channel'[c] = <<>>
  BY <1>1 DEF ControlInv
<1>3. Idle.made <= now /\ Idle.before <= known
  BY <1>1, CallTypes, IdleTypes DEF ControlInv, ControlTypeOK, Times, Never
<1>4. WakeInv(c)'
  BY <1>2, IdleTypes DEF WakeInv
<1> QED BY <1>1, <1>2, <1>3, <1>4, IdleTypes, TurnHolds

-----------------------------------------------------------------------------
(* The steps of the others. *)

LEMMA TickHolds == ASSUME WholeInv, Tick PROVE ControlInv'
<1>1. /\ ControlInv /\ now \in Nat /\ now' = now + 1 /\ now' \in Times
      /\ UNCHANGED <<cache, lastSet, call, listeners, channel, known, crowded>>
  BY DEF WholeInv, ControlInv, ControlTypeOK, Tick, Times, vars
<1>2. ControlTypeOK'
  BY <1>1 DEF ControlInv, ControlTypeOK, Waiting, Times, Never
<1>3. ASSUME NEW c \in Callers PROVE ApartInv(c)' /\ WakeInv(c)'
  BY <1>1, CallTypes DEF ControlInv, ApartInv, WakeInv, Times, Never
<1> QED BY <1>1, <1>2, <1>3 DEF ControlInv

LEMMA QuietHolds == ASSUME WholeInv, UNCHANGED <<cache, controlVars>> PROVE ControlInv'
BY DEF WholeInv, controlVars, ControlInv, ControlTypeOK, ApartInv, WakeInv, Waiting

\* What an observation does to the cache, for those who wait for a plain kind.
LEMMA HandleStores ==
    ASSUME IInv, NEW k \in Kinds, NEW n \in DOMAIN history[k], Handle(k, n), NEW j \in Plain
    PROVE  cache'[j].value = IF j = k /\ ~Outdated(k, n) THEN history[k][n] ELSE cache[j].value
<1>1. j \in Cached /\ j \notin SpecialKinds /\ cache = [i \in Cached |-> cache[i]]
      /\ Stored(j, history[j][n]) = history[j][n]
  BY KindsTypes, StoredPlain DEF IInv, Shape
<1>2. CASE HandlePlain(k, n)
  <2>1. k \in Cached
    BY <1>2, KindsTypes DEF HandlePlain
  <2> QED BY <1>1, <1>2, <2>1 DEF HandlePlain, Store
<1>3. CASE HandleInstallation(k, n)
  BY <1>1, <1>3 DEF HandleInstallation, Store, SpecialKinds
<1>4. CASE k = "output" /\ HandleOutPhase(n)
  BY <1>1, <1>4 DEF HandleOutPhase, Store, SpecialKinds
<1>5. CASE k = "cloud" /\ HandleCloudConnected(n)
  BY <1>1, <1>5 DEF HandleCloudConnected, SpecialKinds
<1>6. CASE k = "state" /\ HandleChargerState(n)
  BY <1>1, <1>6 DEF HandleChargerState, Store, SpecialKinds
<1> QED BY <1>2, <1>3, <1>4, <1>5, <1>6 DEF Handle

\* Until a value is dropped, the newest that was published is in the channel.
LEMMA PublishHolds ==
    ASSUME WholeInv, NEW k \in Kinds, NEW n \in DOMAIN history[k], HandleAndPublish(k, n)
    PROVE  ControlInv'
<1> DEFINE addressed == {c \in listeners : Group(call[c].op) = k /\ ~Outdated(k, n)}
           full      == {c \in addressed : channel[c] # <<>>}
<1>1. /\ ControlInv /\ IInv /\ Handle(k, n)
      /\ channel' = [c \in Callers |-> IF c \in addressed \ full THEN <<history[k][n]>> ELSE channel[c]]
      /\ crowded' = crowded \cup full
      /\ UNCHANGED <<now, lastSet, call, listeners, known>>
  BY DEF WholeInv, HandleAndPublish, Publish
<1>2. \A c \in Callers : Group(call[c].op) \in Plain
  BY <1>1, CallTypes, GroupTypes
<1>3. addressed # {} => history[k][n] \in Readings
  BY <1>1, <1>2, PlainReadings DEF ControlInv, ControlTypeOK, Waiting
<1>4. ControlTypeOK'
  <2>1. Waiting' = Waiting /\ full \subseteq Waiting
    BY <1>1 DEF Waiting, ControlInv, ControlTypeOK
  <2>2. ASSUME NEW c \in Callers
        PROVE  /\ channel'[c] \in Seq(Readings) /\ Len(channel'[c]) <= 1
               /\ c \notin Waiting => channel'[c] = <<>>
    <3>1. CASE c \in addressed \ full
      <4>1. channel'[c] = <<history[k][n]>> /\ history[k][n] \in Readings /\ c \in Waiting
        BY <1>1, <1>3, <3>1 DEF ControlInv, ControlTypeOK
      <4> QED BY <4>1
    <3>2. CASE c \notin addressed \ full
      BY <1>1, <3>2 DEF ControlInv, ControlTypeOK
    <3> QED BY <3>1, <3>2
  <2> QED BY <1>1, <2>1, <2>2 DEF ControlInv, ControlTypeOK
<1>5. ASSUME NEW c \in Callers PROVE WakeInv(c)'
  <2> DEFINE group == Group(call[c].op)
  <2>1. SUFFICES ASSUME call[c].at = "waiting", c \notin crowded, c \notin full
                 PROVE  IF channel'[c] = <<>> THEN cache'[group].value # call[c].current
                                              ELSE channel'[c] = <<cache'[group].value>>
    BY <1>1 DEF WakeInv
  <2>2. c \in listeners /\ group \in Plain
    BY <1>1, <1>2, <2>1 DEF ControlInv, ControlTypeOK, Waiting
  <2>3. cache'[group].value = IF group = k /\ ~Outdated(k, n) THEN history[k][n] ELSE cache[group].value
    BY <1>1, <2>2, HandleStores
  <2>4. CASE group = k /\ ~Outdated(k, n)
    BY <1>1, <2>1, <2>2, <2>3, <2>4
  <2>5. CASE ~(group = k /\ ~Outdated(k, n))
    BY <1>1, <2>1, <2>3, <2>5 DEF ControlInv, WakeInv
  <2> QED BY <2>4, <2>5
<1>6. \A c \in Callers : ApartInv(c)'
  BY <1>1 DEF ControlInv, ApartInv
<1> QED BY <1>1, <1>4, <1>5, <1>6 DEF ControlInv

-----------------------------------------------------------------------------
(* Both halves together: what the commands and the observations do to the cache
   is a step of ObservationCache. *)

LEMMA CommandsHold == ASSUME WholeInv, NEW c \in Callers, Commands(c) PROVE ControlInv'
BY CommandHolds, StartHolds, ReadRequestedHolds, AdmitHolds, AcceptHolds, RefusedHolds,
   AnsweredHolds, StoreRequestedHolds, ListenHolds, ReceiveHolds, TimeoutHolds, LeaveHolds
   DEF Commands, Step

LEMMA ObservationsHold == ASSUME WholeInv, Observations PROVE ControlInv'
<1>1. CASE Connect /\ UNCHANGED controlVars
  BY <1>1, QuietHolds DEF Connect
<1>2. ASSUME NEW k \in Kinds, Make(k), UNCHANGED controlVars PROVE ControlInv'
  BY <1>2, QuietHolds DEF Make
<1>3. ASSUME NEW k \in Kinds, NEW n \in DOMAIN history[k], HandleAndPublish(k, n) PROVE ControlInv'
  BY <1>3, PublishHolds
<1> QED BY <1>1, <1>2, <1>3 DEF Observations

LEMMA CommandSteps == ASSUME WholeInv, NEW c \in Callers, Commands(c) PROVE [Next]_vars
<1>1. CASE StoreRequested(c)
  BY <1>1, CallTypes DEF StoreRequested, Next, WholeInv
<1>2. CASE ~StoreRequested(c)
  BY <1>2 DEF Commands, Step, Command, Start, ReadRequested, Admit, Accept, Refuse, AnswerLost,
              Answered, Listen, Receive, Timeout, Leave, CallOnly
<1> QED BY <1>1, <1>2

LEMMA ControlSteps == WholeInv /\ [ControlNext]_allVars => [Next]_vars
<1> SUFFICES ASSUME WholeInv, [ControlNext]_allVars PROVE [Next]_vars
  OBVIOUS
<1>1. CASE Observations
  BY <1>1 DEF Observations, HandleAndPublish, Next
<1>2. CASE Tick \/ UNCHANGED allVars
  BY <1>2 DEF Tick, allVars
<1>3. CASE \E c \in Callers : Commands(c)
  BY <1>3, CommandSteps
<1> QED BY <1>1, <1>2, <1>3 DEF ControlNext

LEMMA ControlNextHolds == WholeInv /\ [ControlNext]_allVars => WholeInv'
<1> SUFFICES ASSUME WholeInv, [ControlNext]_allVars PROVE ControlInv' /\ IInv'
  BY DEF WholeInv
<1>1. IInv'
  BY ControlSteps, NextHolds DEF WholeInv
<1>2. ControlInv'
  <2>1. CASE UNCHANGED allVars
    BY <2>1, QuietHolds DEF allVars, vars
  <2> QED BY <2>1, CommandsHold, ObservationsHold, TickHolds DEF ControlNext
<1> QED BY <1>1, <1>2

LEMMA ControlInductive == ControlSpec => []WholeInv
BY ControlInitHolds, ControlNextHolds, PTL DEF ControlSpec

-----------------------------------------------------------------------------
(* The commands leave the observations their specification, so that what is
   proved of ObservationCache holds while commands are given. *)
THEOREM ControlKeepsCache == ControlSpec => Spec
<1>1. ControlInit => Init
  BY DEF ControlInit
<1> QED BY <1>1, ControlSteps, ControlInductive, PTL DEF ControlSpec, Spec

(* Types are kept; the callers whose channel is among the listeners are those in
   a wait, so that no setter sends to a closed channel. *)
THEOREM ControlTypeCorrect == ControlSpec => []ControlTypeOK
<1>1. WholeInv => ControlTypeOK
  BY DEF WholeInv, ControlInv
<1> QED BY <1>1, ControlInductive, PTL

(* No wait misses a value for which its channel had room. *)
THEOREM WakeupsArrive == ControlSpec => []NoLostWakeup
<1>1. WholeInv => NoLostWakeup
  BY DEF WholeInv, ControlInv, WakeInv, NoLostWakeup
<1> QED BY <1>1, ControlInductive, PTL

(* A change is made no sooner than the wait time after the newest one that was
   answered before its command, whatever other callers do meanwhile. *)
THEOREM UpdatesAreApart == ControlSpec => UpdatesApart
<1>1. WholeInv /\ [ControlNext]_allVars =>
         [\A c \in Callers :
             Accept(c) /\ call[c].op \in Throttled /\ call[c].before # Never
                 => now - call[c].before >= WaitTime]_allVars
  BY DEF WholeInv, ControlInv, ApartInv, Accept
<1> QED BY <1>1, ControlInductive, PTL DEF ControlSpec, UpdatesApart

-----------------------------------------------------------------------------
(* What is remembered of a behaviour. *)

\* Nothing that is stored is newer than what was handled, and as long as the
\* order is kept nothing is older.
OrderInv ==
    /\ \A k \in Cached \cap {"phaseMode", "grid"} : cache[k].at <= seen[k]
    /\ CacheIsNewestInOrder

\* At most one accepted offer is still to be stored, and it is the last one.
OfferInv ==
    /\ \A c \in Callers : call[c].at = "storing" => call[c].op = "offer"
    /\ ~confused => /\ \A c, d \in Offering : c = d
                    /\ \A c \in Offering : call[c].current = lastOffer
                    /\ Offering = {} => requested = lastOffer

HistoryInv == WholeInv /\ OrderInv /\ OfferInv

LEMMA HistoryInitHolds == HistoryInit => HistoryInv
<1> SUFFICES ASSUME HistoryInit PROVE HistoryInv
  OBVIOUS
<1>1. WholeInv
  BY ControlInitHolds DEF HistoryInit
<1>2. \A k \in Kinds : seen[k] = 0
  BY DEF HistoryInit, ControlInit, Init
<1>3. \A k \in Cached : k \in Kinds /\ cache[k].at = 0
  BY KindsTypes DEF HistoryInit, ControlInit, Init
<1>4. heard = {} /\ requested = 0 /\ lastOffer = 0
  BY DEF HistoryInit, ControlInit, Init
<1>5. \A c \in Callers : call[c].at = "idle"
  BY IdleTypes DEF HistoryInit, ControlInit
<1> QED BY <1>1, <1>2, <1>3, <1>4, <1>5
        DEF HistoryInv, OrderInv, OfferInv, CacheIsNewestInOrder, CacheIsNewest, Offering

\* The newest handled observation stays what it is.
LEMMA SameNewest ==
    ASSUME IInv, NEW k \in Kinds, NEW j \in Kinds, seen[j] > 0, Make(k)
    PROVE  Newest(j)' = Newest(j)
<1>1. /\ seen[j] \in DOMAIN history[j] /\ history[j] \in Seq(RawValues(j))
      /\ history[k] \in Seq(RawValues(k))
  BY DEF IInv, TypeOK
<1>2. PICK raw \in RawValues(k) : history' = [history EXCEPT ![k] = Append(@, raw)]
  BY DEF Make
<1>4. history'[j][seen[j]] = history[j][seen[j]]
  <2>1. CASE j = k
    <3>1. history'[j] = Append(history[j], raw) /\ raw \in RawValues(j)
      BY <1>2, <2>1 DEF IInv, Shape
    <3> QED BY <1>1, <3>1
  <2>2. CASE j # k
    BY <1>2, <2>2 DEF IInv, Shape
  <2> QED BY <2>1, <2>2
<1> QED BY <1>4 DEF Make, Newest

LEMMA MakeKeepsOrder ==
    ASSUME IInv, OrderInv, NEW k \in Kinds, Make(k), ~late' => ~late
    PROVE  OrderInv'
<1>1. UNCHANGED <<cache, isCloudOnline, seen, heard>>
  BY DEF Make
<1>2. /\ "cloud" \in heard => "cloud" \in Kinds /\ seen["cloud"] > 0
      /\ \A j \in Cached : j \in Kinds
  BY KindsTypes DEF IInv, TypeOK, TimeInv
<1> QED BY <1>1, <1>2, SameNewest DEF OrderInv, CacheIsNewestInOrder, CacheIsNewest

LEMMA DeliverKeepsOrder ==
    ASSUME IInv, OrderInv, NEW k \in Kinds, NEW n \in DOMAIN history[k], Handle(k, n),
           ~late' => ~late /\ ~(n < seen[k])
    PROVE  OrderInv'
<1>1. /\ n \in Nat /\ n >= 1 /\ seen[k] \in Nat
      /\ history' = history
  BY ObservationTypes DEF IInv, Handle, HandlePlain, HandleInstallation, HandleOutPhase,
     HandleCloudConnected, HandleChargerState
<1>2. /\ \A j \in Kinds : j # k => seen'[j] = seen[j]
      /\ seen'[k] = IF n > seen[k] THEN n ELSE seen[k]
  BY DEF IInv, Shape, See, Handle, HandlePlain, HandleInstallation, HandleOutPhase,
         HandleCloudConnected, HandleChargerState
<1>3. ASSUME NEW j \in Cached \cap {"phaseMode", "grid"}
      PROVE  /\ cache'[j].at <= seen'[j]
             /\ ~late' /\ seen'[j] > 0 => cache'[j].value = Stored(j, history[j][seen'[j]])
  <2>1. /\ cache[j].at \in Nat /\ seen[j] \in Nat /\ cache[j].at <= seen[j] /\ j \in Kinds
        /\ ~late /\ seen[j] > 0 => cache[j].value = Stored(j, history[j][seen[j]])
    BY KindsTypes DEF IInv, TypeOK, OrderInv, CacheIsNewestInOrder, CacheIsNewest, Newest
  <2>2. CASE j # k
    <3>1. cache'[j] = cache[j]
      BY <2>2, KindsTypes DEF IInv, Shape, Store, Handle, HandlePlain, HandleInstallation,
         HandleOutPhase, HandleCloudConnected, HandleChargerState
    <3> QED BY <1>2, <2>1, <2>2, <3>1
  <2>3. CASE j = k
    <3>1. HandleInstallation(k, n)
      BY <2>3, KindsTypes DEF Handle, HandlePlain, SpecialKinds
    <3>2. CASE Same(k, n) \/ Outdated(k, n)
      <4>1. cache'[j] = cache[j]
        BY <3>1, <3>2 DEF HandleInstallation
      <4>2. Same(k, n) => cache[j].value = Stored(j, history[j][n])
        BY <2>3 DEF Same
      <4>3. Outdated(k, n) => n < seen[k]
        BY <1>1, <2>1, <2>3 DEF Outdated
      <4> QED BY <1>1, <1>2, <2>1, <2>3, <3>2, <4>1, <4>2, <4>3
    <3>3. CASE ~(Same(k, n) \/ Outdated(k, n))
      <4>1. cache'[j] = [at |-> n, value |-> Stored(j, history[j][n])]
        BY <2>3, <3>1, <3>3 DEF HandleInstallation, Store, IInv, Shape
      <4> QED BY <1>1, <1>2, <2>3, <4>1
    <3> QED BY <3>2, <3>3
  <2> QED BY <2>2, <2>3
<1>4. ASSUME ~late', "cloud" \in heard' PROVE isCloudOnline' = history["cloud"][seen'["cloud"]]
  <2>1. CASE k = "cloud"
    <3>1. isCloudOnline' = history["cloud"][n]
      BY <2>1, KindsTypes DEF Handle, HandlePlain, HandleInstallation, HandleCloudConnected,
         SpecialKinds
    <3> QED BY <1>1, <1>2, <1>4, <2>1, <3>1
  <2>2. CASE k # "cloud"
    <3>1. isCloudOnline' = isCloudOnline /\ heard' \subseteq heard \cup {k}
      BY <2>2 DEF Handle, HandlePlain, HandleInstallation, HandleOutPhase, HandleChargerState
    <3>2. "cloud" \in heard /\ "cloud" \in Kinds
      BY <1>4, <2>2, <3>1 DEF IInv, TypeOK
    <3> QED BY <1>2, <1>4, <2>2, <3>1, <3>2 DEF OrderInv, CacheIsNewestInOrder, CacheIsNewest, Newest
  <2> QED BY <2>1, <2>2
<1> QED BY <1>1, <1>3, <1>4 DEF OrderInv, CacheIsNewestInOrder, CacheIsNewest, Newest

\* Of the cache a command changes no more than what is requested.
LEMMA CommandsKeepCache ==
    ASSUME NEW c \in Callers, Commands(c)
    PROVE  /\ UNCHANGED <<history, cache, isCloudOnline, seen, heard>>
           /\ ~StoreRequested(c) => UNCHANGED requested
BY DEF Commands, Step, Command, Start, ReadRequested, Admit, Accept, Refuse, AnswerLost,
       Answered, StoreRequested, Request, Listen, Receive, Timeout, Leave, CallOnly, vars

LEMMA OrderStays ==
    ASSUME WholeInv, OrderInv, [HistoryNext]_historyVars
    PROVE  OrderInv'
<1> USE DEF WholeInv
<1>1. ASSUME UNCHANGED <<history, cache, seen>>, heard' = {} \/ UNCHANGED <<heard, isCloudOnline>>,
             ~late' => ~late
      PROVE  OrderInv'
  BY <1>1 DEF OrderInv, CacheIsNewestInOrder, CacheIsNewest, Newest
<1>2. CASE Pass \/ Reconnect \/ UNCHANGED historyVars
  <2>1. /\ UNCHANGED <<history, cache, seen>>
        /\ heard' = {} \/ UNCHANGED <<heard, isCloudOnline>>
    <3>1. CASE UNCHANGED vars
      BY <3>1 DEF vars
    <3>2. CASE Reconnect
      BY <3>2 DEF Reconnect, Connect
    <3>3. UNCHANGED historyVars => UNCHANGED vars
      BY DEF historyVars, allVars
    <3> QED BY <1>2, <3>1, <3>2, <3>3 DEF Pass, Tick
  <2>2. ~late' => ~late
    BY <1>2, Zenon DEF Pass, Reconnect, historyVars, remembered
  <2> QED BY <1>1, <2>1, <2>2
<1>3. ASSUME NEW c \in Callers, Give(c) PROVE OrderInv'
  <2>1. UNCHANGED <<history, cache, isCloudOnline, seen, heard>>
    BY <1>3, CommandsKeepCache DEF Give
  <2>2. ~late' => ~late
    BY <1>3, Zenon DEF Give
  <2> QED BY <1>1, <2>1, <2>2
<1>4. ASSUME NEW k \in Kinds, Observe(k) PROVE OrderInv'
  <2>1. ~late' => ~late
    BY <1>4, Zenon DEF Observe, remembered
  <2> QED BY <1>4, <2>1, MakeKeepsOrder DEF Observe
<1>5. ASSUME NEW k \in Kinds, NEW n \in DOMAIN history[k], Deliver(k, n) PROVE OrderInv'
  <2>1. ~late' => ~late /\ ~(n < seen[k])
    BY <1>5, Zenon DEF Deliver
  <2> QED BY <1>5, <2>1, DeliverKeepsOrder DEF Deliver, HandleAndPublish
<1> QED BY <1>2, <1>3, <1>4, <1>5 DEF HistoryNext

\* A step of a caller that leaves those with an accepted offer as they are.
LEMMA SameOffers ==
    ASSUME OfferInv, NEW c \in Callers, call \in [Callers -> Calls], call' \in [Callers -> Calls],
           \A d \in Callers : d # c => call'[d] = call[d],
           c \in Offering <=> c \in Offering',
           c \in Offering => call'[c].current = call[c].current,
           call'[c].at = "storing" => call'[c].op = "offer",
           UNCHANGED <<requested, lastOffer>>, ~confused' => ~confused
    PROVE  OfferInv'
<1>1. Offering' = Offering
  BY DEF Offering
<1>2. \A d \in Offering : call'[d].current = call[d].current
  BY DEF Offering
<1> QED BY <1>1, <1>2 DEF OfferInv, Offering

\* Whom a command concerns, and what it makes of the call.
LEMMA CommandCases ==
    ASSUME WholeInv, NEW c \in Callers, Commands(c)
    PROVE  /\ call \in [Callers -> Calls] /\ call' \in [Callers -> Calls]
           /\ \A d \in Callers : d # c => call'[d] = call[d]
           /\ \/ Accept(c) \/ AnswerLost(c) \/ Answered(c) \/ StoreRequested(c)
              \/ /\ call[c].at \notin {"accepted", "storing"}
                 /\ call'[c].at \notin {"accepted", "storing"}
<1>1. call \in [Callers -> Calls] /\ call' \in [Callers -> Calls]
  BY CommandsHold DEF WholeInv, ControlInv, ControlTypeOK
<1>2. /\ \A d \in Callers : d # c => call'[d] = call[d]
      /\ \/ Accept(c) \/ AnswerLost(c) \/ Answered(c) \/ StoreRequested(c)
         \/ /\ call[c].at \notin {"accepted", "storing"}
            /\ call'[c].at \notin {"accepted", "storing"}
  <2> USE DEF Goes, Returns
  <2>1. CASE Start(c)
    BY <1>1, <2>1 DEF Start
  <2>2. ASSUME NEW op \in Ops, NEW current \in Readings, Command(c, op, current)
        PROVE  /\ \A d \in Callers : d # c => call'[d] = call[d]
               /\ call[c].at = "idle" /\ call'[c].at = "token"
    BY <1>1, <2>2 DEF Command
  <2>3. CASE ReadRequested(c)
    BY <1>1, <2>3, IdleTypes DEF ReadRequested, Calls
  <2>4. CASE Accept(c) \/ AnswerLost(c) \/ Answered(c) \/ StoreRequested(c)
    BY <1>1, <2>4 DEF Accept, AnswerLost, Answered, StoreRequested
  <2>5. CASE Admit(c) \/ Refuse(c)
    BY <1>1, <2>5, IdleTypes DEF Admit, Refuse, Calls
  <2>6. CASE Listen(c) \/ Receive(c) \/ Timeout(c) \/ Leave(c)
    BY <1>1, <2>6, IdleTypes DEF Listen, Receive, Timeout, Leave, Calls
  <2> QED BY <2>1, <2>2, <2>3, <2>4, <2>5, <2>6 DEF Commands, Step
<1> QED BY <1>1, <1>2

LEMMA GiveKeepsOffer ==
    ASSUME WholeInv, OfferInv, NEW c \in Callers, Give(c)
    PROVE  OfferInv'
<1>0. Commands(c) /\ RememberOffer(c)
  BY DEF Give
<1>1. /\ call \in [Callers -> Calls] /\ call' \in [Callers -> Calls]
      /\ \A d \in Callers : d # c => call'[d] = call[d]
      /\ call[c] \in Calls
  BY <1>0, CommandCases
<1>2. ~confused' => ~confused /\ ~(c \in Offering /\ AnswerLost(c))
  BY <1>0, Zenon DEF RememberOffer
<1>3. CASE Accept(c) /\ call[c].op = "offer"
  <2>1. /\ lastOffer' = call[c].current
        /\ ~confused' => Offering = {}
    BY <1>0, <1>3, Zenon DEF RememberOffer
  <2>2. call'[c].at = "accepted" /\ call'[c].op = "offer" /\ call'[c].current = call[c].current
    BY <1>1, <1>3 DEF Accept, Calls
  <2>3. Offering' = Offering \cup {c}
    BY <1>1, <1>3, <2>2 DEF Offering, Accept
  <2> QED BY <1>1, <1>2, <2>1, <2>2, <2>3 DEF OfferInv
<1>4. ~(Accept(c) /\ call[c].op = "offer") => lastOffer' = lastOffer
  BY <1>0, Zenon DEF RememberOffer
<1>5. CASE Accept(c) /\ call[c].op # "offer"
  <2>1. call'[c].at = "accepted" /\ call'[c].op = call[c].op /\ requested' = requested
    BY <1>1, <1>5 DEF Accept, Calls, CallOnly, vars
  <2> QED BY <1>1, <1>2, <1>4, <1>5, <2>1, SameOffers DEF Offering
<1>6. CASE AnswerLost(c)
  <2>1. call'[c] = Idle /\ requested' = requested /\ ~(call[c].at = "sending")
    BY <1>1, <1>6 DEF AnswerLost, Returns, CallOnly, vars
  <2>2. lastOffer' = lastOffer
    BY <1>4, <2>1 DEF Accept
  <2>3. CASE c \in Offering
    BY <1>1, <1>2, <1>6, <2>1, <2>3, IdleTypes DEF OfferInv
  <2>4. CASE c \notin Offering
    BY <1>1, <1>2, <2>1, <2>2, <2>4, IdleTypes, SameOffers DEF Offering
  <2> QED BY <2>3, <2>4
<1>7. CASE Answered(c)
  <2>1. /\ call[c].at = "accepted" /\ requested' = requested
        /\ \/ call[c].op = "offer" /\ call' = [call EXCEPT ![c].at = "storing"]
           \/ call[c].op = "max" /\ call' = [call EXCEPT ![c].at = "listening"]
           \/ call[c].op \notin {"offer", "max"} /\ call' = [call EXCEPT ![c] = Idle]
    BY <1>7 DEF Answered, Goes, Returns, vars
  <2>2. lastOffer' = lastOffer
    BY <1>4, <2>1 DEF Accept
  <2>3. \/ /\ call[c].op = "offer" /\ call'[c].at = "storing" /\ call'[c].op = "offer"
           /\ call'[c].current = call[c].current
        \/ call[c].op # "offer" /\ call'[c].at \in {"listening", "idle"}
    BY <1>1, <2>1, IdleTypes DEF Calls
  <2> QED BY <1>1, <1>2, <2>1, <2>2, <2>3, SameOffers DEF Offering
<1>8. CASE StoreRequested(c)
  <2>1. /\ call[c].at = "storing" /\ requested' = call[c].current
        /\ call'[c].at = "listening"
    BY <1>1, <1>8 DEF StoreRequested, Request, Goes, Calls
  <2>2. lastOffer' = lastOffer
    BY <1>4, <2>1 DEF Accept
  <2>3. c \in Offering /\ Offering' = Offering \ {c}
    BY <1>1, <2>1 DEF OfferInv, Offering
  <2> QED BY <1>1, <1>2, <2>1, <2>2, <2>3 DEF OfferInv
<1>9. CASE call[c].at \notin {"accepted", "storing"} /\ call'[c].at \notin {"accepted", "storing"}
  <2>1. ~Accept(c) /\ ~StoreRequested(c)
    BY <1>1, <1>9 DEF Accept, StoreRequested, Calls
  <2>2. requested' = requested /\ lastOffer' = lastOffer
    BY <1>0, <1>4, <2>1, CommandsKeepCache
  <2> QED BY <1>1, <1>2, <1>9, <2>2, SameOffers DEF Offering
<1> QED BY <1>0, <1>3, <1>5, <1>6, <1>7, <1>8, <1>9, CommandCases

LEMMA OfferStays ==
    ASSUME WholeInv, OfferInv, [HistoryNext]_historyVars
    PROVE  OfferInv'
<1>1. ASSUME UNCHANGED <<call, requested, lastOffer>>, ~confused' => ~confused PROVE OfferInv'
  BY <1>1 DEF OfferInv, Offering
<1>2. CASE Pass \/ Reconnect \/ UNCHANGED historyVars \/ \E k \in Kinds : Observe(k)
  <2>1. UNCHANGED call
    BY <1>2, Zenon DEF Pass, Tick, Reconnect, Observe, historyVars, allVars, controlVars
  <2>2. UNCHANGED requested
    BY <1>2, Zenon DEF Pass, Tick, Reconnect, Connect, Observe, Make, historyVars, allVars, vars
  <2>3. UNCHANGED <<lastOffer, confused>>
    BY <1>2, Zenon DEF Pass, Reconnect, Observe, historyVars, remembered
  <2>4. ~confused' => ~confused
    BY <2>3, Zenon
  <2> QED BY <1>1, <2>1, <2>2, <2>3, <2>4
<1>3. ASSUME NEW c \in Callers, Give(c) PROVE OfferInv'
  BY <1>3, GiveKeepsOffer
<1>4. ASSUME NEW k \in Kinds, NEW n \in DOMAIN history[k], Deliver(k, n) PROVE OfferInv'
  <2>1. call' = call /\ Handle(k, n)
    BY <1>4 DEF Deliver, HandleAndPublish
  <2>2. CASE EndsSession(k, n)
    <3>1. lastOffer' = 0 /\ (~confused' => ~confused /\ Offering = {})
      BY <1>4, <2>2, Zenon DEF Deliver
    <3>2. requested' = 0
      BY <2>1, <2>2, KindsTypes DEF EndsSession, Handle, HandlePlain, HandleInstallation,
         HandleChargerState, SpecialKinds
    <3>3. Offering' = Offering
      BY <2>1 DEF Offering
    <3> QED BY <2>1, <3>1, <3>2, <3>3 DEF OfferInv
  <2>3. CASE ~EndsSession(k, n)
    <3>1. lastOffer' = lastOffer /\ (~confused' => ~confused)
      BY <1>4, <2>3, Zenon DEF Deliver
    <3>2. requested' = requested
      BY <2>1, <2>3 DEF EndsSession, Handle, HandlePlain, HandleInstallation, HandleOutPhase,
         HandleCloudConnected, HandleChargerState
    <3> QED BY <1>1, <2>1, <3>1, <3>2
  <2> QED BY <2>2, <2>3
<1> QED BY <1>2, <1>3, <1>4 DEF HistoryNext

\* The history only watches.
LEMMA HistorySteps == [HistoryNext]_historyVars => [ControlNext]_allVars
BY Zenon DEF HistoryNext, Pass, Reconnect, Give, Observe, Deliver, ControlNext, Observations,
   historyVars, remembered

LEMMA HistoryInductive == HistorySpec => []HistoryInv
<1>1. HistoryInv /\ [HistoryNext]_historyVars => HistoryInv'
  BY HistorySteps, ControlNextHolds, OrderStays, OfferStays DEF HistoryInv
<1> QED BY <1>1, HistoryInitHolds, PTL DEF HistorySpec

\* The watched behaviours are those of ChargerControl.
THEOREM HistoryKeepsControl == HistorySpec => ControlSpec
<1>1. HistoryInit => ControlInit
  BY DEF HistoryInit
<1> QED BY <1>1, HistorySteps, PTL DEF HistorySpec, ControlSpec

\* While the cloud keeps the order of each kind, repetitions included, the grid,
\* the phase mode and the online flag are the newest handled ones: leaving a
\* repeated value alone, and with it its timestamp, does no harm then.
THEOREM InOrderIsNewest == HistorySpec => []CacheIsNewestInOrder
<1>1. HistoryInv => CacheIsNewestInOrder
  BY DEF HistoryInv, OrderInv
<1> QED BY <1>1, HistoryInductive, PTL

\* Between commands the requested current is the last one the charger accepted,
\* or none once a session's end was handled, for any number of callers: unless
\* offers overlapped, a session ended during one or an answer was lost.
THEOREM LastAcceptedIsRequested == HistorySpec => []RequestIsLastAccepted
<1>1. HistoryInv => RequestIsLastAccepted
  BY DEF HistoryInv, OfferInv, RequestIsLastAccepted
<1> QED BY <1>1, HistoryInductive, PTL
=============================================================================
