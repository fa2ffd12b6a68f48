-------------------------- MODULE EnergyHandlerProofs --------------------------
(***************************************************************************)
(* Proofs about EnergyHandler, for any meter, hours and capacity.          *)
(*                                                                         *)
(* While a collector collects, the cache does not change; so an            *)
(* observation of an hour that is cached can only be the one the run loop  *)
(* had in its hands when the collector was created.                        *)
(***************************************************************************)
EXTENDS EnergyHandler, FiniteSetTheorems, SequenceTheorems, TLAPS

USE LastAssumption, PerHourAssumption, MeterAssumption, CapAssumption

\* The observation that the run loop may still put into the channel.
Pending == IF step \in {"checked", "found", "sending"} THEN {handled} ELSE {}

Stale(t) == Hour(t) <= Hour(cached.at)

\* At most one that the collector has, or may get, is of an hour already cached.
RepeatInv ==
    collector = "collecting" =>
        \A s, t \in Ahead \cup Pending : Stale(s) /\ Stale(t) => s = t

IInv == TypeOK /\ RepeatInv

-----------------------------------------------------------------------------
LEMMA ValueTypes ==
    /\ Nothing \in Values /\ Nothing.at = 0
    /\ \A t \in Moment : Value(t) \in Values /\ Value(t).at = t
    /\ \A v \in Values : v.at \in 0 .. Last /\ v.energy \in Nat
BY DEF Values, Value, Nothing, Moment

LEMMA HourTypes == \A t \in 0 .. Last : Hour(t) \in Int
BY DEF Hour

\* What is taken out of the queue, and what is put in.
LEMMA TailRange ==
    ASSUME NEW S, NEW seq \in Seq(S), seq # <<>>
    PROVE  /\ Tail(seq) \in Seq(S) /\ Len(Tail(seq)) = Len(seq) - 1 /\ Head(seq) \in S
           /\ Range(Tail(seq)) \subseteq Range(seq) /\ Head(seq) \in Range(seq)
<1>1. /\ Tail(seq) \in Seq(S) /\ Len(Tail(seq)) = Len(seq) - 1 /\ Len(seq) \in Nat \ {0}
      /\ \A i \in 1 .. Len(Tail(seq)) : Tail(seq)[i] = seq[i + 1]
      /\ Head(seq) = seq[1] /\ Head(seq) \in S
  BY HeadTailProperties, EmptySeq, LenProperties
<1>2. Range(Tail(seq)) \subseteq Range(seq)
  BY <1>1 DEF Range
<1>3. Head(seq) \in Range(seq)
  BY <1>1 DEF Range
<1> QED BY <1>1, <1>2, <1>3

LEMMA AppendRange ==
    ASSUME NEW S, NEW seq \in Seq(S), NEW x \in S
    PROVE  /\ Append(seq, x) \in Seq(S) /\ Len(Append(seq, x)) = Len(seq) + 1
           /\ Range(Append(seq, x)) \subseteq Range(seq) \cup {x}
<1>1. /\ Append(seq, x) \in Seq(S) /\ Len(Append(seq, x)) = Len(seq) + 1 /\ Len(seq) \in Nat
      /\ \A i \in 1 .. Len(seq) : Append(seq, x)[i] = seq[i]
      /\ Append(seq, x)[Len(seq) + 1] = x
  BY AppendProperties, LenProperties
<1>2. ASSUME NEW i \in 1 .. Len(seq) + 1 PROVE Append(seq, x)[i] \in Range(seq) \cup {x}
  <2>1. CASE i \in 1 .. Len(seq)
    BY <1>1, <2>1 DEF Range
  <2>2. CASE i = Len(seq) + 1
    BY <1>1, <2>2
  <2> QED BY <1>1, <2>1, <2>2
<1>3. DOMAIN Append(seq, x) = 1 .. Len(seq) + 1
  BY <1>1, LenProperties
<1> QED BY <1>1, <1>2, <1>3 DEF Range

LEMMA InitHolds == Init => IInv
<1> SUFFICES ASSUME Init PROVE IInv
  OBVIOUS
<1>1. 1 \in Moment
  BY DEF Moment
<1>2. queue \in Seq(Moment) /\ Len(queue) = 0
  BY EmptySeq DEF Init
<1>3. Len(queue) <= Cap
  BY <1>2
<1>4. TypeOK
  BY <1>1, <1>2, <1>3, ValueTypes DEF Init, TypeOK
<1>5. RepeatInv
  BY DEF Init, RepeatInv
<1> QED BY <1>4, <1>5 DEF IInv

\* A step that leaves the cache alone and gives the collector nothing new but
\* observations of later hours.
LEMMA SameCache ==
    ASSUME RepeatInv, UNCHANGED cached, collector' = "collecting" => collector = "collecting",
           \A t \in (Ahead \cup Pending)' : t \in Ahead \cup Pending \/ ~Stale(t)
    PROVE  RepeatInv'
BY DEF RepeatInv, Stale

-----------------------------------------------------------------------------
LEMMA ObserveHolds == ASSUME IInv, NEW t \in Moment, Observe(t) PROVE IInv'
<1>1. Hour(t) \in Int /\ Hour(cached.at) \in Int
  BY HourTypes, ValueTypes DEF IInv, TypeOK, Moment
<1>2. ~Stale(t)
  BY <1>1 DEF Observe, Stale
<1>3. TypeOK'
  BY DEF IInv, TypeOK, Observe, loopVars, collectorVars
<1>4. RepeatInv'
  BY <1>2, SameCache DEF IInv, Observe, Pending, Ahead, loopVars, collectorVars
<1> QED BY <1>3, <1>4 DEF IInv

LEMMA CreateHolds == ASSUME IInv, Create PROVE IInv'
<1>1. TypeOK'
  BY ValueTypes, CapAssumption DEF IInv, TypeOK, Create
<1>2. Ahead' = {} /\ Pending' = {handled}
  BY ValueTypes DEF Create, Ahead, Pending, Range
<1> QED BY <1>1, <1>2 DEF IInv, RepeatInv

LEMMA FindHolds == ASSUME IInv, Find PROVE IInv'
<1>1. TypeOK'
  BY DEF IInv, TypeOK, Find, collectorVars
<1>2. RepeatInv'
  BY SameCache DEF IInv, Find, Pending, Ahead, collectorVars
<1> QED BY <1>1, <1>2 DEF IInv

LEMMA ResolveHolds == ASSUME IInv, Resolve PROVE IInv'
<1>1. TypeOK'
  BY DEF IInv, TypeOK, Resolve, collectorVars
<1>2. RepeatInv'
  BY SameCache DEF IInv, Resolve, Pending, Ahead, collectorVars
<1> QED BY <1>1, <1>2 DEF IInv

LEMMA SendHolds == ASSUME IInv, Send PROVE IInv'
<1>1. /\ queue' = Append(queue, handled) /\ queue \in Seq(Moment) /\ handled \in Moment
      /\ step = "sending" /\ step' = "idle" /\ Len(queue) < Cap
      /\ UNCHANGED <<now, cached, handled, channel, collector, latest>>
  BY DEF IInv, TypeOK, Send, collectorVars
<1>2. /\ queue' \in Seq(Moment) /\ Len(queue') = Len(queue) + 1
      /\ Range(queue') \subseteq Range(queue) \cup {handled}
  BY <1>1, AppendRange
<1>3. TypeOK'
  BY <1>1, <1>2, LenProperties DEF IInv, TypeOK
<1>4. (Ahead \cup Pending)' \subseteq Ahead \cup Pending
  BY <1>1, <1>2 DEF Ahead, Pending
<1> QED BY <1>1, <1>3, <1>4, SameCache DEF IInv

LEMMA ReceiveHolds == ASSUME IInv, Receive \/ Discard PROVE IInv'
<1>1. /\ collector = "collecting" /\ queue # <<>> /\ queue' = Tail(queue) /\ queue \in Seq(Moment)
      /\ latest' \in {latest, Value(Head(queue))}
      /\ UNCHANGED <<now, cached, step, handled, channel, collector>>
  BY DEF IInv, TypeOK, Receive, Discard, loopVars, collectorVars
<1>2. /\ queue' \in Seq(Moment) /\ Len(queue') = Len(queue) - 1 /\ Head(queue) \in Moment
      /\ Range(queue') \subseteq Range(queue) /\ Head(queue) \in Range(queue)
  BY <1>1, TailRange
<1>3. latest' \in Values /\ latest'.at \in {latest.at, Head(queue)}
  BY <1>1, <1>2, ValueTypes DEF IInv, TypeOK
<1>4. TypeOK'
  BY <1>1, <1>2, <1>3, LenProperties DEF IInv, TypeOK
<1>5. (Ahead \cup Pending)' \subseteq Ahead \cup Pending
  BY <1>1, <1>2, <1>3 DEF Ahead, Pending
<1> QED BY <1>1, <1>4, <1>5, SameCache DEF IInv

\* The collector collects no more.
LEMMA EndHolds == ASSUME IInv, Fire \/ Exit PROVE IInv'
BY DEF IInv, TypeOK, RepeatInv, Fire, Exit, SetLifetimeEnergy, loopVars, collectorVars

LEMMA QuietHolds == ASSUME IInv, Tick \/ UNCHANGED vars PROVE IInv'
<1>1. /\ now' \in Moment
      /\ UNCHANGED <<cached, step, handled, channel, queue, collector, latest>>
  BY DEF IInv, TypeOK, Tick, vars, loopVars, collectorVars, Moment
<1> QED BY <1>1 DEF IInv, TypeOK, RepeatInv, Ahead, Pending, Stale

LEMMA NextHolds == IInv /\ [Next]_vars => IInv'
BY ObserveHolds, CreateHolds, FindHolds, ResolveHolds, SendHolds, ReceiveHolds, EndHolds, QuietHolds
   DEF Next, Loop, Collector

LEMMA Inductive == Spec => []IInv
BY InitHolds, NextHolds, PTL DEF Spec

-----------------------------------------------------------------------------
(* Types are kept for any meter and capacity: the channel is never overfilled,
   and what is cached is a reading of the meter. *)
THEOREM TypeCorrect == Spec => []TypeOK
<1>1. IInv => TypeOK
  BY DEF IInv
<1> QED BY <1>1, Inductive, PTL

(* At most one observation of an hour that is already cached reaches a
   collector. *)
THEOREM RepetitionIsOnce == Spec => []AtMostOneRepeated
<1>1. IInv => AtMostOneRepeated
  <2> SUFFICES ASSUME IInv, collector = "collecting"
               PROVE  Cardinality({t \in Ahead : Hour(t) <= Hour(cached.at)}) <= 1
    BY DEF AtMostOneRepeated
  <2> DEFINE repeated == {t \in Ahead : Hour(t) <= Hour(cached.at)}
  <2>1. \A s, t \in repeated : s = t
    BY DEF IInv, RepeatInv, Stale
  <2> HIDE DEF repeated
  <2>2. Cardinality({}) = 0
    BY FS_EmptySet
  <2>3. ASSUME NEW t \in repeated PROVE Cardinality(repeated) = 1
    <3>1. repeated = {t}
      BY <2>1
    <3>2. Cardinality({t}) = 1
      BY FS_Singleton
    <3> QED BY <3>1, <3>2
  <2>4. repeated = {} \/ \E t \in repeated : TRUE
    OBVIOUS
  <2>5. Cardinality(repeated) \in {0, 1}
    BY <2>2, <2>3, <2>4
  <2>6. Cardinality(repeated) <= 1
    BY <2>5
  <2> QED BY <2>6 DEF repeated
<1> QED BY <1>1, Inductive, PTL
=============================================================================
