-------------------------- MODULE ChargingSessions ---------------------------
(***************************************************************************)
(* The stored charging sessions of one charger (internal/db/db.go), the    *)
(* two observations that feed them (internal/signalr/handler.go), and the  *)
(* cloud, which sends the latest of both after every subscription and the  *)
(* new ones for as long as the subscription is served.                     *)
(*                                                                         *)
(* Sessions are numbered in the order in which they take place; session i  *)
(* begins at time 2i-1 and ends at time 2i.  What is in the bucket survives *)
(* a crash, what is on its way does not.                                   *)
(***************************************************************************)
EXTENDS Naturals, Sequences, FiniteSetsExt

CONSTANTS
    Sessions,     \* bound: sessions that take place
    StreamCap,    \* bound: observations on their way (100 in the code)
    StartsFirst   \* a batch lists the start before the stop

ASSUME SessionsAssumption    == Sessions \in Nat
ASSUME StreamCapAssumption   == StreamCap \in Nat
ASSUME StartsFirstAssumption == StartsFirst \in BOOLEAN

VARIABLES
    begun,    \* charger: the last session that has begun
    ended,    \* charger: the last session that has ended
    served,   \* cloud: the subscription is served
    stream,   \* observations received or on their way
    stored,   \* the bucket: session id -> record
    pending   \* the session whose second write is due, 0 when there is none

cloudVars == <<begun, ended, served>>
vars == <<cloudVars, stream, stored, pending>>

Session     == 1 .. Sessions
StartTime(i) == 2 * i - 1
StopTime(i)  == 2 * i
Never        == 0          \* the zero time

Observation == [kind : {"start", "stop"}, id : Session]
Started(i)  == [kind |-> "start", id |-> i]
Stopped(i)  == [kind |-> "stop", id |-> i]

Record   == [stop : 0 .. 2 * Sessions, energy : BOOLEAN]
Open     == [stop |-> Never, energy |-> FALSE]
Finished(i) == [stop |-> StopTime(i), energy |-> TRUE]

TypeOK ==
    /\ begun \in 0 .. Sessions
    /\ ended \in {begun, begun - 1} \cap 0 .. Sessions
    /\ served \in BOOLEAN
    /\ stream \in Seq(Observation)
    /\ Len(stream) <= StreamCap
    /\ DOMAIN stored \subseteq 1 .. begun
    /\ stored \in [DOMAIN stored -> Record]
    /\ pending \in 0 .. begun

Init ==
    /\ begun = 0 /\ ended = 0
    /\ served = FALSE
    /\ stream = <<>>
    /\ stored = [i \in {} |-> Open]
    /\ pending = 0

-----------------------------------------------------------------------------
(* LatestSessionsByChargerID: the two highest ids, in this order. *)

Latest   == Max(DOMAIN stored \cup {0})
Previous == Max((DOMAIN stored \ {Latest}) \cup {0})

LatestIsOpen == Latest # 0 /\ stored[Latest].stop = Never

Put(id, record) == [i \in DOMAIN stored \cup {id} |-> IF i = id THEN record ELSE stored[i]]

-----------------------------------------------------------------------------
(* The charger and the cloud. *)

Emit(observation) ==
    IF served THEN Len(stream) < StreamCap /\ stream' = Append(stream, observation)
              ELSE UNCHANGED stream

Begin ==
    /\ begun = ended /\ begun < Sessions
    /\ begun' = begun + 1
    /\ Emit(Started(begun'))
    /\ UNCHANGED <<ended, served, stored, pending>>

End ==
    /\ ended < begun
    /\ ended' = begun
    /\ Emit(Stopped(begun))
    /\ UNCHANGED <<begun, served, stored, pending>>

\* The latest observation of each kind.
Batches ==
    LET start == IF begun > 0 THEN <<Started(begun)>> ELSE <<>>
        stop  == IF ended > 0 THEN <<Stopped(ended)>> ELSE <<>>
    IN {start \o stop} \cup IF StartsFirst THEN {} ELSE {stop \o start}

\* Mutant of Subscribe: the batch overtakes what is on its way.
SubscribeFirst ==
    /\ served' = TRUE
    /\ \E batch \in Batches :
          /\ Len(stream) + Len(batch) <= StreamCap
          /\ stream' = batch \o stream
    /\ UNCHANGED <<begun, ended, stored, pending>>

\* "SubscribeWithCurrentState", also when it is already served: the answer to
\* the last attempt was lost.
Subscribe ==
    /\ served' = TRUE
    /\ \E batch \in Batches :
          /\ Len(stream) + Len(batch) <= StreamCap
          /\ stream' = stream \o batch
    /\ UNCHANGED <<begun, ended, stored, pending>>

\* The connection is lost, with the last observations sent on it.
Lose ==
    /\ served
    /\ served' = FALSE
    /\ \E n \in 0 .. Len(stream) : stream' = SubSeq(stream, 1, n)
    /\ UNCHANGED <<begun, ended, stored, pending>>

-----------------------------------------------------------------------------
(* handleChargingSessionStart and handleChargingSessionStop. *)

Turn(kind) == pending = 0 /\ stream # <<>> /\ Head(stream).kind = kind

\* RegisterSessionStart, first write: the latest session is still open and is
\* stopped, whichever it is.
CutLatest ==
    /\ Turn("start")
    /\ LatestIsOpen
    /\ stored' = [stored EXCEPT ![Latest].stop = StartTime(Head(stream).id)]
    /\ pending' = Head(stream).id
    /\ stream' = Tail(stream)
    /\ UNCHANGED cloudVars

\* Mutant of RegisterStart: the latest session is left as it is.
RegisterStartOnly ==
    /\ Turn("start")
    /\ stored' = Put(Head(stream).id, Open)
    /\ stream' = Tail(stream)
    /\ UNCHANGED <<cloudVars, pending>>

\* Mutant of RegisterStart: the session gets the next number instead of its own.
RegisterStartNumbered ==
    /\ Turn("start")
    /\ ~LatestIsOpen
    /\ stored' = Put(Latest + 1, Open)
    /\ stream' = Tail(stream)
    /\ UNCHANGED <<cloudVars, pending>>

\* No write is needed for the latest session.
RegisterStart ==
    /\ Turn("start")
    /\ ~LatestIsOpen
    /\ stored' = Put(Head(stream).id, Open)
    /\ stream' = Tail(stream)
    /\ UNCHANGED <<cloudVars, pending>>

\* Second write: the new session.
RegisterPending ==
    /\ pending # 0
    /\ stored' = Put(pending, Open)
    /\ pending' = 0
    /\ UNCHANGED <<cloudVars, stream>>

\* Mutant of RegisterStop: the energy of the session is not stored.
RegisterStopOnly ==
    /\ Turn("stop")
    /\ stored' = Put(Head(stream).id, [stop |-> StopTime(Head(stream).id), energy |-> FALSE])
    /\ stream' = Tail(stream)
    /\ UNCHANGED <<cloudVars, pending>>

\* Mutant of RegisterStop: the stop of a session that is not the latest is taken
\* for the latest's.
RegisterStopLatest ==
    /\ Turn("stop")
    /\ stored' = Put(Max({Latest, Head(stream).id}), Finished(Head(stream).id))
    /\ stream' = Tail(stream)
    /\ UNCHANGED <<cloudVars, pending>>

\* RegisterSessionStop: the whole record, whatever was stored.
RegisterStop ==
    /\ Turn("stop")
    /\ stored' = Put(Head(stream).id, Finished(Head(stream).id))
    /\ stream' = Tail(stream)
    /\ UNCHANGED <<cloudVars, pending>>

\* An observation that cannot be decoded, a database that refuses to read or
\* to write: the error is logged and the observation is gone.
Fail ==
    /\ \/ pending # 0 /\ pending' = 0 /\ UNCHANGED stream
       \/ pending = 0 /\ stream # <<>> /\ stream' = Tail(stream) /\ UNCHANGED pending
    /\ UNCHANGED <<cloudVars, stored>>

\* The adapter stops and starts again.
Crash ==
    /\ served' = FALSE
    /\ stream' = <<>>
    /\ pending' = 0
    /\ UNCHANGED <<begun, ended, stored>>

Handle == CutLatest \/ RegisterStart \/ RegisterPending \/ RegisterStop

Next == Begin \/ End \/ Subscribe \/ Lose \/ Handle \/ Fail \/ Crash

Spec == Init /\ [][Next]_vars

\* The behaviours in which every observation that is handled can be stored.
Reliable == Handle \/ Begin \/ End \/ Subscribe \/ Lose \/ Crash

-----------------------------------------------------------------------------
(* Whatever was lost, repeated or interrupted before: once everything sent on
   a served subscription is handled, the stored latest session is the one the
   charger is in, or was in last, open or finished as it really is, and the
   last finished session has its energy (what ChargepointCurrentSessionReport
   returns). *)
Converged ==
    served /\ stream = <<>> /\ pending = 0 /\ begun > 0 =>
        /\ Latest = begun
        /\ stored[Latest].stop = Never <=> ended < begun
        /\ ended > 0 => stored[ended] = Finished(ended)
        /\ ended \in {0, Latest, Previous}

(* At most the latest stored session is open: a session whose stop was missed
   is closed before a later one is stored. *)
OnlyLatestOpen == \A i \in DOMAIN stored : stored[i].stop = Never => i = Latest

(* Whatever comes again, and in whatever order a batch lists it: a finished
   session with a later one behind it is never touched again. *)
HistoryStays ==
    [][\A i \in DOMAIN stored :
          stored[i] = Finished(i) /\ (\E j \in DOMAIN stored : j > i)
              => stored'[i] = Finished(i)]_vars

(* db.go:27, "RegisterSessionStop registers stop charging session for charger
   with chargerID": a session that has been registered as stopped stays so.
   A start that comes again opens it again, so this does not hold. *)
StopStaysRegistered ==
    [][\A i \in DOMAIN stored : stored[i] = Finished(i) => stored'[i] = Finished(i)]_vars

(* db_test.go, "Start time of a new session is treated as a stop time of the
   previous session": no session is stopped by its own start.  The first of
   the two writes does it when the start of an open session comes again. *)
OnlyNewSessionsCut ==
    \A i \in DOMAIN stored : stored[i].stop = Never \/ stored[i].stop > StartTime(i)
=============================================================================
