----------------------- MODULE ChargingSessionsProofs ------------------------
(***************************************************************************)
(* Proofs about ChargingSessions, for any number of sessions and any       *)
(* number of observations on their way, with failures and crashes, and     *)
(* with a batch in either order.                                           *)
(*                                                                         *)
(* That history stays rests on an order that no single variable shows: a   *)
(* start on its way is of a session no earlier than anything before it,    *)
(* stored, pending or on its way.  That the sessions converge rests on     *)
(* what is stored and what is on its way taken together: at every moment   *)
(* the two say what the charger does, as long as nothing was missed.       *)
(***************************************************************************)
EXTENDS MCChargingSessions, WellFoundedInduction, SequenceTheorems, TLAPS

IsStart(p) == stream[p].kind = "start"

\* What is on its way has happened, and starts come in order.
StreamInv ==
    /\ \A p \in DOMAIN stream : stream[p].id <= begun
    /\ \A p, q \in DOMAIN stream : p < q /\ IsStart(q) => stream[p].id <= stream[q].id

\* No start on its way is of a session before a stored or the pending one.
StoreInv ==
    /\ \A i \in DOMAIN stored : \A q \in DOMAIN stream : IsStart(q) => i <= stream[q].id
    /\ \A q \in DOMAIN stream : IsStart(q) => pending <= stream[q].id
    /\ pending # 0 => \A i \in DOMAIN stored : i <= pending

IInv == TypeOK /\ StreamInv /\ StoreInv

USE SessionsAssumption, StreamCapAssumption, StartsFirstAssumption

-----------------------------------------------------------------------------
\* The maximum of a non-empty set of numbers below a bound is in it and above
\* the others.
LEMMA MaxOf ==
    ASSUME NEW n \in Nat, NEW S, S \subseteq 0 .. n, S # {}
    PROVE  Max(S) \in S /\ \A x \in S : x <= Max(S)
<1> DEFINE Below == {n - x : x \in S}
<1>1. Below \subseteq Nat /\ Below # {}
  <2>1. \A x \in S : n - x \in Nat
    OBVIOUS
  <2>2. PICK x \in S : TRUE
    OBVIOUS
  <2>3. n - x \in Below
    BY <2>2
  <2> QED BY <2>1, <2>3
<1>2. PICK low \in Below : \A y \in Below : ~ (<<y, low>> \in OpToRel(<, Nat))
  BY <1>1, NatLessThanWellFounded, WFMin
<1>3. \A y \in Below : ~ (y < low)
  BY <1>1, <1>2 DEF OpToRel
<1>4. PICK top \in S : low = n - top
  OBVIOUS
<1>5. \A x \in S : top >= x
  <2> SUFFICES ASSUME NEW x \in S PROVE top >= x
    OBVIOUS
  <2>1. n - x \in Below
    OBVIOUS
  <2>2. ~ (n - x < n - top)
    BY <2>1, <1>3, <1>4
  <2> QED BY <2>2
<1>6. Max(S) \in S /\ \A x \in S : Max(S) >= x
  BY <1>5 DEF Max
<1> QED BY <1>6

\* Latest is the highest stored id, or 0.
LEMMA LatestIs ==
    ASSUME TypeOK
    PROVE  /\ Latest \in DOMAIN stored \cup {0}
           /\ \A i \in DOMAIN stored : i <= Latest
<1>1. begun \in Nat /\ DOMAIN stored \cup {0} \subseteq 0 .. begun
  BY DEF TypeOK
<1> QED BY <1>1, MaxOf DEF Latest

\* The types of what the handlers take from the stream.
LEMMA HeadOf ==
    ASSUME TypeOK, stream # <<>>
    PROVE  /\ Head(stream) \in Observation /\ Head(stream) = stream[1] /\ 1 \in DOMAIN stream
           /\ Tail(stream) \in Seq(Observation) /\ Len(Tail(stream)) <= StreamCap
           /\ \A p \in DOMAIN Tail(stream) : /\ p + 1 \in DOMAIN stream
                                              /\ Tail(stream)[p] = stream[p + 1]
<1>1. stream \in Seq(Observation) /\ Len(stream) <= StreamCap /\ Len(stream) \in Nat
  BY DEF TypeOK
<1>2. /\ Head(stream) \in Observation
      /\ Tail(stream) \in Seq(Observation) /\ Len(Tail(stream)) = Len(stream) - 1
      /\ \A i \in 1 .. Len(Tail(stream)) : Tail(stream)[i] = stream[i + 1]
  BY <1>1, HeadTailProperties
<1>3. Len(stream) > 0 /\ DOMAIN stream = 1 .. Len(stream) /\ Head(stream) = stream[1]
  BY <1>1
<1>4. DOMAIN Tail(stream) = 1 .. Len(stream) - 1
  BY <1>2
<1> QED BY <1>1, <1>2, <1>3, <1>4

\* Taking the first observation keeps the stream in order.
LEMMA TailInOrder ==
    ASSUME TypeOK, StreamInv, stream # <<>>, stream' = Tail(stream), begun' = begun
    PROVE  StreamInv'
BY HeadOf DEF StreamInv, IsStart

-----------------------------------------------------------------------------
\* The initial state satisfies the inductive invariant.
LEMMA InitInv == Init => IInv
<1> SUFFICES ASSUME Init PROVE IInv
  OBVIOUS
<1>1. DOMAIN stored = {} /\ DOMAIN stream = {} /\ Len(stream) = 0 /\ stream \in Seq(Observation)
  BY DEF Init
<1>2. stored \in [DOMAIN stored -> Record]
  BY <1>1 DEF Init
<1>3. served \in BOOLEAN
  BY Zenon DEF Init
<1>4. begun = 0 /\ ended = 0 /\ pending = 0
  BY DEF Init
<1>5. TypeOK
  BY <1>1, <1>2, <1>3, <1>4 DEF TypeOK
<1> QED BY <1>1, <1>4, <1>5 DEF IInv, StreamInv, StoreInv

\* The charger goes on: what it sends is the latest there is.
LEMMA ChargerInv == IInv /\ (Begin \/ End) => IInv'
<1> SUFFICES ASSUME IInv, Begin \/ End PROVE IInv'
  OBVIOUS
<1> USE DEF IInv
<1>1. PICK o \in Observation : 
        /\ Emit(o) /\ o.id = begun'
        /\ begun' \in Session /\ begun' >= begun /\ ended' \in {begun', begun' - 1} \cap 0 .. Sessions
        /\ UNCHANGED <<served, stored, pending>>
  <2>1. CASE Begin
    <3>1. begun' \in Session /\ begun' = begun + 1
      BY <2>1 DEF Begin, TypeOK, Session
    <3>2. Started(begun') \in Observation /\ Started(begun').id = begun'
      BY <3>1 DEF Started, Observation
    <3> QED BY <2>1, <3>1, <3>2 DEF Begin, TypeOK
  <2>2. CASE End
    <3>1. begun \in Session /\ begun' = begun
      BY <2>2 DEF End, TypeOK, Session
    <3>2. Stopped(begun) \in Observation /\ Stopped(begun).id = begun
      BY <3>1 DEF Stopped, Observation
    <3> QED BY <2>2, <3>1, <3>2 DEF End, TypeOK
  <2> QED BY <2>1, <2>2
<1>2. /\ stream \in Seq(Observation) /\ Len(stream) \in Nat /\ DOMAIN stream = 1 .. Len(stream)
      /\ \A p \in DOMAIN stream : stream[p].id \in Nat
  <2>1. stream \in Seq(Observation)
    BY DEF TypeOK
  <2>2. \A p \in DOMAIN stream : stream[p] \in Observation
    BY <2>1
  <2> QED BY <2>1, <2>2 DEF Observation, Session
<1>3. begun \in Nat /\ begun' \in Nat /\ Session \subseteq Nat
  BY <1>1 DEF TypeOK, Session
<1>4. /\ stream' \in Seq(Observation) /\ Len(stream') <= StreamCap
      /\ \A p \in DOMAIN stream' :
            \/ p \in DOMAIN stream /\ stream'[p] = stream[p]
            \/ p = Len(stream) + 1 /\ stream'[p] = o
  <2>1. CASE stream' = stream
    BY <1>2, <2>1 DEF TypeOK
  <2>2. CASE Len(stream) < StreamCap /\ stream' = Append(stream, o)
    BY <1>2, <2>2, AppendProperties
  <2> QED BY <1>1, <2>1, <2>2 DEF Emit
<1>5. TypeOK'
  BY <1>1, <1>3, <1>4 DEF TypeOK, Session
<1>6. StreamInv'
  <2>1. \A p \in DOMAIN stream' : stream'[p].id <= begun'
    BY <1>1, <1>2, <1>3, <1>4 DEF StreamInv
  <2>2. ASSUME NEW p \in DOMAIN stream', NEW q \in DOMAIN stream', p < q, stream'[q].kind = "start"
        PROVE  stream'[p].id <= stream'[q].id
    <3>1. CASE q \in DOMAIN stream /\ stream'[q] = stream[q]
      <4>1. p \in DOMAIN stream /\ stream'[p] = stream[p]
        BY <1>2, <1>4, <2>2, <3>1
      <4> QED BY <2>2, <3>1, <4>1 DEF StreamInv, IsStart
    <3>2. CASE stream'[q] = o
      BY <1>1, <2>1, <3>2
    <3> QED BY <1>4, <2>2, <3>1, <3>2
  <2> QED BY <2>1, <2>2 DEF StreamInv, IsStart
<1>7. StoreInv'
  <2>1. \A i \in DOMAIN stored : i \in Nat /\ i <= begun
    BY <1>3 DEF TypeOK
  <2>2. pending \in Nat /\ pending <= begun
    BY <1>3 DEF TypeOK
  <2>3. ASSUME NEW q \in DOMAIN stream', stream'[q].kind = "start"
        PROVE  (\A i \in DOMAIN stored : i <= stream'[q].id) /\ pending <= stream'[q].id
    <3>1. CASE q \in DOMAIN stream /\ stream'[q] = stream[q]
      BY <2>3, <3>1 DEF StoreInv, IsStart
    <3>2. CASE stream'[q] = o
      BY <1>1, <1>3, <2>1, <2>2, <3>2
    <3> QED BY <1>4, <3>1, <3>2
  <2>4. pending' = pending /\ stored' = stored
    BY <1>1
  <2> QED BY <2>3, <2>4 DEF StoreInv, IsStart
<1> QED BY <1>5, <1>6, <1>7

\* Observations that have happened, whose starts are of the last session.
UpToDate(s) ==
    /\ s \in Seq(Observation)
    /\ \A p \in DOMAIN s : s[p].id <= begun /\ (s[p].kind = "start" => s[p].id = begun)

LEMMA JoinedUpToDate ==
    ASSUME NEW s, NEW u, UpToDate(s), UpToDate(u)
    PROVE  UpToDate(s \o u)
BY ConcatProperties DEF UpToDate

LEMMA SingleUpToDate ==
    ASSUME NEW o \in Observation, o.id <= begun, o.kind = "start" => o.id = begun
    PROVE  UpToDate(<<o>>) /\ UpToDate(<<>>)
<1>1. <<o>> \in Seq(Observation) /\ DOMAIN <<o>> = {1} /\ <<o>>[1] = o
  OBVIOUS
<1>2. <<>> \in Seq(Observation) /\ DOMAIN <<>> = {}
  OBVIOUS
<1> QED BY <1>1, <1>2 DEF UpToDate

\* The batch that follows a subscription is up to date.
LEMMA BatchUpToDate ==
    ASSUME begun \in 0 .. Sessions, ended \in 0 .. Sessions, ended <= begun,
           NEW batch \in Batches
    PROVE  UpToDate(batch)
<1> DEFINE start == IF begun > 0 THEN <<Started(begun)>> ELSE <<>>
           stop  == IF ended > 0 THEN <<Stopped(ended)>> ELSE <<>>
<1>0. UpToDate(<<>>)
  BY DEF UpToDate
<1>1. UpToDate(start)
  <2>1. CASE begun > 0
    <3>1. Started(begun) \in Observation /\ Started(begun).id = begun
      BY <2>1 DEF Started, Observation, Session
    <3> QED BY <2>1, <3>1, SingleUpToDate
  <2>2. CASE ~(begun > 0)
    BY <1>0, <2>2
  <2> QED BY <2>1, <2>2
<1>2. UpToDate(stop)
  <2>1. CASE ended > 0
    <3>1. /\ Stopped(ended) \in Observation /\ Stopped(ended).id = ended
          /\ Stopped(ended).kind # "start"
      BY <2>1 DEF Stopped, Observation, Session
    <3> QED BY <2>1, <3>1, SingleUpToDate
  <2>2. CASE ~(ended > 0)
    BY <1>0, <2>2
  <2> QED BY <2>1, <2>2
<1>3. UpToDate(start \o stop) /\ UpToDate(stop \o start)
  BY <1>1, <1>2, JoinedUpToDate
<1>4. batch = start \o stop \/ batch = stop \o start
  BY DEF Batches
<1> QED BY <1>3, <1>4

\* A batch repeats what has happened last.
LEMMA SubscribeInv == IInv /\ Subscribe => IInv'
<1> SUFFICES ASSUME IInv, Subscribe PROVE IInv'
  OBVIOUS
<1> USE DEF IInv
<1>1. PICK batch \in Batches :
        Len(stream) + Len(batch) <= StreamCap /\ stream' = stream \o batch
  BY DEF Subscribe
<1>2. served' = TRUE /\ UNCHANGED <<begun, ended, stored, pending>>
  BY DEF Subscribe
<1>3. begun \in 0 .. Sessions /\ ended \in 0 .. Sessions /\ ended <= begun
  BY DEF TypeOK
<1>4. UpToDate(batch)
  BY <1>1, <1>3, BatchUpToDate
<1>5. /\ stream \in Seq(Observation) /\ Len(stream) \in Nat /\ DOMAIN stream = 1 .. Len(stream)
      /\ Len(batch) \in Nat /\ DOMAIN batch = 1 .. Len(batch)
  BY <1>4 DEF TypeOK, UpToDate
<1>6. /\ stream' \in Seq(Observation) /\ Len(stream') <= StreamCap
      /\ DOMAIN stream' = 1 .. Len(stream) + Len(batch)
      /\ \A p \in DOMAIN stream' :
            stream'[p] = IF p <= Len(stream) THEN stream[p] ELSE batch[p - Len(stream)]
  BY <1>1, <1>4, <1>5, ConcatProperties DEF UpToDate
<1>7. TypeOK'
  BY <1>2, <1>6, Zenon DEF TypeOK
<1>8. ASSUME NEW p \in DOMAIN stream'
      PROVE  \/ p \in DOMAIN stream /\ stream'[p] = stream[p]
             \/ /\ p > Len(stream)
                /\ stream'[p].id <= begun
                /\ stream'[p].kind = "start" => stream'[p].id = begun
  <2>1. CASE p <= Len(stream)
    BY <1>5, <1>6, <2>1
  <2>2. CASE p > Len(stream)
    <3>1. p - Len(stream) \in DOMAIN batch /\ stream'[p] = batch[p - Len(stream)]
      BY <1>5, <1>6, <2>2
    <3> QED BY <1>4, <2>2, <3>1 DEF UpToDate
  <2> QED BY <1>5, <1>6, <2>1, <2>2
<1>9. StreamInv'
  <2>1. \A p \in DOMAIN stream' : stream'[p].id <= begun'
    BY <1>2, <1>8 DEF StreamInv
  <2>2. ASSUME NEW p \in DOMAIN stream', NEW q \in DOMAIN stream', p < q, stream'[q].kind = "start"
        PROVE  stream'[p].id <= stream'[q].id
    <3>1. CASE q \in DOMAIN stream /\ stream'[q] = stream[q]
      <4>1. p \in DOMAIN stream /\ stream'[p] = stream[p]
        BY <1>5, <1>6, <2>2, <3>1
      <4> QED BY <2>2, <3>1, <4>1 DEF StreamInv, IsStart
    <3>2. CASE stream'[q].id = begun
      BY <1>2, <2>1, <3>2
    <3> QED BY <1>8, <2>2, <3>1, <3>2
  <2> QED BY <2>1, <2>2 DEF StreamInv, IsStart
<1>10. StoreInv'
  <2>1. (\A i \in DOMAIN stored : i \in Nat /\ i <= begun) /\ pending \in Nat /\ pending <= begun
    BY <1>3 DEF TypeOK
  <2>2. ASSUME NEW q \in DOMAIN stream', stream'[q].kind = "start"
        PROVE  (\A i \in DOMAIN stored : i <= stream'[q].id) /\ pending <= stream'[q].id
    <3>1. CASE q \in DOMAIN stream /\ stream'[q] = stream[q]
      BY <2>2, <3>1 DEF StoreInv, IsStart
    <3>2. CASE stream'[q].id = begun
      BY <2>1, <3>2
    <3> QED BY <1>8, <2>2, <3>1, <3>2
  <2> QED BY <1>2, <2>2 DEF StoreInv, IsStart
<1> QED BY <1>7, <1>9, <1>10

\* What is lost, with the connection or with the process, leaves a prefix.
LEMMA LossInv == IInv /\ (Lose \/ Crash) => IInv'
<1> SUFFICES ASSUME IInv, Lose \/ Crash PROVE IInv'
  OBVIOUS
<1> USE DEF IInv
<1>1. /\ served' = FALSE /\ UNCHANGED <<begun, ended, stored>>
      /\ pending' \in {0, pending}
  BY DEF Lose, Crash
<1>2. /\ stream' \in Seq(Observation) /\ Len(stream') <= StreamCap
      /\ \A p \in DOMAIN stream' : p \in DOMAIN stream /\ stream'[p] = stream[p]
  <2>1. stream \in Seq(Observation) /\ Len(stream) \in Nat /\ Len(stream) <= StreamCap
    BY DEF TypeOK
  <2>2. CASE Lose
    <3>1. PICK n \in 0 .. Len(stream) : stream' = SubSeq(stream, 1, n)
      BY <2>2 DEF Lose
    <3>2. /\ stream' \in Seq(Observation) /\ Len(stream') = n
          /\ \A i \in 1 .. n : stream'[i] = stream[i]
      BY <2>1, <3>1
    <3> QED BY <2>1, <3>2
  <2>3. CASE Crash
    BY <2>3 DEF Crash
  <2> QED BY <2>2, <2>3
<1>3. served' \in BOOLEAN
  BY <1>1, Zenon
<1>4. pending' \in 0 .. begun
  BY <1>1 DEF TypeOK
<1>5. TypeOK'
  BY <1>1, <1>2, <1>3, <1>4 DEF TypeOK
<1>6. StreamInv'
  BY <1>1, <1>2 DEF StreamInv, IsStart
<1>7. StoreInv'
  <2>1. ASSUME NEW q \in DOMAIN stream', stream'[q].kind = "start" PROVE pending' <= stream'[q].id
    <3>1. stream'[q].id \in Nat
      <4>1. stream'[q] \in Observation
        BY <1>2
      <4> QED BY <4>1 DEF Observation, Session
    <3> QED BY <1>1, <1>2, <2>1, <3>1 DEF StoreInv, IsStart
  <2> QED BY <1>1, <1>2, <2>1 DEF StoreInv, IsStart
<1> QED BY <1>5, <1>6, <1>7

\* A first write touches the latest session alone; the pending one is no
\* earlier.
LEMMA CutInv == IInv /\ CutLatest => IInv'
<1> SUFFICES ASSUME IInv, CutLatest PROVE IInv'
  OBVIOUS
<1> USE DEF IInv
<1>1. /\ stream # <<>> /\ IsStart(1) /\ stream' = Tail(stream)
      /\ Latest \in DOMAIN stored
      /\ stored' = [stored EXCEPT ![Latest].stop = StartTime(Head(stream).id)]
      /\ pending' = Head(stream).id
      /\ UNCHANGED <<begun, ended, served>>
  BY HeadOf, LatestIs DEF CutLatest, Turn, LatestIsOpen, IsStart, cloudVars
<1>2. /\ Head(stream) = stream[1] /\ 1 \in DOMAIN stream
      /\ Head(stream).id \in Session /\ Head(stream).id <= begun
  BY <1>1, HeadOf DEF Observation, StreamInv
<1>3. TypeOK'
  <2>1. stored \in [DOMAIN stored -> Record] /\ DOMAIN stored \subseteq 1 .. begun
    BY DEF TypeOK
  <2>2. StartTime(Head(stream).id) \in 0 .. 2 * Sessions
    BY <1>2 DEF StartTime, Session
  <2>3. [stored[Latest] EXCEPT !.stop = StartTime(Head(stream).id)] \in Record
    BY <1>1, <2>1, <2>2 DEF Record
  <2>4. stored' \in [DOMAIN stored' -> Record] /\ DOMAIN stored' = DOMAIN stored
    BY <1>1, <2>1, <2>3
  <2>5. pending' \in 0 .. begun
    BY <1>1, <1>2 DEF TypeOK, Session
  <2>6. stream' \in Seq(Observation) /\ Len(stream') <= StreamCap
    BY <1>1, HeadOf
  <2> QED BY <1>1, <2>1, <2>4, <2>5, <2>6 DEF TypeOK
<1>4. StreamInv'
  BY <1>1, TailInOrder
<1>5. StoreInv'
  <2>1. DOMAIN stored' = DOMAIN stored
    BY <1>1
  <2>2. \A i \in DOMAIN stored : i <= Head(stream).id
    BY <1>1, <1>2 DEF StoreInv
  <2>3. \A q \in DOMAIN stream' : q + 1 \in DOMAIN stream /\ stream'[q] = stream[q + 1] /\ 1 < q + 1
    BY <1>1, HeadOf
  <2>4. ASSUME NEW q \in DOMAIN stream', stream'[q].kind = "start"
        PROVE  Head(stream).id <= stream'[q].id
    BY <1>2, <2>3, <2>4 DEF StreamInv, IsStart
  <2> QED BY <1>1, <2>1, <2>2, <2>3, <2>4 DEF StoreInv, IsStart
<1> QED BY <1>3, <1>4, <1>5

\* A record is put under an id that no start on its way, and no pending
\* session, is before.
LEMMA PutInv == IInv /\ (RegisterStart \/ RegisterStop \/ RegisterPending) => IInv'
<1> SUFFICES ASSUME IInv, RegisterStart \/ RegisterStop \/ RegisterPending PROVE IInv'
  OBVIOUS
<1> USE DEF IInv
<1>1. PICK id \in 1 .. begun, record \in Record :
        /\ stored' = Put(id, record)
        /\ pending' = 0
        /\ UNCHANGED <<begun, ended, served>>
        /\ stream' = stream \/ (stream # <<>> /\ stream' = Tail(stream))
        /\ \A q \in DOMAIN stream' : stream'[q].kind = "start" => id <= stream'[q].id
  <2>1. CASE RegisterPending
    <3>1. Open \in Record /\ pending \in 1 .. begun
      BY <2>1 DEF RegisterPending, TypeOK, Open, Record, Never
    <3> QED BY <2>1, <3>1 DEF RegisterPending, StoreInv, IsStart, cloudVars
  <2>2. CASE RegisterStart \/ RegisterStop
    <3>1. /\ stream # <<>> /\ stream' = Tail(stream) /\ pending' = 0
          /\ UNCHANGED <<begun, ended, served>>
      BY <2>2 DEF RegisterStart, RegisterStop, Turn, cloudVars
    <3>2. /\ Head(stream) = stream[1] /\ 1 \in DOMAIN stream
          /\ Head(stream).id \in Session /\ Head(stream).id <= begun
      BY <3>1, HeadOf DEF Observation, StreamInv
    <3>3. Head(stream).id \in 1 .. begun
      BY <3>2 DEF Session, TypeOK
    <3>4. Open \in Record /\ Finished(Head(stream).id) \in Record
      BY <3>2 DEF Open, Finished, Record, Never, StopTime, Session
    <3>5. PICK record \in Record : stored' = Put(Head(stream).id, record)
      BY <2>2, <3>4 DEF RegisterStart, RegisterStop
    <3>6. \A q \in DOMAIN stream' : q + 1 \in DOMAIN stream /\ stream'[q] = stream[q + 1] /\ 1 < q + 1
      BY <3>1, HeadOf
    <3>7. \A q \in DOMAIN stream' : stream'[q].kind = "start" => Head(stream).id <= stream'[q].id
      BY <3>2, <3>6 DEF StreamInv, IsStart
    <3> QED BY <3>1, <3>3, <3>5, <3>7
  <2> QED BY <2>1, <2>2
<1>2. /\ stream' \in Seq(Observation) /\ Len(stream') <= StreamCap
      /\ \A q \in DOMAIN stream' : \E p \in DOMAIN stream : stream'[q] = stream[p]
  <2>1. CASE stream' = stream
    BY <2>1 DEF TypeOK
  <2>2. CASE stream # <<>> /\ stream' = Tail(stream)
    BY <2>2, HeadOf
  <2> QED BY <1>1, <2>1, <2>2
<1>3. DOMAIN stored' = DOMAIN stored \cup {id} /\ stored' \in [DOMAIN stored' -> Record]
  BY <1>1 DEF Put, TypeOK
<1>4. TypeOK'
  <2>1. DOMAIN stored' \subseteq 1 .. begun /\ 0 \in 0 .. begun
    BY <1>3 DEF TypeOK
  <2> QED BY <1>1, <1>2, <1>3, <2>1 DEF TypeOK
<1>5. StreamInv'
  <2>1. CASE stream' = stream
    BY <1>1, <2>1 DEF StreamInv, IsStart
  <2>2. CASE stream # <<>> /\ stream' = Tail(stream)
    BY <1>1, <2>2, TailInOrder
  <2> QED BY <1>1, <2>1, <2>2
<1>6. StoreInv'
  <2>1. ASSUME NEW q \in DOMAIN stream', stream'[q].kind = "start"
        PROVE  (\A i \in DOMAIN stored' : i <= stream'[q].id) /\ 0 <= stream'[q].id
    <3>1. PICK p \in DOMAIN stream : stream'[q] = stream[p]
      BY <1>2
    <3>2. \A i \in DOMAIN stored : i <= stream'[q].id
      BY <2>1, <3>1 DEF StoreInv, IsStart
    <3>3. stream'[q].id \in Nat
      <4>1. stream'[q] \in Observation
        BY <1>2
      <4> QED BY <4>1 DEF Observation, Session
    <3> QED BY <1>1, <1>3, <2>1, <3>2, <3>3
  <2> QED BY <1>1, <2>1 DEF StoreInv, IsStart
<1> QED BY <1>4, <1>5, <1>6

\* An observation that cannot be stored is gone, and nothing else changes.
LEMMA FailInv == IInv /\ Fail => IInv'
<1> SUFFICES ASSUME IInv, Fail PROVE IInv'
  OBVIOUS
<1> USE DEF IInv
<1>1. UNCHANGED <<begun, ended, served, stored>>
  BY DEF Fail, cloudVars
<1>2. CASE pending' = 0 /\ UNCHANGED stream
  <2>1. TypeOK'
    <3>1. 0 \in 0 .. begun
      BY DEF TypeOK
    <3> QED BY <1>1, <1>2, <3>1 DEF TypeOK
  <2>2. StreamInv'
    BY <1>1, <1>2 DEF StreamInv, IsStart
  <2>3. StoreInv'
    <3>1. \A q \in DOMAIN stream : 0 <= stream[q].id
      <4>1. \A q \in DOMAIN stream : stream[q] \in Observation
        BY DEF TypeOK
      <4> QED BY <4>1 DEF Observation, Session
    <3> QED BY <1>1, <1>2, <3>1 DEF StoreInv, IsStart
  <2> QED BY <2>1, <2>2, <2>3
<1>3. CASE stream # <<>> /\ stream' = Tail(stream) /\ UNCHANGED pending
  <2>1. TypeOK'
    BY <1>1, <1>3, HeadOf DEF TypeOK
  <2>2. StreamInv'
    BY <1>1, <1>3, TailInOrder
  <2>3. StoreInv'
    BY <1>1, <1>3, HeadOf DEF StoreInv, IsStart
  <2> QED BY <2>1, <2>2, <2>3
<1> QED BY <1>2, <1>3 DEF Fail

\* Every step preserves the inductive invariant.
LEMMA NextInv == IInv /\ [Next]_vars => IInv'
<1> SUFFICES ASSUME IInv, [Next]_vars PROVE IInv'
  OBVIOUS
<1>1. CASE Begin \/ End
  BY <1>1, ChargerInv
<1>2. CASE Subscribe
  BY <1>2, SubscribeInv
<1>3. CASE Lose \/ Crash
  BY <1>3, LossInv
<1>4. CASE CutLatest
  BY <1>4, CutInv
<1>5. CASE RegisterStart \/ RegisterStop \/ RegisterPending
  BY <1>5, PutInv
<1>6. CASE Fail
  BY <1>6, FailInv
<1>7. CASE UNCHANGED vars
  BY <1>7 DEF vars, cloudVars, IInv, TypeOK, StreamInv, StoreInv, IsStart
<1> QED BY <1>1, <1>2, <1>3, <1>4, <1>5, <1>6, <1>7 DEF Next, Handle

-----------------------------------------------------------------------------
\* In every reachable state starts are on their way in order, none of them of
\* a session before a stored or the pending one.
THEOREM Invariance == Spec => []IInv
<1>1. Init => IInv
  BY InitInv
<1>2. IInv /\ [Next]_vars => IInv'
  BY NextInv
<1> QED BY <1>1, <1>2, PTL DEF Spec

\* Types are kept, for any number of sessions and any room for observations:
\* in particular only sessions that have begun are ever stored.
THEOREM TypeCorrect == Spec => []TypeOK
<1>1. IInv => TypeOK
  BY DEF IInv
<1> QED BY <1>1, Invariance, PTL

\* A step leaves a finished session with a later one behind it as it is: the
\* first write touches the latest session alone, a start is put under an id no
\* earlier than any stored, a stop writes what is there.
LEMMA HistoryStep ==
    IInv /\ [Next]_vars =>
        \A i \in DOMAIN stored :
            stored[i] = Finished(i) /\ (\E j \in DOMAIN stored : j > i)
                => stored'[i] = Finished(i)
<1> SUFFICES ASSUME IInv, [Next]_vars, NEW i \in DOMAIN stored, stored[i] = Finished(i),
                    NEW j \in DOMAIN stored, j > i
             PROVE  stored'[i] = Finished(i)
  OBVIOUS
<1>1. i \in Nat /\ j \in Nat /\ begun \in Nat
  BY DEF IInv, TypeOK
<1>2. CASE CutLatest
  <2>1. Latest \in DOMAIN stored \cup {0} /\ j <= Latest
    BY LatestIs DEF IInv
  <2>2. Latest \in Nat /\ i # Latest
    BY <1>1, <2>1 DEF IInv, TypeOK
  <2> QED BY <1>2, <2>2 DEF CutLatest
<1>3. CASE RegisterStart
  <2>1. stream # <<>> /\ Head(stream).kind = "start" /\ stored' = Put(Head(stream).id, Open)
    BY <1>3 DEF RegisterStart, Turn
  <2>2. Head(stream) = stream[1] /\ 1 \in DOMAIN stream /\ Head(stream).id \in Nat
    BY <2>1, HeadOf DEF IInv, Observation, Session
  <2>3. j <= Head(stream).id
    BY <2>1, <2>2 DEF IInv, StoreInv, IsStart
  <2>4. i # Head(stream).id
    BY <1>1, <2>2, <2>3
  <2> QED BY <2>1, <2>4 DEF Put
<1>4. CASE RegisterPending
  <2>1. pending # 0 /\ stored' = Put(pending, Open)
    BY <1>4 DEF RegisterPending
  <2>2. pending \in Nat /\ j <= pending
    BY <2>1 DEF IInv, TypeOK, StoreInv
  <2>3. i # pending
    BY <1>1, <2>2
  <2> QED BY <2>1, <2>3 DEF Put
<1>5. CASE RegisterStop
  BY <1>5 DEF RegisterStop, Put
<1>6. CASE UNCHANGED stored
  BY <1>6
<1>7. CASE Begin \/ End \/ Subscribe \/ Lose \/ Fail \/ Crash \/ UNCHANGED vars
  BY <1>6, <1>7 DEF Begin, End, Subscribe, Lose, Fail, Crash, vars
<1> QED BY <1>2, <1>3, <1>4, <1>5, <1>7 DEF Next, Handle

\* A finished session with a later one behind it is never touched again,
\* whatever is lost, repeated or interrupted, in whatever order a batch lists
\* its observations.
THEOREM HistoryIsKept == Spec => HistoryStays
<1>1. IInv /\ [Next]_vars =>
        [\A i \in DOMAIN stored :
            stored[i] = Finished(i) /\ (\E j \in DOMAIN stored : j > i)
                => stored'[i] = Finished(i)]_vars
  BY HistoryStep
<1> QED BY <1>1, Invariance, PTL DEF Spec, HistoryStays

-----------------------------------------------------------------------------
(* What is stored follows what the charger does.  Five facts hold together  *)
(* as long as no observation has failed to be stored and no batch has       *)
(* listed a stop before a start.                                            *)

\* A stop on its way has happened.
StopsInv == \A p \in DOMAIN stream : ~IsStart(p) => stream[p].id <= ended

\* The session the charger is in is stored as open, or its start is coming.
OpenInv ==
    served /\ ended < begun =>
        \/ begun \in DOMAIN stored /\ stored[begun].stop = Never
        \/ pending = begun
        \/ \E p \in DOMAIN stream : stream[p] = Started(begun)

\* The last finished session is stored as it was, or its stop is coming, and
\* nothing that comes after that opens it again.
FinishedInv ==
    served /\ ended > 0 =>
        \/ \E p \in DOMAIN stream :
              /\ stream[p] = Stopped(ended)
              /\ \A q \in DOMAIN stream : q > p => stream[q] # Started(ended)
        \/ /\ \A q \in DOMAIN stream : stream[q] # Started(ended)
           /\ pending # ended
           /\ ended \in DOMAIN stored /\ stored[ended] = Finished(ended)

\* A stop comes after a start of its session or of a later one.
Covered(q) ==
    \/ \E i \in DOMAIN stored : i >= stream[q].id
    \/ pending >= stream[q].id
    \/ \E p \in DOMAIN stream : p < q /\ IsStart(p) /\ stream[p].id >= stream[q].id

CoverInv == \A q \in DOMAIN stream : ~IsStart(q) => Covered(q)

\* Between the two writes of a start no stored session is open.
ClosedInv == pending # 0 => \A i \in DOMAIN stored : stored[i].stop # Never

Faithful == OpenInv /\ FinishedInv /\ CoverInv /\ ClosedInv /\ OnlyLatestOpen

FaithfulInv == IInv /\ StopsInv /\ (~missed => Faithful)

\* An observation is a start or a stop of its session.
LEMMA ObservationIs ==
    ASSUME NEW o \in Observation
    PROVE  /\ o.id \in Nat /\ o.id >= 1
           /\ o.kind = "start" <=> o = Started(o.id)
           /\ o.kind # "start" <=> o = Stopped(o.id)
BY DEF Observation, Session, Started, Stopped

\* Which sessions starts and stops are of.
LEMMA KindIs ==
    ASSUME NEW i
    PROVE  /\ Started(i).kind = "start" /\ Started(i).id = i
           /\ Stopped(i).kind # "start" /\ Stopped(i).id = i
BY DEF Started, Stopped

\* The positions of what is on its way.
LEMMA Positions ==
    ASSUME TypeOK
    PROVE  /\ Len(stream) \in Nat /\ DOMAIN stream = 1 .. Len(stream)
           /\ \A p \in DOMAIN stream : stream[p] \in Observation
<1>1. stream \in Seq(Observation)
  BY DEF TypeOK
<1> QED BY <1>1

\* The numbers of the sessions.
LEMMA Numbers ==
    ASSUME TypeOK
    PROVE  /\ begun \in Nat /\ ended \in Nat /\ pending \in Nat
           /\ ended <= begun /\ begun - 1 <= ended /\ pending <= begun
           /\ \A i \in DOMAIN stored : i \in Nat /\ i >= 1 /\ i <= begun
BY DEF TypeOK

-----------------------------------------------------------------------------
\* What the charger sends comes last.
LEMMA EmitGrows ==
    ASSUME TypeOK, NEW o, Emit(o)
    PROVE  /\ \A p \in DOMAIN stream : p \in DOMAIN stream' /\ stream'[p] = stream[p]
           /\ \A p \in DOMAIN stream' :
                 p \in DOMAIN stream \/ (p = Len(stream) + 1 /\ stream'[p] = o)
           /\ served => Len(stream) + 1 \in DOMAIN stream' /\ stream'[Len(stream) + 1] = o
<1>1. Len(stream) \in Nat /\ DOMAIN stream = 1 .. Len(stream)
  BY Positions
<1>2. CASE ~served
  BY <1>2 DEF Emit
<1>3. CASE served
  <2>1. stream' = Append(stream, o)
    BY <1>3 DEF Emit
  <2>2. /\ DOMAIN stream' = 1 .. Len(stream) + 1
        /\ \A p \in 1 .. Len(stream) : stream'[p] = stream[p]
        /\ stream'[Len(stream) + 1] = o
    <3>1. stream \in Seq(Observation \cup {o})
      BY DEF TypeOK
    <3> QED BY <2>1, <3>1, AppendProperties
  <2> QED BY <1>1, <2>2
<1> QED BY <1>2, <1>3

\* Two observations, one after the other.
LEMMA PairIs ==
    ASSUME NEW x, NEW y
    PROVE  Len(<<x>> \o <<y>>) = 2 /\ (<<x>> \o <<y>>)[1] = x /\ (<<x>> \o <<y>>)[2] = y
<1>1. <<x>> \in Seq({x, y}) /\ <<y>> \in Seq({x, y})
  OBVIOUS
<1>2. Len(<<x>>) = 1 /\ Len(<<y>>) = 1 /\ <<x>>[1] = x /\ <<y>>[1] = y
  OBVIOUS
<1> QED BY <1>1, <1>2, ConcatProperties

\* A batch that lists the start first brings the start of the last session and
\* the stop of the last that has ended, in this order.
LEMMA SubscribeGrows ==
    ASSUME TypeOK, Subscribe, ~StopBeforeStart
    PROVE  /\ \A p \in DOMAIN stream : p \in DOMAIN stream' /\ stream'[p] = stream[p]
           /\ \A p \in DOMAIN stream' :
                 \/ p \in DOMAIN stream
                 \/ p = Len(stream) + 1 /\ begun > 0 /\ stream'[p] = Started(begun)
                 \/ p = Len(stream) + 2 /\ ended > 0 /\ stream'[p] = Stopped(ended)
           /\ begun > 0 => /\ Len(stream) + 1 \in DOMAIN stream'
                           /\ stream'[Len(stream) + 1] = Started(begun)
           /\ ended > 0 => /\ Len(stream) + 2 \in DOMAIN stream'
                           /\ stream'[Len(stream) + 2] = Stopped(ended)
<1>1. Len(stream) \in Nat /\ DOMAIN stream = 1 .. Len(stream) /\ stream \in Seq(Observation)
  BY Positions DEF TypeOK
<1>2. begun \in Nat /\ ended \in Nat /\ ended <= begun
  BY Numbers
<1>3. PICK batch \in Batches : stream' = stream \o batch
  BY DEF Subscribe
<1>4. UpToDate(batch)
  BY <1>3, BatchUpToDate DEF TypeOK
<1>5. /\ Len(batch) \in Nat /\ DOMAIN batch = 1 .. Len(batch)
      /\ DOMAIN stream' = 1 .. Len(stream) + Len(batch)
      /\ \A p \in 1 .. Len(stream) : stream'[p] = stream[p]
      /\ \A p \in 1 .. Len(batch) : stream'[Len(stream) + p] = batch[p]
  <2>1. batch \in Seq(Observation)
    BY <1>4 DEF UpToDate
  <2> QED BY <1>1, <1>3, <2>1, ConcatProperties
<1>6. CASE ended = 0
  <2>1. batch = IF begun > 0 THEN <<Started(begun)>> ELSE <<>>
    <3>1. CASE begun > 0
      BY <1>3, <1>6, <3>1 DEF Batches
    <3>2. CASE ~(begun > 0)
      BY <1>3, <1>6, <3>2 DEF Batches
    <3> QED BY <3>1, <3>2
  <2>2. CASE begun > 0
    <3>1. Len(batch) = 1 /\ batch[1] = Started(begun)
      BY <2>1, <2>2
    <3> QED BY <1>1, <1>2, <1>5, <1>6, <2>2, <3>1
  <2>3. CASE ~(begun > 0)
    <3>1. Len(batch) = 0
      BY <2>1, <2>3
    <3> QED BY <1>1, <1>2, <1>5, <1>6, <2>3, <3>1
  <2> QED BY <2>2, <2>3
<1>7. CASE ended # 0
  <2>1. begun > 0 /\ ended > 0
    BY <1>2, <1>7
  <2>2. \/ batch = <<Started(begun)>> \o <<Stopped(ended)>>
        \/ batch = <<Stopped(ended)>> \o <<Started(begun)>>
    BY <1>3, <2>1 DEF Batches
  <2>0. \A x, y : batch = <<x>> \o <<y>> => Len(batch) = 2 /\ batch[1] = x /\ batch[2] = y
    BY PairIs, SMT
  <2>3. ASSUME batch = <<Stopped(ended)>> \o <<Started(begun)>> PROVE FALSE
    <3>1. Len(batch) = 2 /\ batch[1] = Stopped(ended) /\ batch[2] = Started(begun)
      BY <2>0, <2>3, Zenon
    <3>2. /\ Len(stream) + 1 \in DOMAIN stream' \ DOMAIN stream
          /\ Len(stream) + 2 \in DOMAIN stream' /\ Len(stream) + 2 > Len(stream) + 1
          /\ stream'[Len(stream) + 1] = Stopped(ended)
          /\ stream'[Len(stream) + 2] = Started(begun)
      BY <1>1, <1>5, <3>1
    <3> QED BY <3>2 DEF StopBeforeStart, Started, Stopped
  <2>4. Len(batch) = 2 /\ batch[1] = Started(begun) /\ batch[2] = Stopped(ended)
    BY <2>0, <2>2, <2>3, Zenon
  <2>5. DOMAIN stream' = 1 .. Len(stream) + 2
    BY <1>5, <2>4
  <2>6. stream'[Len(stream) + 1] = Started(begun) /\ stream'[Len(stream) + 2] = Stopped(ended)
    BY <1>5, <2>4
  <2> QED BY <1>1, <1>5, <2>1, <2>5, <2>6
<1> QED BY <1>6, <1>7

\* A stop on its way has happened, in every reachable state: the charger sends
\* it when the session has ended.
LEMMA StopsKept == IInv /\ StopsInv /\ [Next]_vars => StopsInv'
<1> SUFFICES ASSUME IInv, StopsInv, [Next]_vars PROVE StopsInv'
  OBVIOUS
<1>0. TypeOK /\ begun \in Nat /\ ended \in Nat /\ ended <= begun
  BY Numbers DEF IInv
<1>1. CASE Begin
  <2>1. Emit(Started(begun')) /\ ended' = ended
    BY <1>1 DEF Begin
  <2> QED BY <1>0, <2>1, EmitGrows, KindIs DEF StopsInv, IsStart
<1>2. CASE End
  <2>1. Emit(Stopped(begun)) /\ ended' = begun
    BY <1>2 DEF End
  <2>2. \A p \in DOMAIN stream : stream[p].id \in Nat
    BY <1>0, Positions, ObservationIs
  <2> QED BY <1>0, <2>1, <2>2, EmitGrows, KindIs DEF StopsInv, IsStart
<1>3. CASE Subscribe
  <2>1. PICK batch \in Batches : stream' = stream \o batch
    BY <1>3 DEF Subscribe
  <2>2. UpToDate(batch)
    BY <1>0, <2>1, BatchUpToDate DEF TypeOK
  <2>3. \A p \in DOMAIN batch : batch[p].kind # "start" => batch[p].id <= ended
    BY <1>0, <2>1, KindIs DEF Batches
  <2>4. ended' = ended
    BY <1>3 DEF Subscribe
  <2>5. \A p \in DOMAIN stream' :
          \/ p \in DOMAIN stream /\ stream'[p] = stream[p]
          \/ \E q \in DOMAIN batch : stream'[p] = batch[q]
    <3>1. /\ stream \in Seq(Observation) /\ batch \in Seq(Observation)
          /\ Len(stream) \in Nat /\ DOMAIN stream = 1 .. Len(stream)
      BY <1>0, <2>2, Positions DEF TypeOK, UpToDate
    <3>2. Len(batch) \in Nat /\ DOMAIN batch = 1 .. Len(batch)
      BY <3>1
    <3>3. /\ DOMAIN stream' = 1 .. Len(stream) + Len(batch)
          /\ \A p \in DOMAIN stream' :
                stream'[p] = IF p <= Len(stream) THEN stream[p] ELSE batch[p - Len(stream)]
      BY <2>1, <3>1, <3>2, ConcatProperties
    <3> SUFFICES ASSUME NEW p \in DOMAIN stream'
                 PROVE  \/ p \in DOMAIN stream /\ stream'[p] = stream[p]
                        \/ \E q \in DOMAIN batch : stream'[p] = batch[q]
      OBVIOUS
    <3>4. CASE p <= Len(stream)
      BY <3>1, <3>2, <3>3, <3>4
    <3>5. CASE p > Len(stream)
      <4>1. p - Len(stream) \in DOMAIN batch
        BY <3>1, <3>2, <3>3, <3>5
      <4> QED BY <3>1, <3>3, <3>5, <4>1
    <3> QED BY <3>1, <3>2, <3>3, <3>4, <3>5
  <2> QED BY <2>3, <2>4, <2>5 DEF StopsInv, IsStart
<1>4. CASE Lose
  <2>1. PICK n \in 0 .. Len(stream) : stream' = SubSeq(stream, 1, n)
    BY <1>4 DEF Lose
  <2>2. stream \in Seq(Observation) /\ Len(stream) \in Nat
    BY <1>0 DEF TypeOK
  <2>3. Len(stream') = n /\ \A i \in 1 .. n : stream'[i] = stream[i]
    BY <2>1, <2>2
  <2>4. stream' \in Seq(Observation) /\ ended' = ended
    BY <1>4, <2>1, <2>2 DEF Lose
  <2> QED BY <2>2, <2>3, <2>4 DEF StopsInv, IsStart
<1>5. CASE Crash
  BY <1>5 DEF Crash, StopsInv
<1>6. CASE stream # <<>> /\ stream' = Tail(stream) /\ ended' = ended
  BY <1>0, <1>6, HeadOf DEF StopsInv, IsStart
<1>7. CASE UNCHANGED <<stream, ended>>
  BY <1>7 DEF StopsInv, IsStart
<1>8. CASE Handle \/ Fail \/ UNCHANGED vars
  BY <1>6, <1>7, <1>8
     DEF Handle, Fail, CutLatest, RegisterStart, RegisterStop, RegisterPending, Turn, vars, cloudVars
<1> QED BY <1>1, <1>2, <1>3, <1>4, <1>5, <1>8 DEF Next

-----------------------------------------------------------------------------
\* A session begins or ends: what is sent of it is on its way.
LEMMA BeginFaithful == IInv /\ Faithful /\ Begin => Faithful'
<1> SUFFICES ASSUME IInv, Faithful, Begin PROVE Faithful'
  OBVIOUS
<1> USE DEF Faithful
<1>1. /\ begun = ended /\ begun' = begun + 1 /\ Emit(Started(begun'))
      /\ UNCHANGED <<ended, served, stored, pending>>
  BY DEF Begin
<1>2. TypeOK /\ begun \in Nat /\ Len(stream) \in Nat /\ DOMAIN stream = 1 .. Len(stream)
  BY Numbers, Positions DEF IInv
<1>3. /\ \A p \in DOMAIN stream : p \in DOMAIN stream' /\ stream'[p] = stream[p]
      /\ \A p \in DOMAIN stream' :
            p \in DOMAIN stream \/ (p = Len(stream) + 1 /\ stream'[p] = Started(begun'))
      /\ served => Len(stream) + 1 \in DOMAIN stream' /\ stream'[Len(stream) + 1] = Started(begun')
  BY <1>1, <1>2, EmitGrows
<1>4. Started(begun') # Started(ended)
  BY <1>1, <1>2 DEF Started
<1>5. OpenInv'
  BY <1>1, <1>3 DEF OpenInv
<1>6. FinishedInv'
  BY <1>1, <1>3, <1>4 DEF FinishedInv
<1>7. CoverInv'
  BY <1>1, <1>3, KindIs DEF CoverInv, Covered, IsStart
<1>8. ClosedInv' /\ OnlyLatestOpen'
  BY <1>1 DEF ClosedInv, OnlyLatestOpen, Latest
<1> QED BY <1>5, <1>6, <1>7, <1>8

LEMMA EndFaithful == IInv /\ Faithful /\ End => Faithful'
<1> SUFFICES ASSUME IInv, Faithful, End PROVE Faithful'
  OBVIOUS
<1> USE DEF Faithful
<1>1. /\ ended < begun /\ ended' = begun /\ Emit(Stopped(begun))
      /\ UNCHANGED <<begun, served, stored, pending>>
  BY DEF End
<1>2. TypeOK /\ begun \in Nat /\ Len(stream) \in Nat /\ DOMAIN stream = 1 .. Len(stream)
  BY Numbers, Positions DEF IInv
<1>3. /\ \A p \in DOMAIN stream : p \in DOMAIN stream' /\ stream'[p] = stream[p]
      /\ \A p \in DOMAIN stream' :
            p \in DOMAIN stream \/ (p = Len(stream) + 1 /\ stream'[p] = Stopped(begun))
      /\ served => Len(stream) + 1 \in DOMAIN stream' /\ stream'[Len(stream) + 1] = Stopped(begun)
      /\ ~served => stream' = stream
  BY <1>1, <1>2, EmitGrows DEF Emit
<1>5. OpenInv'
  BY <1>1, <1>2 DEF OpenInv
<1>6. FinishedInv'
  BY <1>1, <1>2, <1>3 DEF FinishedInv
<1>7. CoverInv'
  <2> SUFFICES ASSUME NEW q \in DOMAIN stream', stream'[q].kind # "start"
               PROVE  Covered(q)'
    BY DEF CoverInv, IsStart
  <2>1. CASE q \in DOMAIN stream
    BY <1>1, <1>3, <2>1 DEF CoverInv, Covered, IsStart
  <2>2. CASE q \notin DOMAIN stream
    <3>1. q = Len(stream) + 1 /\ stream'[q].id = begun /\ served
      BY <1>3, <2>2, KindIs
    <3>2. CASE begun \in DOMAIN stored \/ pending = begun
      BY <1>1, <1>2, <3>1, <3>2 DEF Covered
    <3>3. CASE \E p \in DOMAIN stream : stream[p] = Started(begun)
      <4>1. PICK p \in DOMAIN stream : stream[p] = Started(begun)
        BY <3>3
      <4>2. p \in DOMAIN stream' /\ p < q /\ stream'[p].kind = "start" /\ stream'[p].id = begun
        BY <1>2, <1>3, <3>1, <4>1, KindIs
      <4> QED BY <1>2, <3>1, <4>2 DEF Covered, IsStart
    <3> QED BY <1>1, <3>1, <3>2, <3>3 DEF OpenInv
  <2> QED BY <2>1, <2>2
<1>8. ClosedInv' /\ OnlyLatestOpen'
  BY <1>1 DEF ClosedInv, OnlyLatestOpen, Latest
<1> QED BY <1>5, <1>6, <1>7, <1>8

\* A batch brings the start the adapter may have missed, and after it the stop.
LEMMA SubscribeFaithful == IInv /\ Faithful /\ Subscribe /\ ~StopBeforeStart => Faithful'
<1> SUFFICES ASSUME IInv, Faithful, Subscribe, ~StopBeforeStart PROVE Faithful'
  OBVIOUS
<1> USE DEF Faithful
<1>1. UNCHANGED <<begun, ended, stored, pending>>
  BY DEF Subscribe
<1>2. /\ TypeOK /\ begun \in Nat /\ ended \in Nat /\ ended <= begun
      /\ Len(stream) \in Nat /\ DOMAIN stream = 1 .. Len(stream)
  BY Numbers, Positions DEF IInv
<1>3. /\ \A p \in DOMAIN stream : p \in DOMAIN stream' /\ stream'[p] = stream[p]
      /\ \A p \in DOMAIN stream' :
            \/ p \in DOMAIN stream
            \/ p = Len(stream) + 1 /\ begun > 0 /\ stream'[p] = Started(begun)
            \/ p = Len(stream) + 2 /\ ended > 0 /\ stream'[p] = Stopped(ended)
      /\ begun > 0 => /\ Len(stream) + 1 \in DOMAIN stream'
                      /\ stream'[Len(stream) + 1] = Started(begun)
      /\ ended > 0 => /\ Len(stream) + 2 \in DOMAIN stream'
                      /\ stream'[Len(stream) + 2] = Stopped(ended)
  BY <1>2, SubscribeGrows
<1>5. OpenInv'
  BY <1>1, <1>2, <1>3 DEF OpenInv
<1>6. FinishedInv'
  <2> SUFFICES ASSUME ended > 0
               PROVE  \E p \in DOMAIN stream' :
                         /\ stream'[p] = Stopped(ended)
                         /\ \A q \in DOMAIN stream' : q > p => stream'[q] # Started(ended)
    BY <1>1 DEF FinishedInv
  <2>1. \A q \in DOMAIN stream' : q <= Len(stream) + 2
    BY <1>2, <1>3
  <2>2. \A q \in DOMAIN stream' : ~(q > Len(stream) + 2)
    <3>1. \A q \in DOMAIN stream' : q \in Nat
      BY <1>2, <1>3
    <3> QED BY <1>2, <2>1, <3>1
  <2> QED BY <1>3, <2>2
<1>7. CoverInv'
  <2> SUFFICES ASSUME NEW q \in DOMAIN stream', stream'[q].kind # "start"
               PROVE  Covered(q)'
    BY DEF CoverInv, IsStart
  <2>1. CASE q \in DOMAIN stream
    BY <1>1, <1>3, <2>1 DEF CoverInv, Covered, IsStart
  <2>2. CASE q \notin DOMAIN stream
    <3>1. q = Len(stream) + 2 /\ stream'[q].id = ended /\ begun > 0
      BY <1>2, <1>3, <2>2, KindIs
    <3>2. /\ Len(stream) + 1 \in DOMAIN stream' /\ Len(stream) + 1 < q
          /\ stream'[Len(stream) + 1].kind = "start" /\ stream'[Len(stream) + 1].id >= ended
      BY <1>2, <1>3, <3>1, KindIs
    <3> QED BY <3>1, <3>2 DEF Covered, IsStart
  <2> QED BY <2>1, <2>2
<1>8. ClosedInv' /\ OnlyLatestOpen'
  BY <1>1 DEF ClosedInv, OnlyLatestOpen, Latest
<1> QED BY <1>5, <1>6, <1>7, <1>8

\* Nothing is promised while the subscription is not served.
LEMMA LossFaithful == IInv /\ Faithful /\ (Lose \/ Crash) => Faithful'
<1> SUFFICES ASSUME IInv, Faithful, Lose \/ Crash PROVE Faithful'
  OBVIOUS
<1> USE DEF Faithful
<1>1. served' = FALSE /\ UNCHANGED <<begun, ended, stored>> /\ pending' \in {0, pending}
  BY DEF Lose, Crash
<1>2. OpenInv' /\ FinishedInv'
  BY <1>1 DEF OpenInv, FinishedInv
<1>3. CoverInv'
  <2>1. CASE Crash
    <3>1. stream' = <<>>
      BY <2>1 DEF Crash
    <3> QED BY <3>1 DEF CoverInv
  <2>2. CASE Lose
    <3>1. stream \in Seq(Observation) /\ Len(stream) \in Nat /\ DOMAIN stream = 1 .. Len(stream)
      BY Positions DEF IInv, TypeOK
    <3>2. PICK n \in 0 .. Len(stream) : stream' = SubSeq(stream, 1, n)
      BY <2>2 DEF Lose
    <3>3. DOMAIN stream' = 1 .. n /\ \A i \in 1 .. n : stream'[i] = stream[i]
      BY <3>1, <3>2
    <3>4. \A q \in DOMAIN stream' : q \in DOMAIN stream /\ stream'[q] = stream[q]
      BY <3>1, <3>3
    <3>5. \A q \in DOMAIN stream' : \A p \in DOMAIN stream : p < q => p \in DOMAIN stream'
      BY <3>1, <3>3
    <3>6. stored' = stored /\ pending' = pending
      BY <2>2 DEF Lose
    <3> QED BY <3>4, <3>5, <3>6 DEF CoverInv, Covered, IsStart
  <2> QED BY <2>1, <2>2
<1>4. ClosedInv' /\ OnlyLatestOpen'
  BY <1>1 DEF ClosedInv, OnlyLatestOpen, Latest
<1> QED BY <1>2, <1>3, <1>4

-----------------------------------------------------------------------------
\* A finished session is not open.
LEMMA FinishedIs == \A i \in Nat : i >= 1 => Finished(i).stop # Never
BY DEF Finished, StopTime, Never

\* What a handler takes from the stream, and what it leaves.
LEMMA Taken ==
    ASSUME IInv, stream # <<>>, stream' = Tail(stream), NEW h, h = Head(stream).id
    PROVE  /\ h \in Nat /\ h >= 1 /\ h <= begun
           /\ 1 \in DOMAIN stream /\ stream[1] = Head(stream) /\ stream[1].id = h
           /\ Head(stream).kind = "start" => stream[1] = Started(h)
           /\ Head(stream).kind = "stop" => stream[1] = Stopped(h)
           /\ \A q \in DOMAIN stream' : /\ q \in Nat /\ q >= 1
                                        /\ q + 1 \in DOMAIN stream /\ stream'[q] = stream[q + 1]
           /\ \A p \in DOMAIN stream : /\ p \in Nat /\ p >= 1
                                       /\ p # 1 => /\ p - 1 \in DOMAIN stream'
                                                   /\ stream'[p - 1] = stream[p]
<1>1. /\ TypeOK /\ Head(stream) \in Observation /\ Head(stream) = stream[1]
      /\ Len(stream) \in Nat /\ DOMAIN stream = 1 .. Len(stream)
  BY HeadOf, Positions DEF IInv
<1>2. h \in Nat /\ h >= 1
  BY <1>1, ObservationIs
<1>3. 1 \in DOMAIN stream
  BY <1>1, HeadOf
<1>4. h <= begun
  BY <1>1, <1>3 DEF IInv, StreamInv
<1>5. /\ Head(stream).kind = "start" => stream[1] = Started(h)
      /\ Head(stream).kind = "stop" => stream[1] = Stopped(h)
  BY <1>1, ObservationIs
<1>6. /\ DOMAIN stream' = 1 .. Len(stream) - 1
      /\ \A q \in DOMAIN stream' : stream'[q] = stream[q + 1]
  <2>1. stream \in Seq(Observation)
    BY <1>1 DEF TypeOK
  <2> QED BY <1>1, <2>1
<1>7. /\ \A q \in DOMAIN stream' : q \in Nat /\ q >= 1 /\ q + 1 \in DOMAIN stream
      /\ \A p \in DOMAIN stream : /\ p \in Nat /\ p >= 1
                                  /\ p # 1 => p - 1 \in DOMAIN stream' /\ p - 1 + 1 = p
  BY <1>1, <1>6
<1> QED BY <1>1, <1>2, <1>3, <1>4, <1>5, <1>6, <1>7

\* The first of the two writes closes the latest session; the one that has
\* begun is the one on its way, or the pending one.
LEMMA CutFaithful == IInv /\ Faithful /\ CutLatest => Faithful'
<1> SUFFICES ASSUME IInv, Faithful, CutLatest PROVE Faithful'
  OBVIOUS
<1> USE DEF Faithful
<1> DEFINE h == Head(stream).id
<1>1. /\ pending = 0 /\ stream # <<>> /\ stream' = Tail(stream) /\ Head(stream).kind = "start"
      /\ Latest # 0 /\ stored[Latest].stop = Never
      /\ stored' = [stored EXCEPT ![Latest].stop = StartTime(h)]
      /\ pending' = h
      /\ UNCHANGED <<begun, ended, served>>
  BY DEF CutLatest, Turn, LatestIsOpen, cloudVars
<1>2. /\ TypeOK /\ begun \in Nat /\ ended \in Nat
      /\ \A i \in DOMAIN stored : i \in Nat /\ i >= 1 /\ i <= begun
      /\ Latest \in DOMAIN stored
  BY <1>1, Numbers, LatestIs DEF IInv
<1>3. /\ h \in Nat /\ h >= 1 /\ h <= begun
      /\ 1 \in DOMAIN stream /\ stream[1] = Started(h)
      /\ \A q \in DOMAIN stream' : q \in Nat /\ q + 1 \in DOMAIN stream /\ stream'[q] = stream[q + 1]
      /\ \A p \in DOMAIN stream : p \in Nat /\ (p # 1 => p - 1 \in DOMAIN stream'
                                                         /\ stream'[p - 1] = stream[p])
  BY <1>1, Taken
<1>4. DOMAIN stored' = DOMAIN stored /\ \A i \in DOMAIN stored : i # Latest => stored'[i] = stored[i]
  BY <1>1
<1>5. \A i \in DOMAIN stored : i <= h
  BY <1>3, KindIs DEF IInv, StoreInv, IsStart
<1>6. ClosedInv' /\ OnlyLatestOpen'
  <2>1. stored'[Latest].stop = StartTime(h)
    BY <1>1, <1>2 DEF TypeOK, Record
  <2>2. StartTime(h) # Never
    BY <1>3 DEF StartTime, Never
  <2>3. \A i \in DOMAIN stored : i # Latest => stored[i].stop # Never
    BY DEF OnlyLatestOpen
  <2> QED BY <1>4, <2>1, <2>2, <2>3 DEF ClosedInv, OnlyLatestOpen
<1>7. OpenInv'
  <2> SUFFICES ASSUME served, ended < begun
               PROVE  pending' = begun \/ \E p \in DOMAIN stream' : stream'[p] = Started(begun)
    BY <1>1 DEF OpenInv
  <2>1. CASE begun \in DOMAIN stored
    BY <1>1, <1>2, <1>3, <1>5, <2>1
  <2>2. CASE \E p \in DOMAIN stream : stream[p] = Started(begun)
    <3>1. PICK p \in DOMAIN stream : stream[p] = Started(begun)
      BY <2>2
    <3>2. CASE p = 1
      BY <1>1, <1>3, <3>1, <3>2 DEF Started
    <3>3. CASE p # 1
      BY <1>3, <3>1, <3>3
    <3> QED BY <3>2, <3>3
  <2> QED BY <1>1, <1>2, <2>1, <2>2 DEF OpenInv
<1>8. FinishedInv'
  <2> SUFFICES ASSUME served, ended > 0 PROVE FinishedInv'
    BY <1>1 DEF FinishedInv
  <2>1. CASE \E p \in DOMAIN stream :
                /\ stream[p] = Stopped(ended)
                /\ \A q \in DOMAIN stream : q > p => stream[q] # Started(ended)
    <3>1. PICK p \in DOMAIN stream :
                /\ stream[p] = Stopped(ended)
                /\ \A q \in DOMAIN stream : q > p => stream[q] # Started(ended)
      BY <2>1
    <3>2. p # 1
      BY <1>3, <3>1, KindIs
    <3>3. p - 1 \in DOMAIN stream' /\ stream'[p - 1] = Stopped(ended)
      BY <1>3, <3>1, <3>2
    <3>4. \A q \in DOMAIN stream' : q > p - 1 => stream'[q] # Started(ended)
      BY <1>3, <3>1
    <3> QED BY <1>1, <3>3, <3>4 DEF FinishedInv
  <2>2. CASE /\ \A q \in DOMAIN stream : stream[q] # Started(ended)
             /\ ended \in DOMAIN stored /\ stored[ended] = Finished(ended)
    <3>1. h # ended
      BY <1>3, <2>2
    <3>2. ended # Latest
      BY <1>1, <1>2, <2>2, FinishedIs DEF Never
    <3> QED BY <1>1, <1>3, <1>4, <2>2, <3>1, <3>2 DEF FinishedInv
  <2> QED BY <2>1, <2>2 DEF FinishedInv
<1>9. CoverInv'
  <2> SUFFICES ASSUME NEW q \in DOMAIN stream', stream'[q].kind # "start"
               PROVE  Covered(q)'
    BY DEF CoverInv, IsStart
  <2>1. /\ q + 1 \in DOMAIN stream /\ stream'[q] = stream[q + 1] /\ Covered(q + 1)
        /\ stream[q + 1].id \in Nat /\ stream[q + 1].id >= 1
    BY <1>2, <1>3, Positions, ObservationIs DEF CoverInv, IsStart
  <2>2. CASE \E i \in DOMAIN stored : i >= stream[q + 1].id
    BY <1>4, <2>1, <2>2 DEF Covered
  <2>3. CASE \E p \in DOMAIN stream : p < q + 1 /\ IsStart(p) /\ stream[p].id >= stream[q + 1].id
    <3>1. PICK p \in DOMAIN stream : p < q + 1 /\ IsStart(p) /\ stream[p].id >= stream[q + 1].id
      BY <2>3
    <3>2. CASE p = 1
      BY <1>1, <1>3, <2>1, <3>1, <3>2, KindIs DEF Covered
    <3>3. CASE p # 1
      <4>1. p - 1 \in DOMAIN stream' /\ stream'[p - 1] = stream[p] /\ p - 1 < q
        BY <1>3, <3>1, <3>3
      <4> QED BY <2>1, <3>1, <4>1 DEF Covered, IsStart
    <3> QED BY <3>2, <3>3
  <2>4. ~(pending >= stream[q + 1].id)
    BY <1>1, <2>1
  <2> QED BY <2>1, <2>2, <2>3, <2>4 DEF Covered
<1> QED BY <1>6, <1>7, <1>8, <1>9

\* A session put as open behind closed ones is the latest, and alone open.
LEMMA PutNewest ==
    ASSUME TypeOK, TypeOK', NEW k \in Nat, stored' = Put(k, Open),
           \A i \in DOMAIN stored : i <= k /\ stored[i].stop # Never
    PROVE  OnlyLatestOpen'
<1>1. /\ DOMAIN stored' = DOMAIN stored \cup {k}
      /\ \A i \in DOMAIN stored' : i # k => stored'[i] = stored[i]
  BY DEF Put
<1>2. Latest' \in DOMAIN stored' \cup {0} /\ \A i \in DOMAIN stored' : i <= Latest'
  <2>1. begun' \in Nat /\ DOMAIN stored' \cup {0} \subseteq 0 .. begun'
    BY DEF TypeOK
  <2> QED BY <2>1, MaxOf DEF Latest
<1>3. \A i \in DOMAIN stored : i \in Nat
  BY Numbers
<1>4. Latest' = k
  BY <1>1, <1>2, <1>3
<1> QED BY <1>1, <1>4 DEF OnlyLatestOpen

\* A start with nothing open before it.
LEMMA StartFaithful == IInv /\ Faithful /\ RegisterStart => Faithful'
<1> SUFFICES ASSUME IInv, Faithful, RegisterStart PROVE Faithful'
  OBVIOUS
<1> USE DEF Faithful
<1> DEFINE h == Head(stream).id
<1>1. /\ pending = 0 /\ stream # <<>> /\ stream' = Tail(stream) /\ Head(stream).kind = "start"
      /\ ~LatestIsOpen
      /\ stored' = Put(h, Open)
      /\ UNCHANGED <<begun, ended, served, pending>>
  BY DEF RegisterStart, Turn, cloudVars
<1>2. /\ TypeOK /\ TypeOK' /\ begun \in Nat /\ ended \in Nat
      /\ \A i \in DOMAIN stored : i \in Nat /\ i >= 1 /\ i <= begun
  BY Numbers, PutInv DEF IInv
<1>3. /\ h \in Nat /\ h >= 1 /\ h <= begun
      /\ 1 \in DOMAIN stream /\ stream[1] = Started(h)
      /\ \A q \in DOMAIN stream' : q \in Nat /\ q + 1 \in DOMAIN stream /\ stream'[q] = stream[q + 1]
      /\ \A p \in DOMAIN stream : p \in Nat /\ (p # 1 => p - 1 \in DOMAIN stream'
                                                         /\ stream'[p - 1] = stream[p])
  BY <1>1, Taken
<1>4. /\ DOMAIN stored' = DOMAIN stored \cup {h} /\ stored'[h] = Open
      /\ \A i \in DOMAIN stored : i # h => stored'[i] = stored[i]
  BY <1>1 DEF Put
<1>5. \A i \in DOMAIN stored : i <= h /\ stored[i].stop # Never
  <2>1. \A i \in DOMAIN stored : i <= h
    BY <1>3, KindIs DEF IInv, StoreInv, IsStart
  <2>2. \A i \in DOMAIN stored : stored[i].stop # Never
    BY <1>1, <1>2 DEF OnlyLatestOpen, LatestIsOpen
  <2> QED BY <2>1, <2>2
<1>6. ClosedInv' /\ OnlyLatestOpen'
  <2>1. OnlyLatestOpen'
    BY <1>1, <1>2, <1>3, <1>5, PutNewest
  <2> QED BY <1>1, <2>1 DEF ClosedInv
<1>7. OpenInv'
  <2> SUFFICES ASSUME served, ended < begun
               PROVE  \/ begun \in DOMAIN stored' /\ stored'[begun].stop = Never
                      \/ \E p \in DOMAIN stream' : stream'[p] = Started(begun)
    BY <1>1 DEF OpenInv
  <2>1. PICK p \in DOMAIN stream : stream[p] = Started(begun)
    BY <1>1, <1>2, <1>5 DEF OpenInv
  <2>2. CASE p = 1
    <3>1. h = begun
      BY <1>3, <2>1, <2>2 DEF Started
    <3> QED BY <1>4, <3>1 DEF Open
  <2>3. CASE p # 1
    BY <1>3, <2>1, <2>3
  <2> QED BY <2>2, <2>3
<1>8. FinishedInv'
  <2> SUFFICES ASSUME served, ended > 0 PROVE FinishedInv'
    BY <1>1 DEF FinishedInv
  <2>1. CASE \E p \in DOMAIN stream :
                /\ stream[p] = Stopped(ended)
                /\ \A q \in DOMAIN stream : q > p => stream[q] # Started(ended)
    <3>1. PICK p \in DOMAIN stream :
                /\ stream[p] = Stopped(ended)
                /\ \A q \in DOMAIN stream : q > p => stream[q] # Started(ended)
      BY <2>1
    <3>2. p # 1
      BY <1>3, <3>1, KindIs
    <3>3. p - 1 \in DOMAIN stream' /\ stream'[p - 1] = Stopped(ended)
      BY <1>3, <3>1, <3>2
    <3>4. \A q \in DOMAIN stream' : q > p - 1 => stream'[q] # Started(ended)
      BY <1>3, <3>1
    <3> QED BY <1>1, <3>3, <3>4 DEF FinishedInv
  <2>2. CASE /\ \A q \in DOMAIN stream : stream[q] # Started(ended)
             /\ ended \in DOMAIN stored /\ stored[ended] = Finished(ended)
    <3>1. h # ended
      BY <1>3, <2>2
    <3> QED BY <1>1, <1>2, <1>3, <1>4, <2>2, <3>1 DEF FinishedInv
  <2> QED BY <2>1, <2>2 DEF FinishedInv
<1>9. CoverInv'
  <2> SUFFICES ASSUME NEW q \in DOMAIN stream', stream'[q].kind # "start"
               PROVE  Covered(q)'
    BY DEF CoverInv, IsStart
  <2>1. /\ q + 1 \in DOMAIN stream /\ stream'[q] = stream[q + 1] /\ Covered(q + 1)
        /\ stream[q + 1].id \in Nat /\ stream[q + 1].id >= 1
    BY <1>2, <1>3, Positions, ObservationIs DEF CoverInv, IsStart
  <2>2. CASE \E i \in DOMAIN stored : i >= stream[q + 1].id
    BY <1>4, <2>1, <2>2 DEF Covered
  <2>3. CASE \E p \in DOMAIN stream : p < q + 1 /\ IsStart(p) /\ stream[p].id >= stream[q + 1].id
    <3>1. PICK p \in DOMAIN stream : p < q + 1 /\ IsStart(p) /\ stream[p].id >= stream[q + 1].id
      BY <2>3
    <3>2. CASE p = 1
      <4>1. h >= stream'[q].id /\ h \in DOMAIN stored'
        BY <1>3, <1>4, <2>1, <3>1, <3>2, KindIs
      <4> QED BY <4>1 DEF Covered
    <3>3. CASE p # 1
      <4>1. p - 1 \in DOMAIN stream' /\ stream'[p - 1] = stream[p] /\ p - 1 < q
        BY <1>3, <3>1, <3>3
      <4> QED BY <2>1, <3>1, <4>1 DEF Covered, IsStart
    <3> QED BY <3>2, <3>3
  <2>4. ~(pending >= stream[q + 1].id)
    BY <1>1, <2>1
  <2> QED BY <2>1, <2>2, <2>3, <2>4 DEF Covered
<1> QED BY <1>6, <1>7, <1>8, <1>9

\* The second of the two writes.
LEMMA PendingFaithful == IInv /\ Faithful /\ RegisterPending => Faithful'
<1> SUFFICES ASSUME IInv, Faithful, RegisterPending PROVE Faithful'
  OBVIOUS
<1> USE DEF Faithful
<1>1. /\ pending # 0 /\ pending' = 0 /\ stored' = Put(pending, Open)
      /\ UNCHANGED <<begun, ended, served, stream>>
  BY DEF RegisterPending, cloudVars
<1>2. /\ TypeOK /\ TypeOK' /\ begun \in Nat /\ ended \in Nat /\ pending \in Nat
      /\ \A i \in DOMAIN stored : i \in Nat /\ i >= 1 /\ i <= begun
  BY Numbers, PutInv DEF IInv
<1>3. /\ DOMAIN stored' = DOMAIN stored \cup {pending} /\ stored'[pending] = Open
      /\ \A i \in DOMAIN stored : i # pending => stored'[i] = stored[i]
  BY <1>1 DEF Put
<1>4. \A i \in DOMAIN stored : i <= pending /\ stored[i].stop # Never
  BY <1>1 DEF IInv, StoreInv, ClosedInv
<1>5. ClosedInv' /\ OnlyLatestOpen'
  <2>1. OnlyLatestOpen'
    BY <1>1, <1>2, <1>4, PutNewest
  <2> QED BY <1>1, <2>1 DEF ClosedInv
<1>6. OpenInv'
  BY <1>1, <1>3, <1>4 DEF OpenInv, Open
<1>7. FinishedInv'
  BY <1>1, <1>2, <1>3 DEF FinishedInv
<1>8. CoverInv'
  BY <1>1, <1>3 DEF CoverInv, Covered, IsStart
<1> QED BY <1>5, <1>6, <1>7, <1>8

\* A stop writes the whole record: of a session no later than the latest, as
\* its start, or a later one, has come before it.
LEMMA StopFaithful == IInv /\ StopsInv /\ Faithful /\ RegisterStop => Faithful'
<1> SUFFICES ASSUME IInv, StopsInv, Faithful, RegisterStop PROVE Faithful'
  OBVIOUS
<1> USE DEF Faithful
<1> DEFINE h == Head(stream).id
<1>1. /\ pending = 0 /\ stream # <<>> /\ stream' = Tail(stream) /\ Head(stream).kind = "stop"
      /\ stored' = Put(h, Finished(h))
      /\ UNCHANGED <<begun, ended, served, pending>>
  BY DEF RegisterStop, Turn, cloudVars
<1>2. /\ TypeOK /\ TypeOK' /\ begun \in Nat /\ ended \in Nat
      /\ \A i \in DOMAIN stored : i \in Nat /\ i >= 1 /\ i <= begun
  BY Numbers, PutInv DEF IInv
<1>3. /\ h \in Nat /\ h >= 1 /\ h <= begun
      /\ 1 \in DOMAIN stream /\ stream[1] = Stopped(h) /\ stream[1].id = h
      /\ \A q \in DOMAIN stream' : q \in Nat /\ q >= 1 /\ q + 1 \in DOMAIN stream
                                   /\ stream'[q] = stream[q + 1]
      /\ \A p \in DOMAIN stream : p \in Nat /\ p >= 1
                                  /\ (p # 1 => p - 1 \in DOMAIN stream' /\ stream'[p - 1] = stream[p])
  BY <1>1, Taken
<1>4. /\ DOMAIN stored' = DOMAIN stored \cup {h} /\ stored'[h] = Finished(h)
      /\ \A i \in DOMAIN stored : i # h => stored'[i] = stored[i]
  BY <1>1 DEF Put
<1>5. ~IsStart(1) /\ h <= ended
  BY <1>1, <1>3, KindIs DEF StopsInv, IsStart
<1>6. ClosedInv' /\ OnlyLatestOpen'
  <2>1. PICK k \in DOMAIN stored : k >= h
    <3>1. Covered(1)
      BY <1>3, <1>5 DEF CoverInv
    <3>2. ~(pending >= stream[1].id)
      BY <1>1, <1>3
    <3>3. \A p \in DOMAIN stream : ~(p < 1)
      <4>1. \A p \in DOMAIN stream : p \in Nat /\ p >= 1
        BY <1>3
      <4> QED BY <4>1
    <3> QED BY <1>3, <3>1, <3>2, <3>3 DEF Covered
  <2>2. Latest \in DOMAIN stored \cup {0} /\ \A i \in DOMAIN stored : i <= Latest
    BY <1>2, LatestIs
  <2>3. Latest' \in DOMAIN stored' \cup {0} /\ \A i \in DOMAIN stored' : i <= Latest'
    <3>1. begun' \in Nat /\ DOMAIN stored' \cup {0} \subseteq 0 .. begun'
      BY <1>2 DEF TypeOK
    <3> QED BY <3>1, MaxOf DEF Latest
  <2>4. Latest' = Latest
    BY <1>2, <1>3, <1>4, <2>1, <2>2, <2>3
  <2>5. Finished(h).stop # Never
    BY <1>3, FinishedIs
  <2>6. OnlyLatestOpen'
    BY <1>4, <2>4, <2>5 DEF OnlyLatestOpen
  <2> QED BY <1>1, <2>6 DEF ClosedInv
<1>7. OpenInv'
  <2> SUFFICES ASSUME served, ended < begun
               PROVE  \/ begun \in DOMAIN stored' /\ stored'[begun].stop = Never
                      \/ \E p \in DOMAIN stream' : stream'[p] = Started(begun)
    BY <1>1 DEF OpenInv
  <2>1. CASE begun \in DOMAIN stored /\ stored[begun].stop = Never
    <3>1. h # begun
      BY <1>2, <1>3, <1>5
    <3> QED BY <1>4, <2>1, <3>1
  <2>2. CASE \E p \in DOMAIN stream : stream[p] = Started(begun)
    <3>1. PICK p \in DOMAIN stream : stream[p] = Started(begun)
      BY <2>2
    <3>2. p # 1
      BY <1>3, <3>1, KindIs
    <3> QED BY <1>3, <3>1, <3>2
  <2>3. pending # begun
    BY <1>1, <1>2
  <2> QED BY <2>1, <2>2, <2>3 DEF OpenInv
<1>8. FinishedInv'
  <2> SUFFICES ASSUME served, ended > 0 PROVE FinishedInv'
    BY <1>1 DEF FinishedInv
  <2>1. CASE \E p \in DOMAIN stream :
                /\ stream[p] = Stopped(ended)
                /\ \A q \in DOMAIN stream : q > p => stream[q] # Started(ended)
    <3>1. PICK p \in DOMAIN stream :
                /\ stream[p] = Stopped(ended)
                /\ \A q \in DOMAIN stream : q > p => stream[q] # Started(ended)
      BY <2>1
    <3>2. CASE p # 1
      <4>1. p - 1 \in DOMAIN stream' /\ stream'[p - 1] = Stopped(ended)
        BY <1>3, <3>1, <3>2
      <4>2. \A q \in DOMAIN stream' : q > p - 1 => stream'[q] # Started(ended)
        BY <1>3, <3>1
      <4> QED BY <1>1, <4>1, <4>2 DEF FinishedInv
    <3>3. CASE p = 1
      <4>1. h = ended
        BY <1>3, <3>1, <3>3 DEF Stopped
      <4>2. \A q \in DOMAIN stream' : stream'[q] # Started(ended)
        BY <1>3, <3>1, <3>3
      <4> QED BY <1>1, <1>2, <1>4, <4>1, <4>2 DEF FinishedInv
    <3> QED BY <3>2, <3>3
  <2>2. CASE /\ \A q \in DOMAIN stream : stream[q] # Started(ended)
             /\ ended \in DOMAIN stored /\ stored[ended] = Finished(ended)
    BY <1>1, <1>2, <1>3, <1>4, <2>2 DEF FinishedInv
  <2> QED BY <2>1, <2>2 DEF FinishedInv
<1>9. CoverInv'
  <2> SUFFICES ASSUME NEW q \in DOMAIN stream', stream'[q].kind # "start"
               PROVE  Covered(q)'
    BY DEF CoverInv, IsStart
  <2>1. /\ q + 1 \in DOMAIN stream /\ stream'[q] = stream[q + 1] /\ Covered(q + 1)
        /\ stream[q + 1].id \in Nat /\ stream[q + 1].id >= 1
    BY <1>2, <1>3, Positions, ObservationIs DEF CoverInv, IsStart
  <2>2. CASE \E i \in DOMAIN stored : i >= stream[q + 1].id
    BY <1>4, <2>1, <2>2 DEF Covered
  <2>3. CASE \E p \in DOMAIN stream : p < q + 1 /\ IsStart(p) /\ stream[p].id >= stream[q + 1].id
    <3>1. PICK p \in DOMAIN stream : p < q + 1 /\ IsStart(p) /\ stream[p].id >= stream[q + 1].id
      BY <2>3
    <3>2. p # 1
      BY <1>5, <3>1
    <3>3. p - 1 \in DOMAIN stream' /\ stream'[p - 1] = stream[p] /\ p - 1 < q
      BY <1>3, <3>1, <3>2
    <3> QED BY <2>1, <3>1, <3>3 DEF Covered, IsStart
  <2>4. ~(pending >= stream[q + 1].id)
    BY <1>1, <2>1
  <2> QED BY <2>1, <2>2, <2>3, <2>4 DEF Covered
<1> QED BY <1>6, <1>7, <1>8, <1>9

-----------------------------------------------------------------------------
\* A step of the behaviours that are remembered is a step of Next.
LEMMA RememberedStep == [MCNext]_<<vars, missed, failed>> => [Next]_vars
BY DEF MCNext, Reliable, Next

\* Nothing that was missed is forgotten.
LEMMA MissedStays ==
    ASSUME MCNext, ~missed'
    PROVE  ~missed /\ Reliable /\ ~StopBeforeStart
BY Zenon DEF MCNext

\* The initial state is faithful: nothing is served.
LEMMA InitFaithful == MCInit => FaithfulInv
<1> SUFFICES ASSUME MCInit PROVE FaithfulInv
  OBVIOUS
<1>1. IInv
  BY InitInv DEF MCInit
<1>2. DOMAIN stream = {} /\ DOMAIN stored = {} /\ pending = 0
  BY DEF MCInit, Init
<1>3. served = FALSE
  BY DEF MCInit, Init
<1>4. StopsInv /\ Faithful
  BY <1>2, <1>3
     DEF StopsInv, Faithful, OpenInv, FinishedInv, CoverInv, ClosedInv, OnlyLatestOpen
<1> QED BY <1>1, <1>4, Zenon DEF FaithfulInv

\* Every step in which nothing is missed keeps what is stored faithful.
LEMMA NextFaithful == FaithfulInv /\ [MCNext]_<<vars, missed, failed>> => FaithfulInv'
<1> SUFFICES ASSUME FaithfulInv, [MCNext]_<<vars, missed, failed>> PROVE FaithfulInv'
  OBVIOUS
<1>1. IInv /\ StopsInv /\ [Next]_vars
  BY RememberedStep DEF FaithfulInv
<1>2. IInv' /\ StopsInv'
  BY <1>1, NextInv, StopsKept
<1>3. ASSUME ~missed' PROVE Faithful'
  <2>1. CASE MCNext
    <3>1. Faithful /\ Reliable /\ ~StopBeforeStart
      BY <1>3, <2>1, MissedStays, Zenon DEF FaithfulInv
    <3>2. CASE Begin
      BY <1>1, <3>1, <3>2, BeginFaithful
    <3>3. CASE End
      BY <1>1, <3>1, <3>3, EndFaithful
    <3>4. CASE Subscribe
      BY <1>1, <3>1, <3>4, SubscribeFaithful
    <3>5. CASE Lose \/ Crash
      BY <1>1, <3>1, <3>5, LossFaithful
    <3>6. CASE CutLatest
      BY <1>1, <3>1, <3>6, CutFaithful
    <3>7. CASE RegisterStart
      BY <1>1, <3>1, <3>7, StartFaithful
    <3>8. CASE RegisterPending
      BY <1>1, <3>1, <3>8, PendingFaithful
    <3>9. CASE RegisterStop
      BY <1>1, <3>1, <3>9, StopFaithful
    <3> QED BY <3>1, <3>2, <3>3, <3>4, <3>5, <3>6, <3>7, <3>8, <3>9 DEF Reliable, Handle
  <2>2. CASE UNCHANGED <<vars, missed, failed>>
    <3>1. Faithful
      BY <1>3, <2>2, Zenon DEF FaithfulInv
    <3> QED BY <2>2, <3>1
            DEF vars, cloudVars, Faithful, OpenInv, FinishedInv, CoverInv, Covered, IsStart,
                ClosedInv, OnlyLatestOpen, Latest
  <2> QED BY <2>1, <2>2
<1> QED BY <1>2, <1>3, Zenon DEF FaithfulInv

\* In every reachable state the stored sessions and what is on its way say
\* together what the charger does, unless something was missed.
THEOREM StoredIsFaithful == MCSpec => []FaithfulInv
BY InitFaithful, NextFaithful, PTL DEF MCSpec

\* With nothing left on its way, what is stored says it alone.
LEMMA FaithfulConverges == IInv /\ Faithful => Converged
<1> SUFFICES ASSUME IInv, Faithful, served, stream = <<>>, pending = 0, begun > 0
             PROVE  /\ Latest = begun
                    /\ stored[Latest].stop = Never <=> ended < begun
                    /\ ended > 0 => stored[ended] = Finished(ended)
                    /\ ended \in {0, Latest, Previous}
  BY DEF Converged
<1>1. /\ TypeOK /\ begun \in Nat /\ ended \in Nat /\ ended <= begun /\ begun - 1 <= ended
      /\ \A i \in DOMAIN stored : i \in Nat /\ i >= 1 /\ i <= begun
  BY Numbers DEF IInv
<1>2. DOMAIN stream = {}
  OBVIOUS
<1>3. ended < begun => begun \in DOMAIN stored /\ stored[begun].stop = Never
  BY <1>1, <1>2 DEF Faithful, OpenInv
<1>4. ended > 0 => ended \in DOMAIN stored /\ stored[ended] = Finished(ended)
  BY <1>1, <1>2 DEF Faithful, FinishedInv
<1>5. Latest = begun
  <2>1. begun \in DOMAIN stored
    BY <1>1, <1>3, <1>4
  <2>2. Latest \in DOMAIN stored \cup {0} /\ begun <= Latest
    BY <1>1, <2>1, LatestIs
  <2> QED BY <1>1, <2>2
<1>6. stored[Latest].stop = Never <=> ended < begun
  BY <1>1, <1>3, <1>4, <1>5, FinishedIs
<1>7. ended \in {0, Latest, Previous}
  <2>1. CASE ended > 0 /\ ended < begun
    <3> DEFINE before == (DOMAIN stored \ {begun}) \cup {0}
    <3>1. ended \in before /\ before \subseteq 0 .. begun
      BY <1>1, <1>4, <2>1
    <3>2. Max(before) \in before /\ \A x \in before : x <= Max(before)
      <4> HIDE DEF before
      <4> QED BY <1>1, <3>1, MaxOf
    <3>3. \A x \in before : x \in Nat /\ x < begun
      BY <1>1
    <3>4. Max(before) = ended
      <4> HIDE DEF before
      <4>1. Max(before) \in Nat /\ Max(before) < begun /\ ended <= Max(before)
        BY <3>1, <3>2, <3>3
      <4> QED BY <1>1, <4>1
    <3>5. Previous = Max(before)
      BY <1>5 DEF Previous
    <3> QED BY <3>4, <3>5
  <2> QED BY <1>1, <1>5, <2>1
<1> QED BY <1>4, <1>5, <1>6, <1>7

\* Whatever was lost, repeated or interrupted: once all that was sent is
\* handled, the stored sessions are the charger's, if no observation failed to
\* be stored and no batch listed a stop before a start.
THEOREM SessionsConverge == MCSpec => []ReliablyConverged
<1>1. FaithfulInv => ReliablyConverged
  BY FaithfulConverges, Zenon DEF FaithfulInv, ReliablyConverged
<1> QED BY <1>1, StoredIsFaithful, PTL

\* Under the same condition no session but the latest stored is open.
THEOREM OneSessionOpen == MCSpec => []ReliablyOnlyLatestOpen
<1>1. FaithfulInv => ReliablyOnlyLatestOpen
  BY Zenon DEF FaithfulInv, Faithful, ReliablyOnlyLatestOpen
<1> QED BY <1>1, StoredIsFaithful, PTL

-----------------------------------------------------------------------------
(* Which session is the latest.  It does not matter here in which order a    *)
(* batch lists a stop and a start, only that every observation is stored.    *)

\* The session that began last is stored, open if the charger is in it, or its
\* start is coming.
CurrentInv ==
    served /\ begun > 0 =>
        \/ \E p \in DOMAIN stream : stream[p] = Started(begun)
        \/ pending = begun
        \/ begun \in DOMAIN stored /\ (ended < begun => stored[begun].stop = Never)

\* A batch brings the start of the session that began last.
LEMMA SubscribeBringsStart ==
    ASSUME TypeOK, Subscribe, begun > 0
    PROVE  \E p \in DOMAIN stream' : stream'[p] = Started(begun)
<1>1. PICK batch \in Batches : stream' = stream \o batch
  BY DEF Subscribe
<1>2. UpToDate(batch)
  BY <1>1, BatchUpToDate DEF TypeOK
<1>3. /\ Len(batch) \in Nat /\ Len(stream) \in Nat
      /\ DOMAIN stream' = 1 .. Len(stream) + Len(batch)
      /\ \A p \in 1 .. Len(batch) : stream'[Len(stream) + p] = batch[p]
  <2>1. batch \in Seq(Observation) /\ stream \in Seq(Observation)
    BY <1>2 DEF UpToDate, TypeOK
  <2> QED BY <1>1, <2>1, ConcatProperties
<1>4. \E p \in 1 .. Len(batch) : batch[p] = Started(begun)
  <2>1. CASE ended > 0
    <3>1. \/ batch = <<Started(begun)>> \o <<Stopped(ended)>>
          \/ batch = <<Stopped(ended)>> \o <<Started(begun)>>
      BY <1>1, <2>1 DEF Batches
    <3>2. \A x, y : batch = <<x>> \o <<y>> => Len(batch) = 2 /\ batch[1] = x /\ batch[2] = y
      BY PairIs, SMT
    <3>3. Len(batch) = 2 /\ (batch[1] = Started(begun) \/ batch[2] = Started(begun))
      BY <3>1, <3>2, Zenon
    <3> QED BY <3>3
  <2>2. CASE ~(ended > 0)
    <3>1. batch = <<Started(begun)>>
      BY <1>1, <2>2 DEF Batches
    <3> QED BY <3>1
  <2> QED BY <2>1, <2>2
<1>5. PICK p \in 1 .. Len(batch) : batch[p] = Started(begun)
  BY <1>4
<1>6. Len(stream) + p \in DOMAIN stream' /\ stream'[Len(stream) + p] = Started(begun)
  BY <1>3, <1>5
<1> QED BY <1>6

\* The steps of the charger and of the cloud.
LEMMA CloudCurrent ==
    ASSUME IInv, CurrentInv, Begin \/ End \/ Subscribe \/ Lose \/ Crash
    PROVE  CurrentInv'
<1>1. TypeOK /\ begun \in Nat /\ ended \in Nat /\ Len(stream) \in Nat
  BY Numbers, Positions DEF IInv
<1>2. CASE Begin
  <2>1. Emit(Started(begun')) /\ served' = served
    BY <1>2 DEF Begin
  <2>2. served => /\ Len(stream) + 1 \in DOMAIN stream'
                  /\ stream'[Len(stream) + 1] = Started(begun')
    BY <1>1, <2>1, EmitGrows
  <2> QED BY <2>1, <2>2 DEF CurrentInv
<1>3. CASE End
  <2>1. /\ Emit(Stopped(begun)) /\ ended' = begun
        /\ UNCHANGED <<begun, served, stored, pending>>
    BY <1>3 DEF End
  <2>2. \A p \in DOMAIN stream : p \in DOMAIN stream' /\ stream'[p] = stream[p]
    BY <1>1, <2>1, EmitGrows
  <2> QED BY <1>1, <2>1, <2>2 DEF CurrentInv
<1>4. CASE Subscribe
  <2>1. begun' = begun
    BY <1>4 DEF Subscribe
  <2> QED BY <1>1, <1>4, <2>1, SubscribeBringsStart DEF CurrentInv
<1>5. CASE Lose \/ Crash
  BY <1>5 DEF Lose, Crash, CurrentInv
<1> QED BY <1>2, <1>3, <1>4, <1>5

\* The starts: no session before the latest is stored by them.
LEMMA StartCurrent ==
    ASSUME IInv, CurrentInv, CutLatest \/ RegisterStart
    PROVE  CurrentInv'
<1> DEFINE h == Head(stream).id
<1>1. /\ pending = 0 /\ stream # <<>> /\ stream' = Tail(stream) /\ Head(stream).kind = "start"
      /\ UNCHANGED <<begun, ended, served>>
      /\ pending' = h \/ stored' = Put(h, Open)
  BY DEF CutLatest, RegisterStart, Turn, cloudVars
<1>2. TypeOK /\ begun \in Nat
  BY Numbers DEF IInv
<1>3. /\ h \in Nat /\ h >= 1 /\ h <= begun
      /\ 1 \in DOMAIN stream /\ stream[1] = Started(h)
      /\ \A p \in DOMAIN stream : p # 1 => p - 1 \in DOMAIN stream' /\ stream'[p - 1] = stream[p]
  BY <1>1, Taken
<1>4. CASE h = begun
  <2>1. pending' = begun \/ (begun \in DOMAIN stored' /\ stored'[begun].stop = Never)
    BY <1>1, <1>4 DEF Put, Open
  <2> QED BY <1>1, <2>1 DEF CurrentInv
<1>5. CASE h # begun
  <2>1. begun \notin DOMAIN stored
    BY <1>2, <1>3, <1>5, KindIs DEF IInv, StoreInv, IsStart
  <2>2. ASSUME NEW p \in DOMAIN stream, stream[p] = Started(begun)
        PROVE  \E q \in DOMAIN stream' : stream'[q] = Started(begun)
    <3>1. p # 1
      BY <1>3, <1>5, <2>2, KindIs
    <3> QED BY <1>3, <2>2, <3>1
  <2>3. begun > 0 => pending # begun
    BY <1>1
  <2> QED BY <1>1, <2>1, <2>2, <2>3 DEF CurrentInv
<1> QED BY <1>4, <1>5

\* The second write, and the stops: of sessions that have ended.
LEMMA WriteCurrent ==
    ASSUME IInv, StopsInv, CurrentInv, RegisterPending \/ RegisterStop
    PROVE  CurrentInv'
<1>1. /\ TypeOK /\ begun \in Nat /\ ended \in Nat /\ pending \in Nat /\ pending <= begun
  BY Numbers DEF IInv
<1>2. CASE RegisterPending
  <2>1. /\ pending # 0 /\ pending' = 0 /\ stored' = Put(pending, Open)
        /\ UNCHANGED <<begun, ended, served, stream>>
    BY <1>2 DEF RegisterPending, cloudVars
  <2>2. begun \in DOMAIN stored => pending = begun
    BY <1>1, <2>1 DEF IInv, StoreInv
  <2>3. pending = begun => begun \in DOMAIN stored' /\ stored'[begun].stop = Never
    BY <2>1 DEF Put, Open
  <2> QED BY <2>1, <2>2, <2>3 DEF CurrentInv
<1>3. CASE RegisterStop
  <2> DEFINE h == Head(stream).id
  <2>1. /\ pending = 0 /\ stream # <<>> /\ stream' = Tail(stream) /\ Head(stream).kind = "stop"
        /\ stored' = Put(h, Finished(h))
        /\ UNCHANGED <<begun, ended, served, pending>>
    BY <1>3 DEF RegisterStop, Turn, cloudVars
  <2>2. /\ h \in Nat /\ 1 \in DOMAIN stream /\ stream[1] = Stopped(h)
        /\ \A p \in DOMAIN stream : p # 1 => p - 1 \in DOMAIN stream' /\ stream'[p - 1] = stream[p]
    BY <2>1, Taken
  <2>3. h <= ended
    BY <2>2, KindIs DEF StopsInv, IsStart
  <2>4. /\ DOMAIN stored \subseteq DOMAIN stored'
        /\ \A i \in DOMAIN stored : i # h => stored'[i] = stored[i]
    BY <2>1 DEF Put
  <2>5. begun \in DOMAIN stored /\ (ended < begun => stored[begun].stop = Never) =>
            begun \in DOMAIN stored' /\ (ended < begun => stored'[begun].stop = Never)
    BY <1>1, <2>2, <2>3, <2>4
  <2>6. ASSUME NEW p \in DOMAIN stream, stream[p] = Started(begun)
        PROVE  \E q \in DOMAIN stream' : stream'[q] = Started(begun)
    <3>1. p # 1
      BY <2>2, <2>6, KindIs
    <3> QED BY <2>2, <2>6, <3>1
  <2> QED BY <2>1, <2>5, <2>6 DEF CurrentInv
<1> QED BY <1>2, <1>3

CurrentIfStored == FaithfulInv /\ (~failed => CurrentInv)

LEMMA NextCurrent == CurrentIfStored /\ [MCNext]_<<vars, missed, failed>> => CurrentIfStored'
<1> SUFFICES ASSUME CurrentIfStored, [MCNext]_<<vars, missed, failed>> PROVE CurrentIfStored'
  OBVIOUS
<1>1. FaithfulInv' /\ IInv /\ StopsInv
  BY NextFaithful DEF CurrentIfStored, FaithfulInv
<1>2. ASSUME ~failed' PROVE CurrentInv'
  <2>1. CASE MCNext
    <3>1. Reliable /\ CurrentInv
      BY <1>2, <2>1, Zenon DEF MCNext, CurrentIfStored
    <3> QED BY <1>1, <3>1, CloudCurrent, StartCurrent, WriteCurrent DEF Reliable, Handle
  <2>2. CASE UNCHANGED <<vars, missed, failed>>
    <3>1. CurrentInv
      BY <1>2, <2>2, Zenon DEF CurrentIfStored
    <3> QED BY <2>2, <3>1 DEF vars, cloudVars, CurrentInv
  <2> QED BY <2>1, <2>2
<1> QED BY <1>1, <1>2, Zenon DEF CurrentIfStored

LEMMA CurrentAlways == MCSpec => []CurrentIfStored
<1>1. MCInit => CurrentIfStored
  <2>1. MCInit => CurrentInv
    BY DEF MCInit, Init, CurrentInv
  <2> QED BY <2>1, InitFaithful, Zenon DEF CurrentIfStored
<1> QED BY <1>1, NextCurrent, PTL DEF MCSpec

\* Once all that was sent is handled and stored, the latest stored session is
\* the one that began last, and it is open if the charger is in it, in whatever
\* order the batches listed their observations.
THEOREM LatestIsTheChargers == MCSpec => []LatestIsCurrent
<1>1. CurrentIfStored => LatestIsCurrent
  <2> SUFFICES ASSUME CurrentIfStored, ~failed, served, stream = <<>>, pending = 0, begun > 0
               PROVE  Latest = begun /\ (ended < begun => stored[Latest].stop = Never)
    BY Zenon DEF LatestIsCurrent
  <2>1. TypeOK /\ CurrentInv
    BY Zenon DEF CurrentIfStored, FaithfulInv, IInv
  <2>2. begun \in Nat /\ \A i \in DOMAIN stored : i \in Nat /\ i <= begun
    BY <2>1, Numbers
  <2>3. begun \in DOMAIN stored /\ (ended < begun => stored[begun].stop = Never)
    BY <2>1, <2>2 DEF CurrentInv
  <2>4. Latest = begun
    <3>1. Latest \in DOMAIN stored \cup {0} /\ begun <= Latest
      BY <2>1, <2>3, LatestIs
    <3> QED BY <2>2, <3>1
  <2> QED BY <2>3, <2>4
<1> QED BY <1>1, CurrentAlways, PTL
==============================================================================
