------------------------ MODULE ObservationCacheProofs ------------------------
(***************************************************************************)
(* Proofs about ObservationCache, for any kinds, values and numbers of     *)
(* observations.                                                           *)
(*                                                                         *)
(* That the newest handled observation is the stored one rests on the time *)
(* that is stored with it being the newest time that was handled, so that  *)
(* the comparison of the setter is a comparison with the newest.           *)
(***************************************************************************)
EXTENDS ObservationCache, SequenceTheorems, TLAPS

\* Each kind has its history and its place in the cache.
Shape ==
    /\ history = [k \in Kinds |-> history[k]]
    /\ seen    = [k \in Kinds |-> seen[k]]
    /\ cache   = [k \in Cached |-> cache[k]]

\* A kind whose observations are stored unless they are older.
Timed == Cached \ {"phaseMode", "grid"}

\* The time in the cache is the newest that was handled.
TimeInv == (\A k \in Timed : cache[k].at = seen[k]) /\ \A k \in heard : seen[k] > 0

IInv == TypeOK /\ Shape /\ TimeInv /\ StoredIsNewest /\ AnnouncedIsCached

USE KindsAssumption, LengthAssumption, CodesAssumption, ReadingsAssumption

-----------------------------------------------------------------------------
(* Kinds, and what is stored of their values. *)

LEMMA KindsTypes ==
    /\ Plain \subseteq Timed /\ Cached \subseteq Kinds /\ Timed \subseteq Cached
    /\ \A k \in Plain : k \notin SpecialKinds
BY DEF Kinds, Cached, Timed, SpecialKinds

LEMMA StoredPlain ==
    ASSUME NEW k \in Plain, NEW raw
    PROVE  RawValues(k) = Readings /\ Stored(k, raw) = raw /\ Unset(k) = {0}
BY KindsTypes DEF RawValues, Stored, Unset, SpecialKinds

LEMMA StoredSpecial ==
    /\ RawValues("cloud") = BOOLEAN
    /\ \A raw : Stored("output", raw) = raw
    /\ RawValues("state") = States
BY DEF RawValues, Stored

\* An observation that was made has a value of its kind.
LEMMA ObservationTypes ==
    ASSUME TypeOK, NEW k \in Kinds, NEW n \in DOMAIN history[k]
    PROVE  /\ history[k][n] \in RawValues(k)
           /\ n \in Nat /\ n >= 1 /\ n <= Len(history[k])
           /\ Stored(k, history[k][n]) \in {Stored(k, raw) : raw \in RawValues(k)} \cup Unset(k)
           /\ seen[k] \in Nat /\ seen[k] <= Len(history[k]) /\ Len(history[k]) \in Nat
BY DEF TypeOK

-----------------------------------------------------------------------------
LEMMA InitHolds == Init => IInv
<1> SUFFICES ASSUME Init PROVE IInv
  OBVIOUS
<1>1. Shape
  BY DEF Init, Shape
<1>2. ASSUME NEW k \in Cached
      PROVE  cache[k].at = 0 /\ cache[k].value \in Unset(k)
  BY KindsTypes, StoredPlain DEF Init, Unset, Cached, SpecialKinds, NoValue
<1>3. TypeOK
  <2>1. \A k \in Kinds : history[k] \in Seq(RawValues(k)) /\ seen[k] \in 0 .. Len(history[k])
    BY DEF Init
  <2>2. "output" \in Kinds => cache["output"].value # Unassigned
    BY <1>2 DEF Cached, Unset, NoValue, Unassigned, Kinds, SpecialKinds
  <2> QED BY <1>2, <2>1, <2>2, KindsTypes DEF Init, TypeOK
<1>4. TimeInv /\ StoredIsNewest
  BY <1>2, KindsTypes DEF Init, TimeInv, StoredIsNewest, Timed
<1>5. AnnouncedIsCached
  BY DEF Init, AnnouncedIsCached
<1> QED BY <1>1, <1>3, <1>4, <1>5 DEF IInv

-----------------------------------------------------------------------------
(* The steps. *)

LEMMA MakeHolds == ASSUME IInv, NEW k \in Kinds, Make(k) PROVE IInv'
<1> USE DEF IInv
<1>1. PICK raw \in RawValues(k) : history' = [history EXCEPT ![k] = Append(@, raw)]
  BY DEF Make
<1>2. /\ UNCHANGED <<cache, requested, isCloudOnline, isStateOnline, announced, failed, seen, heard>>
      /\ \A j \in Kinds : history[j] \in Seq(RawValues(j)) /\ seen[j] \in 0 .. Len(history[j])
  BY DEF Make, TypeOK
<1>3. /\ \A j \in Kinds : j # k => history'[j] = history[j]
      /\ history'[k] = Append(history[k], raw)
      /\ Shape'
  BY <1>1, <1>2 DEF Shape
<1>4. /\ history'[k] \in Seq(RawValues(k))
      /\ Len(history'[k]) = Len(history[k]) + 1
      /\ \A i \in 1 .. Len(history[k]) : history'[k][i] = history[k][i]
  BY <1>2, <1>3, AppendProperties
<1>5. ASSUME NEW j \in Kinds
      PROVE  /\ history'[j] \in Seq(RawValues(j))
             /\ Len(history[j]) \in Nat /\ Len(history'[j]) \in Nat
             /\ Len(history[j]) <= Len(history'[j])
             /\ \A i \in 1 .. Len(history[j]) : history'[j][i] = history[j][i]
  <2>1. Len(history[j]) \in Nat
    BY <1>2, LenProperties
  <2>2. CASE j = k
    BY <1>4, <2>1, <2>2
  <2>3. CASE j # k
    BY <1>2, <1>3, <2>1, <2>3
  <2> QED BY <2>2, <2>3
<1>6. TypeOK'
  <2>1. \A j \in Kinds : history'[j] \in Seq(RawValues(j)) /\ seen'[j] \in 0 .. Len(history'[j])
    BY <1>2, <1>5
  <2>2. \A j \in Cached : /\ cache'[j].at \in 0 .. Len(history'[j])
                         /\ cache'[j].value \in {Stored(j, r) : r \in RawValues(j)} \cup Unset(j)
    BY <1>2, <1>5, KindsTypes DEF TypeOK
  <2> QED BY <1>2, <2>1, <2>2 DEF TypeOK
<1>7. \A j \in Kinds : seen[j] > 0 => history'[j][seen[j]] = history[j][seen[j]]
  BY <1>2, <1>5
<1>8. StoredIsNewest'
  <2>1. ASSUME NEW j \in Timed, seen'[j] > 0
        PROVE  cache'[j] = [at |-> seen'[j], value |-> Stored(j, history'[j][seen'[j]])]
    BY <1>2, <1>7, <2>1, KindsTypes DEF StoredIsNewest, Newest, Timed
  <2>2. "state" \in heard' => isStateOnline' = (history'["state"][seen'["state"]] # Offline)
    BY <1>2, <1>7 DEF StoredIsNewest, Newest, TimeInv, TypeOK
  <2> QED BY <2>1, <2>2 DEF StoredIsNewest, Newest, Timed
<1> QED BY <1>2, <1>3, <1>6, <1>8 DEF TimeInv, AnnouncedIsCached, Supported

\* What concerns the cells of the cache, of IInv.
CellsInv ==
    /\ Shape
    /\ \A k \in Kinds : history[k] \in Seq(RawValues(k)) /\ seen[k] \in 0 .. Len(history[k])
    /\ \A k \in Cached :
          /\ cache[k].at \in 0 .. Len(history[k])
          /\ cache[k].value \in {Stored(k, raw) : raw \in RawValues(k)} \cup Unset(k)
    /\ "output" \in Kinds => cache["output"].value # Unassigned
    /\ \A k \in Timed : cache[k].at = seen[k]
    /\ \A k \in Timed :
          seen[k] > 0 => cache[k] = [at |-> seen[k], value |-> Stored(k, history[k][seen[k]])]

LEMMA Cells == IInv => CellsInv
BY DEF IInv, CellsInv, TypeOK, TimeInv, StoredIsNewest, Newest, Timed

\* A newer observation replaces what is stored, an older one changes nothing.
LEMMA StoreKeeps ==
    ASSUME IInv, NEW k \in Cached, NEW n \in DOMAIN history[k], UNCHANGED history,
           Store(k, n), See(k, n),
           k \in Timed => ~Outdated(k, n),
           k = "output" => history[k][n] # Unassigned
    PROVE  /\ CellsInv'
           /\ \A j \in Cached : j # k => cache'[j] = cache[j]
           /\ \A j \in Kinds : j # k => seen'[j] = seen[j]
           /\ seen'[k] >= seen[k] /\ seen'[k] > 0
           /\ k \in Timed => seen'[k] = n
<1>0. CellsInv /\ TypeOK /\ k \in Kinds
  BY Cells, KindsTypes DEF IInv
<1>1. /\ n \in Nat /\ n >= 1 /\ n <= Len(history[k]) /\ Len(history[k]) \in Nat
      /\ seen[k] \in Nat /\ seen[k] <= Len(history[k])
      /\ Stored(k, history[k][n]) \in {Stored(k, raw) : raw \in RawValues(k)} \cup Unset(k)
  BY <1>0, ObservationTypes
<1>2. /\ cache' = [cache EXCEPT ![k] = [at |-> n, value |-> Stored(k, history[k][n])]]
      /\ seen' = [seen EXCEPT ![k] = IF n > @ THEN n ELSE @]
  BY DEF Store, See
<1>3. /\ cache'[k] = [at |-> n, value |-> Stored(k, history[k][n])]
      /\ \A j \in Cached : j # k => cache'[j] = cache[j]
      /\ \A j \in Kinds : j # k => seen'[j] = seen[j]
      /\ seen'[k] = IF n > seen[k] THEN n ELSE seen[k]
      /\ Shape'
  BY <1>0, <1>2 DEF CellsInv, Shape
<1>4. k \in Timed => seen'[k] = n
  BY <1>0, <1>1, <1>3 DEF CellsInv, Outdated
<1>5. seen'[k] \in 0 .. Len(history[k]) /\ seen'[k] >= seen[k] /\ seen'[k] > 0
  BY <1>1, <1>3
<1>6. "output" \in Kinds => cache'["output"].value # Unassigned
  BY <1>0, <1>3, StoredSpecial DEF CellsInv, Cached
<1>7. ASSUME NEW j \in Cached
      PROVE  /\ cache'[j].at \in 0 .. Len(history[j])
             /\ cache'[j].value \in {Stored(j, raw) : raw \in RawValues(j)} \cup Unset(j)
  BY <1>0, <1>1, <1>3 DEF CellsInv
<1>8. ASSUME NEW j \in Timed
      PROVE  /\ cache'[j].at = seen'[j]
             /\ seen'[j] > 0 => cache'[j] = [at |-> seen'[j], value |-> Stored(j, history[j][seen'[j]])]
  <2>1. CASE j = k
    BY <1>3, <1>4, <2>1
  <2>2. CASE j # k
    BY <1>0, <1>3, <2>2, KindsTypes DEF CellsInv
  <2> QED BY <2>1, <2>2
<1>9. \A j \in Kinds : history[j] \in Seq(RawValues(j)) /\ seen'[j] \in 0 .. Len(history[j])
  BY <1>0, <1>3, <1>5 DEF CellsInv
<1> QED BY <1>3, <1>4, <1>5, <1>6, <1>7, <1>8, <1>9 DEF CellsInv

LEMMA SeeKeeps ==
    ASSUME IInv, NEW k \in Kinds, NEW n \in DOMAIN history[k], UNCHANGED <<history, cache>>,
           See(k, n), k \in Timed => Outdated(k, n)
    PROVE  /\ CellsInv'
           /\ \A j \in Kinds : j # k => seen'[j] = seen[j]
           /\ k \in Timed => seen'[k] = seen[k]
           /\ seen'[k] > 0
<1>0. CellsInv /\ TypeOK
  BY Cells DEF IInv
<1>1. /\ n \in Nat /\ n >= 1 /\ n <= Len(history[k]) /\ Len(history[k]) \in Nat
      /\ seen[k] \in Nat /\ seen[k] <= Len(history[k])
  BY <1>0, ObservationTypes
<1>2. /\ \A j \in Kinds : j # k => seen'[j] = seen[j]
      /\ seen'[k] = IF n > seen[k] THEN n ELSE seen[k]
      /\ Shape'
  BY <1>0 DEF CellsInv, Shape, See
<1>3. k \in Timed => seen'[k] = seen[k]
  BY <1>0, <1>1, <1>2, KindsTypes DEF CellsInv, Outdated
<1>4. seen'[k] \in 0 .. Len(history[k]) /\ seen'[k] > 0
  BY <1>1, <1>2
<1>5. \A j \in Kinds : history[j] \in Seq(RawValues(j)) /\ seen'[j] \in 0 .. Len(history[j])
  BY <1>0, <1>2, <1>4 DEF CellsInv
<1>6. \A j \in Timed : seen'[j] = seen[j]
  BY <1>2, <1>3, KindsTypes
<1> QED BY <1>0, <1>2, <1>3, <1>4, <1>5, <1>6 DEF CellsInv

\* With the cells, what is left of IInv: the flags and the report.
FlagsInv ==
    /\ requested \in Readings
    /\ {isCloudOnline, isStateOnline, failed} \subseteq BOOLEAN
    /\ heard \subseteq Kinds
    /\ \A k \in heard : seen[k] > 0
    /\ "state" \in heard => isStateOnline = (history["state"][seen["state"]] # Offline)

LEMMA Parts == IInv <=> CellsInv /\ FlagsInv /\ AnnouncedIsCached
BY DEF IInv, CellsInv, FlagsInv, TypeOK, TimeInv, StoredIsNewest, Newest, Timed

LEMMA PartsAfter == CellsInv' /\ FlagsInv' /\ AnnouncedIsCached' => IInv'
BY Parts, PTL

\* The report is of the grid and the phase mode only.
LEMMA SameSupported ==
    ASSUME Shape, Shape', \A j \in Cached \cap {"grid", "phaseMode"} : cache'[j] = cache[j]
    PROVE  Supported(cache') = Supported(cache)
BY DEF Supported, Shape, Cached, Kinds

LEMMA PlainHolds ==
    ASSUME IInv, NEW k \in Kinds, NEW n \in DOMAIN history[k], HandlePlain(k, n)
    PROVE  IInv'
<1>0. CellsInv /\ FlagsInv /\ AnnouncedIsCached /\ k \in Timed /\ k \in Cached /\ k \notin SpecialKinds
  BY Parts, KindsTypes DEF HandlePlain
<1>1. UNCHANGED <<history, requested, isCloudOnline, isStateOnline, announced, failed>> /\ See(k, n)
  BY DEF HandlePlain
<1>2. CellsInv' /\ seen'[k] > 0 /\ heard' \subseteq heard \cup {k}
      /\ (\A j \in Kinds : j # k => seen'[j] = seen[j]) /\ (\A j \in Cached : j # k => cache'[j] = cache[j])
  <2>1. CASE Outdated(k, n)
    BY <1>0, <1>1, <2>1, SeeKeeps DEF HandlePlain
  <2>2. CASE ~Outdated(k, n)
    BY <1>0, <1>1, <2>2, StoreKeeps DEF HandlePlain, SpecialKinds
  <2> QED BY <2>1, <2>2
<1>3. FlagsInv'
  BY <1>0, <1>1, <1>2 DEF FlagsInv, SpecialKinds
<1>4. AnnouncedIsCached'
  <2>1. Supported(cache') = Supported(cache)
    BY <1>0, <1>2, SameSupported DEF CellsInv, SpecialKinds
  <2> QED BY <1>0, <1>1, <2>1 DEF AnnouncedIsCached
<1> QED BY <1>2, <1>3, <1>4, PartsAfter

LEMMA OutPhaseHolds ==
    ASSUME IInv, "output" \in Kinds, NEW n \in DOMAIN history["output"], HandleOutPhase(n)
    PROVE  IInv'
<1>0. CellsInv /\ FlagsInv /\ AnnouncedIsCached /\ "output" \in Cached
  BY Parts DEF Cached
<1>1. /\ UNCHANGED <<history, requested, isCloudOnline, isStateOnline, announced, failed, heard>>
      /\ history["output"][n] # Unassigned /\ ~Outdated("output", n)
      /\ Store("output", n) /\ See("output", n)
  BY DEF HandleOutPhase
<1>2. CellsInv' /\ seen'["output"] > 0
      /\ (\A j \in Kinds : j # "output" => seen'[j] = seen[j])
      /\ (\A j \in Cached : j # "output" => cache'[j] = cache[j])
  BY <1>0, <1>1, StoreKeeps
<1>3. FlagsInv'
  BY <1>0, <1>1, <1>2 DEF FlagsInv
<1>4. Supported(cache') = Supported(cache)
  BY <1>0, <1>2, SameSupported DEF CellsInv
<1> QED BY <1>0, <1>1, <1>2, <1>3, <1>4, PartsAfter DEF AnnouncedIsCached

LEMMA CloudConnectedHolds ==
    ASSUME IInv, "cloud" \in Kinds, NEW n \in DOMAIN history["cloud"], HandleCloudConnected(n)
    PROVE  IInv'
<1>0. CellsInv /\ FlagsInv /\ AnnouncedIsCached /\ "cloud" \notin Timed /\ history["cloud"][n] \in BOOLEAN
  BY Parts, ObservationTypes, StoredSpecial DEF Cached, Timed, IInv
<1>1. /\ UNCHANGED <<history, cache, requested, isStateOnline, announced, failed>>
      /\ isCloudOnline' = history["cloud"][n] /\ heard' = heard \cup {"cloud"} /\ See("cloud", n)
  BY DEF HandleCloudConnected
<1>2. CellsInv' /\ seen'["cloud"] > 0 /\ \A j \in Kinds : j # "cloud" => seen'[j] = seen[j]
  BY <1>0, <1>1, SeeKeeps
<1>3. FlagsInv'
  BY <1>0, <1>1, <1>2 DEF FlagsInv
<1> QED BY <1>0, <1>1, <1>2, <1>3, PartsAfter DEF AnnouncedIsCached, Supported

LEMMA ChargerStateHolds ==
    ASSUME IInv, "state" \in Kinds, NEW n \in DOMAIN history["state"], HandleChargerState(n)
    PROVE  IInv'
<1>0. CellsInv /\ FlagsInv /\ AnnouncedIsCached /\ "state" \in Timed /\ "state" \in Cached
  BY Parts DEF Cached, Timed
<1>1. /\ UNCHANGED <<history, isCloudOnline, announced, failed>>
      /\ ~Outdated("state", n) /\ Store("state", n) /\ See("state", n)
      /\ isStateOnline' = (history["state"][n] # Offline)
      /\ requested' \in {0, requested} /\ heard' = heard \cup {"state"}
  BY DEF HandleChargerState
<1>2. CellsInv' /\ seen'["state"] > 0 /\ seen'["state"] = n
      /\ (\A j \in Kinds : j # "state" => seen'[j] = seen[j])
      /\ (\A j \in Cached : j # "state" => cache'[j] = cache[j])
  BY <1>0, <1>1, StoreKeeps
<1>3. FlagsInv'
  BY <1>0, <1>1, <1>2 DEF FlagsInv
<1>4. Supported(cache') = Supported(cache)
  BY <1>0, <1>2, SameSupported DEF CellsInv
<1> QED BY <1>0, <1>1, <1>2, <1>3, <1>4, PartsAfter DEF AnnouncedIsCached

LEMMA InstallationHolds ==
    ASSUME IInv, NEW k \in Kinds, NEW n \in DOMAIN history[k], HandleInstallation(k, n)
    PROVE  IInv'
<1>0. CellsInv /\ FlagsInv /\ AnnouncedIsCached /\ k \notin Timed /\ k \in Cached /\ k # "output" /\ k # "state"
  BY Parts DEF Cached, Timed, HandleInstallation
<1>1. UNCHANGED <<history, requested, isCloudOnline, isStateOnline, heard>> /\ See(k, n)
  BY DEF HandleInstallation
<1>2. CellsInv' /\ seen'[k] > 0 /\ \A j \in Kinds : j # k => seen'[j] = seen[j]
  <2>1. CASE Same(k, n) \/ Outdated(k, n)
    BY <1>0, <1>1, <2>1, SeeKeeps DEF HandleInstallation
  <2>2. CASE ~(Same(k, n) \/ Outdated(k, n))
    BY <1>0, <1>1, <2>2, StoreKeeps DEF HandleInstallation
  <2> QED BY <2>1, <2>2
<1>3. FlagsInv' /\ AnnouncedIsCached'
  <2>1. CASE Same(k, n) \/ Outdated(k, n)
    BY <1>0, <1>1, <1>2, <2>1 DEF FlagsInv, HandleInstallation, AnnouncedIsCached, Supported
  <2>2. CASE ~(Same(k, n) \/ Outdated(k, n))
    <3>1. Announce
      BY <2>2 DEF HandleInstallation
    <3>2. failed' \in BOOLEAN /\ AnnouncedIsCached'
      BY <3>1 DEF Announce, AnnouncedIsCached
    <3> QED BY <1>0, <1>1, <1>2, <3>2 DEF FlagsInv
  <2> QED BY <2>1, <2>2
<1> QED BY <1>2, <1>3, PartsAfter

LEMMA HandleHolds ==
    ASSUME IInv, NEW k \in Kinds, NEW n \in DOMAIN history[k], Handle(k, n)
    PROVE  IInv'
BY PlainHolds, InstallationHolds, OutPhaseHolds, CloudConnectedHolds, ChargerStateHolds DEF Handle

LEMMA RequestHolds == ASSUME IInv, NEW value \in Readings, Request(value) PROVE IInv'
BY DEF IInv, Request, TypeOK, Shape, TimeInv, StoredIsNewest, AnnouncedIsCached, Newest, Supported

LEMMA ConnectHolds == ASSUME IInv, Connect PROVE IInv'
BY DEF IInv, Connect, TypeOK, Shape, TimeInv, StoredIsNewest, AnnouncedIsCached, Newest, Supported

LEMMA StutterHolds == ASSUME IInv, UNCHANGED vars PROVE IInv'
BY DEF IInv, vars, TypeOK, Shape, TimeInv, StoredIsNewest, AnnouncedIsCached, Newest, Supported

LEMMA NextHolds == IInv /\ [Next]_vars => IInv'
BY MakeHolds, HandleHolds, RequestHolds, ConnectHolds, StutterHolds DEF Next

LEMMA Inductive == Spec => []IInv
BY InitHolds, NextHolds, PTL DEF Spec

-----------------------------------------------------------------------------
(* Types are kept whatever comes, how often and in what order: an unassigned
   output phase is never stored, and every time in the cache is that of an
   observation that was made. *)
THEOREM TypeCorrect == Spec => []TypeOK
<1>1. IInv => TypeOK
  BY DEF IInv
<1> QED BY <1>1, Inductive, PTL

(* The cache holds the newest handled observation of each kind that has a time,
   and the online flag belongs to the newest state. *)
THEOREM NewestIsStored == Spec => []StoredIsNewest
<1>1. IInv => StoredIsNewest
  BY DEF IInv
<1> QED BY <1>1, Inductive, PTL

(* What was reported of the grid and the phase modes is what the cache holds,
   unless the last update failed. *)
THEOREM CachedIsAnnounced == Spec => []AnnouncedIsCached
<1>1. IInv => AnnouncedIsCached
  BY DEF IInv
<1> QED BY <1>1, Inductive, PTL
=============================================================================
