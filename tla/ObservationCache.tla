-------------------------- MODULE ObservationCache ---------------------------
(***************************************************************************)
(* The observations of one charger that are kept as a latest value:        *)
(* internal/signalr/handler.go, internal/cache/cache.go, and what          *)
(* internal/easee/thing.go puts there when the thing is created.           *)
(*                                                                         *)
(* The charger makes observations of several kinds; the n-th of a kind has *)
(* a later timestamp than those before, and timestamps of different kinds  *)
(* are never compared.  The cloud delivers an observation any number of    *)
(* times and in any order.  The run loop handles one at a time.            *)
(***************************************************************************)
EXTENDS Integers, Sequences, PhaseModes

CONSTANTS
    Plain,    \* kinds of observations stored as they come
    Special,  \* kinds treated otherwise that take part
    Readings, \* values of the plain kinds, and currents; 0 among them
    Grids,    \* codes of detected power grids
    States,   \* codes of charger states
    Length    \* bound: observations made of each kind

SpecialKinds == {"phaseMode", "grid", "state", "cloud", "output"}

ASSUME KindsAssumption  == Special \subseteq SpecialKinds /\ Plain \cap SpecialKinds = {}
ASSUME LengthAssumption == Length \in Nat
ASSUME CodesAssumption  == Grids \subseteq Int /\ States \subseteq -1 .. 8
ASSUME ReadingsAssumption == Readings \subseteq Nat /\ 0 \in Readings

VARIABLES
    history,    \* the observations the charger has made, of each kind
    cache,      \* value and timestamp of each kind but "cloud"
    requested,  \* requestedOfferedCurrent
    isCloudOnline, isStateOnline,
    announced,  \* grid and supported phase modes in the last inclusion report
    failed,     \* the last update of the thing, or its report, failed
    seen,       \* the newest observation of each kind that was handled
    heard       \* the kinds this handler has taken a value of

vars == <<history, cache, requested, isCloudOnline, isStateOnline, announced, failed, seen, heard>>

Kinds  == Plain \cup Special
Cached == Kinds \ {"cloud"}

Unassigned == ""
RawValues(k) ==
    CASE k = "phaseMode" -> 1 .. 3
      [] k = "grid"      -> Grids
      [] k = "state"     -> States
      [] k = "cloud"     -> BOOLEAN
      [] k = "output"    -> {Unassigned, "NL1", "NL1L2L3"}
      [] OTHER           -> Readings

\* What is stored of a value.
Stored(k, raw) ==
    CASE k = "grid"  -> ToFimpGridType(raw)
      [] k = "state" -> ToFimpState(raw)
      [] OTHER       -> raw

\* What is there before the first observation.
NoValue == "none"
Unset(k) == CASE k = "grid" -> {ToFimpGridType(code) : code \in Grids} \cup {NoGrid}
              [] k = "phaseMode" -> 1 .. 3
              [] k \in Plain -> {0}
              [] OTHER -> {NoValue}

TypeOK ==
    /\ \A k \in Kinds : history[k] \in Seq(RawValues(k)) /\ seen[k] \in 0 .. Len(history[k])
    /\ \A k \in Cached :
          /\ cache[k].at \in 0 .. Len(history[k])
          /\ cache[k].value \in {Stored(k, raw) : raw \in RawValues(k)} \cup Unset(k)
    /\ "output" \in Kinds => cache["output"].value # Unassigned
    /\ requested \in Readings
    /\ {isCloudOnline, isStateOnline, failed} \subseteq BOOLEAN
    /\ heard \subseteq Kinds

Supported(c) ==
    IF {"grid", "phaseMode"} \subseteq Special
    THEN [grid  |-> c["grid"].value,
          modes |-> SupportedPhaseModes(c["grid"].value, c["phaseMode"].value)]
    ELSE NoValue

\* thingFactory.Create: the installation as it was fetched or kept, with the
\* zero time.
Init ==
    /\ history = [k \in Kinds |-> <<>>]
    /\ \E grid \in Unset("grid"), mode \in Unset("phaseMode") :
          cache = [k \in Cached |->
                      [at |-> 0, value |-> CASE k = "grid" -> grid
                                             [] k = "phaseMode" -> mode
                                             [] k \in Plain -> 0
                                             [] OTHER -> NoValue]]
    /\ requested = 0
    /\ isCloudOnline = TRUE /\ isStateOnline = TRUE
    /\ announced = Supported(cache)
    /\ failed = FALSE
    /\ seen = [k \in Kinds |-> 0]
    /\ heard = {}

-----------------------------------------------------------------------------
(* The charger, the controller and the adapter. *)

Make(k) ==
    /\ Len(history[k]) < Length
    /\ \E raw \in RawValues(k) : history' = [history EXCEPT ![k] = Append(@, raw)]
    /\ UNCHANGED <<cache, requested, isCloudOnline, isStateOnline, announced, failed, seen, heard>>

\* SetChargepointOfferedCurrent, after the charger has accepted the current.
\* The hub's clock stamps it; of two stamps the later wins, whichever is
\* stored first.
Request(value) ==
    /\ "state" \in Special
    /\ requested' = value
    /\ UNCHANGED <<history, cache, isCloudOnline, isStateOnline, announced, failed, seen, heard>>

\* Connect: a new handler over the same cache.
Connect ==
    /\ isCloudOnline' = TRUE /\ isStateOnline' = TRUE
    /\ heard' = {}
    /\ UNCHANGED <<history, cache, requested, announced, failed, seen>>

-----------------------------------------------------------------------------
(* The handlers.  n is the observation's place in the history of its kind. *)

\* Mutant of Outdated: the stored timestamp is not looked at.
NeverOutdated(k, n) == FALSE

Outdated(k, n) == n < cache[k].at

Store(k, n) ==
    cache' = [cache EXCEPT ![k] = [at |-> n, value |-> Stored(k, history[k][n])]]

See(k, n) == seen' = [seen EXCEPT ![k] = IF n > @ THEN n ELSE @]

\* A setter of the cache and a report.
HandlePlain(k, n) ==
    /\ k \in Plain
    /\ IF Outdated(k, n) THEN UNCHANGED <<cache, heard>>
                         ELSE Store(k, n) /\ heard' = heard \cup {k}
    /\ See(k, n)
    /\ UNCHANGED <<history, requested, isCloudOnline, isStateOnline, announced, failed>>

\* Mutant of HandleOutPhase: an unassigned output phase is stored.
HandleAnyOutPhase(n) ==
    /\ ~Outdated("output", n)
    /\ Store("output", n) /\ See("output", n)
    /\ UNCHANGED <<history, requested, isCloudOnline, isStateOnline, announced, failed, heard>>

HandleOutPhase(n) ==
    /\ history["output"][n] # Unassigned
    /\ ~Outdated("output", n)
    /\ Store("output", n) /\ See("output", n)
    /\ UNCHANGED <<history, requested, isCloudOnline, isStateOnline, announced, failed, heard>>

HandleCloudConnected(n) ==
    /\ isCloudOnline' = history["cloud"][n]
    /\ See("cloud", n) /\ heard' = heard \cup {"cloud"}
    /\ UNCHANGED <<history, cache, requested, isStateOnline, announced, failed>>

HandleChargerState(n) ==
    LET state == history["state"][n] IN
    /\ ~Outdated("state", n)
    /\ Store("state", n)
    /\ isStateOnline' = (state # Offline)
    /\ requested' = IF IsSessionFinished(state) THEN 0 ELSE requested
    /\ heard' = heard \cup {"state"} /\ See("state", n)
    /\ UNCHANGED <<history, isCloudOnline, announced, failed>>

\* Mutant of Announce: the modes are computed before the value is stored.
AnnounceOld ==
    \/ announced' = Supported(cache) /\ failed' = FALSE
    \/ failed' = TRUE /\ UNCHANGED announced

\* The chargepoint service, which every thing has, gets the properties of the
\* cache; the thing is updated and reported, unless the library refuses.
Announce ==
    \/ announced' = Supported(cache') /\ failed' = FALSE
    \/ failed' = TRUE /\ UNCHANGED announced

\* Mutant of Same: the number of phases is not compared.
SameType(k, n) ==
    IF k = "grid" THEN ToFimpGridType(history[k][n]).type = cache[k].value.type
                  ELSE history[k][n] = cache[k].value

\* The value is the stored one.
Same(k, n) == Stored(k, history[k][n]) = cache[k].value

\* handlePhaseMode and handleDetectedPowerGridType: the same value again is not
\* stored, and so its timestamp is not.
HandleInstallation(k, n) ==
    /\ k \in {"phaseMode", "grid"}
    /\ IF Same(k, n) \/ Outdated(k, n) THEN UNCHANGED <<cache, announced, failed>>
                                        ELSE Store(k, n) /\ Announce
    /\ See(k, n)
    /\ UNCHANGED <<history, requested, isCloudOnline, isStateOnline, heard>>

Handle(k, n) ==
    \/ HandlePlain(k, n)
    \/ HandleInstallation(k, n)
    \/ k = "output" /\ HandleOutPhase(n)
    \/ k = "cloud"  /\ HandleCloudConnected(n)
    \/ k = "state"  /\ HandleChargerState(n)

Next ==
    \/ Connect
    \/ \E value \in Readings : Request(value)
    \/ \E k \in Kinds : Make(k) \/ \E n \in DOMAIN history[k] : Handle(k, n)

Spec == Init /\ [][Next]_vars

-----------------------------------------------------------------------------
Newest(k) == history[k][seen[k]]

(* In whatever order and however often observations come: the cache holds the
   newest handled one of the plain kinds, the newest charger state and the
   newest assigned output phase, and a charger whose newest state is offline
   is offline for the handler that took it. *)
StoredIsNewest ==
    /\ \A k \in Cached \ {"phaseMode", "grid"} :
          seen[k] > 0 => cache[k] = [at |-> seen[k], value |-> Stored(k, Newest(k))]
    /\ "state" \in heard => isStateOnline = (Newest("state") # Offline)

(* What the inclusion report says of the grid and of the supported phase modes
   is what the cache holds, also before the first observation; only after a
   failed update it is not. *)
AnnouncedIsCached == ~failed => announced = Supported(cache)

(* When the cloud keeps the order, every kind is as new as what was handled:
   skipping a repeated value does no harm then. *)
CacheIsNewest ==
    /\ \A k \in Cached \cap {"phaseMode", "grid"} :
          seen[k] > 0 => cache[k].value = Stored(k, Newest(k))
    /\ "cloud" \in heard => isCloudOnline = Newest("cloud")

(* cache.go:16, "PhaseMode returns the charger phase mode": the newest that was
   handled.  An older observation is stored over it after the newest was
   skipped as a repetition. *)
PhaseModeIsNewest ==
    seen["phaseMode"] > 0 => cache["phaseMode"].value = Newest("phaseMode")

(* handler.go:25, "IsOnline return if the charger is online": not offline for
   an observation older than one already handled. *)
OnlineIsNewest == "cloud" \in heard => isCloudOnline = Newest("cloud")

(* cache.go:22, "RequestedOfferedCurrent returns the offered current requested
   by controller": a request stays until a new observation of the charger's
   state ends the session.  A repeated one, which every subscription brings,
   erases it. *)
RequestStays ==
    [][\A n \in DOMAIN history["state"] :
          HandleChargerState(n) /\ requested # 0 /\ requested' = 0
              => seen'["state"] > seen["state"]]_vars
=============================================================================
