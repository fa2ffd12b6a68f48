---------------------------- MODULE ChargerHistory ----------------------------
(***************************************************************************)
(* ChargerControl with what has to be remembered of a behaviour to say     *)
(* what the cache should hold: whether the cloud has kept the order of the *)
(* observations, and which offer the charger accepted last.  The variables *)
(* watch the steps and change none of them.                                *)
(***************************************************************************)
EXTENDS ChargerControl

VARIABLES
    late,      \* an observation older than one already handled was delivered
    lastOffer, \* the last current offered that the charger accepted, or 0 if
               \* a session's end has been handled since
    confused   \* an offer's answer was lost, or something came between an
               \* offer's acceptance and the end of its command

remembered  == <<late, lastOffer, confused>>
historyVars == <<allVars, remembered>>

HistoryInit ==
    /\ ControlInit
    /\ late = FALSE /\ lastOffer = 0 /\ confused = FALSE

\* The callers whose offer the charger has accepted and who have not stored it.
Offering == {c \in Callers : call[c].op = "offer" /\ call[c].at \in {"accepted", "storing"}}

RememberOffer(c) ==
    LET made == call[c].op = "offer" /\ Accept(c)
        lost == c \in Offering /\ AnswerLost(c)
    IN  /\ lastOffer' = IF made THEN call[c].current ELSE lastOffer
        /\ confused'  = (confused \/ lost \/ (made /\ Offering # {}))

Give(c) == Commands(c) /\ RememberOffer(c) /\ UNCHANGED late

EndsSession(k, n) ==
    k = "state" /\ ~Outdated(k, n) /\ IsSessionFinished(history[k][n])

Deliver(k, n) ==
    /\ HandleAndPublish(k, n)
    /\ late' = (late \/ n < seen[k])
    /\ IF EndsSession(k, n)
       THEN lastOffer' = 0 /\ confused' = (confused \/ Offering # {})
       ELSE UNCHANGED <<lastOffer, confused>>

\* What says nothing about either.
Pass       == Tick /\ UNCHANGED remembered
Reconnect  == Connect /\ UNCHANGED <<controlVars, remembered>>
Observe(k) == Make(k) /\ UNCHANGED <<controlVars, remembered>>

HistoryNext ==
    \/ Pass \/ Reconnect
    \/ \E c \in Callers : Give(c)
    \/ \E k \in Kinds : Observe(k) \/ \E n \in DOMAIN history[k] : Deliver(k, n)

HistorySpec == HistoryInit /\ [][HistoryNext]_historyVars

-----------------------------------------------------------------------------
(* As long as the cloud keeps the order of each kind, repetitions included,
   every kind is as new as what was handled. *)
CacheIsNewestInOrder == ~late => CacheIsNewest

(* The current a later start resumes with is the one the charger accepted last,
   or none once a session's end has been handled: between commands, unless two
   offers overlapped, a session ended during one, or an answer was lost. *)
RequestIsLastAccepted == Offering = {} /\ ~confused => requested = lastOffer
=============================================================================
