-------------------------- MODULE AuthenticationProofs --------------------------
(***************************************************************************)
(* Proofs about Authentication, for any number of tokens, messages,        *)
(* restarts and uninstallations.                                           *)
(*                                                                         *)
(* The argument is the one of the mutex: while a call holds it only        *)
(* Uninstall touches the credentials, and the message a call has sent is   *)
(* still on the bus when it clears them, since the application needs the   *)
(* mutex to handle it.                                                     *)
(***************************************************************************)
EXTENDS Authentication, SequenceTheorems, TLAPS

\* A call holds the mutex, or a login does; and only a Reset takes the credentials
\* from a call.
MutexInv ==
    /\ app = "signing" => call = Free
    /\ call # Free => IF creds = Empty THEN wiped # "no" ELSE creds.token = call.token

\* Where the credentials are gone and the report is still to come, a message is there.
ReportInv ==
    /\ call.step = "published" => messages # <<>>
    /\ app = "registering" /\ creds = Empty => messages # <<>>
    /\ AuthenticatedMeansCredentials

\* Once the compatibility step is done the times are known.
DatesInv == bcEnsured /\ creds # Empty => creds.expiry = "known"

IInv == TypeOK /\ MutexInv /\ ReportInv /\ DatesInv

USE BoundsAssumption

-----------------------------------------------------------------------------
\* The types of the credentials that are stored, whether or not they are saved.
LEMMA StoreTypes ==
    ASSUME TypeOK, NEW c \in Credentials, NEW saved \in BOOLEAN, Store(c, saved)
    PROVE  /\ creds' = c /\ creds' \in Credentials /\ disk' \in Credentials
           /\ wiped' = "no"
BY DEF TypeOK, Store

LEMMA EmptyTypes == Empty \in Credentials /\ Empty.token = NoToken /\ NoToken \notin Tokens
BY DEF Empty, Credentials, NoToken, Tokens

LEMMA FreeTypes == Free.step = "none" /\ "none" \notin Steps
BY DEF Free, Steps

\* The credentials of a token are not empty.
LEMMA NotEmpty ==
    ASSUME NEW c \in Credentials, c # Empty
    PROVE  c \in [token : Tokens, expiry : Expiry] /\ c.token \in Tokens /\ c.expiry \in Expiry
BY DEF Credentials

\* Credentials made of a token are not empty, and their times are known.
LEMMA NewTypes ==
    ASSUME NEW token \in Tokens
    PROVE  /\ New(token) \in Credentials \ {Empty}
           /\ New(token).token = token
           /\ New(token).expiry = "known"
<1>1. New(token) \in [token : Tokens, expiry : Expiry]
  BY DEF New, Expiry
<1>2. New(token) # Empty
  BY EmptyTypes DEF New
<1> QED BY <1>1, <1>2 DEF Credentials, New

\* New credentials are of the next token.
LEMMA NextToken ==
    ASSUME TypeOK, issued < MaxToken
    PROVE  issued + 1 \in Tokens /\ issued + 1 \in 0..MaxToken
BY DEF TypeOK, Tokens

\* AccessToken goes on with a call only for the token of the credentials it read, and
\* with the logout only if the refresh token expired.
LEMMA ProceedTypes ==
    ASSUME TypeOK, NEW c \in Credentials
    PROVE  /\ Proceed(c) \in {Free} \cup [step : Steps, token : Tokens]
           /\ Proceed(c) # Free => /\ c # Empty
                                   /\ Proceed(c).token = c.token
                                   /\ Proceed(c).step # "published"
           /\ Proceed(c).step = "triggered" => c # Empty /\ RefreshTokenExpired(c)
<1>1. CASE Proceed(c) = Free
  BY <1>1, FreeTypes
<1>2. CASE Proceed(c) # Free
  <2>1. c # Empty /\ c.token \in Tokens
    BY <1>2, NotEmpty DEF Proceed
  <2>2. \/ Proceed(c) = [step |-> "triggered", token |-> c.token] /\ RefreshTokenExpired(c)
        \/ Proceed(c) = [step |-> "refreshing", token |-> c.token]
    BY <1>2 DEF Proceed
  <2> QED BY <2>1, <2>2 DEF Steps
<1> QED BY <1>1, <1>2

\* What AccessToken leaves: the credentials it read, perhaps with their times, and a call
\* for them only if the times are known.
LEMMA AccessTokenStores ==
    ASSUME TypeOK, AccessToken
    PROVE  /\ creds' \in Credentials /\ disk' \in Credentials
           /\ creds' # Empty <=> creds # Empty
           /\ creds'.token = creds.token
           /\ bcEnsured /\ creds # Empty => creds' = creds
           /\ bcEnsured' \in BOOLEAN
           /\ bcEnsured' => bcEnsured \/ creds' = Empty \/ creds'.expiry = "known"
           /\ call' = Free \/ (call' = Proceed(creds') /\ bcEnsured')
           /\ wiped' \in {"no", "half", "whole"}
           /\ creds = Empty => wiped' = wiped
<1>1. /\ creds \in Credentials /\ disk \in Credentials /\ bcEnsured \in BOOLEAN
      /\ wiped \in {"no", "half", "whole"}
  BY DEF TypeOK
<1>2. call = Free
  BY DEF AccessToken, Unlocked
<1>3. CASE Undatable /\ UNCHANGED <<creds, disk, bcEnsured, call, wiped>>
  BY <1>1, <1>2, <1>3 DEF Undatable, NeedsDates
<1>4. CASE NeedsDates /\ ~Undatable
  <2>1. PICK saved \in BOOLEAN :
          /\ Store(New(creds.token), saved)
          /\ bcEnsured' = saved
          /\ call' = IF saved THEN Proceed(New(creds.token)) ELSE Free
    BY <1>4 DEF AccessToken
  <2>2. creds # Empty /\ creds.token \in Tokens /\ ~bcEnsured
    BY <1>1, <1>4, NotEmpty DEF NeedsDates
  <2>3. /\ New(creds.token) \in Credentials /\ New(creds.token) # Empty
        /\ New(creds.token).token = creds.token
        /\ New(creds.token).expiry = "known"
    BY <2>2, NewTypes
  <2>4. /\ creds' = New(creds.token) /\ disk' \in Credentials
        /\ wiped' = "no"
    BY <2>1, <2>3, StoreTypes
  <2> QED BY <2>1, <2>2, <2>3, <2>4
<1>5. CASE ~NeedsDates
  <2>1. /\ bcEnsured' = TRUE /\ call' = Proceed(creds)
        /\ UNCHANGED <<creds, disk, wiped>>
    BY <1>5 DEF AccessToken, Undatable
  <2>2. bcEnsured \/ creds = Empty \/ creds.expiry = "known"
    BY <1>5 DEF NeedsDates
  <2> QED BY <1>1, <2>1, <2>2
<1> QED BY <1>3, <1>4, <1>5 DEF AccessToken

-----------------------------------------------------------------------------
(* The invariant *)

LEMMA InitInv == Init => IInv
<1> SUFFICES ASSUME Init PROVE IInv
  OBVIOUS
<1>1. creds \in Credentials
  <2>1. CASE issued = 0
    BY <2>1, EmptyTypes DEF Init
  <2>2. CASE issued # 0
    BY <2>2 DEF Init, Credentials, Tokens
  <2> QED BY <2>1, <2>2
<1>2. TypeOK
  <2>1. issued \in 0..MaxToken /\ disk \in Credentials
    BY <1>1 DEF Init
  <2>2. authenticated \in BOOLEAN
    BY Zenon DEF Init
  <2>3. messages \in Seq(Tokens) /\ Len(messages) <= MaxMessages
    BY DEF Init
  <2>4. /\ age \in [Tokens -> {"fresh", "stale", "dead"}]
        /\ call = Free /\ app = "idle" /\ restarts = 0 /\ uninstalls = 0
        /\ wiped = "no"
    BY DEF Init
  <2>5. bcEnsured \in BOOLEAN /\ waiting \in BOOLEAN
    BY Zenon DEF Init
  <2> QED BY <1>1, <2>1, <2>2, <2>3, <2>4, <2>5 DEF TypeOK
<1>3. MutexInv /\ ReportInv /\ DatesInv
  <2>1. authenticated => creds # Empty
    BY Zenon DEF Init
  <2>2. ~bcEnsured /\ call = Free /\ app = "idle"
    BY DEF Init
  <2> QED BY <2>1, <2>2, FreeTypes
          DEF MutexInv, ReportInv, DatesInv, AuthenticatedMeansCredentials
<1> QED BY <1>2, <1>3 DEF IInv

LEMMA StepAccessToken == IInv /\ AccessToken => IInv'
<1> SUFFICES ASSUME IInv, AccessToken PROVE IInv'
  OBVIOUS
<1> USE DEF IInv
<1>1. /\ creds' \in Credentials /\ disk' \in Credentials
      /\ creds' # Empty <=> creds # Empty
      /\ creds'.token = creds.token
      /\ bcEnsured /\ creds # Empty => creds' = creds
      /\ bcEnsured' \in BOOLEAN
      /\ bcEnsured' => bcEnsured \/ creds' = Empty \/ creds'.expiry = "known"
      /\ call' = Free \/ (call' = Proceed(creds') /\ bcEnsured')
      /\ wiped' \in {"no", "half", "whole"}
      /\ creds = Empty => wiped' = wiped
  BY AccessTokenStores
<1>2. /\ UNCHANGED <<issued, age, waiting, app, authenticated, messages, restarts, uninstalls>>
      /\ app # "signing"
  BY DEF AccessToken, Unlocked
<1>3. /\ call' \in {Free} \cup [step : Steps, token : Tokens]
      /\ call' # Free => /\ creds' # Empty
                         /\ call'.token = creds'.token
                         /\ call'.step # "published"
  BY <1>1, ProceedTypes
<1>4. TypeOK'
  BY <1>1, <1>2, <1>3 DEF TypeOK
<1>5. MutexInv'
  BY <1>2, <1>3 DEF MutexInv
<1>6. ReportInv'
  <2>1. call'.step # "published"
    BY <1>3, FreeTypes
  <2> QED BY <1>1, <1>2, <2>1 DEF ReportInv, AuthenticatedMeansCredentials
<1>7. DatesInv'
  BY <1>1 DEF DatesInv
<1> QED BY <1>4, <1>5, <1>6, <1>7

\* The actions that store new credentials.
LEMMA StepStored == IInv /\ (Refreshed \/ SignedIn) => IInv'
<1> SUFFICES ASSUME IInv, Refreshed \/ SignedIn PROVE IInv'
  OBVIOUS
<1> USE DEF IInv
<1> DEFINE new == New(issued + 1)
<1>1. issued < MaxToken
  BY DEF Refreshed, SignedIn
<1>2. new \in Credentials /\ new # Empty /\ new.expiry = "known" /\ issued + 1 \in 0..MaxToken
  BY <1>1, NextToken, NewTypes
<1>3. PICK saved \in BOOLEAN : Store(new, saved)
  BY DEF Refreshed, SignedIn
<1> HIDE DEF new
<1>4. creds' = new /\ creds' \in Credentials /\ disk' \in Credentials /\ wiped' = "no"
  BY <1>2, <1>3, StoreTypes
<1>5. CASE Refreshed
  <2>1. TypeOK'
    BY <1>2, <1>4, <1>5 DEF TypeOK, Refreshed
  <2>2. MutexInv' /\ ReportInv' /\ DatesInv'
    BY <1>2, <1>4, <1>5, FreeTypes
    DEF Refreshed, MutexInv, ReportInv, DatesInv, AuthenticatedMeansCredentials
  <2> QED BY <2>1, <2>2
<1>6. CASE SignedIn
  <2>1. TypeOK'
    <3>1. waiting' \in BOOLEAN /\ authenticated' \in BOOLEAN
      BY <1>6, Zenon DEF SignedIn
    <3> QED BY <1>2, <1>4, <1>6, <3>1 DEF TypeOK, SignedIn
  <2>2. MutexInv' /\ ReportInv' /\ DatesInv'
    BY <1>2, <1>4, <1>6, FreeTypes
    DEF SignedIn, MutexInv, ReportInv, DatesInv, AuthenticatedMeansCredentials
  <2> QED BY <2>1, <2>2
<1> QED BY <1>5, <1>6

\* The actions of the authenticator that remove the credentials.
LEMMA StepRemoved == IInv /\ (Cleared \/ LogoutByUser \/ LogoutByMessage) => IInv'
<1> SUFFICES ASSUME IInv, Cleared \/ LogoutByUser \/ LogoutByMessage PROVE IInv'
  OBVIOUS
<1> USE DEF IInv
<1>1. PICK saved \in BOOLEAN : Store(Empty, saved)
  BY DEF Cleared, LogoutByUser, LogoutByMessage, Logout
<1>2. creds' = Empty /\ creds' \in Credentials /\ disk' \in Credentials /\ wiped' = "no"
  BY <1>1, StoreTypes, EmptyTypes
<1>3. DatesInv'
  BY <1>2 DEF DatesInv
<1>4. CASE Cleared
  <2>1. TypeOK'
    BY <1>2, <1>4 DEF TypeOK, Cleared
  <2>2. MutexInv' /\ ReportInv'
    BY <1>2, <1>4, FreeTypes DEF Cleared, MutexInv, ReportInv, AuthenticatedMeansCredentials
  <2> QED BY <1>3, <2>1, <2>2
<1>5. CASE LogoutByUser
  <2>1. TypeOK'
    BY <1>2, <1>5 DEF TypeOK, LogoutByUser, Logout
  <2>2. MutexInv' /\ ReportInv'
    BY <1>2, <1>5, FreeTypes
    DEF LogoutByUser, Logout, Unlocked, MutexInv, ReportInv, AuthenticatedMeansCredentials
  <2> QED BY <1>3, <2>1, <2>2
<1>6. CASE LogoutByMessage
  <2>1. messages' \in Seq(Tokens) /\ Len(messages') <= MaxMessages
    BY <1>6 DEF TypeOK, LogoutByMessage
  <2>2. TypeOK'
    BY <1>2, <1>6, <2>1 DEF TypeOK, LogoutByMessage, Logout
  <2>3. MutexInv' /\ ReportInv'
    BY <1>2, <1>6, FreeTypes
    DEF LogoutByMessage, Logout, Unlocked, MutexInv, ReportInv, AuthenticatedMeansCredentials
  <2> QED BY <1>3, <2>2, <2>3
<1> QED BY <1>4, <1>5, <1>6

\* An uninstallation, whether or not its Reset succeeds, is the one that takes the
\* credentials from a call.
LEMMA StepReset == IInv /\ (Uninstall \/ ResetFailed) => IInv'
<1> SUFFICES ASSUME IInv, Uninstall \/ ResetFailed PROVE IInv'
  OBVIOUS
<1> USE DEF IInv
<1>1. Empty \in Credentials
  BY EmptyTypes
<1>2. CASE Uninstall
  <2>1. TypeOK'
    BY <1>1, <1>2 DEF TypeOK, Uninstall
  <2>2. MutexInv' /\ ReportInv' /\ DatesInv'
    BY <1>2 DEF Uninstall, MutexInv, ReportInv, DatesInv, AuthenticatedMeansCredentials
  <2> QED BY <2>1, <2>2
<1>3. CASE ResetFailed
  <2>1. /\ app = "idle" /\ uninstalls' \in 0..MaxUninstalls /\ disk' \in Credentials
        /\ UNCHANGED <<issued, age, bcEnsured, waiting, call, app, authenticated, messages,
                       restarts>>
    BY <1>1, <1>3 DEF TypeOK, ResetFailed
  <2>2. \/ creds' = Empty /\ wiped' = "half"
        \/ UNCHANGED <<creds, wiped>>
    BY <1>3 DEF ResetFailed
  <2>3. TypeOK'
    BY <1>1, <2>1, <2>2 DEF TypeOK
  <2>4. MutexInv' /\ ReportInv' /\ DatesInv'
    BY <2>1, <2>2 DEF MutexInv, ReportInv, DatesInv, AuthenticatedMeansCredentials
  <2> QED BY <2>3, <2>4
<1> QED BY <1>2, <1>3

\* The actions of a call that leave the credentials alone.
LEMMA StepCall ==
    IInv /\ (RefreshUnreadable \/ RefreshFailed \/ Notified \/ Published \/ TriggerFailed) => IInv'
<1> SUFFICES ASSUME IInv,
                    RefreshUnreadable \/ RefreshFailed \/ Notified \/ Published \/ TriggerFailed
             PROVE  IInv'
  OBVIOUS
<1> USE DEF IInv
<1>1. UNCHANGED <<creds, disk, issued, age, bcEnsured, app, authenticated, restarts, uninstalls,
                  wiped>>
  BY DEF RefreshUnreadable, RefreshFailed, Notified, Published, TriggerFailed
<1>2. call # Free /\ call \in [step : Steps, token : Tokens]
  BY FreeTypes DEF TypeOK, RefreshUnreadable, RefreshFailed, Notified, Published, TriggerFailed
<1>3. DatesInv'
  BY <1>1 DEF DatesInv
<1>4. CASE Published
  <2>1. call' \in [step : Steps, token : Tokens] /\ call'.token = call.token
    BY <1>2, <1>4 DEF Published, Steps
  <2>2. messages' \in Seq(Tokens) /\ Len(messages') <= MaxMessages /\ messages' # <<>>
    BY <1>2, <1>4 DEF TypeOK, Published
  <2>3. TypeOK'
    BY <1>1, <1>4, <2>1, <2>2 DEF TypeOK, Published
  <2>4. MutexInv' /\ ReportInv'
    BY <1>1, <1>2, <2>1, <2>2 DEF MutexInv, ReportInv, AuthenticatedMeansCredentials
  <2> QED BY <1>3, <2>3, <2>4
<1>5. CASE RefreshUnreadable \/ RefreshFailed \/ Notified \/ TriggerFailed
  <2>1. \/ call' = Free
        \/ /\ call' \in [step : Steps, token : Tokens]
           /\ call'.token = call.token
           /\ call'.step # "published"
    BY <1>2, <1>5 DEF RefreshUnreadable, RefreshFailed, Notified, TriggerFailed, Steps
  <2>2. messages' = messages /\ waiting' \in BOOLEAN
    BY <1>5 DEF TypeOK, RefreshUnreadable, RefreshFailed, Notified, TriggerFailed
  <2>3. TypeOK'
    BY <1>1, <2>1, <2>2 DEF TypeOK
  <2>4. MutexInv'
    BY <1>1, <1>2, <2>1 DEF MutexInv
  <2>5. ReportInv'
    BY <1>1, <2>1, <2>2, FreeTypes DEF ReportInv, AuthenticatedMeansCredentials
  <2> QED BY <1>3, <2>3, <2>4, <2>5
<1> QED BY <1>4, <1>5

\* The other commands of the application, time, and a crash.
LEMMA StepRest ==
    IInv /\ (Login \/ SignInFailed \/ RegisterChargers \/ Ended \/ Expire \/ BackoffElapsed
             \/ Restart \/ UNCHANGED vars) => IInv'
<1> SUFFICES ASSUME IInv PROVE
      Login \/ SignInFailed \/ RegisterChargers \/ Ended \/ Expire \/ BackoffElapsed
        \/ Restart \/ UNCHANGED vars => IInv'
  OBVIOUS
<1> USE DEF IInv
<1>1. ASSUME Login PROVE IInv'
  BY <1>1 DEF Login, Unlocked, TypeOK, MutexInv, ReportInv, DatesInv, AuthenticatedMeansCredentials
<1>2. ASSUME SignInFailed PROVE IInv'
  BY <1>2 DEF SignInFailed, TypeOK, MutexInv, ReportInv, DatesInv, AuthenticatedMeansCredentials
<1>3. ASSUME RegisterChargers PROVE IInv'
  BY <1>3 DEF RegisterChargers, TypeOK, MutexInv, ReportInv, DatesInv, AuthenticatedMeansCredentials
<1>4. ASSUME Ended PROVE IInv'
  BY <1>4 DEF Ended, TypeOK, MutexInv, ReportInv, DatesInv, AuthenticatedMeansCredentials
<1>5. ASSUME Expire PROVE IInv'
  <2>1. age' \in [Tokens -> {"fresh", "stale", "dead"}]
    BY <1>5 DEF TypeOK, Expire
  <2> QED BY <1>5, <2>1
          DEF Expire, TypeOK, MutexInv, ReportInv, DatesInv, AuthenticatedMeansCredentials
<1>6. ASSUME BackoffElapsed PROVE IInv'
  BY <1>6 DEF BackoffElapsed, TypeOK, MutexInv, ReportInv, DatesInv, AuthenticatedMeansCredentials
<1>7. ASSUME Restart PROVE IInv'
  <2>1. messages' \in Seq(Tokens) /\ Len(messages') <= MaxMessages
    <3>1. CASE messages' = messages
      BY <3>1 DEF TypeOK
    <3>2. CASE messages' = <<>>
      BY <3>2
    <3> QED BY <1>7, <3>1, <3>2 DEF Restart
  <2>2. authenticated' \in BOOLEAN /\ (authenticated' => creds' # Empty)
    BY <1>7, Zenon DEF Restart
  <2>3. TypeOK'
    <3>1. bcEnsured' \in BOOLEAN /\ waiting' \in BOOLEAN
      BY <1>7, Zenon DEF Restart
    <3>2. /\ creds' = disk /\ call' = Free /\ app' = "idle"
          /\ restarts' \in 0..MaxRestarts /\ wiped' = "no"
          /\ UNCHANGED <<disk, issued, age, uninstalls>>
      BY <1>7 DEF TypeOK, Restart
    <3> QED BY <2>1, <2>2, <3>1, <3>2 DEF TypeOK
  <2>4. ~bcEnsured' /\ call' = Free /\ app' = "idle"
    BY <1>7 DEF Restart
  <2>5. MutexInv' /\ ReportInv' /\ DatesInv'
    BY <2>2, <2>4, FreeTypes
    DEF MutexInv, ReportInv, DatesInv, AuthenticatedMeansCredentials
  <2> QED BY <2>3, <2>5
<1>8. ASSUME UNCHANGED vars PROVE IInv'
  BY <1>8 DEF vars, TypeOK, MutexInv, ReportInv, DatesInv, AuthenticatedMeansCredentials
<1> QED BY <1>1, <1>2, <1>3, <1>4, <1>5, <1>6, <1>7, <1>8

\* The invariant of the mutex holds throughout.
THEOREM Invariance == Spec => []IInv
<1>1. IInv /\ [Next]_vars => IInv'
  BY StepAccessToken, StepStored, StepRemoved, StepReset, StepCall, StepRest DEF Next
<1> QED BY InitInv, <1>1, PTL DEF Spec
\* The types of the variables hold throughout.
THEOREM TypeCorrect == Spec => []TypeOK
BY Invariance, PTL DEF IInv

\* An application that reports itself authenticated has credentials, unless the logout
\* that will correct the report is on the bus or being handled (triggerAppLogout,
\* which publishes before it clears).
THEOREM AuthenticatedCorrect == Spec => []AuthenticatedMeansCredentials
<1>1. IInv => AuthenticatedMeansCredentials
  BY DEF IInv, ReportInv
<1> QED BY Invariance, <1>1, PTL

\* A refresh or a logout under way is for the credentials in use, or they were removed by
\* Uninstall meanwhile (the mutex of Login, AccessToken and Logout).
THEOREM RefreshCorrect == Spec => []RefreshIsCurrent
<1>1. IInv => RefreshIsCurrent
  BY DEF IInv, MutexInv, RefreshIsCurrent
<1> QED BY Invariance, <1>1, PTL

\* A session is ended for its age only once its refresh token has really expired
\* (ensureBackwardsCompatibility runs before the token is judged).
THEOREM NoFalseLogoutCorrect == Spec => NoFalseLogout
<1> DEFINE Judged == call = Free /\ call'.step = "triggered" => age[call'.token] = "dead"
<1>1. IInv /\ [Next]_vars => Judged
  <2> SUFFICES ASSUME IInv, [Next]_vars, call = Free, call'.step = "triggered"
               PROVE  age[call'.token] = "dead"
    OBVIOUS
  <2>1. AccessToken
    BY FreeTypes
    DEF Next, vars, Refreshed, RefreshUnreadable, RefreshFailed, Notified, Published, Cleared,
        TriggerFailed, Login, SignedIn, SignInFailed, RegisterChargers, LogoutByUser,
        LogoutByMessage, Logout, Uninstall, ResetFailed, Ended, Expire, BackoffElapsed, Restart
  <2>2. /\ creds' \in Credentials
        /\ bcEnsured /\ creds # Empty => creds' = creds
        /\ creds' # Empty <=> creds # Empty
        /\ bcEnsured' => bcEnsured \/ creds' = Empty \/ creds'.expiry = "known"
        /\ call' = Proceed(creds') /\ bcEnsured'
        /\ UNCHANGED age
    BY <2>1, AccessTokenStores, FreeTypes DEF IInv, AccessToken
  <2>3. creds' # Empty /\ RefreshTokenExpired(creds') /\ call'.token = creds'.token
    BY <2>2, ProceedTypes, FreeTypes DEF IInv
  <2>4. creds'.expiry = "known"
    BY <2>2, <2>3 DEF IInv, DatesInv
  <2> QED BY <2>3, <2>4 DEF RefreshTokenExpired
<1> QED BY Invariance, <1>1, PTL DEF Spec, NoFalseLogout

\* Credentials that were removed come back by a login or with a restart only, unless it
\* was Uninstall that removed them: a refresh does not outlive Logout.
THEOREM OnlyLoginRestoresCorrect == Spec => OnlyLoginRestores
<1> DEFINE Restored == creds = Empty /\ creds' # Empty
                         => app = "signing" \/ restarts' # restarts \/ wiped # "no"
<1>1. IInv /\ [Next]_vars => Restored
  <2> SUFFICES ASSUME IInv, [Next]_vars, creds = Empty, creds' # Empty
               PROVE  app = "signing" \/ restarts' # restarts \/ wiped # "no"
    OBVIOUS
  <2>1. CASE AccessToken
    BY <2>1, AccessTokenStores DEF IInv
  <2>2. CASE Refreshed
    BY <2>2, FreeTypes DEF Refreshed, IInv, MutexInv
  <2>3. CASE SignedIn
    BY <2>3 DEF SignedIn
  <2>4. CASE Cleared \/ LogoutByUser \/ LogoutByMessage \/ Uninstall \/ ResetFailed
    BY <2>4 DEF Cleared, LogoutByUser, LogoutByMessage, Logout, Uninstall, ResetFailed, Store
  <2>5. CASE Restart
    BY <2>5 DEF Restart, IInv, TypeOK
  <2>6. CASE UNCHANGED creds
    BY <2>6
  <2> QED BY <2>1, <2>2, <2>3, <2>4, <2>5, <2>6
          DEF Next, vars, RefreshUnreadable, RefreshFailed, Notified, Published, TriggerFailed,
              Login, SignInFailed, RegisterChargers, Ended, Expire, BackoffElapsed
<1> QED BY Invariance, <1>1, PTL DEF Spec, OnlyLoginRestores
=============================================================================
