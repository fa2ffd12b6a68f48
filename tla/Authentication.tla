------------------------------ MODULE Authentication ------------------------------
(***************************************************************************)
(* The authenticator (internal/api/authenticator.go), the credentials it   *)
(* keeps in the configuration (internal/config/config.go) and the commands *)
(* of the application that give and take them (internal/app/app.go).       *)
(*                                                                         *)
(* Login, AccessToken and Logout of the authenticator run under its mutex; *)
(* the calls they make to the Easee API, to the notification manager and   *)
(* to the bus take time, so each is a step of its own here.  The           *)
(* application's Uninstall resets the configuration without that mutex.    *)
(* A credential is a token number, in the order Easee issues them, and     *)
(* whether its expiry times are known: installations of an older version   *)
(* stored none for the refresh token, and a token whose times cannot be    *)
(* read does not tell them either.  The commands of the application are    *)
(* handled one at a time by the framework, which is external, as is the    *)
(* storage of the configuration: a Reset of it that fails may have emptied *)
(* the memory, the file, both or neither.                                  *)
(***************************************************************************)
EXTENDS Naturals, Sequences

CONSTANTS
    MaxToken,       \* how many tokens Easee issues
    MaxMessages,    \* how many logout messages wait on the bus at once
    MaxRestarts,    \* how often the process restarts
    MaxUninstalls   \* how often the application is uninstalled

ASSUME BoundsAssumption ==
    /\ MaxToken \in Nat
    /\ MaxMessages \in Nat
    /\ MaxRestarts \in Nat
    /\ MaxUninstalls \in Nat

VARIABLES
    creds,          \* the credentials of the configuration, in memory
    disk,           \* the credentials last saved
    issued,         \* the number of tokens Easee has issued
    age,            \* of each token: both fresh, access expired, both expired
    bcEnsured,      \* a.bcEnsured
    waiting,        \* a.backoff.Should()
    call,           \* the AccessToken call that holds a.mu: where it is, with which token
    app,            \* the command the application handles
    authenticated,  \* the lifecycle's authentication state
    messages,       \* the logout messages on the bus, each with the token it was sent for
    restarts,
    uninstalls,
    wiped           \* history: whether Reset wrote creds last, and did all it had to

vars == <<creds, disk, issued, age, bcEnsured, waiting, call, app, authenticated,
          messages, restarts, uninstalls, wiped>>

NoToken == 0
Tokens == 1..MaxToken
Expiry == {"known", "unknown", "unreadable"}
Empty == [token |-> NoToken, expiry |-> "unknown"]
Credentials == {Empty} \cup [token : Tokens, expiry : Expiry]
New(token) == [token |-> token, expiry |-> "known"]
Free == [step |-> "none", token |-> NoToken]
Steps == {"refreshing", "triggered", "notified", "published"}

\* One type invariant: what the configuration holds is either the zero value, which
\* is what Empty() compares with, or the credentials of a token Easee issued; and a call
\* under way was made for one.
TypeOK ==
    /\ creds \in Credentials
    /\ disk \in Credentials
    /\ issued \in 0..MaxToken
    /\ age \in [Tokens -> {"fresh", "stale", "dead"}]
    /\ bcEnsured \in BOOLEAN
    /\ waiting \in BOOLEAN
    /\ call \in {Free} \cup [step : Steps, token : Tokens]
    /\ app \in {"idle", "signing", "registering", "ending"}
    /\ authenticated \in BOOLEAN
    /\ messages \in Seq(Tokens)
    /\ Len(messages) <= MaxMessages
    /\ restarts \in 0..MaxRestarts
    /\ uninstalls \in 0..MaxUninstalls
    /\ wiped \in {"no", "half", "whole"}

\* A fresh installation, or one that finds a session of this or of an older version.
Init ==
    /\ issued \in {0, 1} \cap 0..MaxToken
    /\ creds \in IF issued = 0 THEN {Empty} ELSE [token : {1}, expiry : Expiry]
    /\ disk = creds
    /\ age = [t \in Tokens |-> "fresh"]
    /\ bcEnsured = FALSE
    /\ waiting = FALSE
    /\ call = Free
    /\ app = "idle"
    /\ authenticated = (creds # Empty)
    /\ messages = <<>>
    /\ restarts = 0
    /\ uninstalls = 0
    /\ wiped = "no"

\* a.mu is held by an AccessToken call under way or by a Login.
Unlocked == call = Free /\ app # "signing"

\* SetCredentials and ClearCredentials: the memory changes whether or not it is saved.
Store(c, saved) ==
    /\ creds' = c
    /\ disk' = IF saved THEN c ELSE disk
    /\ wiped' = "no"

-----------------------------------------------------------------------------
(* AccessToken *)

\* A mutation: the error of a token that cannot be read is ignored.
UnreadableIgnored == ~bcEnsured /\ creds # Empty /\ creds.expiry = "unknown"

\* ensureBackwardsCompatibility has to work out the times of these credentials.
NeedsDates == ~bcEnsured /\ creds # Empty /\ creds.expiry # "known"

\* It cannot read them from the tokens, and returns the error.
Undatable == NeedsDates /\ creds.expiry = "unreadable"

AccessTokenExpired(c) == age[c.token] # "fresh"
\* Without a known time the zero time counts, which is long past.
RefreshTokenExpired(c) == c.expiry # "known" \/ age[c.token] = "dead"

\* A mutation: a dead session is an error and nothing more.
ProceedWithoutLogout(c) ==
    IF c = Empty \/ ~AccessTokenExpired(c) \/ RefreshTokenExpired(c) \/ waiting THEN Free
    ELSE [step |-> "refreshing", token |-> c.token]

\* What AccessToken goes on with, given the credentials it read: nothing, since it
\* returns a token or an error at once; the logout of the application; or a refresh.
Proceed(c) ==
    IF c = Empty \/ ~AccessTokenExpired(c) THEN Free
    ELSE IF RefreshTokenExpired(c) THEN [step |-> "triggered", token |-> c.token]
    ELSE IF waiting THEN Free
    ELSE [step |-> "refreshing", token |-> c.token]

\* AccessToken up to its first call out of the process.  A compatibility step that
\* fails ends the call and is tried again by the next one: with nothing changed if the
\* times cannot be read, with the memory changed if they could not be saved.
AccessToken ==
    /\ Unlocked
    /\ \/ Undatable /\ UNCHANGED <<creds, disk, bcEnsured, call, wiped>>
       \/ /\ NeedsDates /\ ~Undatable
          /\ \E saved \in BOOLEAN :
                /\ Store(New(creds.token), saved)
                /\ bcEnsured' = saved
                /\ call' = IF saved THEN Proceed(New(creds.token)) ELSE Free
       \/ /\ ~NeedsDates
          /\ bcEnsured' = TRUE
          /\ call' = Proceed(creds)
          /\ UNCHANGED <<creds, disk, wiped>>
    /\ UNCHANGED <<issued, age, waiting, app, authenticated, messages, restarts, uninstalls>>

\* Easee answers with new tokens, which are stored.
Refreshed ==
    /\ call.step = "refreshing"
    /\ issued < MaxToken
    /\ issued' = issued + 1
    /\ \E saved \in BOOLEAN : Store(New(issued + 1), saved)
    /\ waiting' = FALSE
    /\ call' = Free
    /\ UNCHANGED <<age, bcEnsured, app, authenticated, messages, restarts, uninstalls>>

\* Easee answers with tokens whose expiry cannot be read: nothing is stored.
RefreshUnreadable ==
    /\ call.step = "refreshing"
    /\ waiting' = FALSE
    /\ call' = Free
    /\ UNCHANGED <<creds, disk, issued, age, bcEnsured, app, authenticated, messages,
                   restarts, uninstalls, wiped>>

\* Easee rejects the refresh token, or the request fails in any other way.
RefreshFailed ==
    /\ call.step = "refreshing"
    /\ \E unauthorized \in BOOLEAN :
          call' = IF unauthorized THEN [call EXCEPT !.step = "triggered"] ELSE Free
    /\ waiting' = TRUE
    /\ UNCHANGED <<creds, disk, issued, age, bcEnsured, app, authenticated, messages,
                   restarts, uninstalls, wiped>>

\* triggerAppLogout notifies the user, ...
Notified ==
    /\ call.step = "triggered"
    /\ call' = [call EXCEPT !.step = "notified"]
    /\ UNCHANGED <<creds, disk, issued, age, bcEnsured, waiting, app, authenticated,
                   messages, restarts, uninstalls, wiped>>

\* A mutation: the error of the publication is ignored.
PublishedOrNot ==
    /\ call.step = "notified"
    /\ call' = [call EXCEPT !.step = "published"]
    /\ messages' \in {messages} \cup
         IF Len(messages) < MaxMessages THEN {Append(messages, call.token)} ELSE {}
    /\ UNCHANGED <<creds, disk, issued, age, bcEnsured, waiting, app, authenticated,
                   restarts, uninstalls, wiped>>

\* ... sends the application the logout command ...
Published ==
    /\ call.step = "notified"
    /\ Len(messages) < MaxMessages
    /\ call' = [call EXCEPT !.step = "published"]
    /\ messages' = Append(messages, call.token)
    /\ UNCHANGED <<creds, disk, issued, age, bcEnsured, waiting, app, authenticated,
                   restarts, uninstalls, wiped>>

\* A mutation: the tokens are cleared and their times left.
ClearedTokens ==
    /\ call.step = "published"
    /\ \E saved \in BOOLEAN : Store([creds EXCEPT !.token = NoToken], saved)
    /\ call' = Free
    /\ UNCHANGED <<issued, age, bcEnsured, waiting, app, authenticated, messages,
                   restarts, uninstalls>>

\* ... and clears the credentials.
Cleared ==
    /\ call.step = "published"
    /\ \E saved \in BOOLEAN : Store(Empty, saved)
    /\ call' = Free
    /\ UNCHANGED <<issued, age, bcEnsured, waiting, app, authenticated, messages,
                   restarts, uninstalls>>

\* The notification or the message cannot be sent: the call ends there.
TriggerFailed ==
    /\ call.step \in {"triggered", "notified"}
    /\ call' = Free
    /\ UNCHANGED <<creds, disk, issued, age, bcEnsured, waiting, app, authenticated,
                   messages, restarts, uninstalls, wiped>>

-----------------------------------------------------------------------------
(* The commands of the application *)

\* A mutation: Login does not take the mutex.
LoginUnlocked ==
    /\ app = "idle"
    /\ app' = "signing"
    /\ UNCHANGED <<creds, disk, issued, age, bcEnsured, waiting, call, authenticated,
                   messages, restarts, uninstalls, wiped>>

\* Login takes the mutex and asks Easee for tokens.
Login ==
    /\ app = "idle"
    /\ Unlocked
    /\ app' = "signing"
    /\ UNCHANGED <<creds, disk, issued, age, bcEnsured, waiting, call, authenticated,
                   messages, restarts, uninstalls, wiped>>

\* The tokens arrive.  If they could be saved the chargers are registered next;
\* otherwise the login fails, with the tokens in memory all the same.
SignedIn ==
    /\ app = "signing"
    /\ issued < MaxToken
    /\ issued' = issued + 1
    /\ \E saved \in BOOLEAN :
          /\ Store(New(issued + 1), saved)
          /\ app' = IF saved THEN "registering" ELSE "idle"
          /\ waiting' = (waiting /\ ~saved)
          /\ authenticated' = (authenticated /\ saved)
    /\ UNCHANGED <<age, bcEnsured, call, messages, restarts, uninstalls>>

\* Easee refuses the login, or its answer cannot be read.
SignInFailed ==
    /\ app = "signing"
    /\ app' = "idle"
    /\ authenticated' = FALSE
    /\ UNCHANGED <<creds, disk, issued, age, bcEnsured, waiting, call, messages, restarts,
                   uninstalls, wiped>>

\* registerChargers ends the login, one way or the other.
RegisterChargers ==
    /\ app = "registering"
    /\ app' = "idle"
    /\ authenticated' \in BOOLEAN
    /\ UNCHANGED <<creds, disk, issued, age, bcEnsured, waiting, call, messages, restarts,
                   uninstalls, wiped>>

\* A mutation: Logout does not take the mutex.
LogoutUnlocked ==
    /\ app = "idle"
    /\ \E saved \in BOOLEAN : Store(Empty, saved)
    /\ app' = "ending"
    /\ UNCHANGED <<issued, age, bcEnsured, waiting, call, authenticated, restarts, uninstalls>>

\* The authenticator's Logout under its mutex, for a command of the user or for a
\* message the authenticator sent; the message names no session.
Logout ==
    /\ app = "idle"
    /\ Unlocked
    /\ \E saved \in BOOLEAN : Store(Empty, saved)
    /\ app' = "ending"
    /\ UNCHANGED <<issued, age, bcEnsured, waiting, call, authenticated, restarts, uninstalls>>

LogoutByUser == Logout /\ UNCHANGED messages
LogoutByMessage == messages # <<>> /\ Logout /\ messages' = Tail(messages)

\* Uninstall, once the things are destroyed: Reset takes the configuration's own lock
\* at most, not a.mu.
Uninstall ==
    /\ app = "idle"
    /\ uninstalls < MaxUninstalls
    /\ uninstalls' = uninstalls + 1
    /\ creds' = Empty
    /\ disk' = Empty
    /\ wiped' = "whole"
    /\ app' = "ending"
    /\ UNCHANGED <<issued, age, bcEnsured, waiting, call, authenticated, messages, restarts>>

\* Uninstall when Reset fails: it returns the error and leaves the lifecycle as it was.
ResetFailed ==
    /\ app = "idle"
    /\ uninstalls < MaxUninstalls
    /\ uninstalls' = uninstalls + 1
    /\ \/ creds' = Empty /\ wiped' = "half"
       \/ UNCHANGED <<creds, wiped>>
    /\ disk' \in {disk, Empty}
    /\ UNCHANGED <<issued, age, bcEnsured, waiting, call, app, authenticated, messages, restarts>>

\* Logout and Uninstall set the lifecycle last.
Ended ==
    /\ app = "ending"
    /\ app' = "idle"
    /\ authenticated' = FALSE
    /\ UNCHANGED <<creds, disk, issued, age, bcEnsured, waiting, call, messages, restarts,
                   uninstalls, wiped>>

-----------------------------------------------------------------------------
(* Time and crashes *)

\* The access token of an issued pair expires, later its refresh token.
Expire ==
    /\ \E t \in 1..issued :
          \/ age[t] = "fresh" /\ age' = [age EXCEPT ![t] = "stale"]
          \/ age[t] = "stale" /\ age' = [age EXCEPT ![t] = "dead"]
    /\ UNCHANGED <<creds, disk, issued, bcEnsured, waiting, call, app, authenticated,
                   messages, restarts, uninstalls, wiped>>

BackoffElapsed ==
    /\ waiting
    /\ waiting' = FALSE
    /\ UNCHANGED <<creds, disk, issued, age, bcEnsured, call, app, authenticated, messages,
                   restarts, uninstalls, wiped>>

\* The process stops anywhere and starts again: Initialize derives the lifecycle from
\* what was saved.  A message of before may be gone.
Restart ==
    /\ restarts < MaxRestarts
    /\ restarts' = restarts + 1
    /\ creds' = disk
    /\ bcEnsured' = FALSE
    /\ waiting' = FALSE
    /\ call' = Free
    /\ app' = "idle"
    /\ authenticated' = (disk # Empty)
    /\ messages' \in {messages, <<>>}
    /\ wiped' = "no"
    /\ UNCHANGED <<disk, issued, age, uninstalls>>

Next ==
    \/ AccessToken
    \/ Refreshed
    \/ RefreshUnreadable
    \/ RefreshFailed
    \/ Notified
    \/ Published
    \/ Cleared
    \/ TriggerFailed
    \/ Login
    \/ SignedIn
    \/ SignInFailed
    \/ RegisterChargers
    \/ LogoutByUser
    \/ LogoutByMessage
    \/ Uninstall
    \/ ResetFailed
    \/ Ended
    \/ Expire
    \/ BackoffElapsed
    \/ Restart

Spec == Init /\ [][Next]_vars

\* Callers poll (the tasks, the manager's loop) and Go's mutex starves nobody, so a
\* call is made again and again; Easee answers or the request times out; the
\* notification and the message get through if tried often enough; and the router
\* hands over the messages it received.
Fairness ==
    /\ SF_vars(AccessToken)
    /\ WF_vars(Refreshed \/ RefreshUnreadable \/ RefreshFailed)
    /\ SF_vars(Notified)
    /\ SF_vars(Published)
    /\ WF_vars(Cleared \/ TriggerFailed)
    /\ WF_vars(SignedIn \/ SignInFailed)
    /\ WF_vars(RegisterChargers)
    /\ SF_vars(LogoutByMessage)
    /\ WF_vars(Ended)

FairSpec == Spec /\ Fairness

-----------------------------------------------------------------------------
(* Properties *)

\* An application that reports itself authenticated has credentials, unless the logout
\* that will correct the report is on the bus or being handled: triggerAppLogout clears
\* them itself and leaves the report to the message it sent before.  A Reset that failed
\* halfway through an uninstallation is the one other exception.
AuthenticatedMeansCredentials ==
    authenticated /\ creds = Empty => messages # <<>> \/ app = "ending" \/ wiped = "half"

\* A refresh under way is for the credentials in use: neither a login nor another
\* refresh gets between reading them and storing the answer over them.  Only Uninstall
\* can have emptied them meanwhile.
RefreshIsCurrent ==
    call # Free => creds.token = call.token \/ creds = Empty

\* A session is ended for its age only once its refresh token has really expired, also
\* one that an older version stored without that time.
NoFalseLogout ==
    [][call = Free /\ call'.step = "triggered" => age[call'.token] = "dead"]_vars

\* Credentials that were removed come back by a login or with a restart, by nothing else:
\* a refresh does not outlive a logout.  It may outlive Uninstall, and then stores its
\* answer in the configuration that was reset.
OnlyLoginRestores ==
    [][creds = Empty /\ creds' # Empty
         => app = "signing" \/ restarts' # restarts \/ wiped # "no"]_vars

\* An expired session, of a token whose times can be read, is ended: its credentials go,
\* and the application stops reporting itself authenticated by them.
DeadSessionEnds ==
    \A t \in Tokens :
        (creds.token = t /\ age[t] = "dead" /\ creds.expiry # "unreadable")
            ~> (creds.token # t /\ (authenticated => creds # Empty \/ wiped = "half"))

\* What the interface says of Login, that it persists the credentials: a message sent
\* when an earlier session died does not remove those of a later login.
LoginSticks ==
    [][creds # Empty /\ creds' = Empty /\ messages' # messages => Head(messages) = creds.token]_vars

\* What the interface says of AccessToken, that it returns an error if the application
\* is not logged in: no token can be had from an idle application that reports itself
\* not authenticated.
NotLoggedInNoToken ==
    ~authenticated /\ app = "idle" /\ Unlocked => creds = Empty
=============================================================================
