# Verification of the Easee edge adapter

The adapter connects Easee chargers to a Futurehome hub. It logs in to the Easee cloud over HTTP,
keeps one SignalR connection over which the cloud sends observations of every charger, caches them,
stores charging sessions, and answers commands and report requests that arrive over MQTT through the
external library cliffhanger. Paths below are relative to `src/internal/` of the repository.

The development consists of TLA+ modules, TLC configurations and TLAPS proofs. `PROJECT.json` lists
the runs, the mutants that show that each property can be broken by a plausible bug, the source lines
each definition stands for, the hazards and the theorems.

1. [Inventory](#inventory)
2. [Modules](#modules)
3. [How the models correspond to the code](#how-the-models-correspond-to-the-code)
4. [Runs](#runs)
5. [Bounds](#bounds)
6. [Fairness](#fairness)
7. [Proofs](#proofs)
8. [What the code does not do](#what-the-code-does-not-do)
9. [Not modelled, and assumptions](#not-modelled-and-assumptions)
10. [Plan](#plan)

## Inventory

| component | state | operations | interacts with | correct when |
|---|---|---|---|---|
| SignalR client (`signalr/client.go`) | `running`, `cancel`, `connection`, `connState`, channel `states` (10) | Start, Close, SubscribeCharger, UnsubscribeCharger, Connected; goroutine handleConnection/notifyState | the SignalR library, the authenticator (token), the manager (StateC, ObservationC) | one goroutine is live, Close reaches it, "connected" means that an invocation has a connection, a loss is noticed |
| SignalR manager (`signalr/manager.go`) | `running`, `done`, `chargers` with `isSubscribed`, channel `subscriptions` | Start, Stop, Register, Unregister, Connected; goroutine run; goroutines addChargerSubscription | client, observation handlers, connector, controller | no registered charger is forgotten, a subscribed one is served, nobody waits for ever |
| Observation handlers (`signalr/handler.go`) | online flags, energy channel | one handler per observation; goroutine manageEnergyObservation | cache, session storage, the thing's services (reports) | the newest observation wins, reports say what the cache says, the callback returns |
| Cache (`cache/cache.go`) | timestamped values, listeners | setters that refuse older values; WaitForMaxCurrent, WaitForOfferedCurrent | handlers write, controller reads and waits | never older after newer, no wait misses a value, none outlasts its timer, nobody sends to a closed channel |
| Session storage (`db/db.go`) | a bucket of sessions per charger, on disk | RegisterSessionStart, RegisterSessionStop, LatestSessionsByChargerID | handlers write, controller reads | the stored sessions converge to the charger's, finished ones stay |
| Controller (`easee/controller.go`) | none of its own | commands and reports of a charger | API client, cache, manager, session storage | every command returns, a start resumes with the current the charger accepted last |
| Connector, thing factory (`easee/connector.go`, `easee/thing.go`) | none | Connect registers, Disconnect unregisters a charger | manager | registration follows connection |
| HTTP client (`api/http.go`) | time of the last change of the dynamic current, per charger | the requests | the cloud | changes of the current that do not overlap are a wait time apart |
| API client (`api/client.go`) | none | adds a token to each request | authenticator, HTTP client | |
| Authenticator (`api/authenticator.go`) | backoff, `bcEnsured`; the credentials are in the configuration | Login, Logout, AccessToken | HTTP client, configuration, MQTT (logout message, notification) | a refresh never overwrites newer credentials, a dead session ends, a live one does not |
| Application (`app/app.go`) | the lifecycle states | Login, Logout, Uninstall, Initialize, Check | authenticator, API client, SignalR client, adapter library | the lifecycle agrees with the credentials |
| Configuration (`config/config.go`) | settings and credentials, stored in a file | getters, setters | everybody | |
| Models and mappings (`model/`) | none | observation values, states, supported phase modes | handlers, controller | |
| Wiring (`../cmd/`, `routing/`, `tasks/`, `jwt/`) | singletons built at start | | | |

Hard behaviours: the goroutines of successive client starts overlap; the manager keeps its lock while
it waits for the cloud or for room in a channel; connection losses, failed subscriptions and retries
overlap with registrations; observations are repeated after every subscription and may be late; the
energy handler shares a channel with a goroutine that takes it away; two writes of a session may be
separated by a crash; the credentials are read, refreshed and cleared from several goroutines; a
logout is a message to oneself; commands overlap with each other and with the observations they wait for, and
the answer to a request may be lost after the charger carried it out. `PROJECT.json` lists each hazard at its line with the properties that
cover it.

## Modules

| module | what it is |
|---|---|
| `SignalRClient` | the client: connection goroutines, states channel, invocations |
| `SignalRManager` | the manager: registry, subscription channel, run loop, retries, the lock |
| `SubscriptionBook` | what the manager promises: the abstract specification it implements |
| `SignalR` | client, manager, application and cloud together (`INSTANCE` of both) |
| `ChargingSessions` | session storage, its two handlers, the charger and the cloud's batches |
| `EnergyHandler` | the lifetime energy handler and its collecting goroutine |
| `PhaseModes` | the pure mappings of grid types, phase modes and charger states |
| `ObservationCache` | every other observation handler over the cache, with what the thing announces |
| `ChargerControl` | the commands that set a current: controller, API client, throttle of the HTTP client, waits in the cache; extends `ObservationCache` |
| `Authentication` | authenticator, credentials, the commands of the application that give and take them |
| `SignalRClientProofs`, `SignalRManagerProofs`, `SignalRProofs`, `ChargingSessionsProofs`, `AuthenticationProofs`, `ObservationCacheProofs`, `ChargerControlProofs`, `EnergyHandlerProofs` | theorems about the component named |
| `MCSignalRClient`, `MCSignalRManager`, `MCSignalR`, `MCEnergyHandler` | constants, symmetry and bounds for TLC |
| `ChargerHistory` | `ChargerControl` with what a property has to remember: whether an observation came late, the last offer accepted, what made it uncertain |
| `MCSignalRWhole`, `MCChargingSessions` | the same, with a variable that remembers whether something happened that a property excepts |
| `MCChargerControl` | `ChargerHistory` part by part |

The components meet in three places. `SignalR` composes client and manager: they share the channel
`states`, the client's `Start`, `Close` and invocations are taken by the manager's actions that call
them, and the cloud serves a charger on the connection it was subscribed on. `ChargerControl`
puts the commands and the observations on one cache: a setter publishes to the callers that wait, the end
of a session resets the current a start would resume with. The other components meet
through observations and through tokens only: `ChargingSessions`, `EnergyHandler` and
`ObservationCache` start from what the cloud sends, in the orders the SignalR stack lets through
(lost on a disconnection, repeated by every subscription), and `SignalRClient` takes a token, or the
lack of one, as an outcome of its dial.

## How the models correspond to the code

**SignalRClient.** A session is one run of the goroutine `handleConnection`; an idle one stands for
the next that `Start` spawns, so two sessions are a goroutine that outlives its `Close` and the one
that replaces it. `phase` is where a goroutine is between two operations another goroutine could
observe: `dial` (`getClient`), `assigned` and `started` (before and after `connection.Start`), `watch`
(`notifyState`), the two blocking sends on `states`, `drop` (`c.connection = nil`) and the final
select. `connection`, `connState`, `running` and `current` (the goroutine `c.cancel` cancels) are the
fields of the client. `invoke` is two steps, `InvokeCheck` under the lock and `InvokeUse` after it,
since the field is read twice. The library is `link`, the connection a goroutine dialled last, `forgotten`,
one it dialled before and replaced while it was still closing, and `events`, what their observers are still to read.

**SignalRManager.** `holder` and `held` are `m.mu` and what the holder does with it: the lock is kept
over a send on `subscriptions`, over an invocation and over the close of the client, so those are
steps of their own. `loop` is where `run` is: selecting, or in one of the handlers before it got the
lock, or in an invocation with it. `retries` counts the goroutines of `addChargerSubscription` that wait for their timer.
`HandleConnected` makes a new channel with the capacity the code computes and puts all chargers in it,
in the order of an iteration over a map. `Start` after `Stop` closes a closed channel, which is the
variable `panicked`.

**SignalR.** `Register` starts the client, `CloseAfterLast` closes it from `Unregister`, `AppStart` and
`AppClose` are the application's; `served` is what the cloud knows. An invocation that fails may have
been carried out.

**ChargingSessions.** Session `i` begins at time `2i-1` and ends at `2i`. `stream` is everything on its
way, in the order of the connection; a subscription appends a batch with the latest start and the
latest stop, in either order. `RegisterSessionStart` is `CutLatest` and `RegisterPending`, the two writes
of `db/db.go:64-75`, or `RegisterStart` where only one is needed. A crash empties the stream and keeps
the bucket.

**EnergyHandler.** The run loop's `handle` is `Observe` (the hour is compared), `Create` or `Find`
(the field is looked at), `Resolve` (the field is read again for the send) and `Send`. The collector is
`Receive`, `Discard`, `Fire` and `Exit`, which resets the field. The cache refuses an older or smaller energy.

**ObservationCache.** The n-th observation of a kind is named by its place in `history`, so its place
is its timestamp. Handlers that do the same (a setter and a report) are one kind (`Plain`); each handler
that differs has an action. `announced` is what the last inclusion report said.

**ChargerControl.** A caller is a goroutine with one command at a time (offer, start, stop, max), and `at` is
where it is between two operations another goroutine could observe: the reads of the cache (`Start`,
`ReadRequested`), the token and the look at the throttle (`Admit`), the request on its way (`sending`), the
change made and not yet answered (`accepted`; `AnswerLost` is the HTTP timeout), the record of the change and the
answer (`Answered`: `registerMaxCurrentChange` for the dynamic current only), the store of the request, and
the wait. `Listen` is one critical section (`cache/cache.go:568-592`), and so are `Leave` (595-602) and a
setter with what it publishes (`HandleAndPublish`); `Receive` and `Timeout` are the two cases of the select.
Currents are the integers the handlers round them to. The two groups of listeners are one set, told apart by the
command that waits. `known`, `before` and `made` are there for a property and are read by no guard: what was
answered, what was known when the command was given, and when the charger made the change.

**Authentication.** `call` is the AccessToken call that holds `a.mu`; only one can. Its steps are
separated where the process waits for something outside: the refresh, the notification, the message on
the bus, the clearing. `app` is the command the application handles. A credential is a token number and
whether the expiry times are known, unknown (stored by an older version), or unreadable as well (the tokens do not say); `age` is what time has done to each token. `creds` is the
configuration in memory, `disk` what was saved; each `Store` may fail to save, and so may the reset of `Uninstall`
(`ResetFailed`), before or after it emptied the memory; `wiped` remembers how far it got and is read by no guard.

## Runs

| run | what it asks | what it shows |
|---|---|---|
| `client_loops` | `OneLiveLoop`, `ConnectionHeld`, `ClosedLoopsExit`, `DeadLinkNoticed` of two overlapping goroutines | at most one is live and Close would cancel it; a connection in use belongs to one that has not given it up; cancelled ones end; a dead link is noticed |
| `client_orphaned` | `ConnectedCanInvoke` | **violated**: a goroutine that sleeps through Close and Start resets the connection of its successor |
| `manager_serving` | `NoForgottenCharger`, `EventuallySubscribed`, `BookSpec` with two chargers | an unsubscribed charger is always on its way to an attempt and gets there, unless loop and sender wait for each other; the manager implements `SubscriptionBook` |
| `manager_wedge` | `RegisterReturns` | **violated**: `Register` sends with the lock held, the loop needs the lock before it reads again. Nobody stops the manager in it (`RunningSpec`) |
| `signalr_steady` | `SubscribedAreServed`, `ManagerCatchesUp` with two chargers (`SteadySpec`) | as long as nobody closes the client, what counts as subscribed is served or the news of the loss is on its way |
| `signalr_whole` | `ServedOrOnItsWay`, `ChargersHaveClient`, `LossIsNoticed` with logins, logouts, starts and stops | a logout leaves subscriptions that count and are not served, and the next connection makes up for it; a close never overtakes a start; a loss is noticed |
| `sessions_stored` | `ReliablyConverged`, `ReliablyOnlyLatestOpen`, `LatestIsCurrent`, `HistoryStays` under losses, repetitions, failures and crashes | once the stream is handled the bucket agrees with the charger, unless an observation could not be stored or a batch listed a stop before a start; after such a batch the latest session is still the charger's, open if the charger is in it |
| `energy_collector` | `AtMostOneRepeated`, `ReadingArrives` with a meter that starts over | at most one observation of an hour is stored twice, and the last hour's arrives unless the loop is stuck |
| `energy_blocked` | `HandlerReturns` | **violated**: the collector resets the field between the check and the send; the loop sends on a nil channel |
| `charger_control` | `StoredIsNewest`, `AnnouncedIsCached`, `CacheIsNewestInOrder` with late and repeated observations; `NoLostWakeup`, `UpdatesApart`, `RequestIsLastAccepted`, `CommandsReturn` of two callers | the cache holds the newest; kinds that are skipped when equal, and the cloud flag, do so as long as the cloud keeps the order. A wait misses no value its channel had room for and ends; changes that do not overlap are a wait time apart; a start resumes with the last current accepted, unless two offers overlapped, a session ended during one or an answer was lost |
| `auth_sessions` | `AuthenticatedMeansCredentials`, `RefreshIsCurrent`, `NoFalseLogout`, `OnlyLoginRestores`, `DeadSessionEnds` with a restart and an uninstallation | lifecycle and credentials agree, or a message will make them, or a reset failed halfway; no answer overwrites newer credentials; only dead sessions end, and they do unless their times cannot be read |
| `auth_latelogout` | `LoginSticks` | **violated**: the message of a dead session is handled after the next login and removes its credentials |

Each passing run also checks the type invariant of its module (`signalr_whole` does not: `signalr_steady`
checks it, and it is proved for every behaviour). Deadlock is checked in `auth_sessions` and `auth_latelogout`. The others say
`CHECK_DEADLOCK FALSE`: the bounded histories come to an end, a wedge or a panic is a real stop of the
code and is described by a property of its own, and the instances with a bounded `Next` stop at the bound.

`manager_wedge`, `energy_blocked`, `client_orphaned` and `auth_latelogout` are reported under `findings` with the line of
the repository that says otherwise.

## Bounds

| bound | where | why it is enough |
|---|---|---|
| two sessions | `SignalRClient` | the shortest overlap: one goroutine past its `Close`, one live. `OneLiveLoop` and `ConnectionHeld` are proved for any number |
| one session | `SignalR` | `signalr_steady` closes nothing, so one goroutine is all there is. `signalr_whole` with one is a client whose goroutine ends before the next begins, which `ServedOrOnItsWay` needs (`OneAlive`). Its safety properties are proved for any number |
| `StatesCap` 2 (client, steady), 1 (manager, whole) | channel `states`, 10 in the code | full, half full and empty all occur; a send that blocks is reached |
| two chargers; one in `signalr_whole` | manager, composition | a charger in the channel while another is retried or removed. `NoForgottenCharger` and `BookSpec` are proved for any finite set |
| `MaxRetries` 1 (`Bounded`) | retry goroutines per charger | each registration and each connection may add one more; with one waiting, nothing that adds another is taken until it has gone. The channel still overfills, which `manager_wedge` needs. `NoForgottenCharger` is proved without it |
| `Once` | `MCSignalRWhole` | a logout or stop is remembered by `left`; after it the client is not closed again and the manager not stopped again |
| `Sessions` 3, `StreamCap` 4 | `ChargingSessions` | the bucket query looks at two sessions, so a third has something behind it; a batch of two meets two more observations. `HistoryStays` is proved for all values |
| `Last` 6 (4 in `energy_blocked`), `PerHour` 2, `Cap` 2 | `EnergyHandler` | three hours with two readings each: a collector may have read the hour before, the present one and the next. `Cap` 2 makes the channel full. `AtMostOneRepeated` is proved for all values |
| `Length` 3 | `ObservationCache` | newest, older and oldest of each kind. Kinds share no state except grid and phase mode, so `Parts` observes them part by part, chosen at the start. What it shows of the cache is proved for all values |
| `Grids` {1, 3, 50}, `States` {0, 3, 4} | `ObservationCache` | two grids that differ only in phases and an unknown one; offline, charging, finished |
| `Parts`, `JointLength` 2 | `MCChargerControl` | a behaviour is about one part: one kind with three observations; or the two kinds that meet, or a command with the observations that meet it, with two of each; or the throttled commands with the clock. Commands without the clock meet no throttle twice, and with it no observation; the proofs know no parts |
| two callers, `Readings` {0, 1}, `SlowCurrents` {1} | `ChargerControl` | a caller that waits while another sets, both in one group, both past the throttle. 0 is the current of a stop and the request that was reset |
| `WaitTime` 2, `Horizon` 3 | `ChargerControl` | too early, just in time and later; an off-by-one of the throttle is found. `UpdatesApart` is proved for any |
| `MaxToken` 3, `MaxMessages` 2, `MaxRestarts` 1, `MaxUninstalls` 1 | `Authentication` | the session found at the start, its refresh, a login; two dead sessions' messages. All but the liveness is proved for any values |

## Fairness

* `SignalRClient`: every runnable goroutine goes on and timers fire (weak fairness of its steps); a
  send on `states` that becomes possible again and again is made (strong fairness, Go's channels are
  FIFO); the select of a done context does not lose the draw against the backoff timer for ever
  (Go picks at random). The library ends a handshake and closes the connection of a cancelled context.
  Nothing is assumed of Start, Close or of how long a link lives. `FairSpec` leaves out invocations, which no goroutine reads.
* `SignalRManager`: Go's mutex is starvation free and `select` draws among ready cases, hence strong
  fairness of what needs the lock or is received. The cloud does not refuse the charger a property
  is about for ever; of the other charger nothing is assumed.
* `SignalR`: the same for both components; of the cloud only that an invocation ends (it is bounded by a timer).
* `EnergyHandler`: time passes, the two goroutines go on, the timer fires, and the charger's last observation is sent
  again for as long as it is let in. `Discard` is not fair. `ReadingArrives` supposes that the
  collector does not miss for ever (`Miss`); `PromptSpec` has no misses at all, so that `HandlerReturns`
  is refuted by the race and not by a late timer.
* `ChargerControl`: a caller goes on; a request is answered or times out (the HTTP client has a timeout,
  `../cmd/factory.go:236-239`; a token is given or refused, see `Authentication`); the timer of a wait fires and the
  select does not prefer the channel to it for ever. Nothing is assumed of the charger's observations or of the clock of the throttle.
* `Authentication`: tokens are polled (tasks, the client's loop), Easee answers or the request times out,
  the notification and the message get through if tried often enough, and the router hands over what it
  received. Nothing is assumed of Login or of the user.

## Proofs

Every theorem holds for all values of the constants that satisfy the named assumptions of the
component's module (finite set of chargers, positive capacities, natural bounds). Each proof follows
`Init => IInv`, `IInv /\ [Next]_vars => IInv'`, and the property from `IInv`.

| theorem | module | property |
|---|---|---|
| `TypeCorrect`, `OneLiveLoopHolds`, `ConnectionHeldHolds` | `SignalRClientProofs` | `TypeOK`, `OneLiveLoop`, `ConnectionHeld` |
| `TypeCorrect`, `NoForgottenChargerHolds`, `KeepsTheBook` | `SignalRManagerProofs` | `TypeOK`, `NoForgottenCharger`, `BookSpec` |
| `TypeCorrect`, `ChargersKeepClient` | `SignalRProofs` | `TypeOK`, `ChargersHaveClient`, for every behaviour (`Spec`) |
| `CountedAreServed`, `BeliefCatchesUp` | `SignalRProofs` | `SubscribedAreServed`, `ManagerCatchesUp`, while nobody closes the client (`SteadySpec`) |
| `ServedOrComing` | `SignalRProofs` | `ServedOrOnItsWay`, while a goroutine ends before the next begins (`OneAliveSpec`) |
| `TypeCorrect`, `HistoryIsKept` | `ChargingSessionsProofs` | `TypeOK`, `HistoryStays` |
| `SessionsConverge`, `OneSessionOpen`, `LatestIsTheChargers` | `ChargingSessionsProofs` | `ReliablyConverged`, `ReliablyOnlyLatestOpen`, `LatestIsCurrent` |
| `TypeCorrect`, `NewestIsStored`, `CachedIsAnnounced` | `ObservationCacheProofs` | `TypeOK`, `StoredIsNewest`, `AnnouncedIsCached` |
| `ControlTypeCorrect`, `WakeupsArrive`, `UpdatesAreApart`, `ControlKeepsCache` | `ChargerControlProofs` | `ControlTypeOK`, `NoLostWakeup`, `UpdatesApart`, and that `ControlSpec` implements `Spec` of `ObservationCache` |
| `InOrderIsNewest`, `LastAcceptedIsRequested`, `HistoryKeepsControl` | `ChargerControlProofs` | `CacheIsNewestInOrder`, `RequestIsLastAccepted`, and that `HistorySpec` implements `ControlSpec` |
| `TypeCorrect`, `RepetitionIsOnce` | `EnergyHandlerProofs` | `TypeOK`, `AtMostOneRepeated` |
| `TypeCorrect`, `AuthenticatedCorrect`, `RefreshCorrect`, `NoFalseLogoutCorrect`, `OnlyLoginRestoresCorrect` | `AuthenticationProofs` | `TypeOK`, `AuthenticatedMeansCredentials`, `RefreshIsCurrent`, `NoFalseLogout`, `OnlyLoginRestores` |

* **Client.** `OneLiveLoop` needs that a goroutine with a cancelled context has not returned; otherwise
  `Start` could spawn one that is cancelled before it begins.
* **Manager.** `NoForgottenCharger` needs to know what the loop and a sender hold: while the loop handles
  a subscription the channel exists (so that a failed one is retried), the lock is kept from the lookup
  of the charger to the answer, a sender has a charger in hand, and there is no loop before `done`.
  `KeepsTheBook` maps the manager's registry to the status of each charger and `made` to `up`: the
  initial state maps to the initial state, and each step to a step of the book or to none.
* **Composition.** Client and manager share `states`: a step of one is, for the other, a step of the environment its
  specification allows, or none (`ClientKeepsSpec`, `ManagerKeepsSpec`; this holds by the shape of the composition and is
  there for what follows from it). The invariants of the components then hold
  in the composition by their own theorems, and what is left to find is what relates the two: the lock keeps a registration out while a
  last unregistration closes the client (`ChargersKeepClient`); and a goroutine observes the connection it dialled (`ConnectionInv`).
  `BeliefCatchesUp` follows because, while nobody closes the client, its state changes in the steps that put it in hand for the
  channel, and in no other. For `CountedAreServed` nothing is cancelled, so by the client's `OneLiveLoop` there is one goroutine, every link is
  observed (`AllWatched`), and a charger that counts, or is about to, is served unless the news of a loss is under way, which stays
  so until the loop has cleared the subscriptions (`LossStays`, `ServedInv`). After a logout the manager's belief may be wrong, and what counts need
  not be served. `ServedOrComing` rests on what a connected client still has to say: if no news is under way (`Fresh`), the manager
  believes it (`Weak`), its connection is observed (`Watched`), and whoever counts was subscribed on that connection, or is on its way
  (`FreshOn`). An invocation in flight must be one on the same connection, which is where overlapping goroutines break it.
* **Sessions.** That history stays rests on an order that no single variable shows: a start on its way
  is of a session no earlier than anything before it, whether stored, pending or on its way
  (`StreamInv`, `StoreInv`). The maximum of a set, which the bucket query takes, is characterised by a lemma
  from the well-foundedness of the natural numbers. Convergence is about the end of the stream; the invariant says what holds before (`Faithful`): the
  session that has begun is stored as open or its start is coming (`OpenInv`); the last finished one is stored as it was, with no start
  on its way that would open it again, or its stop is coming after all of those (`FinishedInv`); a stop is preceded by a start of its session or of a
  later one, so it never becomes the latest (`CoverInv`); and between the two writes nothing is open (`ClosedInv`). A batch keeps all four
  because it brings the last start and then the last stop, whatever was lost; a batch that lists the stop first breaks the second. `LatestIsCurrent` survives it: while the subscription
  is served, the session that began last is stored, pending or has its start on the way, and is open if it has not ended (`CurrentInv`).
* **Authentication.** While a call holds the mutex only `Uninstall` touches the credentials
  (`MutexInv`); the message a call has sent is still on the bus when it clears them, because the
  application needs the mutex to handle it (`ReportInv`); and once the compatibility step is done the times are known (`DatesInv`), since credentials whose
  times cannot be read never let it be done.
  The last two theorems read their step off this invariant: only `AccessToken` begins a logout, only `SignedIn` and `Restart` store again where nothing was.

* **Cache.** The time stored with a value is the newest that was handled (`TimeInv`), so a comparison with the
  stored time is one with the newest. It holds only for the kinds that are not skipped when equal (`Timed`).
* **Commands.** Until a value is dropped, a channel that is not empty holds what the cache holds (`WakeInv`), so a
  caller that takes a value out and goes on waiting has seen the cached one. What is known of an earlier
  change was known no later than the time the throttle compares with was recorded (`ApartInv`). The types need those of the cache and the other way round
  (a stored request is a reading), so the two invariants are one induction (`WholeInv`), whose steps are also the refinement.
* **What is remembered of the commands.** As long as no observation came late, an observation that is skipped
  because its value is cached leaves the newest value in place, though not its time, which is no later than the newest seen (`OrderInv`). As long as nothing is uncertain, the
  last offer accepted is what is stored, or it is the one offer that is accepted and about to be stored (`OfferInv`).
* **Energy.** The cache does not change while a collector collects. So an observation of an hour that is cached can only
  be the one the loop had in its hands when the collector was created: of those queued, or about to be, there is at
  most one (`RepeatInv`).

Every invariant and every safety property of steps that a passing run checks is also proved. Only model-checked is liveness
(`ClosedLoopsExit`, `DeadLinkNoticed`, `EventuallySubscribed`, `LossIsNoticed`, `ReadingArrives`, `DeadSessionEnds`, `CommandsReturn`), which rests on
fairness and so on `ENABLED`, beyond the provers; and the four violations, which are behaviours TLC shows.

## What the code does not do

Besides the four violations that have a run, these statements are defined in the modules, each with the
line it comes from, and do not hold of the code. Add one to the configuration named and TLC shows how.

| statement | configuration | what happens |
|---|---|---|
| `NilConnectionRefused` | `SignalRClient_orphaned.cfg` (INVARIANT) | `invoke` checks `c.connection` under the lock and reads it again after (`signalr/client.go:146,154`); a goroutine that drops it in between makes the process panic |
| `InactiveIsNotConnected` | `SignalR_whole.cfg` (INVARIANT) | a logout cancels the context, `notifyState` returns without a word (`signalr/client.go:192-195`), and the manager goes on counting chargers as subscribed (`signalr/manager.go:29-30`) |
| `ServedOrOnItsWay` with overlapping goroutines | `SignalR_whole.cfg`, with `Session <- TwoSessions` and `SPECIFICATION BoundedSpec` (drop the PROPERTIES) | a goroutine that outlives its `Close` dials again and puts its connection in the place of its successor's (`signalr/client.go:169`); the charger is subscribed on it, and when it ends nobody reports the loss, because its context is done (`signalr/client.go:192-195`) |
| `StopStaysRegistered` | `ChargingSessions_stored.cfg` (PROPERTY) | a start that comes again after its stop overwrites the finished session (`db/db.go:73`) |
| `OnlyNewSessionsCut` | `ChargingSessions_stored.cfg` (INVARIANT) | a start that comes again while its session is open stops the session at its own start (`db/db.go:65`); the second write repairs it, a crash in between does not |
| `PhaseModeIsNewest` | `ChargerControl_charger.cfg` (INVARIANT) | the newest observation equals the cached value and is skipped without its time; an older one is then stored (`signalr/handler.go:107`, `cache/cache.go:16`) |
| `OnlineIsNewest` | `ChargerControl_charger.cfg` (INVARIANT) | the cloud flag is stored whatever its timestamp (`signalr/handler.go:166`) |
| `RequestStays` | `ChargerControl_charger.cfg` (PROPERTY) | a state observation that comes again resets the requested current (`signalr/handler.go:251`, `cache/cache.go:22`) |
| `StopIsProtected` | `ChargerControl_charger.cfg` (PROPERTY) | a stop looks at the throttle and is not recorded, so a start right after it is let through (`api/http.go:223-224` asks for the protection because of the stop) |
| `NotLoggedInNoToken` | `Authentication_sessions.cfg` (INVARIANT) | a login that fails after the tokens arrived (they could not be saved, or the chargers could not be registered) leaves valid credentials behind (`app/app.go:105`, `api/authenticator.go:37`) |

`UpdatesApart` and `RequestIsLastAccepted` say what they except, because the code does not prevent it: two
callers may both look at the throttle before either change is recorded (`api/http.go:189,217`), a change whose answer is lost is recorded
nowhere, the record is kept in memory and gone after a restart, and a request is stored after the charger accepted it, when another
offer or the end of a session may have come in between (`easee/controller.go:199-204`).

`OnlyLoginRestores` and `RefreshIsCurrent` except credentials that `Uninstall` removed (`wiped`): it resets the configuration
without the authenticator's mutex (`app/app.go:79`), and a refresh under way then stores its answer in it, where
`app/app_test.go:126` expects the empty configuration. When the reset empties the memory and then fails, `Uninstall`
returns without setting the lifecycle (`app/app.go:80-84`): the application reports itself authenticated and has no
credentials, which `AuthenticatedMeansCredentials` excepts (`wiped = "half"`), until a logout or a login.

A session stored by an older version whose tokens cannot be read has no times, and never gets them: every `AccessToken`
fails at `api/authenticator.go:104` before the age of the session is looked at (`Undatable`). It is not ended by mistake
(`NoFalseLogout`), and not ended when it is dead either, so `DeadSessionEnds` is about sessions whose times are known or can be read.

A charger that is unregistered while the cloud cannot be asked is forgotten, and the client is left open even if it was the last
(`signalr/manager.go:136-140`); the cloud serves it until that connection ends, and no second attempt is made.

An observation that comes late meets handlers that do not ask when it was made (`PhaseModeIsNewest` and `OnlineIsNewest` above);
`CacheIsNewestInOrder` therefore supposes that none did (`late`). A start that could not be stored leaves the session before it
open when its stop is stored (`db/db.go:79`), which `ReliablyOnlyLatestOpen` excepts (`missed`). `ManagerCatchesUp` supposes
that nobody closes the client: two goroutines that overlap may send their states in another order than they changed it (`signalr/client.go:198-208`).

## Not modelled, and assumptions

* The commands of the application (Login, Logout, Uninstall) are handled one at a time by cliffhanger;
  an `Initialize` that fails stops the process. The SignalR library, MQTT, the database and Easee are external:
  modelled as far as the code uses them.
* Failures of a call are nondeterministic outcomes; delays are steps that may happen at any time.
* Not modelled: the getters and setters of `config` apart from the credentials: a setting is one string that is
  read where it is used, and enters as a constant or a delay of any length. Its setters hold the read lock only and
  `GetEnergyLifetimeInterval` holds none (`config/config.go:147,158,230`), although the comment at 86 promises "concurrency safe
  access"; a torn read of a string is below what the modules distinguish.
* Not modelled: the reports of the controller (`easee/controller.go:124-171,188-196,240-332`), which read the cache
  and the storage and change nothing; the cable lock, one request without state; the remaining requests of `api/http.go`, which read
  from the cloud; `jwt` (pure), `routing`, `tasks`, `cmd` (wiring on one goroutine), the receiver and logger of
  `signalr` (no state), the lifecycle states other than authentication, which follow it, and the mocks.
* A thing that is created again keeps nothing of the old cache: it starts with an installation fetched or kept, which `Init` of
  `ObservationCache` leaves open.
* `ChargerControl` is about one charger: the throttle and the cache are per charger.
* The start of the manager after a stop panics (`signalr/manager.go:70`); the application never does it, and nothing in the repository says that it may.

## Plan

Done: the SignalR stack (client, manager, abstract book, composition), the storage of sessions, the
observation handlers with cache and mappings, the commands with throttle and waits, authentication; proofs of every
safety property the passing runs check, the refinements included.

Next, in this order:

1. Lemmas about the pure mappings (`PhaseModes`): what a grid type, its phases and an unassigned output phase map to.
2. The session report of the controller over `ChargingSessions` and `ObservationCache`: it reads two stored sessions
   and three cached values one after the other, and may describe no single moment.
3. The setters of the configuration, if a setting gets a reader that depends on two of them.
