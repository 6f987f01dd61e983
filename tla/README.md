# Modemux in TLA+

Modemux is a Go daemon that turns USB LTE modems into HTTP and SOCKS5 proxies.
It watches the modems through ModemManager, connects them, runs a pair of
proxies for each connected one, and changes a modem's address on request.
This directory models its concurrent core, checks it with TLC on small
instances and proves the main results with TLAPS for any number of modems,
workers, proxies and requests. Paths below are relative to the repository.

## 1. The system

| Component | State it keeps | Operations | Talks to |
|---|---|---|---|
| Controller (`internal/modem/mmcli.go`, `mock_dev.go`) | none of its own: ModemManager and the hardware | `Detect`, `Status`, `Connect`, `SendAT` | everybody calls it; each call runs `mmcli` under the caller's context |
| Supervisor (`internal/modem/supervisor.go`) | `workers`, index to worker, under `mu`; its context; `done` | `scan` on a ticker, `Start`, `Stop`, `stopAllWorkers` | starts and stops workers; calls `onStateChange` for a removed modem |
| Worker (`internal/modem/worker.go`), one goroutine per modem | `state`, `status` under `mu`; its context; `done` | `initialConnect`, `poll` on a ticker, `reconnect`, `setState` | controller; calls `onStateChange` outside its lock |
| State callback (`cmd/modemux/main.go:278`) | none | inserts a `state_change` row, starts or stops the proxy | store, proxy manager |
| Proxy manager (`internal/proxy/manager.go`) | `proxies`, index to proxy pair, under `mu` | `StartProxy`, `StopProxy`, `StopAll` | two goroutines per pair, one per listener |
| HTTP and SOCKS5 proxy (`http.go`, `socks5.go`) | server, listener, source address | `Start`, `Close`, one tunnel per CONNECT | net/http, go-socks5 |
| Rotator and cooldown (`internal/rotation`) | `lastUsed` under `mu` | `Rotate`, `Check`, `Mark` | controller, store; called by the API and the dashboard, concurrently |
| Store (`internal/store`) | two append-only SQLite tables, one connection | `InsertRotation`, `InsertEvent`, queries | an insert may fail at any time; at the caller's deadline it may fail although its row is there |
| API server (`internal/api`) | the hub's clients under `mu`, one channel each | read handlers, `handleRotate`, `handleSSE`, `Broadcast` | rotator, store, controller |
| Dashboard (`internal/web`) | sessions, login attempts per address | login, logout, pages, rotate | rotator, store, controller |
| Daemon (`cmdServe`) | the signal context | start, and on a signal: server, supervisor, proxies, in that order | everything |
| Command line (`cmdDetect`, `cmdStatus`, `cmdRotate`) | none | `rotate` sends a rotation's commands from a process of its own | controller |
| Configuration, network helpers, templates, scripts | none while running | | |

There are no tests in the repository. The hard behaviours are these:

* Worker, supervisor and rotation goroutines work on the same modem without a
  common lock. State changes and their effects (row, proxy) are separate steps.
* A modem may be unplugged, lose its connection or get another address between
  any two steps; every controller call may fail.
* A removed worker is stopped by a goroutine nobody waits for and may be asleep
  or dialling while its successor already runs.
* Neither a rotation nor `modemux rotate` tells the worker what it does: a poll
  between detach and attach redials the modem the rotation waits for.
* Listeners start in goroutines of their own; a stop may overtake a start.
* Rotations check the cooldown at their start and mark it at their end; their
  context may end between any two steps, or inside an insert that has then written
  its row and returns an error.
* Shutdown has an order, and workers that notice it late.
* A broadcast goes through clients that read, lag, block and leave; the channel of
  one that leaves is closed outside the lock.
* Session store and login limiter release their locks between what they read and
  what they do about it.

What makes each component correct:

* Supervisor and workers: proxies and event log agree with the worker's state;
  states follow the machine the status pages are written for; shutdown and
  removal end; a modem with a connection is served in the end.
* Proxy manager: callers see a table whose entries do not change under them;
  what listens is what is listed; a stop is not lost.
* Rotation: history and answers agree; the cooldown separates what it can
  separate; every call ends.
* The whole daemon: supervision and rotations do not break each other; a modem a
  rotation left detached is connected again.
* Event streams: nobody sends on a closed channel or holds up a broadcast; an event
  is lost only to a client without room; handlers end.
* Tunnels: both goroutines end when one direction has; without a reset, data is lost
  only to a peer that has stopped sending.
* Dashboard: a logout is final and a session lasts until then or its expiry;
  failures per window are bounded; a lockout ends.

## 2. The modules

| Module | What it is |
|---|---|
| `ModemTypes` | the sets of modem indices and addresses, and the placeholder `None` |
| `Modems` | external: hardware, carrier and `mmcli`. `present` is what `Detect` can list, `addr` the address `Status` reports when the modem is connected |
| `ProxyRegistry` | abstract proxy manager: a table from modem to source address |
| `ModemState` | abstract life of a worker: which state changes exist |
| `Supervision` | supervisor, workers, callback and shutdown. EXTENDS `Modems` and `ProxyRegistry`; implements `ModemState` |
| `ProxyManager` | the manager with its listener goroutines; implements `ProxyRegistry` |
| `Rotation` | concurrent `Rotate` calls, cooldown, rows. EXTENDS `Modems` |
| `Tunnel` | one CONNECT request: handler, two copying goroutines, two peers |
| `Login` | sessions, login limiter and the requests that use them |
| `History` | reading the rotation history in pages, through the API and on the dashboard |
| `System` | the serving daemon: EXTENDS `Supervision` and `Rotation`, over the same modems, with `modemux rotate` beside it |
| `EventStream` | the hub of server-sent events and its handlers |
| `MC*` | the instances TLC checks |
| `*Proofs` | the theorems |

`Supervision` uses the proxy manager through its abstraction, and
`ProxyManager` is shown to implement that abstraction, so what is checked of
the one rests on what is proved of the other. `System` EXTENDS `Supervision` and
`Rotation`, which both EXTEND `Modems`: the two halves have names of their own for
everything but `present` and `addr` (hence `call`, `RotationInit`, `RotationTypeOK` and
`rotationVars` in `Rotation`), and the theorems about either can be cited of the whole.

### Supervision

`workers`, `state`, `status` are the fields of the same names (of `status` only
the address). A `Worker` is one incarnation of a worker goroutine: removing a
modem and finding it again starts another. `pc` says where `Worker.run` is:
`init`, `dial`, `verify` (asleep after a successful dial), `reconnect`, `event`
and `proxy` (inside `onStateChange`), `loop` (its select), `done`. `attempt` is
the loop variable of `reconnect`, 0 in `initialConnect`. `supervisor`, `detected` and
`removing` are the control state of `Supervisor.run` and `scan`; `removed` and `cancelled`
follow the goroutines of `go w.Stop()`; `main` follows `cmdServe` after the
signal; `lastEvent` is the newest `state_change` row per modem.

A controller call with the assignments behind it is one step; each database
write and each proxy operation is a step of its own; waiting costs no step and
takes any time. `InitialConnect`, `DialSucceeds`, `DialFails`,
`VerifyConnected`, `VerifyFails`, `Poll`, `Reconnect`, `ReconnectAborted` and
`LeaveLoop` are the branches of the worker's methods; `SetState` is shared by
them as `setState` is in the code. A call may fail at any time, and may succeed
after its context is done: it may have begun before, and the mock controller
never looks at its context.

Assumptions. `PromptDrain` is a constant: when TRUE a modem is listed again only
after its removed worker has finished. With the default scan interval of 30
seconds this is the normal case, since the steps of a worker between two looks
at its context take seconds; with it FALSE the run `supervision_overlap` shows
what happens. `server.Shutdown`, called before `supervisor.Stop`, is taken to
return.

`ProxyFollowsState` and `EventLogFollowsState` are about the workers that never had
another one beside them (`Tracked`): the late callback of a removed worker may
stop its successor's proxy (`supervision_overlap`) or leave one that the
successor's `StartProxy` refuses to replace.

### ProxyManager

One `Instance` is one `ModemProxy`. `http` follows the goroutine of
`HTTPProxy.Start` through `http.Server.ListenAndServe` (test for shutdown,
listen, track the listener or close it, serve), `socks` that of
`SOCKS5Proxy.Start` (listen, assign `p.listener`, serve). net/http and net are
external and modelled by what the code relies on. The manager's operations hold
its mutex and touch the goroutines only through two `Close` calls on different
objects, so each is one step. A bind ends a goroutine (`ended`) when an earlier
proxy of the same modem still has the port. Every other error of `net.Listen` or
`Accept` (the port is another process's, the configured port ranges meet, the host has no
descriptor left) is `HTTPFails` or `SOCKS5Fails`: it may come at any time, is logged
(`manager.go:71-81`) and leaves the entry in the table.

### Rotation

A `Request` is one call of `Rotator.Rotate`, `call` where it stands. `now` is a
clock that ticks freely between steps, so every call takes any time;
`deadline` is the end of the call's context. `history` is the table
`ip_rotations`, where the id of a row is its position; `logged` the calls with a
row in `modem_events`. `CGATT` sends an AT command the way
`MMCLIController.SendAT` does, with `-m any`: to whichever modem ModemManager
picks. Calls to mmcli fail once the context has ended, and SendAT may also fail after
the modem has taken the command. `ModemsChange` is what modems and carrier do
meanwhile.

`Rotate` drops the error of `InsertRotation` (`rotator.go:82`), which has three
outcomes: the row and its id (`Insert`), no row, and, when the deadline falls into
`ExecContext`, the row with an error instead of the id (`InsertUnreported`). An insert whose
context has ended before is not begun by database/sql, so `Mark` then goes on to the event.

### Tunnel

`pc` follows `handleConnect`, `copier` the two goroutines, `done` the channel of
that name, `conn` the two connections. A peer sends, stops sending (`half`),
disappears or resets (`gone`), or stops reading, whenever it likes; `Window` is
what it accepts without reading, so a write can block for ever. Data is counted:
what was `sent`, `read`, `written` on and `received`. `io.Copy`, net/http and the
peers are external. Data counts as passed on when a write of the proxy has taken it; what
TCP does with it when the connection is closed afterwards is not modelled. `Room` is
what the buffer of `done` gives the copiers.
`ServerClose` is the part of `StopProxy` a request sees.

### Login

A `Conn` is a request goroutine, used again and again. `pc` is its place in
`LoginPost` (`window`, `forget` and `count` inside `Allow`; `compare` behind it,
where the credentials decide between `Record` and `Create`) or in
`sessionMiddleware` and `Validate`. `Entry` are the `attemptInfo` objects:
`attempts` maps an address to one, and a call of `Allow` holds one (`info`)
while it decides, without a lock, although the map may have another by then.
Time is the age of an entry and the expiry of a session, which the environment
advances. `Logout` is one step, since nothing it does depends on what it read.

### History

`rows` is `ip_rotations` again, without addresses; every query is one step. A
`Reader` is a client of `handleHistory` (or `handleAllHistory`, modem `None`) that
asks for the next page behind the rows it has until it has as many as the answer's
`total`: the client is external, the page, its limits and the two queries of an
answer are the code's. `Dashboard`, `button` and `HistoryRows` are the table, the
"Load more..." button and its htmx request. Rows of one second come in the order
SQLite gives them for each of the two queries. A failing query is left out
(`handleHistory` then drops the error of the count and reports 0).

### System

Supervision and rotations share nothing in the code but the modems: every step of a
rotation (`RotationProgress`) leaves the daemon's other state alone, and the reverse.
`HandleRotate` and `RotateModem` are the handlers of API and dashboard around
`Rotate`. `cli` follows one `modemux rotate`: the same commands with `-m any`, without
cooldown, deadline or row, and with two fixed sleeps, which cost no step. A call that
fails ends it where it is. Only the serving phase is modelled: how the daemon stops is
in `Supervision`, and whether open requests are
waited for then is decided by the web framework.

`SupervisionUnaffected` and `RotationUnaffected` say that each half behaves as its
module says, whatever the other does: to the workers a rotation is an
environment step, to a rotation a redial is one.

### EventStream

A `Stream` is one `GET /api/events`, a `Publisher` a goroutine that calls
`Broadcast`. `event` and `todo` are the loop of `Broadcast` under the read lock,
`pc` is the place of a handler in `handleSSE` and `Unsubscribe`. The program calls
`Broadcast` nowhere yet; the hub and the handlers are there, and the model says
what they promise to a publisher. `ended` and `broken` are what the framework and
the client's connection do; both may happen at any time or never. `audience`
and `missed` are observers.

## 3. The runs

| Run | Kind | Instance | What it shows |
|---|---|---|---|
| `supervision` | pass | 1 modem, 2 worker incarnations, 1 address, 3 attempts | `ProxyFollowsState`, `EventLogFollowsState`, `ConnectedIsServed`, `OnlyOrphansSurviveShutdown`, `FollowsStateMachine`, `ShutdownCompletes`, `RemovedWorkersEnd`, `StableModemIsServed` |
| `supervision_overlap` | violation | `PromptDrain = FALSE` | `ConnectedIsServed` fails |
| `system` | pass | 1 modem, 1 worker, 1 request, 1 command, 1 address, 1 attempt | `SupervisionUnaffected`, `RotationUnaffected`, `NotLeftDetached`, `EveryRotationEnds` |
| `system_stale_ip` | violation | 2 addresses, timeout 2 | `RotationMovesProxy` fails |
| `event_stream` | pass | 2 clients, 2 publishers, 2 events, channels of 1 | `NeverSendsOnClosed`, `EveryClientIsOffered`, `NothingTwice`, `BroadcastsEnd`, `StreamsEnd` |
| `proxy_manager` | pass | 2 modems, 2 addresses, 2 starts | `HTTPServesOnlyListed`, `ImplementsRegistry`, `StoppedHTTPEnds`, `FirstProxyServes` |
| `proxy_manager_leak` | violation | 1 modem, 3 starts | `SOCKS5ServesOnlyListed` fails |
| `rotation` | pass | 1 modem, 2 requests, 2 addresses, clock to 6 | `CompletionsAreSpaced`, `HistoryMatchesAnswers`, `RefusalsFollowSuccess` |
| `rotation_overlap` | violation | as `rotation` | `RotationsAreSpaced` fails |
| `login` | pass | 1 address, 2 requests, 3 entries, 1 session, limit 2 | `FailuresAreBounded`, `AnswersMatchSessions`, `LockoutEnds` |
| `tunnel` | pass | 2 units of data each way, window 1 | `LostOnlyBehindAHalfClose`, `EndsOnlyByAPeer`, `OneEndEndsAll` |
| `history` | pass | 2 modems, 1 client, pages of 1, 2 and all, 4 rows in 2 seconds | `NoRowIsSkipped`, `RepeatsComeFromInserts`, `DashboardHasNoGap` |

Each module has one type invariant, checked in its first run; that of `System`, which
puts two of them together, is only proved. Six properties need a word:

* `ProxyFollowsState` also covers the time inside the callback: `StartProxy` refuses
  to replace a proxy, which the callback only logs (`manager.go:43`), so a worker that
  has just connected must find none.
* `RefusalsFollowSuccess`: a rotation that failed half-way may be retried at once;
  the cooldown refuses only behind a recent success of the same modem.
* `HistoryMatchesAnswers`: rows and calls are matched by a `writer` of each row, not by
  the id, since a row may stay that nobody reported. It must be a call's own row, and
  the call has reported its id or its deadline had come.
* `FirstProxyServes`: each protocol of a first proxy serves in the end, or its own listener
  met an error from outside. That is the only excuse, and one protocol's is not the other's.
* `LostOnlyBehindAHalfClose`: the end of one direction cuts the other, so a peer that
  stopped sending may miss what it still waits for. The property bounds that loss: when no
  peer has reset its connection, nothing is lost to a peer that has not stopped sending, and
  what a peer sent is all passed on before anything sent to it is lost.
* `EndsOnlyByAPeer`: a tunnel that stands ends because of a peer, not of `StopProxy`.

Why the bounds are enough to meet the interesting cases:

* Modems share nothing but the supervisor's loop and the manager's table, so one
  modem with two incarnations shows the overlaps of one index; the theorems of
  section 4 hold for any number of modems. Two incarnations are one removal
  and one return. The bound on incarnations is in the guard of `Detect`: a modem
  is listed only while the pool has a worker left for it.
* Three attempts are the code's own `maxRetries`. In `system` one attempt keeps the
  difference between "one more" and "none left": `GivenUp` is reached.
* One address is enough in `supervision`: there an address only tells a connected
  modem from one that is not. `RotationMovesProxy` is about two addresses and has them.
* `system` has no cooldown and a timeout of 1, so a call may expire at every control
  point, and carrier, worker and command may detach and connect the modem
  between any two of its steps. Its composition properties are proved for every
  instance; TLC is there for its liveness.
* In `event_stream` channels of 1 are full after one event and two events make a
  broadcast meet a full and an empty channel; two publishers overlap in the loop.
* Two starts let a proxy have a predecessor whose listener is still open; the
  leak needs a third only to show the port stays taken.
* In `rotation` the cooldown is 2, the timeout 2 and the pause 1 units, and the
  clock goes to 6: the second call may begin before, inside and after the
  first one's cooldown, and both may expire at every control point.
  `WithinMaxTime` keeps a call from beginning so late that the clock could not
  reach its end.

* In `login` a limit of 2 is the smallest at which `Allow` can pass on a count. With
  two requests the bound of 3 failures is reached, one `Allow` can delete the entry
  another request has just made, and an `Allow` can decide on an entry that was
  replaced. Three entries are one more than two requests and an address can refer
  to when a new one is made. Addresses and sessions do not interact: one each;
  tokens are never reused, so the one session is a bound on successful logins.
* In `history` four rows are two full pages, and one page pushed behind another; a
  client may ask for more than `MaxLimit`, and for no limit with -1.
* In `tunnel` a window smaller than the data lets every write block.

Deadlock is checked except in `proxy_manager`, `tunnel` and `event_stream`, where a
manager nobody calls, a tunnel between silent peers or after its end, and a hub
whose clients have all left, really may rest. `Exited` lets a finished process stutter.

Fairness, where a liveness property uses it:

* every goroutine that can run runs (weak fairness of its next step), which is
  what the Go scheduler gives;
* a select with several ready cases picks one at random, so a `ctx.Done()` case
  that stays ready is taken in the end although the ticker is ready again and
  again: strong fairness of `LeaveLoop` and `StopAllWorkers`;
* the goroutine of `go w.Stop()` runs, and the supervisor finishes a scan it has
  begun; nothing forces it to begin one, and no call is forced to succeed;
* in `System` and `Login`, time passes, and a call of `Rotate` that has begun goes on:
  every wait in it ends with its context. The command line may be interrupted;
* in `EventStream` the handlers run, their keepalive ticker sees to it that the
  select never waits for ever, and a context that is done is noticed in the end
  (strong fairness of `Notified`, which competes with the other cases). A write
  has to return only when the connection is broken. The bound on events makes the
  broadcasts stop; in the program it is `RWMutex`'s preference for a waiting writer
  that lets `Unsubscribe` in;
* `Poll` is fair while a worker is in its loop: `Status` of a modem that stays
  present answers or fails. `mmcli` has no timeout of its own, so this is an
  assumption about ModemManager.

Nothing else is assumed of modems, carrier, callers, clients or the peers of a tunnel, and not
that the cleanup goroutines of `Login` ever get a turn.

## 4. The proofs

All theorems are checked by tlapm to the last leaf and hold for all values of
the constants under `NoneAssumption` and the assumption each module names.

`SupervisionProofs`. `TypeCorrect` first. The safety properties are not
inductive, since a settled worker's proxy depends on everything that could
touch its modem in between. Three layers strengthen them:

1. `RegistrationInv`: a registered worker was started, serves its own index and
   was not removed; every started worker is registered, removed, or left over
   from the final drain.
2. `ControlInv`: state and control point fit (a worker about to dial is
   connecting, one that enters `reconnect` is disconnected), also inside the
   callback.
3. `ProxyInv`: for a worker alone on its modem, at each control point, what
   the proxy table holds and what the newest row says. It gives
   `ProxyFollowsStateHolds`, `EventLogFollowsStateHolds` and
   `OnlyOrphansSurvive`. Since the callback finds no proxy, the one it leaves
   dials from the address the worker has just read (`ConnectedProxyIsNewHolds`).

`ConnectedIsServedHolds` comes in two parts. `ServedWithoutOverlap` says, without
an assumption on timing, that a connected worker in its loop has a proxy in every
behaviour in which no removed worker stays active beside a registered one of its
modem (`NoOverlap`): the overlap shown by `supervision_overlap` is the only way to
lose the proxy. Its invariant is `ServedInv`. `PromptDrainPreventsOverlap` proves
`NoOverlap` from `PromptDrain`, by way of `ScanInv`, which follows a modem from
the listing of `scan` to its registration. Two lemmas say what a worker's step and
the other steps leave alone, so each invariant looks only at the actions that can disturb it.
`FollowsStateMachineHolds` is the refinement of `ModemState`: `ControlInv` says
from which state each `SetState` comes, and every step is a change of the
machine or a stutter.

`ProxyManagerProofs`. `TableInv`: the table and the owners agree, every instance
that was started and not shut down is listed, and a shut down server that serves
has lost its listener. It gives `HTTPServesOnlyListedHolds`, and with it every
step of the manager maps to a step of `ProxyRegistry`
(`ImplementsRegistryHolds`). `FailureInv` says that, errors from outside (`failed`)
apart, a listener closes only by a stop, and that a goroutine ends only when a proxy of
its modem was stopped: it was its own, or it found its port taken by another of the
same modem, and two of them are never listed at once (`TakenPortMeansAStop`). A stop
is never undone (`StopsStay`). It gives `FailsOnlyBehindAStopHolds`, the safety half of
`FirstProxyServes`: the program itself takes a port from a listed proxy only by an
earlier, stopped proxy of the same modem, whose listener is closing or was leaked.
`StopsReachServingHolds` bounds the leak of `proxy_manager_leak`: a SOCKS5 proxy that
is listed when its listener is assigned never serves after its modem has given it up,
so a stop is lost only in the window before.

`RotationProofs`. `TimesInv` orders the instants of one call: beginning, detach,
the pause, mark. `CooldownInv` says that `lastUsed` is never before a mark of its
modem and that a call that began after a mark waited the interval; other calls
may overwrite `lastUsed` only with something newer. Together they give
`CompletionsAreSpacedHolds`. `MarksInv` is the converse: what `lastUsed` holds is the
mark of some call of that modem, so a refusal has a recent success behind it
(`RefusalsFollowSuccessHolds`). `HistoryInv` says that every row has
a call that wrote it and is past its insert, and that a call has an id only then. Nothing
a row was made of changes behind the insert (`HistoryFrame`), and an insert, reported or
not, extends the writers by a call that was none of them (`InsertKeepsHistory`). It
gives `HistoryMatchesAnswersHolds`.

`LoginProofs`. `FailureInv` counts, for each address with a fresh entry, the
failures recorded and the requests that may still record one: all that are
inside `LoginPost` but those that hold that very entry and find it full. The sum
never exceeds `MaxAttempts - 1 + Cardinality(Conn)`: a request that joins finds the
entry full or below the limit, `Record` moves one from the second part to the
first, and a new entry starts at one. It needs that no two addresses share an
entry. `StoreInv` and `PageInv` say where a token can be and what a page request
knows about it at each step (`AnswersMatchSessionsHolds`).

`TunnelProofs`. `CopyInv` balances what was sent, read and written; `EndInv` says
that once anything has ended there is a good reason for it: a peer that is gone,
or one that stopped sending after all it sent was written (`GoodEnd`), and that
such a reason stays (`GoodEndStays`). So when no peer is gone one direction is complete,
and only its sender can have missed anything (`LostOnlyBehindAHalfCloseHolds`).
The good reason is always a peer's doing (`EndsOnlyByAPeerHolds`). `SignalInv` says that
the signals in the channel are
those of copiers that have ended, that none is taken while the handler waits, and
that behind its deferred calls the connections are closed. So there is room for the
second signal, and from the first one on the handler or a copier has a step that
waits for no peer (`EndIsNeverStuckHolds`, the safety half of `OneEndEndsAll`).

`SystemProofs` shows the composition by refinement. `ServingInv`, the types of the
supervision's half and that the daemon serves, is all it needs: a `CGATT` of a
rotation or of the command is an address lost or found and hence an environment
step of `Supervision`, and a `Connect` of a worker is the same for `Rotation`, or
a stutter when the address does not change (`SupervisionUnaffectedHolds`,
`RotationUnaffectedHolds`). So the theorems of both halves hold of the whole:
`SupervisedBesideRotations` carries those of `SupervisionProofs` over to a daemon
whose modems rotations detach (`ServedBesideRotations` the one under `PromptDrain`),
`RotationsBesideSupervision` those of `RotationProofs` to rotations whose modems are
redialled, and `SystemTypeCorrect` puts the types of both together.

`EventStreamProofs`. `MembershipInv` ties the map and the closed channels to the
handlers' control points, `LockInv` says that a broadcast has only clients of the
map left to visit: nobody leaves it before the read lock is released. A closed
channel belongs to a handler that is done and so to no such client
(`NeverSendsOnClosedHolds`). `EventInv` adds that events are numbered as they are
published, that a client a broadcast has still to visit has not got its event
(`NothingTwiceHolds`), and that of the clients it began with only those not yet
visited lack it (`EveryClientIsOfferedHolds`). An event published when a broadcast is
over reaches no client ahead of that broadcast's event (`InOrderHolds`).

`HistoryProofs`. A row's place is the number of rows in front of it. Places of
different rows differ, and a page is exactly the rows whose places lie from its
offset up to its length (`PageIsInterval`, by counting both ways). A rotation that
ends moves each row of its history back by one place at most (`InsertMoves`). With
`Given` and `Reached`, what a client has and how far it is, `SkipInv` says that no
old row in front of `Reached` is missing, which insertions can only help. `RepeatInv` counts:
`Reached` exceeds the rows given by those given twice, and each row given that now
lies beyond `Reached` will come again; together these are at most the rows added,
since an added row pushes only the row in the last place beyond. `ButtonInv` is the same
for the dashboard: what stands in front of the button's offset is in the table.

Every invariant and every action property that a passing run checks is also stated by
a theorem. Only model-checked are the liveness properties (`ShutdownCompletes`,
`RemovedWorkersEnd`, `StableModemIsServed`, `StoppedHTTPEnds`, `FirstProxyServes`,
`NotLeftDetached`, `EveryRotationEnds`, `BroadcastsEnd`, `StreamsEnd`, `LockoutEnds`,
`OneEndEndsAll`), since liveness under fairness is out of the prover's reach;
`FailsOnlyBehindAStopHolds` and `EndIsNeverStuckHolds` prove the part of two of them
that is safety.

## 5. Divergences

Shown by runs:

* `system_stale_ip`: `README.md:20` says the proxies are "bound to real mobile
  carrier IP". `poll` starts a proxy only when the state changes, so after a
  rotation between two polls, answered with success, the proxy of the modem keeps
  dialling from the address it gave up.
* `supervision_overlap`: `scan` does not wait for a removed worker
  (`supervisor.go:163`). If it is still busy when its modem returns, its last
  callback stops the proxy of its successor.
* `proxy_manager_leak`: `SOCKS5Proxy.Close` does nothing while `p.listener` is nil
  (`socks5.go:58`); a stop in that window is lost and the proxy serves on.
* `rotation_overlap`: `README.md:194` calls the cooldown "Minimum time between
  rotations". It is checked at the start of `Rotate` and marked at its end; two
  requests that overlap both pass.

Seen while modelling, without a run of their own:

* Broadcasts hold the hub's read lock, which publishers share (`sse.go:43`): two
  that overlap may reach two clients in different orders. Hence the hypothesis of
  `InOrderHolds` that the first one is over.
* `README.md:25` promises "Auto-reconnect on modem disconnect with exponential
  backoff". The waits are 2, 4 and 6 seconds (`worker.go:172`), and after the
  third attempt the worker is `failed` and never dials again; it only notices
  a connection that somebody else makes (`StableModemIsServed`).
* `StartProxy` reports success before its ports are bound (`manager.go:71`); a
  proxy whose bind fails, because of another process or of a stopped predecessor,
  stays listed, is never tried again and makes `StartProxy` refuse until its modem
  disconnects. Hence the hypothesis and the exceptions of `FirstProxyServes`.
* `Mark` is called for a success only (`rotator.go:80`): a rotation that detached
  its modem and then failed may be repeated at once.
* The `rotation_failed` row of a timeout is inserted with the context that has
  just ended (`rotator.go:75`) and is never written.
* The error of `InsertRotation` is dropped (`rotator.go:82`): a success whose insert
  fails is answered with `rotationId` 0 and has no row, or, when the deadline fell into
  the insert, a row whose id nobody was told.
* `SendAT` ignores its port and uses `-m any` (`mmcli.go:89`): with several modems
  another one may be detached.
* A rotation that fails after the detach does not attach again. The worker redials
  such a modem (`NotLeftDetached`), until its attempts are used up.
* `modemux rotate` prints "Rotation complete" after a fixed 3 seconds, whether or not
  the modem has another address or any (`main.go:204`). It knows nothing of the
  daemon's cooldown and leaves no row in the history.
* `README.md:261` sends the commands "via modem serial port"; `parseMMCLIModem` never
  sets `SerialPort`, so the port that `Rotate` passes on is empty, and `SendAT` does
  not look at it.
* `handleSSE` looks at `c.Context()` and at the error of `c.Write` only. Whether the
  first ends with the client and whether the second ever fails is decided by the
  framework; if neither, the handler and its channel stay (`StreamsEnd` says when
  they do not).
* `Allow` tests one entry and deletes whatever the address has by then
  (`ratelimit.go:41`): an `Allow` that is late with an expired entry forgets
  failures of the new window, which `FailuresAreBounded` does not count: it is
  about the entry the address has. It reads `info.count` without the lock under which
  `Record` writes it (line 46), a data race; an `int` is read whole, so the model
  has one read at any time.
* Concurrent attempts all pass before the first failure is counted: the limit of
  5 per minute is 4 and one per request under way.
* `StopProxy` does not end a CONNECT tunnel that stands: `http.Server.Close` forgets
  connections that were taken over. Such a tunnel goes on from the old address
  until a peer ends it, and no timeout is left on it.
* The end of one direction closes both (`http.go:129`): a client that shuts its
  sending side down after its request loses the rest of the answer
  (`LostOnlyBehindAHalfClose` allows this loss and no other). What it sent
  before the 200 answer may be in the buffer that `Hijack` returns and the handler
  drops.
* `README.md:157` promises an "IP rotation history table with pagination". The
  "Load more..." button (`ip_history.templ:38`) is not part of what its request
  replaces, so its offset stays: the second click appends the same page again,
  and the rows behind the second page cannot be reached.
* The events page passes an offset that `GetEvents` does not take
  (`handler.go:247`): its first click already repeats the first page.
* A negative `limit` passes the cap of 200 (`handlers_rotation.go:57`), and SQLite
  takes it as no limit.
* `StateRotating`, `auto_connect`, `auto_rotate`, `retention_days`,
  `SSEHub.Broadcast` and `SerialATSender` are declared and never used.

## 6. What is left

* The safety halves of the other liveness properties, as `EndIsNeverStuck` is of
  `OneEndEndsAll`: that a shutdown, a handler that leaves its event stream, or a
  locked-out address always has somebody who can take the next step.

Not modelled, and why: the parsing of `mmcli`'s JSON is a sequence of field lookups
(what callers make of its outcomes is in `Modems`); the mock controller serves
development only, and what it does is among the outcomes `Modems` allows;
`SerialATSender` is never used, so no caller says which of its outcomes matter;
configuration is read once and appears as constants; the read-only handlers, the
templates and the network helpers change no state; install scripts run once, by
hand. How `server.Shutdown` treats open requests and event streams is decided by
the web framework.
