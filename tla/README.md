# A TLA+ verification project for MSN-GUARD

MSN-GUARD is an Android VPN client. One foreground service drives several
transports: the in-process `aether` engine (MASQUE, WireGuard, WARP-in-WARP),
Psiphon, Tor, SHARD (xray) and Foxy. It keeps the device on a tunnel through
drops, reconnects, pauses and a kill switch. The modules here model the parts
of it in which threads, callbacks and late completions meet, check them with
TLC on small instances, and prove the central invariants with TLAPS for every
size of instance. Two parts beside the service get the same treatment: the Go
client of the AnyTLS transport and the Rust supervisor that desktop hosts use.

## 1. The system's parts

| Part | State it keeps | Operations | Meets |
|---|---|---|---|
| **Core job bridge** (`aether_jni.cpp`, `ffi.rs`, `NativeCore.kt`) | the handle `g_job`, the error cache, the engine's job registry, one tokio task per job | `start`, `startProxy`, `stop`, `isRunning`, `lastError`; poll, cancel and free of a job | called by the service's worker, the main thread, the ladder and the identity fetcher without a common lock |
| **VPN session lifecycle** (`MsnGuardVpnService.kt`) | about eight Boolean latches, `sessionGeneration`, `tun`, a worker executor, a scheduler, a network callback | intents (connect, cancel, disconnect, pause, reconnect, reset), `onRevoke`, `onDestroy`, watchdog, auto-reconnect, quick reconnect, the MTU ladder, kill switch | everything below |
| **TUN engines** (`TunEngine.kt`, `HevEngine.kt`, `FoxyHevEngine.kt`, `HevNativeLease.kt`, `ZeptunEngine.kt`, `Tun2SocksManager.kt`) | which engine runs, a lease on hev's one native thread, duplicated descriptors | start, stop, status | started by the worker, stopped by every thread that calls `stopTunnel` |
| **WARP identity fetcher** (`WarpIdentityFetcher.kt`) | identity files and their backups | fetch (three routes), cancel, recover | the core job, the file system, process death |
| **Identity provisioning** (`IdentityProvisioner.kt`, `IdentityRelayClient.kt`) | relay state, files set aside | provision, install, roll back | the fetcher, network, process death |
| **Psiphon country ladder** (`MsnGuardVpnService.kt`, `PsiphonRegions.kt`) | `psiphonGeneration`, the rung, the rung's timer, the controller's handle | start, escalate, drop the country, tear down | the controllers' callbacks, the worker, main |
| **Tor** (`TorManager.kt` ...) | process, bootstrap state, bridges | start, stop, fall back | service |
| **SHARD** (`ShardManager.kt` ...) | nodes, health, xray process | start, rotate, probe, refresh | service, watchdog |
| **Foxy** (`foxy/*`) | HTTP/2 session, health, tokens | connect, replace upstream | service |
| **Smart DNS / split** (`SmartDnsFront.kt`, `SmartDnsResolver.kt` ...) | caches, sockets | resolve, relay | TUN engine |
| **AnyTLS** (`AnyTlsManager.kt`, `src/anytls`) | idle pool, the map of sessions, each session's streams | open, reuse, idle cleanup, close | one goroutine per connection, one receive loop per session |
| **fcae runtime** (`core/fcae-ffi`) | the running session, the stop barrier, the TUN's owner | start, stop, pause, resume, reconnect | desktop hosts |
| **UI** (`MainActivity.kt` ...) | views, preferences | sends intents | service |

Vendored code (badvpn, lwIP, hev, quiche), assets and generated files are left
aside. `PROJECT.json` lists every part with its status.

**What is hard.** The service has no lock. `connected`, `tun`, `stopRequested`,
`userInitiatedStop`, `reconnectRequested`, `paused` and `killSwitchSealed` are
read and written by the main thread, by the one-thread scheduler
`ladderScheduler`, by the one-thread executor `worker` and by the network
callback. `stopTunnel` blocks in the middle (it waits for the core) and every
other thread goes on meanwhile. A session's `finally` block may run after the
session that replaced it has been started, and each of its own steps may have
another thread's between it and the next. The bridge's lock is released
between testing the handle, spawning the job and publishing its id, and
between reading the handle and clearing it. Psiphon's callbacks carry no
identity: an old controller and the newest one look alike. The identity files
are moved by several renames, any of which may fail, in a process that may be
killed between two of them, by a settings screen, the service's worker, the
engine and a reset that know nothing of each other. A session of the AnyTLS client may be closed by its
receive loop, the idle cleanup, a watcher, a writer and `Client.Close` at once,
while a connection takes it from the pool. The supervisor's `stop` returns
before its worker has ended, and the next `start` must not meet that worker.

**What makes the parts correct.** The bridge: no job escapes the handle, a
restart is not refused because of its own predecessor, a stop ends the task.
The session: the claim on the service and the routing interface always have an
owner; an old session leaves a newer one alone (the code does not keep this one,
see section 3); a disconnect sticks; the
kill switch's interface stays up for as long as the seal lasts. The engines:
one native engine at a time, every descriptor closed once. The fetcher and the
relay: a valid identity is never lost, whatever fails or dies. The ladder: a
session that is connecting always has something under way that moves it on,
gives up only when every rung was tried, and does not dial for ever. The AnyTLS
client: no stream is left waiting on a dead session, no session carries two
streams, none is forgotten, and a closed client keeps none. The supervisor: one
worker at a time, no device or route left behind, every stop completes.

## 2. Modules

### `CoreJob` - the core job bridge

One step per lock region of `nativeStart`, `nativeStop` and `nativeIsRunning`,
so that calls of different threads interleave exactly where the C++ code lets
go of `g_job_mu`. `gJob` and `lastError` are the two globals; `jobs`,
`cancelled`, `task` and `nextId` are the engine's registry, cancel tokens,
tasks and id counter. `pc`, `call` and `loc` are a thread's place, the
Kotlin call it is inside and its local copy of the id. `NativeCore.start`
first asks `isRunning()` and calls `stop()` if the answer is yes
(`AfterIsRunning`, `AfterStop`). A job's payload is abstracted to whether it
failed; log text and JSON are left out. `StopWait` is the bounded wait of
`nativeStop`, which may end while the task is still running. An id without a
registry entry polls as "not done", as the C++ parser reads the error reply.

`Starters` are the threads that start the engine (the service's worker and the
identity fetcher), `Others` only stop and poll. Between the "already running"
test of `nativeStart` and the store of the id the lock is free, and two starters
may both be there (`InWindow`): the later store overwrites the earlier id. The
history variables `overwritten` and `raced` are the ids that happened to, and the
starters whose call in progress met another one; `NoOrphanJob`, `NoOrphanTask`
and `RestartNotRefused` say that this is the only thing that goes wrong. They
assume nothing about how many threads start.

### `VpnSession` - the session lifecycle

The WARP transports in VPN mode. `raised` is the set of latches that are true;
`tun` is the interface (none, routing, blocking), `handle` the field of that
name, and `copies` who else has a descriptor of the interface: the TUN engine's
duplicate, or one that a `tun = null` has made unreachable, which a finalizer may
close some day (`Finalized`). Android takes an interface down with its last
descriptor. `running` says whether the TUN engine and the core's job run;
`timers` holds the watchdog, the auto-reconnect task and the network callback;
`restarts` counts the restarts ACTION_RECONNECT has scheduled; `queue`,
`generation` and `rung` belong to the worker; `claim` and `armed` are locals of a
thread; `svc` is the Android service's own life. `verified` and `refused` are
history: the sessions that reached CONNECTED since the user last pressed Connect,
and the claims whose `startTunnel` threw.

* **main**: `Connect`, `CancelConnect`, `Disconnect`, `Pause`,
  `ReconnectLive`/`ReconnectIdle`, `ResetIdentities`, `Revoke`, `Destroy`.
* **ladder**: the auto-reconnect task (`RunRetry`, its test, and `RetryClaims`),
  the restarts (`RunRestart`, `PortWaited`, `RestartClaims`, `QuickTimesOut`),
  `StartThrows`, and `WatchdogTick` with `onTunnelLost` after it (`LostOffSeals`,
  `LostRetrySeals`).
* **worker**: `Begin`, `Prepare`, `SidecarFails` with `failAndStop` after it,
  the rungs of `runWarpWithMtuRetry` (`Rung` ... `Exhausted`), and the
  `finally` block: close, forget, drop the claim, test, act (`FinalClose`,
  `FinalForget`, `FinalDrop`, `FinalDecide`, then `FinalSeals`, `FinalRetries`
  or `FinalStops`).
* **any of them**: `stopTunnel` up to `NativeCore.stop()`, which blocks
  (`StopBegin`), and after it close, forget, drop and end (`StopFinish`, whose
  place is `phase`); `startTunnel` in two steps (`StartClaim`, `StartLaunch`);
  and the environment (`NetworkAvailable`, `CoreDies`, `ChangePreferences`).

A `startTunnel` throws when `onDestroy` has shut the scheduler down, before it
has cleared `stopRequested`, and when Android refuses the foreground, after it
has; the catch of a scheduled restart leaves the claim set (`StartThrows`). On
the main thread nothing catches it: the process is gone and its latches with it,
so that is not a step.

Grain: what lies between two reads or writes of shared state that another thread
could tell apart is one step. Two places are coarser: everything in `stopTunnel`
up to the return of `NativeCore.stop()`, and `establish()` with the store of its
result. The fields are read as if they were volatile; `tun` is not.

Durations, MTU values, notification text, the endpoint caches and the traffic
counters are left out: no decision modelled here depends on them except through
"this rung came up or it did not" and "the watchdog found the tunnel dead",
which are choices of the environment. `Rejects` says whether Android may refuse
an interface or the foreground. The core is module `CoreJob`; here it runs or it
does not.

Not in this module: proxy mode, the late path of `waitForSocksReady`, exit
rotation, and the Psiphon, Tor, SHARD, Foxy and chain branches of the service.

### `Tun2Socks` - the default TUN engine

`Tun2SocksManager.start` and `stop` are `@Synchronized`: a thread waits in
`startEnter` or `stopEnter` until the `monitor` is free, and the only place
where the monitor is kept over several steps is the join of the previous
thread (`startJoin`), which ends with the thread's death (`StartJoined`) or
with the grace period (`StartRefused`). `handle` is `tun2SocksThread`, `last`
is `lastThread`. A native thread is `spawned`, enters `run()` after it has
reset `g_terminate` (`RunEnter`), leaves its event loop because
`tcp_timer_handler` sees the flag (`RunTick`) or by itself (`RunQuits`: failed
initialisation, device error), unwinds and dies. A `terminateTun2Socks` that
throws leaves the handle clear and the flag unset (`StopThrows`). `stopped` is a history
variable: the runs for which `stop()` was called. `Workers` are the service's
worker and Psiphon's callback thread; `Stoppers` are main and the ladder.
Packets, addresses, the MTU and the descriptor itself are left out, and so are
the hev and Zeptun engines and `TunEngineManager`'s fallback.

### `SessionPool` and `AnyTls` - the AnyTLS client

The session pool of `client.go`, the sessions of `session.go` and the streams
of `stream.go`. A step ends where a lock is dropped or where a channel or the
network is waited for. A connection (`pc`, `sess`, `sid`) takes an idle session
or dials one, opens its stream, relays and closes; `recv` and `task` are a
session's receive loop and the stream it is busy with; `expired` is what the
idle cleanup took from the pool and has yet to close; `client` and `snapshot`
are `Client.Close`. A `sync.Once` gives a closing session or stream exactly one
executor, so what is left of the closing is a field of the session (`closing`)
or of the stream (`life`). `synDone` is the armed SYNACK watcher.

`DisableReuse` is off, as the client ships. When a session became idle
(`idleSince`) is abstracted: any idle session beyond `MinIdle` may have expired.
`EagerServer` says whether the server may answer a SYN before it has the
address; the reference server does not. `OpeningServer` says whether it may send
a SYN, which only a client should: the receive loop then enters a stream of that
id (`RecvSyn`) and a goroutine closes it (`StrayCloses`). An id that the client
has yet to give out is not among those. A FIN takes the stream from the map and
closes it in two steps (`RecvFin`, `CloseLocally`), and the server's settings
may name any version any number of times. Padding, framing bytes, the end of the
cleanup routine itself and the server side are left out.

`SessionPool` is what the client promises about its sessions without locks,
streams or goroutines: a connection is served once, with a new session (`Dial`),
with the newest free one (`Lend`) or with one that has closed in the pool
(`Disappoint`); the session
is its own until it gives it back (`Return`) or the session closes (`Shut`); the
cleanup takes free sessions out only to close them (`Retire`). `PoolProtocol`
says that `AnyTls` implements it: `free` and `retired` are the sessions of the
pool and of the cleanup that are not closed, and `lease` is the live session a
connection has from the moment it drew or dialled it until its stream's hook has
put it back (`Leased`).

### `IdentityFiles` - the identity files

Four parties write the files, and no lock keeps them apart.

* A **fetch** (`WarpIdentityFetcher.kt`: `fetch`, `fetchDirectPlain`,
  `fetchViaShard`) first recovers what an interrupted one left (`Recover`), moves
  its targets to `.warp-bak` (`MoveAside`), starts the engine, polls
  (`Verdict`), stops the engine, whosever it is (`Finally`), and deletes or
  restores the backups.
* A **relay** (`IdentityRelayClient.provision`), on a settings screen or in the
  service's worker before a connect, enrols for the files that are not valid and
  installs the answers, with the old files in `.relay-old` meanwhile; a failure
  takes back what was installed and renames the old ones back, file by file
  (`UndoInstall`, `UndoBackUp`), whether that works or not.
* The **engine** (`lib.rs`, `config.rs`), started by a fetch or by the tunnel,
  loads a file (`EngineLoads`; one it cannot read is quarantined and ends the
  job), talks to the account service, and saves it (`EngineSaves`): what it
  loaded, or a new identity because there was none or the old one was refused.
* A **reset** deletes them one by one (`Wipe`).

Three different tests decide what an identity is: `WarpIdentityFetcher.complete`
looks for fields (`Lenient`), `IdentityProvisioner.validIdentityFile` also at
what is in them (`Identities`), and the engine reads what it can parse
(`Loadable`). `file`, `bak` and `relayOld` are the disk and survive the death of
the process (`ProcessDies` resets the rest); `moved`, `backups` and `installed`
are memory. `Kept(f)` is what the user still has of a file: what the operation
under way would put back if it failed, otherwise what the next `recover()` will
leave.

The code leaves to chance what two writers at one file make of it. `contested`
is the history of such meetings (`Shared`: two operations, or one of them and the
engine or a reset, are at the same file), and the properties are about the other
files: they say that a meeting is the only way to lose an identity. Section 3
has what a meeting does.

Abstractions: a delete followed by a rename is one step, since dying between them
leaves what a failed rename leaves, and so is a test of existence followed by a
rename; a delete by the fetcher or the relay does not fail, a rename may; two
relays that stage the same file share the name `.relay-new`, which shows as a
rename that fails; SHARD is a listener that is there in time or not; a cancel is
a choice where the code tests for it. The START button's look at
`TunnelStatus.isActive()` is left out: it is older than anything the fetch does.

### `TunDevice` and `FcaeSession` - the supervisor for desktop hosts

`session.rs`: host threads (`cpc`) start, stop, pause and resume; a worker per
session (`wpc`) brings up the backend, the Psiphon hop when `Chained`, and the
TUN, and reconnects; a reaper joins a stopped worker and lifts the barrier
`stopping`, for which the next `start` waits. `control` and `running` are the
two mutexes, `live` and `paused` say whether a worker has the TUN and whether
the host took it down. TUN mode with `auto_reconnect` and no limit on attempts
is modelled; the attempt counter, the settle window and the length of `start`'s
two-second wait are abstracted, and so are panics. A runtime that cannot be built
ends the worker at once with an error shown (`RuntimeFails`). A thread that
cannot be created is left out: when the session's spawn fails (line 343) the
state shown stays Provisioning with no worker, and when the reaper's does (404)
the barrier stays up for ever; both break `IdleIsShown` and `BarrierInHand` at
once, and nothing else in the module tells more about them. `begin_stop` without a `stop` leaves the barrier up by its
contract and is not a step. The Android app does not link this crate.

`TunDevice` is the contract of the host's `TunBridge` seen from the bridge:
sessions come one after the other, each finds the device down and leaves it
down; the device is raised for a live session and only when its routes and DNS
have been restored; it is aborted only under a session that was told to end.
`BridgeContract` says that the supervisor keeps it: `live` is the session whose
worker has not ended, `told` the one whose token is set.

### `PsiphonLadder` - the Psiphon transport in VPN mode

The threads are main (intents), `ladder` (the rung's timer, the watchdog,
restarts), the worker, the controllers' callback threads and one "psiphon-stop"
thread per controller told to stop. `psiphonTunnel` is the handle on the newest
controller; `live` and `told` say which controllers dial or carry a tunnel and
which are being stopped; `ladderIndex` and `ladderAttempts` are the rung and how
many were used up; `tried` and `fresh` are history. `NextRung` is the election
that the timer and an exiting controller race for. A callback begins with its
guard, so `onConnected` and `onExiting` are one step to there. Which preference
remembers the last winner is abstracted to `Remembered`, the rungs it may name.
A quick reconnect is a stop and a start here, and `VpnSession` has its
scheduling. The kill switch is off and the service's own end is left out. The
library's `stop()` returns after the callbacks have unwound. After its blocking
part `stopTunnel` is three steps (`StopDetaches`, the controller and the core;
`StopForgets`, the two Psiphon flags; `StopCloses`, the interface and the claim),
and a callback that routes starts the engine (`ConnectedStarts`) before it writes
its flags and the claim (`ConnectedRoutes`). `Init` is an idle
service, new or after a failed session. The real ladder has three rungs (A, D,
C); the module needs at least two.

## 3. What TLC checks

| Run | Question | Result |
|---|---|---|
| `core_job` | two threads that start, stop and poll, two jobs: `NoOrphanJob`, `NoOrphanTask`, `RestartNotRefused`, `StopEndsTask` | holds |
| `vpn_session` | three preference sets that may change on the way, three sessions, two user actions, two rungs, Android may refuse: `NoStuckClaim`, `HeldTunHasSession` | holds |
| `vpn_session_disconnect` | kill switch off, under fairness: `DisconnectSticks` | holds |
| `sealed_disconnect` | kill switch on, under fairness: `DisconnectSticks` | violated |
| `seal_holds` | `SealHolds` | violated |
| `drop_is_retried` | `DropIsRetried` | violated |
| `tun2socks` | two starting threads, one that only stops, three runs: `OneRun`, `NoStaleTerminate`, `FlagReachesRun`, `SeenStopEnds` | holds |
| `anytls` | two connections, two sessions, one kept idle: `NoStrandedStream`, `SessionNotShared`, `PoolDiesWithClient`, `RecvLoopServed`, and the refinement `PoolProtocol` | holds |
| `anytls_ends` | one session, under fairness: `SessionEndReleases`, `RecvLoopEnds` | holds |
| `identity_files` | two files, two identities and a damaged content, one screen beside the service, three operations, failing renames and death at every step: `SavedIsValid`, `RelayNotBlocked`, and the action property `KeepsIdentities` | holds |
| `fcae_session` | two host threads, two sessions, the chained hop: `RaisedOnClean`, `PausedIsDown`, `TearsDownInOrder`, `IdleIsShown`, `BarrierInHand`, `StopCompletes`, and the refinement `BridgeContract` | holds |
| `psiphon_ladder` | two controllers, two rungs, one session after an earlier one: `NeverStalled`, `OneController`, `EveryRungTried`, `DialEnds` | holds |

Each passing safety run also checks the module's `TypeOK`. The refinements carry
some invariants with them, which the runs therefore do not name and section 4
proves by name: `PoolProtocol` that no live session is forgotten
(`SessionNotLeaked`), `BridgeContract` that there is one worker at a time
(`OneWorker`), that no device outlives its session (`TunDiesWithSession`) and
that an abort hits its own session (`AbortHitsItsOwn`).

**Bounds.** Two starters and two jobs let two starts meet in the window and an
old stop or poll meet a newer job (251 000 states). Three sessions let an old
`finally` meet a running session while another is queued; two intents let a
user action race a retry, a restart or another user action (retries and
restarts are not intents and are bounded only by the sessions). Two rungs give
a first, a last and a next rung. A setting changed on the way costs an intent
(3.4 million states; the run under fairness, 205 000, has auto-reconnect without
the kill switch).
Three native runs let a flag that one run left behind meet
the next, and that one's successor. Two connections and two AnyTLS sessions let
a session be reused while another is idle, expire, or be closed under a stream
(1.2 million states; SYNs of the server are in the smaller run, 74 000). With two
connections the pool never offers one of them a choice between two idle sessions,
so that `Lend` takes the newest is shown by `PoolProtocolHolds` below and not by
the run. Two files tell an operation on one from one on both and let the second
rename fail after the first; two identities tell the old one from the new one,
and a content that only the lenient test accepts tells the tests apart; three
operations are an interrupted one, the next, and a death or a reset between them
(1.5 million states under symmetry; states in which every file is contested are
not continued, the properties say nothing of them). Two host threads let a stop
meet a start, a pause or another stop, and two sessions let the worker of the
first outlive its `stop` into the second's `start` (119 000 states; three
sessions were checked once as well). Two controllers are an old one that unwinds
and the newest; the ladder starts at its second rung, so that it wraps (469 000
states; two sessions were checked once for the invariants). `MCSpec` of that run
ends a behaviour where the last session was stopped (`Over`), of which no
property says anything. The theorems below have none of these bounds in them.

**Deadlock** is not checked for `VpnSession`, `AnyTls`, `FcaeSession` and
`PsiphonLadder`: a destroyed service, a closed client, a stopped supervisor and
a user who does nothing are legitimate ends. Nor is it for `IdentityFiles`, whose
run ends with its last operation. `CoreJob` and `Tun2Socks` are checked for it.

**Fairness.** A thread that can run does: executors, the main looper and OS
threads are scheduled, the wait inside `nativeStop` is bounded, a cancelled
tokio task reaches an await point, and Android calls `onDestroy` after
`stopSelf()`. The join in `Tun2SocksManager.start` is bounded and lwIP's timer
ticks. In `AnyTls`, goroutines that wait for nobody go on, a pipe whose reader
is gone returns an error to its writer, and a read past its deadline returns.
In `FcaeSession`, a call that is inside the supervisor goes on, and so do the
worker and the reaper; no host has to call. In `PsiphonLadder`, threads inside
a call go on, the worker takes its jobs, an armed timer fires, and a controller
that was told to stop ends. Nothing is assumed of the user, the network, the
server, the watchdog's verdict, the core's own end, or a native run quitting by
itself.

### What the violations mean

* **A late seal outlives the disconnect.** `onTunnelLost` reads the kill
  switch, tears down (blocking on the core) and seals; a Disconnect handled in
  between is followed by a blocking interface that nobody removes.
* **The old worker unseals.** The watchdog's `onTunnelLost` puts the blocking
  interface up; the `finally` of the session that dropped then closes whatever
  `tun` holds.
* **A drop after CONNECTED ends the service.** `runWarpWithMtuRetry` returns
  with `nativeExitWasUnexpected` false when a connected core dies, so the
  `finally` takes its last branch, `stopSelf()`, although auto-reconnect is on.

The `MC` modules state further promises of comments and documents that the
models refute. Name one in the configuration of the module's first run, in place
of its properties, to see its behaviour; where the last column names a constant,
give it that value as well.

| Formula | Promise | What happens |
|---|---|---|
| `EveryJobHasHandle` | "The tunnel keeps running until nativeStop cancels the job" (`aether_jni.cpp:326`) | `nativeStart` tests, spawns and publishes in three regions: two starters pass the test together, and the second overwrites the first's id, which no later `nativeStop` can name |
| `LastErrorIsCurrent` | "lastError() must describe THIS job alone" (`aether_jni.cpp:262`) | `nativeIsRunning` stamps an old error after the cache was cleared |
| `SealOnlyAfterDrop` | "Only a drop arms this - never a first connect that failed" (`MsnGuardVpnService.kt:5767`) | the `finally` seals after any session that failed with the switch on (5526) |
| `SealKeepsService` | "Keeping the service alive is a precondition of the seal" (2291) | with auto-reconnect off, `onTunnelLost` calls `stopTunnel(notify = false)`, which ends the service (3935), before it seals |
| `SealEndsOnConnect` | the seal is "cleared on a verified connect" (416) | nothing clears it at CONNECTED |
| `RetryKeepsService` | "keep the service alive and schedule another attempt" (2351) | `failAndStop` has already ended the service (2294) |
| `PauseHolds` | "the tunnel is down but the session is alive" (380) | a retry scheduled before Pause starts a session |
| `NoIdleSpinner` | re-dial "until it works or the user intervenes" (4092) | a left-over reconnect latch is consumed by a failing session in place of a retry (5519) |
| `StopTakesCore` | "The tunnel must be gone" after `stopTunnel` (2531) | a stop between the head of a rung and `startProxy` has already run `NativeCore.stop()`; the branch that notices the stop afterwards leaves the job it has just started |
| `NoTunWithoutSession` | "synchronously close the TUN", against "the TUN established and the VPN key on screen while the data path was already dead" (5711-5716) | a stop comes before the worker has started its TUN engine, and the engine's duplicate of the descriptor keeps the interface up after the session; or the worker's `tun = establish()` falls between another thread's `tun?.close()` and its `tun = null` |
| `TunGoesDown` | the same, for good | in the second case the interface is up and no field names it: nobody but a finalizer closes that descriptor |
| `LateTeardownHarmless` | a late teardown "can recognise that a newer session has taken over and keep its hands off the lifecycle" (`startTunnel`) | `connected` is dropped before the test of the generation (5506, 5507), and a session claimed after the test meets the `stopSelf()`, the seal or the retry |
| `ClaimHasOwner` | "Dropping the latch here is what makes a failed connect survivable" (the worker's catch) | a `startTunnel` that throws on the scheduler is caught by callers that leave `connected` set |
| `StopDoesNotWait` | stop() is to "return immediately", a multi-second join "is an ANR" (`Tun2SocksManager.kt:249`) | `start` keeps the monitor during its join, and `stop` needs the same monitor |
| `RunningIsAlive` | "true if any engine is routing" (`TunEngine.kt:57`) | a run that ends by itself leaves `tun2SocksThread` set |
| `RefusalIsRecoverable` | "Refusing is recoverable" (`Tun2SocksManager.kt:187`) | a `stop()` before the new thread has reset `g_terminate` (`tun2socks.c:441`) is lost: the handle is clear, the run goes on, and every later `start()` waits out the grace and refuses |
| `PooledIsUsable` | "If Session is not closed, put this Stream to pool" (`client.go:110`) | the hook looks at `die` and inserts later; a session that closes in between stays in the pool until a connection draws it and fails |
| `WatcherIsItsOwn` | the client expects its SYNACK and "may close a stuck connection early" (`protocol.md:245`) | a late SYNACK of the stream before disarms the watcher of the new one |
| `SessionNotLeaked` | the client closes what it dialled (`AnyTls`) | with `EagerServer = TRUE`: a server that ends the stream before `CreateStream` has set the `dieHook` leaves a live session that nobody returns to the pool |
| `TunnelIsLeftAlone` | the fetcher "never touches" the connect flow (`WarpIdentityFetcher.kt:24`) | its `finally` stops the one core job, also when a tunnel has started it meanwhile |
| `KeepsEveryIdentity` | "failed -- previous kept" (`WarpIdentityFetcher.kt:268`) | the screen's relay installs while the worker's relay, which has asked for the same file, is about to; the second sets the first's identity aside as if it were not valid, and a death of the process leaves it in `.relay-old`, which nothing reads |
| `EverySavedIsValid` | "saved" (`WarpIdentityFetcher.kt:264`) | a reset deletes the file between the verdict and the report |
| `RelayNeverBlocked` | the next installation is not stopped by "previous relay recovery pending" (`IdentityProvisioner.kt:584`) | the worker's relay finds the `.relay-old` of the screen's, which has installed its file and not yet dropped the old one |
| `ResetIsFinal` | "Wipes every saved WARP/MASQUE registration" (`MsnGuardVpnService.kt:6671`) | the backups are not among the names it deletes, and the next `recover()` brings the identity back |
| `TunStandsOnBackend` | "TUN first, then Psiphon [...], then Aether" (`session.rs:601`) | the exit path of a TUN that failed to start stops the backends first |
| `DisconnectedAtOnce` | Disconnected right after stop() (`session.rs:1196`) | a worker that has looked at its token reports Connected after `stop()` has reported Disconnected |
| `OldExitIsIgnored` | "Comparing this against [sessionGeneration] tells the two apart" (`MsnGuardVpnService.kt:405`) | an old controller of the same session passes the comparison, and its exit clears the handle on the new one |
| `NoOrphanController` | "Detach the reference synchronously [...] and let the blocking stop happen off-thread" (2368) | a controller whose handle was lost runs on and nobody stops it |
| `StoppedStaysStopped` | an older controller's report is ignored (1262) | a callback that passed its guard before the stop claims the session again after it (with `SPECIFICATION Spec`) |

## 4. What TLAPS proves

`CoreJob_proofs` (any threads, any number of jobs):

* `TypeCorrect`: `Spec => []TypeOK`.
* `NoOrphanJobHolds`, `RestartNotRefusedHolds`, for any number of starting
  threads. `NoOrphanJob` is not inductive: a stop that clears the handle must be
  known to have freed the entry first (`FreedBeforeCleared`), a starter past its
  leftover guard that met no other one must find the slot free (`SlotFree`),
  nobody may refill the slot while it stops a leftover (`SlotHeld`), starters that
  are in the window together have met (`WindowMet`) and one that is there alone
  has the slot to itself (`WindowFree`), and an id held by a thread must never be
  handed out again (`FreshIds`).
* `NoOrphanTaskHolds`: what runs can still be ended.
  `nativeStop` frees the entry of a task that outlives its wait, so the registry
  says nothing about tasks; `TokenInv` does: a task leaves the registry only
  with its token set. A registered job is then found through `NoOrphanJob`.

`VpnSession_proofs` (any preferences, any numbers of sessions, intents and
rungs):

* `TypeCorrect`, proved one group of variables at a time for the steps of each
  thread.
* `NoStuckClaimHolds` and `HeldTunHasSessionHolds`. The invariant adds to the
  typing that the worker is inside `stopTunnel` only through `failAndStop`
  (`SitesInv`); that a claim has an owner or was refused, where a ladder in
  `startTunnel` owns only the newest one (`ClaimInv`: it may throw, and must not
  be all that a claim made meanwhile has); and that from the close of the
  `finally` on no routing interface is held (`TunInv`: `HeldTunHasSession` alone
  would let one through the steps between the close and the test). Three frame lemmas carry the argument:
  `StarterFrame` (main and ladder leave the worker and the queue alone and raise
  `connected` only by beginning a launch), `WorkerEnds` (a worker step leaves its
  session open, closes it or decides after that) and `DecidingFrame` (what the
  block does after its test raises neither the claim nor a routing interface).

`Tun2Socks_proofs` (any threads, any number of native runs):

* `OneRunHolds`. `OneRun` alone is not inductive: `stop()` clears the handle of a
  thread that still lives. The strengthening says that every living thread is
  the one `lastThread` names and that the handle, when set, names the same one
  (`LastIsTheOne`); that whoever joins holds the monitor, with the handle clear
  (`JoinHolds`); and that uncreated threads are not runs (`Uncreated`).
* `NoStaleTerminateHolds`, from the same invariant: the run inside `run()` is
  `lastThread`'s, so the run that `stop()` marks is the one that will obey.
* `FlagReachesRunHolds`: only a thread that enters `run()` resets the flag, and
  by `LastIsTheOne` none can enter while another is inside.
* `TypeCorrect`.

`AnyTls_proofs` (any connections, any number of sessions):

* `TypeCorrect`, `NoStrandedStreamHolds`, `SessionNotSharedHolds`,
  `PoolDiesWithClientHolds`, and `SessionNotLeakedHolds` under `~EagerServer`.
  The invariant adds to the two pool properties that a session's map holds the
  open streams of that session and is empty once the sweep is over
  (`StreamInv`, which gives `NoStrandedStream`), what a connection has at each
  place (`ConnInv`), that numbers not given out are nowhere (`FreshInv`), and
  that a live session is in the client's map from its registration on, so that
  what returns to the pool during `Client.Close` is in the copy it closes
  (`ClientInv`, which gives `PoolDiesWithClient`).
* `PoolProtocolHolds`: under `~EagerServer`, `AnyTls` implements `SessionPool`.
  `~EagerServer` matters: a stream that ends before its hook is set is a session
  that nobody returns, and `SessionPool` has no such step. The initial states
  map to initial states; `CreateSession` is a `Dial`, `GetIdleSession` a `Lend`
  or, on a session that closed in the pool, a `Disappoint`, `PutIdle` a
  `Return`, `IdleCleanup` a `Retire`, the first step of any `Session.Close` a
  `Shut`, and everything else changes nothing the pool shows (`QuietStep`).
* `RecvLoopServedHolds`: `TaskInv` says that the stream a receive loop is busy
  with is of its own session and, if the loop closes it, on its way out; the
  rest is `StreamInv`.

`IdentityFiles_proofs` (any files, any contents, any number of screens):

* `KeepsIdentitiesHolds`: every step of every writer, failing renames and the
  death of the process included, keeps what the user has of an uncontested file,
  or replaces it by another valid identity for one of three reasons.
* `SavedIsValidHolds`, `RelayNotBlockedHolds`, `TypeCorrect`.
* The invariant has two halves. One is about the writers and holds of every file:
  what a thread has in memory at each place (`ThreadInv`), and that the engine
  holds something only while it is at a file (`EngineInv`). The other is about
  the files that are not contested: a file beside a copy of it is absent or valid,
  a file with both copies has a valid backup, and what the engine holds of a file
  is what is there (`DiskInv`); and what a thread at a file knows of it
  (`KnownInv`: after `recover()` one of file and backup is gone, only the fetch's
  own engine writes what it has set aside, a positive verdict stays true until the
  fetch has returned, and a relay replaces only what is not valid by what is). A file is in the second half
  as long as nobody else is at it, so each step of each writer needs only its own
  knowledge (`FetchFile`, `RelayFile`, `OtherFile`).

`FcaeSession_proofs` (any host threads, any number of sessions):

* `OneWorkerHolds`, `TunDiesWithSessionHolds`, `AbortHitsItsOwnHolds`,
  `RaisedOnCleanHolds`, `PausedIsDownHolds`, `TearsDownInOrderHolds`,
  `IdleIsShownHolds`, `TypeCorrect`.
* The centre is `OwnerInv`: a worker that is alive is answered for by the slot,
  by the one `stop` that took it or by the one reaper that joins it, and the
  last two keep the barrier up. `LockInv` says who holds which mutex where,
  `TunInv` that whoever raises the TUN does so on a clean device for a published
  session, `HandleInv` from where to where a worker has its handles, `ShownInv`
  that the last report stands when no worker is left, and `FreshInv` that
  numbers not given out are untouched.
* `BarrierInHandHolds`: from `OwnerInv`, a barrier that is up with no session in
  the slot has a `stop` that is still to join or a reaper of a cancelled worker.
* `BridgeContractHolds`: the supervisor implements `TunDevice`. The invariants
  above are what the steps need: `OwnerInv` for `Open` (the previous worker has
  ended, its device is down), `TunInv` and `LockInv` for `Raise`, `LockInv` for
  `Abort` (the session cannot change between the cancel and the abort),
  `HandleInv` for `Close`.

`PsiphonLadder_proofs` (any controllers, any ladder of at least two rungs, any
number of sessions):

* `TypeCorrect`, `NeverStalledHolds`. `NeverStalled` needs `WorkerInv`: the
  worker at its dial has a controller and never takes part in the election for
  the next rung, so that whoever loses an election leaves behind something that
  moves the session: the armed timer, a job of the worker or a call under way.
* `OneControllerHolds`, `EveryRungTriedHolds`. Both rest on `CleanInv`, which
  speaks of a session that found nothing left over and was not stopped: each
  thread is where that session can bring it (`PlaceInv`); exactly one thing at a
  time can move the ladder, be it the timer, a callback, a job or the worker
  (`TokenInv`); only the controller of the handle lives (`LiveInv`); the attempt
  on the preferred country comes before the first rung (`RegionInv`); and the
  rungs dialled are the current one and the `ladderAttempts` before it, counted
  backwards round the ladder (`Walked`), unless the preferred country came up
  while the ladder had already moved on, in which case the session routes or is
  about to and is escalated at most once (`Excused`). `WalkedRound` then says that
  `Rungs` attempts have been round the whole ladder, whichever rung it began at.

The assumptions are those of the modules: `ThreadsAssumption`,
`MaxJobsAssumption`, `EnvironmentAssumption`, `BoundsAssumption`,
`WorkersAssumption`, `MaxRunsAssumption`, `FreeAssumption`, `BoundAssumption`,
`ServerAssumption`, `NoneAssumption`, `FilesAssumption`, `ContentsAssumption`,
`ScreensAssumption`, `ChainedAssumption`, `ThreadAssumption`, `ControllersAssumption`,
`LadderAssumption`.

**Only model-checked:** the liveness properties, since TLAPS does not reach
liveness under fairness, and what the violated runs and the refuted promises
show. The safety half of each liveness property, that whatever it waits for can
still come, is a theorem:

| Checked under fairness | Proved |
|---|---|
| `StopEndsTask` | `NoOrphanTask` |
| `SeenStopEnds` | `FlagReachesRun` |
| `SessionEndReleases` | `NoStrandedStream` |
| `RecvLoopEnds` | `RecvLoopServed` |
| `StopCompletes` | `BarrierInHand` |
| `DialEnds` | `NeverStalled` |
| `DisconnectSticks` | `NoStuckClaim`, `HeldTunHasSession` |

## 5. Not modelled, and what is left

**Not modelled.** Most of the repository's lines are vendored (badvpn with its
lwIP, hev with another lwIP and a YAML parser, quiche): libraries the
application calls, and not its own logic. Of the application's own code, the
screens, views and preference stores keep no protocol; the byte pumps of Smart
DNS, the split fronts, the exit sidecar and the UDP front, and the parsers of
remote policies, profiles and subscriptions are input and output without
decisions that span several steps; MTU probing is arithmetic on measurements.
The `aether` engine is modelled by what the bridge sees of it and by what it does
to the identity files. Tor's bootstrap,
SHARD's rotation and Foxy's upstream health are state machines of their own and
could be modelled; `IdentityFiles` has of SHARD only whether it is up.

**Left to do.**

1. **HevLease** - `HevEngine`, `FoxyHevEngine` and the lease on hev's one native
   thread. `TunEngine.kt:14-15` says that engines are used by the worker only;
   under the calls `stopTunnel` makes from other threads the lease does not keep
   its promises, so the module has to state that assumption and the theorem
   to rest on it. Then `TunEngineManager`'s choice and fallback, composed with
   `VpnSession`.
2. **KillSwitch** - an abstract specification of what the switch promises
   (sealed from a drop to the end of the seal), which `VpnSession` is to be
   compared with through a refinement mapping, once the code keeps it.
3. An abstract specification of a session's life (claimed, up, torn down,
   released), which `VpnSession` implements.
4. SHARD rotation, Foxy's upstream health, Tor's fall-back, and the remaining
   branches of the service (proxy mode, exit rotation, chains).

No module that holds a theorem, or is reached from one, declares a RECURSIVE
operator; recursion is a function or a fold.
