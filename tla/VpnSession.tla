----------------------------- MODULE VpnSession -----------------------------
(***************************************************************************)
(* The session lifecycle of MsnGuardVpnService for the WARP transports     *)
(* (MASQUE, WireGuard, WoW) in VPN mode.                                   *)
(*                                                                         *)
(* Three threads share the service's latches without a lock:               *)
(*   main    onStartCommand, onRevoke and onDestroy, one at a time;        *)
(*   ladder  ladderScheduler: the watchdog, the auto-reconnect task and    *)
(*           the two restarts that ACTION_RECONNECT schedules;             *)
(*   worker  the single-thread executor that runs one session after the    *)
(*           other, each until its `finally` block.                        *)
(* ConnectivityThread runs the network callback, a single step.            *)
(*                                                                         *)
(* stopTunnel runs on any of the three and startTunnel on main or ladder.  *)
(* stopTunnel is everything up to NativeCore.stop(), which blocks until    *)
(* the core is gone, and then one step each for `tun?.close()`, for        *)
(* `tun = null`, for dropping the claim and for ending the service: no     *)
(* lock keeps another thread from coming between any two of them. So is    *)
(* the session's finally block. startTunnel is two steps: claiming         *)
(* `connected`, and clearing stopRequested and queueing the session some   *)
(* two hundred lines later.                                                *)
(* The core itself is module CoreJob; here it is running or it is not.     *)
(*                                                                         *)
(* The interface and the field `tun` that refers to it are two things.     *)
(* Android keeps one interface per app, a new one replaces the old, and it *)
(* goes down when its last descriptor is closed: the field's, the          *)
(* duplicate a TUN engine made of it, or one whose field was overwritten.  *)
(***************************************************************************)
EXTENDS Naturals, Sequences

CONSTANTS
    Preferences,    \* sets of switches the user may have on
    Rejects,        \* whether Android may refuse an interface or the foreground
    MaxRungs,       \* longest MTU ladder of runWarpWithMtuRetry
    MaxSessions,    \* bound: calls of startTunnel that claim the service
    MaxIntents      \* bound: intents delivered and switches flipped

Switches == {"kill_switch", "auto_reconnect"}

ASSUME EnvironmentAssumption ==
    Preferences \subseteq SUBSET Switches /\ Rejects \in BOOLEAN
ASSUME BoundsAssumption ==
    MaxRungs \in Nat \ {0} /\ MaxSessions \in Nat /\ MaxIntents \in Nat

VARIABLES
    raised,     \* the Boolean latches of the service that are true
    tun,        \* the VPN interface: none, routing, or the blocking one
    handle,     \* the field `tun`: null, that interface's descriptor, closed
    copies,     \* who else has a descriptor: the engine, or nobody any more
    running,    \* which of the TUN engine and the core's job are running
    timers,     \* the watchdog, the auto-reconnect task, the network callback
    restarts,   \* pending restarts of ACTION_RECONNECT, per kind
    queue,      \* sessions handed to the worker and not begun
    generation, \* the session the worker runs, or ran last
    rung,       \* its place in the MTU ladder
    claim,      \* local: the generation a starting thread captured
    armed,      \* local: threads that read killSwitchArmed() as true
    prefs,      \* the switches that are on
    pc,         \* where each thread stands
    phase,      \* how far a thread at one of the StopSites has come
    sessionGeneration,
    svc,        \* the Android service: up, after stopSelf(), after onDestroy()
    status,     \* the last status broadcast to the UI
    intents,    \* intents delivered so far
    verified,   \* history: the sessions verified since the last user connect
    refused     \* history: the claims whose startTunnel Android threw out of

net == <<tun, handle, copies>>
path == <<net, running>>
sched == <<timers, restarts>>
work == <<queue, generation, rung>>
starts == <<claim, sessionGeneration>>
outside == <<prefs, intents>>
vars == <<raised, path, sched, work, starts, armed, outside, pc, phase, svc, status,
          verified, refused>>

Latches == {"connected", "stopRequested", "userInitiatedStop",
            "reconnectRequested", "paused", "killSwitchSealed",
            "nativeExitWasUnexpected", "storedConfig"}
Starters == {"main", "ladder"}
Threads == {"main", "ladder", "worker"}

\* stopTunnel is entered from these places; the label says who called it.
StopSites == {"disconnect", "pause", "quick", "destroy",
              "lostOff", "lostRetry", "failed", "failedSealed"}
\* The places that call it with teardownService = true.
EndsService == {"disconnect", "destroy", "lostOff", "failed"}

Phases == {"closing", "forgetting", "dropping", "ending"}

LadderSteps == {"portWait", "restart", "retry", "sealOff", "sealRetry"}
WorkerSteps == {"prepare", "rung", "establish", "engine", "fallForget", "fallback",
                "core", "native", "started", "refused", "wait", "ready", "poll",
                "teardown", "rungForget", "exhausted", "lastForget",
                "close", "forget", "drop", "decide", "seal", "again", "end",
                "afterFailed", "afterFailedSealed"}
\* startTunnel after its claim; who called it decides who catches what it throws.
Launching == {"launch", "launchRestart", "launchRetry"}
Labels == {"idle"} \cup StopSites \cup LadderSteps \cup WorkerSteps \cup Launching

Is(latch) == latch \in raised
At(t, l) == pc[t] = l
Goto(t, l) == pc' = [pc EXCEPT ![t] = l]

Init ==
    /\ raised = {}
    /\ tun = "none" /\ handle = "null" /\ copies = {} /\ running = {}
    /\ timers = {} /\ restarts = [k \in {"quick", "again"} |-> 0]
    /\ queue = <<>> /\ generation = 0 /\ rung = 0
    /\ claim = [t \in Starters |-> 0] /\ sessionGeneration = 0
    /\ armed = {}
    /\ prefs \in Preferences /\ intents = 0
    /\ pc = [t \in Threads |-> "idle"]
    /\ phase = [t \in Threads |-> "closing"]
    /\ svc = "up"
    /\ status = "disconnected"
    /\ verified = {} /\ refused = {}

-----------------------------------------------------------------------------
(***************************************************************************)
(* Decisions several handlers share.                                       *)
(***************************************************************************)

willAutoReconnect ==
    /\ "auto_reconnect" \in prefs
    /\ ~Is("userInitiatedStop") /\ Is("storedConfig") /\ ~Is("paused")

\* scheduleAutoReconnect: nothing after a user stop, and a terminated
\* scheduler rejects the task; otherwise the pending retry is replaced.
AfterSchedule ==
    IF ~Is("userInitiatedStop") /\ Is("storedConfig") /\ svc # "down"
    THEN timers \cup {"retry"} ELSE timers

cancelAutoReconnect == timers \ {"retry", "watchdog", "netcb"}

stopSelf == svc' = IF svc = "up" THEN "stopping" ELSE svc

\* The descriptors that are left of the interface: none, and it goes down.
Keep(h, c) ==
    /\ handle' = h
    /\ copies' = c
    /\ tun' = IF h # "open" /\ c = {} THEN "none" ELSE tun

Closed == IF handle = "open" THEN "closed" ELSE handle

\* `tun?.close()`
CloseTun == Keep(Closed, copies)

\* `tun = null`: a descriptor that another thread stored since the close is lost,
\* open and out of anybody's reach.
ForgetTun == Keep("null", IF handle = "open" THEN copies \cup {"lost"} ELSE copies)

\* Builder.establish() and the store of its result: the new interface replaces
\* the old one, whoever still has descriptors of that.
Establishes(kind) == tun' = kind /\ handle' = "open" /\ copies' = {}

\* rebuildKillSwitchVpn: the old interface is closed and the blocking one
\* established; Android may answer null, and when it throws the service ends
\* itself.
rebuildKillSwitchVpn ==
    \/ Establishes("block") /\ UNCHANGED svc
    \/ Rejects /\ Keep("null", copies) /\ UNCHANGED svc
    \/ Rejects /\ CloseTun /\ stopSelf

-----------------------------------------------------------------------------
(***************************************************************************)
(* stopTunnel first raises stopRequested, disarms the watchdog and stops   *)
(* the engine and the core; timersLeft is what its caller left of the      *)
(* timers and latches is what it left of the latches.                      *)
(***************************************************************************)

StopBegin(t, site, latches, timersLeft) ==
    /\ raised' = latches \cup {"stopRequested"}
    /\ timers' = timersLeft \ {"watchdog"}
    /\ running' = {}
    /\ Keep(handle, copies \ {"engine"})
    /\ Goto(t, site)
    /\ UNCHANGED <<restarts, work, starts, phase, verified, refused>>

InPhase(t, p, next) ==
    /\ pc[t] \in StopSites
    /\ phase[t] = p
    /\ phase' = [phase EXCEPT ![t] = next]

\* The rest, each step at the mercy of the others' steps.
StopCloses(t) ==
    /\ InPhase(t, "closing", "forgetting")
    /\ CloseTun
    /\ UNCHANGED <<raised, running, sched, work, starts, armed, outside, pc, svc,
                   status, verified, refused>>

StopForgets(t) ==
    /\ InPhase(t, "forgetting", "dropping")
    /\ ForgetTun
    /\ UNCHANGED <<raised, running, sched, work, starts, armed, outside, pc, svc,
                   status, verified, refused>>

StopDrops(t) ==
    /\ InPhase(t, "dropping", "ending")
    /\ raised' = raised \ {"connected"}
    /\ status' = IF At(t, "disconnect") THEN "disconnected" ELSE status
    /\ UNCHANGED <<path, sched, work, starts, armed, outside, pc, svc, verified,
                   refused>>

\* Where the caller asked for it the service ends. onDestroy then drops what
\* both executors still hold, and requestQuickReconnect schedules its restart.
StopEnds(t) ==
    /\ InPhase(t, "ending", "closing")
    /\ CASE At(t, "destroy") ->
              /\ svc' = "down"
              /\ timers' = timers \ {"watchdog", "retry"}
              /\ restarts' = [k \in {"quick", "again"} |-> 0]
              /\ queue' = <<>>
         [] At(t, "quick") ->
              /\ restarts' = [restarts EXCEPT !["quick"] = @ + 1]
              /\ UNCHANGED <<svc, timers, queue>>
         [] OTHER ->
              /\ IF pc[t] \in EndsService THEN stopSelf ELSE UNCHANGED svc
              /\ UNCHANGED <<sched, queue>>
    /\ Goto(t, CASE At(t, "lostOff") -> "sealOff"
                 [] At(t, "lostRetry") -> "sealRetry"
                 [] At(t, "failed") -> "afterFailed"
                 [] At(t, "failedSealed") -> "afterFailedSealed"
                 [] OTHER -> "idle")
    /\ UNCHANGED <<raised, path, generation, rung, starts, armed, outside, status,
                   verified, refused>>

StopFinish(t) == StopCloses(t) \/ StopForgets(t) \/ StopDrops(t) \/ StopEnds(t)

-----------------------------------------------------------------------------
(***************************************************************************)
(* startTunnel.                                                            *)
(***************************************************************************)

\* compareAndSet(false, true) on `connected`, given what its caller left of
\* the latches and the timers. Losing it returns at once.
StartClaim(t, latches, timersLeft, next) ==
    IF "connected" \in latches
    THEN /\ raised' = latches
         /\ timers' = timersLeft
         /\ Goto(t, "idle")
         /\ UNCHANGED starts
    ELSE /\ sessionGeneration < MaxSessions
         /\ sessionGeneration' = sessionGeneration + 1
         /\ claim' = [claim EXCEPT ![t] = sessionGeneration + 1]
         /\ raised' = (latches \ {"nativeExitWasUnexpected"})
                        \cup {"connected", "storedConfig"}
         /\ timers' = timersLeft \ {"retry"}
         /\ Goto(t, next)

\* stopRequested.set(false), startForeground and worker.execute.
StartLaunch(t) ==
    /\ pc[t] \in Launching
    /\ svc # "down"
    /\ raised' = raised \ {"stopRequested"}
    /\ queue' = Append(queue, claim[t])
    /\ Goto(t, "idle")
    /\ UNCHANGED <<path, sched, generation, rung, starts, armed, outside, phase, svc,
                   status, verified, refused>>

\* Two throws leave startTunnel with the claim taken and no session: a scheduler
\* that onDestroy has shut down, before stopRequested is cleared, and a refused
\* startForeground, after it. A restart of ACTION_RECONNECT catches it and drops
\* its latch, the auto-reconnect task schedules itself again. (On main nothing
\* catches it and the process is gone, its latches with it.)
StartThrows ==
    /\ pc["ladder"] \in Launching
    /\ svc = "down" \/ Rejects
    /\ raised' = raised \ ((IF svc = "down" THEN {} ELSE {"stopRequested"})
                    \cup (IF At("ladder", "launchRestart")
                          THEN {"reconnectRequested"} ELSE {}))
    /\ \/ /\ At("ladder", "launchRetry")
          /\ timers' = AfterSchedule
          /\ status' = IF Is("userInitiatedStop") THEN status ELSE "connecting"
       \/ At("ladder", "launchRestart") /\ UNCHANGED <<timers, status>>
    /\ refused' = refused \cup {claim["ladder"]}
    /\ Goto("ladder", "idle")
    /\ UNCHANGED <<path, restarts, work, starts, armed, outside, phase, svc, verified>>

-----------------------------------------------------------------------------
(***************************************************************************)
(* main: intents and the two lifecycle callbacks.                          *)
(***************************************************************************)

\* Android delivers an intent to this instance until it has stopped itself.
Intent ==
    /\ At("main", "idle")
    /\ svc = "up"
    /\ intents < MaxIntents
    /\ intents' = intents + 1
    /\ UNCHANGED <<prefs, armed, svc, status>>

Connect ==
    /\ Intent
    /\ StartClaim("main",
                  raised \ {"userInitiatedStop", "killSwitchSealed", "paused"}, timers,
                  "launch")
    /\ verified' = {}
    /\ UNCHANGED <<path, restarts, work, phase, refused>>

\* The four ways to ask for the tunnel to stay off differ in the latches they
\* drop on the way.
UserStop(dropped) ==
    /\ Intent
    /\ StopBegin("main", "disconnect",
                 (raised \ dropped) \cup {"userInitiatedStop"}, cancelAutoReconnect)

Disconnect == UserStop({"paused", "reconnectRequested", "killSwitchSealed"})
CancelConnect == UserStop({"paused", "reconnectRequested"})
ResetIdentities == UserStop({"reconnectRequested", "killSwitchSealed"})
\* Android revokes the consent of a service that holds an interface.
Revoke == tun # "none"
          /\ UserStop({"paused", "reconnectRequested", "killSwitchSealed"})

Pause == Intent /\ StopBegin("main", "pause", raised \cup {"paused"}, timers)

\* ACTION_RECONNECT over a claimed session is requestQuickReconnect ...
ReconnectLive ==
    /\ Is("storedConfig") /\ Is("connected")
    /\ Intent
    /\ StopBegin("main", "quick",
                 (raised \ {"paused"}) \cup {"reconnectRequested"}, timers)

\* ... and otherwise a restart after the settle delay.
ReconnectIdle ==
    /\ Is("storedConfig") /\ ~Is("connected")
    /\ Intent
    /\ raised' = (raised \ {"paused", "userInitiatedStop", "killSwitchSealed"})
                   \cup {"reconnectRequested"}
    /\ restarts' = [restarts EXCEPT !["again"] = @ + 1]
    /\ UNCHANGED <<path, timers, work, starts, pc, phase, verified, refused>>

\* onDestroy follows stopSelf().
Destroy ==
    /\ At("main", "idle")
    /\ svc = "stopping"
    /\ StopBegin("main", "destroy", raised, cancelAutoReconnect)
    /\ UNCHANGED <<outside, armed, svc, status>>

-----------------------------------------------------------------------------
(***************************************************************************)
(* ladder: scheduled restarts and the watchdog.                            *)
(***************************************************************************)

\* The auto-reconnect task, whoever scheduled it, looks at the latches ...
RunRetry ==
    /\ At("ladder", "idle")
    /\ "retry" \in timers
    /\ timers' = timers \ {"retry"}
    /\ Goto("ladder", IF Is("userInitiatedStop") \/ Is("connected")
                      THEN "idle" ELSE "retry")
    /\ UNCHANGED <<raised, path, restarts, work, starts, armed, outside, phase, svc,
                   status, verified, refused>>

\* ... and enters startTunnel after it has cleared the gateway caches.
RetryClaims ==
    /\ At("ladder", "retry")
    /\ StartClaim("ladder", raised, timers, "launchRetry")
    /\ UNCHANGED <<path, restarts, work, armed, outside, phase, svc, status, verified,
                   refused>>

\* A restart the user took back drops its latch.
GoesOn(next) ==
    /\ raised' = IF Is("userInitiatedStop") THEN raised \ {"reconnectRequested"}
                                            ELSE raised
    /\ Goto("ladder", IF Is("userInitiatedStop") THEN "idle" ELSE next)
    /\ UNCHANGED <<path, timers, work, starts, armed, outside, phase, svc, status,
                   verified, refused>>

\* A restart of ACTION_RECONNECT: after a live session ("quick") it first
\* waits for the old core and the old claim to be gone, then for the port.
RunRestart(k) ==
    /\ At("ladder", "idle")
    /\ restarts[k] > 0
    /\ k = "quick" => "core" \notin running /\ ~Is("connected")
    /\ restarts' = [restarts EXCEPT ![k] = @ - 1]
    /\ GoesOn(IF k = "quick" THEN "portWait" ELSE "restart")

PortWaited == At("ladder", "portWait") /\ GoesOn("restart") /\ UNCHANGED restarts

RestartClaims ==
    /\ At("ladder", "restart")
    /\ StartClaim("ladder", raised, timers, "launchRestart")
    /\ UNCHANGED <<path, restarts, work, armed, outside, phase, svc, status, verified,
                   refused>>

\* That wait gives up after RECONNECT_CORE_WAIT_MS.
QuickTimesOut ==
    /\ At("ladder", "idle")
    /\ restarts["quick"] > 0
    /\ "core" \in running \/ Is("connected")
    /\ restarts' = [restarts EXCEPT !["quick"] = @ - 1]
    /\ raised' = raised \ {"reconnectRequested"}
    /\ status' = "failed"
    /\ UNCHANGED <<path, timers, work, starts, armed, outside, pc, phase, svc, verified,
                   refused>>

\* A watchdog tick that finds the tunnel dead, and onTunnelLost up to its
\* teardown. A running core is dead too when it carries no bytes and its
\* listener does not answer, which the environment decides. The kill switch
\* is read before the teardown.
WatchdogTick ==
    /\ At("ladder", "idle")
    /\ "watchdog" \in timers
    /\ ~Is("stopRequested") /\ ~Is("userInitiatedStop") /\ Is("connected")
    /\ ~Is("reconnectRequested")
    /\ armed' = IF "kill_switch" \in prefs THEN armed \cup {"ladder"}
                ELSE armed \ {"ladder"}
    /\ \/ /\ "auto_reconnect" \in prefs
          /\ StopBegin("ladder", "lostRetry",
                (raised \ {"connected"}) \cup {"reconnectRequested"}, timers)
          /\ UNCHANGED status
       \/ /\ "auto_reconnect" \notin prefs
          /\ StopBegin("ladder", "lostOff", raised \ {"connected"}, timers)
          /\ status' = "failed"
    /\ UNCHANGED <<outside, svc>>

\* sealWithKillSwitch(armed): whether it sealed is whether the thread is armed.
sealWithKillSwitch(t) ==
    IF t \in armed
    THEN /\ raised' = raised \cup {"killSwitchSealed"}
         /\ rebuildKillSwitchVpn
    ELSE UNCHANGED <<raised, net, svc>>

\* onTunnelLost after the teardown: auto-reconnect off ...
LostOffSeals ==
    /\ At("ladder", "sealOff")
    /\ Goto("ladder", "idle")
    /\ \/ /\ "ladder" \in armed
          /\ sealWithKillSwitch("ladder")
          /\ status' = "failed"
       \/ /\ "ladder" \notin armed
          /\ stopSelf
          /\ UNCHANGED <<raised, net, status>>
    /\ UNCHANGED <<running, sched, work, starts, armed, outside, phase, verified,
                   refused>>

\* ... and on: seal, schedule the retry, listen for the network.
LostRetrySeals ==
    /\ At("ladder", "sealRetry")
    /\ Goto("ladder", "idle")
    /\ sealWithKillSwitch("ladder")
    /\ timers' = AfterSchedule \cup {"netcb"}
    /\ status' = IF Is("userInitiatedStop") THEN status ELSE "connecting"
    /\ UNCHANGED <<running, restarts, work, starts, armed, outside, phase, verified,
                   refused>>

\* NetworkCallback.onAvailable replaces the pending retry by an immediate one.
NetworkAvailable ==
    /\ "netcb" \in timers
    /\ svc # "down"
    /\ willAutoReconnect /\ ~Is("connected")
    /\ timers' = timers \cup {"retry"}
    /\ UNCHANGED <<raised, path, restarts, work, starts, armed, outside, pc, phase,
                   svc, status, verified, refused>>

\* The user flips a switch in the settings.
ChangePreferences ==
    /\ intents < MaxIntents
    /\ intents' = intents + 1
    /\ prefs' \in Preferences \ {prefs}
    /\ UNCHANGED <<raised, path, sched, work, starts, armed, pc, phase, svc, status,
                   verified, refused>>

-----------------------------------------------------------------------------
(***************************************************************************)
(* worker: one session, from worker.execute to the end of its finally.     *)
(***************************************************************************)

\* What every worker step leaves alone.
Quiet == UNCHANGED <<queue, generation, restarts, starts, outside, phase, refused>>

\* A worker step from one label to another that changes nothing else.
Moves(from, to) ==
    /\ At("worker", from)
    /\ Goto("worker", to)
    /\ Quiet /\ UNCHANGED <<raised, path, timers, rung, armed, svc, status, verified>>

Begin ==
    /\ At("worker", "idle")
    /\ queue # <<>>
    /\ queue' = Tail(queue) /\ generation' = Head(queue) /\ rung' = 1
    /\ Goto("worker", "prepare")
    /\ UNCHANGED <<raised, path, sched, starts, armed, outside, phase, svc, status,
                   verified, refused>>

\* The catch block: a setup failure is reported and left to the user.
Caught ==
    /\ status' = "failed"
    /\ raised' = raised \ {"connected", "nativeExitWasUnexpected"}
    /\ Goto("worker", "close")
    /\ Quiet /\ UNCHANGED <<path, timers, rung, armed, svc, verified>>

\* Identity, environment and NativeCore.prepare(), which throws when the
\* core rejects the configuration.
Prepare == \/ Moves("prepare", "rung")
           \/ At("worker", "prepare") /\ Caught

\* failAndStop when the exit-node sidecar does not start: sealOnDrop is
\* false, so only a seal that is already up keeps the service.
keepSeal ==
    /\ Is("killSwitchSealed") /\ ~Is("userInitiatedStop")
    /\ "kill_switch" \in prefs

SidecarFails ==
    /\ At("worker", "prepare")
    /\ status' = IF keepSeal /\ willAutoReconnect THEN status ELSE "failed"
    /\ StopBegin("worker", IF keepSeal THEN "failedSealed" ELSE "failed",
                 raised \ {"connected"}, timers)
    /\ UNCHANGED <<armed, outside, svc>>

\* failAndStop after its teardown: a quick reconnect owns the service ...
FailedInReconnect ==
    /\ pc["worker"] \in {"afterFailed", "afterFailedSealed"}
    /\ Is("reconnectRequested")
    /\ raised' = raised \ {"reconnectRequested"}
    /\ Goto("worker", "close")
    /\ Quiet /\ UNCHANGED <<path, timers, rung, armed, svc, status, verified>>

\* ... or the seal is put back, or a retry scheduled, or the service ended.
AfterFailed ==
    /\ ~Is("reconnectRequested")
    /\ \/ /\ At("worker", "afterFailedSealed")
          /\ rebuildKillSwitchVpn
          /\ status' = IF willAutoReconnect THEN "connecting" ELSE "failed"
       \/ /\ At("worker", "afterFailed") /\ willAutoReconnect
          /\ status' = "connecting"
          /\ UNCHANGED <<net, svc>>
       \/ /\ At("worker", "afterFailed") /\ ~willAutoReconnect
          /\ stopSelf
          /\ UNCHANGED <<net, status>>
    /\ timers' = IF willAutoReconnect THEN AfterSchedule ELSE timers
    /\ Goto("worker", "close")
    /\ Quiet /\ UNCHANGED <<raised, running, rung, armed, verified>>

\* A newer startTunnel has claimed the service.
Superseded == generation # sessionGeneration

\* The head of the MTU ladder's loop.
Rung ==
    Moves("rung", IF Is("stopRequested") \/ Is("userInitiatedStop") \/ Superseded
                  THEN "close" ELSE "establish")

\* Mutant: one rung more than the ladder has.
NextRung_OneMore ==
    \/ rung <= MaxRungs /\ rung' = rung + 1 /\ Goto("worker", "rung")
    \/ UNCHANGED rung /\ Goto("worker", "exhausted")

\* On to the next rung, if the stored MTU, 1500 and the scan left one.
NextRung ==
    \/ rung < MaxRungs /\ rung' = rung + 1 /\ Goto("worker", "rung")
    \/ UNCHANGED rung /\ Goto("worker", "exhausted")

\* prepare() and establish(): an interface, a refusal that moves on to the
\* next rung, or an exception.
Establish ==
    /\ At("worker", "establish")
    /\ \/ /\ Establishes("live")
          /\ Goto("worker", "engine")
          /\ UNCHANGED rung
       \/ /\ Rejects
          /\ NextRung
          /\ UNCHANGED net
    /\ Quiet /\ UNCHANGED <<raised, running, timers, armed, svc, status, verified>>

\* prepare() or establish() throws.
EstablishThrows == pc["worker"] \in {"establish", "fallback"} /\ Caught

\* TunEngineManager.start duplicates the descriptor `tun!!`; one that still runs
\* may stay on the interface it has.
StartEngine ==
    /\ At("worker", "engine")
    /\ handle = "open"
    /\ running' = running \cup {"engine"}
    /\ \/ copies' = copies \cup {"engine"}
       \/ "engine" \in running /\ UNCHANGED copies
    /\ Goto("worker", "core")
    /\ Quiet /\ UNCHANGED <<raised, tun, handle, timers, rung, armed, svc, status,
                            verified>>

\* No engine starts (a closed descriptor cannot be duplicated): the interface is
\* closed, forgotten and, for the core's native TUN, established anew.
EngineFails ==
    /\ At("worker", "engine")
    /\ handle # "null"
    /\ running' = running \ {"engine"}
    /\ Keep(Closed, copies \ {"engine"})
    /\ Goto("worker", "fallForget")
    /\ Quiet /\ UNCHANGED <<raised, timers, rung, armed, svc, status, verified>>

FallForget ==
    /\ At("worker", "fallForget")
    /\ ForgetTun
    /\ Goto("worker", "fallback")
    /\ Quiet /\ UNCHANGED <<raised, running, timers, rung, armed, svc, status, verified>>

Fallback ==
    /\ At("worker", "fallback")
    /\ \/ /\ Establishes("live")
          /\ Goto("worker", "native")
          /\ UNCHANGED rung
       \/ /\ Rejects
          /\ NextRung
          /\ UNCHANGED net
    /\ Quiet /\ UNCHANGED <<raised, running, timers, armed, svc, status, verified>>

\* A stopTunnel in between has cleared tun, and `tun!!` throws, or `.fd` does on
\* a closed one.
TunGone ==
    /\ \/ At("worker", "engine") /\ handle = "null"
       \/ At("worker", "native") /\ handle # "open"
    /\ Caught

\* NativeCore.startProxy() or start(): a leftover job is stopped first, so
\* the call ends with this session's job running or with none.
StartCore ==
    /\ At("worker", "core") \/ (At("worker", "native") /\ handle = "open")
    /\ \/ running' = running \cup {"core"} /\ Goto("worker", "started")
       \/ running' = running \ {"core"} /\ Goto("worker", "refused")
    /\ Quiet /\ UNCHANGED <<raised, net, timers, rung, armed, svc, status, verified>>

\* The result is judged against a stopRequested read after the call: a stop
\* that came meanwhile ends the session as it stands ...
StartedTooLate ==
    /\ pc["worker"] \in {"started", "refused"}
    /\ Is("stopRequested")
    /\ status' = IF Is("reconnectRequested") THEN "connecting" ELSE "disconnected"
    /\ Goto("worker", "close")
    /\ Quiet /\ UNCHANGED <<raised, path, timers, rung, armed, svc, verified>>

\* ... and otherwise the session waits for the listener, or tries a rung more.
CheckStart ==
    /\ ~Is("stopRequested")
    /\ Moves("started", "wait") \/ Moves("refused", "teardown")

\* waitForSocksReadyBudget: the listener answers only while the core runs ...
SocksAnswers ==
    /\ ~Is("stopRequested") /\ ~Is("userInitiatedStop")
    /\ "core" \in running
    /\ Moves("wait", "ready")

\* ... and a stop, a dead core or the rung's budget ends the wait.
WaitEnds == Moves("wait", "teardown")

\* CONNECTED, which also ends the reconnect latch, and the watchdog.
Publish ==
    /\ At("worker", "ready")
    /\ svc # "down"
    /\ status' = "connected"
    /\ raised' = (raised \ {"reconnectRequested"}) \cup {"connected"}
    /\ timers' = timers \cup {"watchdog"}
    /\ verified' = verified \cup {generation}
    /\ Goto("worker", "poll")
    /\ Quiet /\ UNCHANGED <<path, rung, armed, svc>>

\* A scheduler that onDestroy has shut down throws out of startWatchdog.
PublishThrows ==
    /\ At("worker", "ready")
    /\ svc = "down"
    /\ status' = "failed"
    /\ raised' = raised \ {"connected", "reconnectRequested",
                            "nativeExitWasUnexpected"}
    /\ Goto("worker", "close")
    /\ Quiet /\ UNCHANGED <<path, timers, rung, armed, svc, verified>>

Poll ==
    /\ Is("stopRequested") \/ "core" \notin running
    /\ Moves("poll", "close")

\* A rung that did not come up: engine, core and interface go, then the field.
Teardown ==
    /\ pc["worker"] \in {"teardown", "exhausted"}
    /\ Keep(Closed, copies \ {"engine"}) /\ running' = {}
    /\ Goto("worker", IF At("worker", "teardown") THEN "rungForget" ELSE "lastForget")
    /\ Quiet /\ UNCHANGED <<raised, timers, rung, armed, svc, status, verified>>

RungForget ==
    /\ At("worker", "rungForget")
    /\ ForgetTun
    /\ NextRung
    /\ Quiet /\ UNCHANGED <<raised, running, timers, armed, svc, status, verified>>

\* Behind the last rung the same, and the exit is marked as unexpected.
Exhausted ==
    /\ At("worker", "lastForget")
    /\ ForgetTun
    /\ raised' = raised \cup {"nativeExitWasUnexpected"}
    /\ status' = IF willAutoReconnect THEN status ELSE "failed"
    /\ Goto("worker", "close")
    /\ Quiet /\ UNCHANGED <<running, timers, rung, armed, svc, verified>>

\* The finally block reads the kill switch first.
FinalReads ==
    armed' = IF "kill_switch" \in prefs THEN armed \cup {"worker"}
             ELSE armed \ {"worker"}

\* Mutant: closing the interface is left to stopTunnel.
FinalClose_KeepsTun ==
    /\ At("worker", "close")
    /\ FinalReads
    /\ Goto("worker", "drop")
    /\ Quiet /\ UNCHANGED <<raised, path, timers, rung, svc, status, verified>>

\* The interface and the claim go unconditionally, whoever has them now ...
FinalClose ==
    /\ At("worker", "close")
    /\ FinalReads
    /\ CloseTun
    /\ Goto("worker", "forget")
    /\ Quiet /\ UNCHANGED <<raised, running, timers, rung, svc, status, verified>>

FinalForget ==
    /\ At("worker", "forget")
    /\ ForgetTun
    /\ Goto("worker", "drop")
    /\ Quiet /\ UNCHANGED <<raised, running, timers, rung, armed, svc, status, verified>>

\* Mutant: the claim outlives its session.
FinalDrop_KeepsClaim == Moves("drop", "decide")

FinalDrop ==
    /\ At("worker", "drop")
    /\ raised' = raised \ {"connected"}
    /\ Goto("worker", "decide")
    /\ Quiet /\ UNCHANGED <<path, timers, rung, armed, svc, status, verified>>

\* ... then the block's if-ladder chooses what becomes of the service (the
\* compareAndSet of a reconnect is choice and act in one) ...
FinalDecide ==
    /\ At("worker", "decide")
    /\ raised' = IF Superseded THEN raised ELSE raised \ {"reconnectRequested"}
    /\ Goto("worker",
            CASE Superseded \/ Is("reconnectRequested") -> "idle"
              [] ~Superseded /\ ~Is("reconnectRequested") ->
                   IF "worker" \in armed /\ ~Is("stopRequested") THEN "seal"
                   ELSE IF Is("nativeExitWasUnexpected") /\ willAutoReconnect THEN "again"
                   ELSE IF Is("paused") THEN "idle" ELSE "end")
    /\ Quiet /\ UNCHANGED <<path, timers, rung, armed, svc, status, verified>>

\* ... and does it, whoever has claimed the service since.
FinalSeals ==
    /\ At("worker", "seal")
    /\ status' = "failed"
    /\ sealWithKillSwitch("worker")
    /\ Goto("worker", "idle")
    /\ Quiet /\ UNCHANGED <<running, timers, rung, armed, verified>>

FinalRetries ==
    /\ At("worker", "again")
    /\ raised' = raised \ {"nativeExitWasUnexpected"}
    /\ timers' = AfterSchedule
    /\ status' = IF Is("userInitiatedStop") THEN status ELSE "connecting"
    /\ Goto("worker", "idle")
    /\ Quiet /\ UNCHANGED <<path, rung, armed, svc, verified>>

FinalStops ==
    /\ At("worker", "end")
    /\ raised' = raised \ {"nativeExitWasUnexpected"}
    /\ stopSelf
    /\ Goto("worker", "idle")
    /\ Quiet /\ UNCHANGED <<path, timers, rung, armed, status, verified>>

\* The core ends on its own at any time.
CoreDies ==
    /\ "core" \in running
    /\ running' = running \ {"core"}
    /\ UNCHANGED <<raised, net, sched, work, starts, armed, outside, pc, phase, svc,
                   status, verified, refused>>

\* The finalizer of a ParcelFileDescriptor nobody refers to closes it, when and
\* if the garbage collector comes by.
Finalized ==
    /\ "lost" \in copies
    /\ Keep(handle, copies \ {"lost"})
    /\ UNCHANGED <<raised, running, sched, work, starts, armed, outside, pc, phase, svc,
                   status, verified, refused>>

-----------------------------------------------------------------------------

MainStep == \/ Connect \/ Disconnect \/ CancelConnect \/ ResetIdentities
            \/ Revoke \/ Pause \/ ReconnectLive \/ ReconnectIdle \/ Destroy
Restarting == \/ RunRetry \/ RetryClaims \/ QuickTimesOut
              \/ \E k \in {"quick", "again"} : RunRestart(k)
              \/ PortWaited \/ RestartClaims \/ StartThrows
LadderStep == Restarting \/ WatchdogTick \/ LostOffSeals \/ LostRetrySeals
WorkerStep == \/ Begin \/ Prepare \/ SidecarFails \/ FailedInReconnect
              \/ AfterFailed \/ Rung \/ Establish \/ EstablishThrows
              \/ StartEngine \/ EngineFails \/ FallForget \/ Fallback
              \/ TunGone \/ StartCore
              \/ StartedTooLate \/ CheckStart \/ SocksAnswers \/ WaitEnds
              \/ Publish \/ PublishThrows \/ Poll
              \/ Teardown \/ RungForget \/ Exhausted
              \/ FinalClose \/ FinalForget \/ FinalDrop \/ FinalDecide
              \/ FinalSeals \/ FinalRetries \/ FinalStops
SharedStep == \/ \E t \in Threads : StopFinish(t)
              \/ \E t \in Starters : StartLaunch(t)
              \/ NetworkAvailable \/ ChangePreferences \/ CoreDies \/ Finalized

Next == MainStep \/ LadderStep \/ WorkerStep \/ SharedStep

Spec == Init /\ [][Next]_vars

\* A thread that can run runs: the executors and the main looper do not stall
\* on one another, and Android calls onDestroy after stopSelf(). Intents, the
\* watchdog's verdict on a silent tunnel, the network and the core's death are
\* the environment's and get no fairness.
Fairness ==
    /\ WF_vars(WorkerStep)
    /\ WF_vars(Restarting \/ LostOffSeals \/ LostRetrySeals)
    /\ WF_vars(Destroy)
    /\ \A t \in Threads : WF_vars(StopFinish(t))
    /\ \A t \in Starters : WF_vars(StartLaunch(t))

FairSpec == Spec /\ Fairness

-----------------------------------------------------------------------------
(***************************************************************************)
(* Properties the code keeps.                                              *)
(***************************************************************************)

\* Every variable stays in its type; the rung stays within the MTU ladder.
TypeOK ==
    /\ raised \subseteq Latches
    /\ tun \in {"none", "live", "block"}
    /\ handle \in {"null", "open", "closed"} /\ copies \subseteq {"engine", "lost"}
    /\ running \subseteq {"engine", "core"}
    /\ timers \subseteq {"watchdog", "retry", "netcb"}
    /\ restarts \in [{"quick", "again"} -> Nat]
    /\ queue \in Seq(Nat) /\ generation \in Nat /\ rung \in 0..MaxRungs
    /\ claim \in [Starters -> Nat] /\ sessionGeneration \in Nat
    /\ armed \subseteq Threads
    /\ prefs \in Preferences /\ intents \in Nat
    /\ pc \in [Threads -> Labels] /\ phase \in [Threads -> Phases]
    /\ svc \in {"up", "stopping", "down"}
    /\ status \in {"disconnected", "connecting", "connected", "failed"}
    /\ verified \subseteq Nat /\ refused \subseteq Nat

\* The worker has not reached the end of its session's finally.
SessionOpen == pc["worker"] \notin {"idle", "decide", "seal", "again", "end"}
Starting == \E t \in Starters : pc[t] \in Launching

\* `connected` is a claim somebody will drop: a startTunnel that has not queued
\* its session yet, a queued session, or the session the worker is running.
\* A claim nobody owns makes every later startTunnel return at once, so that
\* every transport "appears dead until the app is force-stopped". One kind is
\* left: the newest claim, when Android threw out of its startTunnel.
NoStuckClaim ==
    Is("connected") /\ svc # "down" =>
        Starting \/ queue # <<>> \/ SessionOpen \/ sessionGeneration \in refused

\* A routing interface that the service still holds has a session whose worker
\* will close it, through every exception, refusal and stop on the way: no later
\* session and no stop of a settled service finds one it did not make.
HeldTunHasSession == tun = "live" /\ handle = "open" => SessionOpen

\* Disconnect, Cancel, Reset and a revoked consent stick: unless the user
\* connects again, the service lets go of its interface for good and of the claim
\* with it, whatever retry, restart or late session was under way. (A claim in a
\* destroyed instance of the service stands in nobody's way.)
DisconnectSticks ==
    <>[]Is("userInitiatedStop")
        => <>[](handle # "open" /\ (Is("connected") => svc = "down"))

-----------------------------------------------------------------------------
(***************************************************************************)
(* What comments of the source promise and the code does not keep; each is *)
(* refuted by a run of its own.                                            *)
(***************************************************************************)

\* Nothing is running and nothing is about to.
Settled == queue = <<>> /\ \A t \in Threads : At(t, "idle")

\* The blocking TUN put up after a drop stays up until the seal ends
\* (the comment of killSwitchSealed): once every thread has settled, a sealed
\* service that nobody paused has it.
SealHolds ==
    Is("killSwitchSealed") /\ verified # {} /\ ~Is("paused") /\ svc = "up" /\ Settled
        => tun = "block"

\* "The core died on its own and the user still wants to be connected. Keep
\* the foreground service alive" (finally): with auto-reconnect on, a service
\* that carried a tunnel ends only after somebody asked for a stop.
DropIsRetried ==
    [][svc = "up" /\ svc' # "up" /\ verified # {} => Is("stopRequested")]_vars
=============================================================================
