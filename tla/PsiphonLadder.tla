--------------------------- MODULE PsiphonLadder ---------------------------
(***************************************************************************)
(* The Psiphon transport of MsnGuardVpnService in VPN mode: the escalation *)
(* ladder, its timer, the preferred-country attempt in front of it, and    *)
(* the callbacks of the Psiphon controllers.                               *)
(*                                                                         *)
(* A connect walks the ladder: every rung starts a controller of its own   *)
(* and has a budget, and the end of the budget or of the controller moves  *)
(* to the next rung. Five kinds of threads do this without a lock:         *)
(*   main      the intents;                                                *)
(*   ladder    ladderScheduler: the rung's timer, the watchdog, restarts;  *)
(*   worker    the executor that begins a session and re-dials a rung;     *)
(*   c         the controllers' callback threads, onConnected, onExiting;  *)
(*   stoppers  "psiphon-stop" threads, one per controller told to stop.    *)
(* The controllers' callbacks carry no identity: all they can compare is   *)
(* psiphonGeneration, the session that started the newest one.             *)
(*                                                                         *)
(* stopTunnel is a step up to and with the engine's stop, which blocks,    *)
(* and three more; startTunnel is two. Which of the user, the              *)
(* auto-reconnect task or a quick reconnect starts and stops is            *)
(* that module's matter; here anyone may.                                  *)
(***************************************************************************)
EXTENDS Naturals, Sequences

CONSTANTS
    Controllers,    \* objects of class PsiphonTunnel, used again once idle
    None,           \* no controller
    Rungs,          \* length of the ladder
    Remembered,     \* rungs the preferences may name as the last winner
    MaxSessions     \* bound: calls of startTunnel that claim the service

Services == {"main", "ladder", "worker"}
Threads == Services \cup Controllers

ASSUME ControllersAssumption ==
    None \notin Controllers /\ Controllers \cap Services = {}
ASSUME LadderAssumption ==
    /\ Rungs \in Nat \ {0, 1} /\ MaxSessions \in Nat
    /\ Remembered \subseteq 0..(Rungs - 1)

VARIABLES
    raised,             \* the Boolean latches of the service that are true
    tun,                \* whether the VPN interface is up
    engine,             \* whether the TUN engine routes
    timer,              \* whether ladderTimer is armed
    ladderIndex, ladderAttempts,
    psiphonTunnel,      \* the handle on the newest controller
    live,               \* controllers that dial or carry a tunnel
    told,               \* controllers a psiphon-stop thread is stopping
    sessionGeneration, psiphonGeneration,
    queue,              \* jobs handed to the worker and not begun
    mine,               \* local: the controller the worker starts or stops
    pc,                 \* where each thread stands
    tried,              \* history: rungs dialled to all countries
    fresh               \* history: the session found nothing left over

latches == <<raised, timer>>
rungs == <<ladderIndex, ladderAttempts>>
path == <<tun, engine>>
library == <<live, told>>
generations == <<sessionGeneration, psiphonGeneration>>
work == <<queue, mine>>
history == <<tried, fresh>>
vars == <<latches, rungs, path, psiphonTunnel, library, generations, work, pc,
          history>>

Latches == {"connected", "stopRequested", "userInitiatedStop",
            "reconnectRequested", "ladderActive", "regionPhase",
            "psiphonVpnMode", "psiphonVpnActivated", "activeSocksPort",
            "watchdog"}

Is(latch) == latch \in raised
At(t, l) == pc[t] = l
Goto(t, l) == pc' = [pc EXCEPT ![t] = l]
\* escalateLadder returns into onExiting, or ends the timer's task.
Returned(t) == IF t \in Controllers THEN "exited" ELSE "idle"

\* stopTunnel once the engine is stopped; who called it tells how it goes on.
Detaching == {"stopping", "failing", "exhausting"}
Forgetting == {"stop_forgets", "fail_forgets", "exhaust_forgets"}
Closing == {"stop_closes", "fail_closes", "exhaust_closes"}
StopLabels == Detaching \cup Forgetting \cup Closing
WorkerLabels == {"begin", "redial", "await", "rest", "create", "dial", "arm"}
CallbackLabels == {"disarm", "bridge", "routed", "exited"}
Labels == {"idle", "launch", "escalate", "escalated"}
            \cup StopLabels \cup WorkerLabels \cup CallbackLabels

\* The service is idle: in a new process, or as a session that failed left it.
Init ==
    /\ raised \in SUBSET {"stopRequested"} /\ timer = FALSE
    /\ ladderIndex = 0 /\ ladderAttempts = 0
    /\ tun = FALSE /\ engine = FALSE
    /\ psiphonTunnel = None
    /\ live = {} /\ told = {}
    /\ sessionGeneration = 0 /\ psiphonGeneration = 0
    /\ queue = <<>> /\ mine = None
    /\ pc = [t \in Threads |-> "idle"]
    /\ tried = {} /\ fresh = FALSE

-----------------------------------------------------------------------------
(***************************************************************************)
(* stopTunnel, failAndStop and onTunnelLost.                               *)
(***************************************************************************)

\* The watchdog goes, the ladder is disarmed, the engine stops; left is what
\* the caller left of the latches.
StopBegin(t, left, label) ==
    /\ raised' = (left \cup {"stopRequested"})
                    \ {"watchdog", "ladderActive", "regionPhase"}
    /\ timer' = FALSE
    /\ engine' = FALSE
    /\ Goto(t, label)

failAndStop(t, label) == StopBegin(t, raised \ {"connected"}, label)

\* onTunnelLost: the restart of a quick reconnect owns the end it caused.
onTunnelLost(t) ==
    \/ Is("reconnectRequested") /\ Goto(t, "idle") /\ UNCHANGED <<latches, engine>>
    \/ ~Is("reconnectRequested") /\ failAndStop(t, "stopping")

\* stopPsiphonTunnel detaches the handle and lets a thread of its own do the
\* blocking stop; NativeCore.stop follows, which blocks.
StopDetaches(t) ==
    /\ pc[t] \in Detaching
    /\ told' = told \cup ({psiphonTunnel} \ {None})
    /\ psiphonTunnel' = None
    /\ Goto(t, CASE At(t, "stopping") -> "stop_forgets"
                 [] At(t, "failing") -> "fail_forgets"
                 [] At(t, "exhausting") -> "exhaust_forgets")
    /\ UNCHANGED <<latches, rungs, path, live, generations, work, history>>

\* A session that is no Psiphon one any more ends in the last branch, which
\* leaves psiphonVpnActivated alone.
StopForgets(t) ==
    /\ pc[t] \in Forgetting
    /\ raised' = IF Is("psiphonVpnMode")
                 THEN raised \ {"psiphonVpnMode", "psiphonVpnActivated"} ELSE raised
    /\ Goto(t, CASE At(t, "stop_forgets") -> "stop_closes"
                 [] At(t, "fail_forgets") -> "fail_closes"
                 [] At(t, "exhaust_forgets") -> "exhaust_closes")
    /\ UNCHANGED <<timer, rungs, path, psiphonTunnel, library, generations, work, history>>

\* The interface and the claim go last. failAndStop then consumes the latch of
\* a quick reconnect.
StopCloses(t) ==
    /\ pc[t] \in Closing
    /\ raised' = raised \ (IF At(t, "stop_closes") THEN {"connected"}
                           ELSE {"connected", "reconnectRequested"})
    /\ tun' = FALSE
    /\ Goto(t, IF At(t, "exhaust_closes") THEN Returned(t) ELSE "idle")
    /\ UNCHANGED <<timer, rungs, engine, psiphonTunnel, library, generations, work, history>>

\* An intent that stops the session, with what it leaves of the latches.
StopIntent(left) ==
    /\ At("main", "idle")
    /\ StopBegin("main", left, "stopping")
    /\ UNCHANGED <<rungs, tun, psiphonTunnel, library, generations, work, history>>

\* ACTION_DISCONNECT, ACTION_CANCEL_CONNECT, onRevoke.
Disconnect ==
    StopIntent((raised \cup {"userInitiatedStop"}) \ {"reconnectRequested"})

Pause == StopIntent(raised)

\* ACTION_RECONNECT on a live session: requestQuickReconnect.
Reconnect == Is("connected") /\ StopIntent(raised \cup {"reconnectRequested"})

\* The watchdog asks whether the routing and the controller are still there.
WatchdogTick ==
    /\ At("ladder", "idle")
    /\ Is("watchdog") /\ ~Is("stopRequested") /\ ~Is("userInitiatedStop")
    /\ Is("connected") /\ Is("psiphonVpnMode")
    /\ ~engine \/ psiphonTunnel = None
    /\ onTunnelLost("ladder")
    /\ UNCHANGED <<rungs, tun, psiphonTunnel, library, generations, work, history>>

-----------------------------------------------------------------------------
(***************************************************************************)
(* startTunnel.                                                            *)
(***************************************************************************)

\* compareAndSet(false, true) on `connected`.
StartClaim(t, left) ==
    /\ At(t, "idle")
    /\ ~Is("connected") /\ sessionGeneration < MaxSessions
    /\ raised' = left \cup {"connected"}
    /\ sessionGeneration' = sessionGeneration + 1
    /\ Goto(t, "launch")
    /\ UNCHANGED <<timer, rungs, path, psiphonTunnel, library, psiphonGeneration,
                   work, history>>

Connect == StartClaim("main", raised \ {"userInitiatedStop"})

\* A connect that loses the claim has taken the user's stop back all the same.
ConnectLost ==
    /\ At("main", "idle") /\ Is("connected")
    /\ raised' = raised \ {"userInitiatedStop"}
    /\ UNCHANGED <<timer, rungs, path, psiphonTunnel, library, generations, work,
                   pc, history>>

\* The auto-reconnect task, or the restart of a quick reconnect, of an
\* earlier session.
Restart ==
    /\ ~Is("userInitiatedStop")
    /\ Is("stopRequested") \/ sessionGeneration > 0
    /\ StartClaim("ladder", raised)

\* A restart that finds the user gone, or the session still up after its
\* wait, drops the latch.
RestartGivesUp ==
    /\ At("ladder", "idle")
    /\ Is("reconnectRequested")
    /\ Is("userInitiatedStop") \/ Is("connected")
    /\ raised' = raised \ {"reconnectRequested"}
    /\ UNCHANGED <<timer, rungs, path, psiphonTunnel, library, generations, work,
                   pc, history>>

\* Nothing of an earlier session is under way.
Quiet(t) ==
    /\ queue = <<>> /\ ~timer /\ ~Is("ladderActive")
    /\ \A u \in Threads \ {t} : At(u, "idle")
    /\ live = {}

\* stopRequested.set(false), the ladder from the remembered rung, the
\* preferred country in front of it if there is one, and worker.execute.
StartLaunch(t) ==
    /\ At(t, "launch")
    /\ \E country \in SUBSET {"regionPhase"} :
         raised' = (raised \ {"stopRequested", "psiphonVpnActivated", "regionPhase"})
                     \cup {"psiphonVpnMode"} \cup country
    /\ ladderIndex' \in Remembered /\ ladderAttempts' = 0
    /\ queue' = Append(queue, "begin")
    /\ Goto(t, "idle")
    /\ tried' = {} /\ fresh' = Quiet(t)
    /\ UNCHANGED <<timer, path, psiphonTunnel, library, generations, mine>>

-----------------------------------------------------------------------------
(***************************************************************************)
(* The worker.                                                             *)
(***************************************************************************)

TakeJob ==
    /\ At("worker", "idle") /\ queue # <<>>
    /\ Goto("worker", Head(queue))
    /\ queue' = Tail(queue)
    /\ UNCHANGED <<latches, rungs, path, psiphonTunnel, library, generations, mine,
                   history>>

\* The job of startTunnel: the interface first, then the first dial.
BeginUp ==
    /\ At("worker", "begin")
    /\ tun' = TRUE
    /\ raised' = raised \cup {"activeSocksPort"}
    /\ Goto("worker", "create")
    /\ UNCHANGED <<timer, rungs, engine, psiphonTunnel, library, generations, work,
                   history>>

\* Android refuses the interface: the claim and a quick reconnect's latch go.
BeginRefused ==
    /\ At("worker", "begin")
    /\ raised' = raised \ {"connected", "reconnectRequested"}
    /\ Goto("worker", "idle")
    /\ UNCHANGED <<timer, rungs, path, psiphonTunnel, library, generations, work,
                   history>>

\* The job of escalateLadder: the old controller is stopped on this thread,
\* which blocks until it has unwound, ...
RedialStop ==
    /\ At("worker", "redial")
    /\ ~Is("stopRequested")
    /\ mine' = psiphonTunnel
    /\ told' = told \cup ({psiphonTunnel} \ {None})
    /\ Goto("worker", "await")
    /\ UNCHANGED <<latches, rungs, path, psiphonTunnel, live, generations, queue,
                   history>>

Unwound(c) == c \notin live /\ At(c, "idle")

\* Mutant: the old controller is left to unwind by itself.
RedialStoppedAtOnce ==
    /\ At("worker", "await")
    /\ psiphonTunnel' = None
    /\ raised' = raised \cup {"activeSocksPort"}
    /\ mine' = None
    /\ Goto("worker", "rest")
    /\ UNCHANGED <<timer, rungs, path, library, generations, queue, history>>

RedialStopped ==
    /\ At("worker", "await")
    /\ mine # None => Unwound(mine)
    /\ psiphonTunnel' = None
    /\ raised' = raised \cup {"activeSocksPort"}
    /\ mine' = None
    /\ Goto("worker", "rest")
    /\ UNCHANGED <<timer, rungs, path, library, generations, queue, history>>

\* ... and after a pause of 1.2 s the next one is started.
RedialRested ==
    /\ At("worker", "rest") /\ ~Is("stopRequested")
    /\ Goto("worker", "create")
    /\ UNCHANGED <<latches, rungs, path, psiphonTunnel, library, generations, work,
                   history>>

\* A stop seen before either half ends the job.
RedialLeft ==
    /\ pc["worker"] \in {"redial", "rest"} /\ Is("stopRequested")
    /\ Goto("worker", "idle")
    /\ UNCHANGED <<latches, rungs, path, psiphonTunnel, library, generations, work,
                   history>>

\* startPsiphonTunnel: a controller, its stamp and its configuration, which
\* names the rung and, during the region phase, the country.
CreateController ==
    /\ At("worker", "create")
    /\ \E c \in Controllers \ ({psiphonTunnel} \cup told) :
         /\ Unwound(c)
         /\ psiphonTunnel' = c /\ mine' = c
    /\ psiphonGeneration' = sessionGeneration
    /\ tried' = IF Is("regionPhase") \/ ~fresh THEN tried ELSE tried \cup {ladderIndex}
    /\ Goto("worker", "dial")
    /\ UNCHANGED <<latches, rungs, path, library, sessionGeneration, queue, fresh>>

startTunneling ==
    /\ At("worker", "dial")
    /\ live' = live \cup {mine} /\ mine' = None
    /\ Goto("worker", "arm")
    /\ UNCHANGED <<latches, rungs, path, psiphonTunnel, told, generations, queue,
                   history>>

\* One of these throws: nothing is armed, so the session is failed here.
DialFailsSilently ==
    /\ pc["worker"] \in {"create", "dial"}
    /\ raised' = raised \ {"activeSocksPort"}
    /\ mine' = None
    /\ Goto("worker", "idle")
    /\ UNCHANGED <<timer, rungs, path, psiphonTunnel, library, generations, queue,
                   history>>

DialFails ==
    /\ pc["worker"] \in {"create", "dial"}
    /\ StopBegin("worker", raised \ {"connected", "activeSocksPort"}, "failing")
    /\ mine' = None
    /\ UNCHANGED <<rungs, tun, psiphonTunnel, library, generations, queue, history>>

armLadderTimer ==
    /\ At("worker", "arm")
    /\ raised' = raised \cup {"ladderActive"}
    /\ timer' = TRUE
    /\ Goto("worker", "idle")
    /\ UNCHANGED <<rungs, path, psiphonTunnel, library, generations, work, history>>

-----------------------------------------------------------------------------
(***************************************************************************)
(* The rung's timer and escalateLadder.                                    *)
(***************************************************************************)

TimerFires ==
    /\ At("ladder", "idle") /\ timer
    /\ timer' = FALSE
    /\ Goto("ladder", IF Is("ladderActive") /\ ~Is("psiphonVpnActivated")
                      THEN "escalate" ELSE "idle")
    /\ UNCHANGED <<raised, rungs, path, psiphonTunnel, library, generations, work,
                   history>>

\* The compareAndSet on ladderActive elects one of the threads that get here.
Escalate(t) ==
    /\ At(t, "escalate")
    /\ \/ /\ Is("stopRequested") \/ ~Is("ladderActive")
          /\ Goto(t, Returned(t))
          /\ UNCHANGED latches
       \/ /\ ~Is("stopRequested") /\ Is("ladderActive")
          /\ raised' = raised \ {"ladderActive"}
          /\ timer' = FALSE
          /\ Goto(t, "escalated")
    /\ UNCHANGED <<rungs, path, psiphonTunnel, library, generations, work, history>>

\* The preferred country failed: the same rung again with all countries, and
\* no attempt is counted.
DropRegionCounted(t) ==
    /\ At(t, "escalated") /\ Is("regionPhase")
    /\ raised' = raised \ {"regionPhase"}
    /\ ladderAttempts' = ladderAttempts + 1
    /\ queue' = Append(queue, "redial")
    /\ Goto(t, Returned(t))
    /\ UNCHANGED <<timer, ladderIndex, path, psiphonTunnel, library, generations,
                   mine, history>>

DropRegion(t) ==
    /\ At(t, "escalated") /\ Is("regionPhase")
    /\ raised' = raised \ {"regionPhase"}
    /\ queue' = Append(queue, "redial")
    /\ Goto(t, Returned(t))
    /\ UNCHANGED <<timer, rungs, path, psiphonTunnel, library, generations, mine,
                   history>>

RungFollows(t, index, attempts) ==
    /\ At(t, "escalated") /\ ~Is("regionPhase")
    /\ ladderAttempts + 1 < Rungs
    /\ ladderAttempts' = attempts /\ ladderIndex' = index
    /\ queue' = Append(queue, "redial")
    /\ Goto(t, Returned(t))
    /\ UNCHANGED <<latches, path, psiphonTunnel, library, generations, mine, history>>

NextRungUncounted(t) == RungFollows(t, (ladderIndex + 1) % Rungs, ladderAttempts)
NextRungUnwrapped(t) == RungFollows(t, ladderIndex + 1, ladderAttempts + 1)

NextRung(t) == RungFollows(t, (ladderIndex + 1) % Rungs, ladderAttempts + 1)

Exhausted(t) ==
    /\ At(t, "escalated") /\ ~Is("regionPhase")
    /\ ladderAttempts + 1 >= Rungs
    /\ ladderIndex' = 0 /\ ladderAttempts' = 0
    /\ failAndStop(t, "exhausting")
    /\ UNCHANGED <<tun, psiphonTunnel, library, generations, work, history>>

-----------------------------------------------------------------------------
(***************************************************************************)
(* The controllers (external library) and their callbacks.                 *)
(***************************************************************************)

Running(c) == c \in live /\ At(c, "idle")
\* The guard of every callback.
IsCurrent == psiphonGeneration = sessionGeneration

\* A stop() that comes after the end, or before the start, does nothing.
StopperEnds(c) ==
    /\ c \in told /\ c \notin live
    /\ told' = told \ {c}
    /\ UNCHANGED <<latches, rungs, path, psiphonTunnel, live, generations, work, pc,
                   history>>

onListeningSocksProxyPort(c) ==
    /\ Running(c) /\ IsCurrent
    /\ raised' = raised \cup {"activeSocksPort"}
    /\ UNCHANGED <<timer, rungs, path, psiphonTunnel, library, generations, work, pc,
                   history>>

\* A controller reports a tunnel, at first or again.
onConnected(c) ==
    /\ Running(c)
    /\ Goto(c, IF IsCurrent THEN "disarm" ELSE "idle")
    /\ UNCHANGED <<latches, rungs, path, psiphonTunnel, library, generations, work,
                   history>>

\* A tunnel exists: the ladder stands down and the region phase is over.
ConnectedDisarms(c) ==
    /\ At(c, "disarm")
    /\ raised' = raised \ {"ladderActive", "regionPhase"}
    /\ timer' = FALSE
    /\ ladderAttempts' = 0
    /\ Goto(c, "bridge")
    /\ UNCHANGED <<ladderIndex, path, psiphonTunnel, library, generations, work,
                   history>>

\* Without psiphonVpnMode the listener itself is the service.
ConnectedAsProxy(c) ==
    /\ At(c, "bridge") /\ Is("activeSocksPort") /\ ~Is("psiphonVpnMode")
    /\ raised' = raised \cup {"connected", "watchdog"}
    /\ Goto(c, "idle")
    /\ UNCHANGED <<timer, rungs, path, psiphonTunnel, library, generations, work,
                   history>>

\* A controller that reconnects finds the engine routing.
ConnectedAgain(c) ==
    /\ At(c, "bridge") /\ Is("activeSocksPort") /\ Is("psiphonVpnMode")
    /\ Is("psiphonVpnActivated") /\ engine
    /\ Goto(c, "idle")
    /\ UNCHANGED <<latches, rungs, path, psiphonTunnel, library, generations, work,
                   history>>

Unrouted(c) ==
    /\ At(c, "bridge") /\ Is("activeSocksPort") /\ Is("psiphonVpnMode")
    /\ ~(Is("psiphonVpnActivated") /\ engine)

\* The engine starts, which blocks; what happened meanwhile is not looked at.
ConnectedStarts(c) ==
    /\ Unrouted(c) /\ tun
    /\ engine' = TRUE
    /\ Goto(c, "routed")
    /\ UNCHANGED <<latches, rungs, tun, psiphonTunnel, library, generations, work,
                   history>>

ConnectedRoutes(c) ==
    /\ At(c, "routed")
    /\ raised' = raised \cup {"psiphonVpnActivated", "connected", "watchdog"}
    /\ Goto(c, "idle")
    /\ UNCHANGED <<timer, rungs, path, psiphonTunnel, library, generations, work,
                   history>>

\* No port, no interface, or an engine that does not start.
ConnectedFails(c) ==
    /\ Unrouted(c) \/ (At(c, "bridge") /\ ~Is("activeSocksPort"))
    /\ failAndStop(c, "failing")
    /\ UNCHANGED <<rungs, tun, psiphonTunnel, library, generations, work, history>>

\* A controller ends: EstablishTunnelTimeout, an error, or a stop. A rung
\* that dies before its budget is escalated here.
onExiting(c) ==
    /\ Running(c)
    /\ live' = live \ {c} /\ told' = told \ {c}
    /\ psiphonTunnel' = IF IsCurrent THEN None ELSE psiphonTunnel
    /\ Goto(c, IF ~IsCurrent THEN "idle"
               ELSE IF /\ ~Is("stopRequested") /\ Is("ladderActive")
                       /\ ~Is("psiphonVpnActivated")
               THEN "escalate" ELSE "exited")
    /\ UNCHANGED <<latches, rungs, path, generations, work, history>>

\* Its second test: a controller that ends under a routed session is a drop.
ExitingDropped(c) ==
    /\ At(c, "exited")
    /\ ~Is("stopRequested") /\ ~Is("userInitiatedStop")
    /\ Is("psiphonVpnActivated") /\ Is("connected")
    /\ onTunnelLost(c)
    /\ UNCHANGED <<rungs, tun, psiphonTunnel, library, generations, work, history>>

ExitingDone(c) ==
    /\ At(c, "exited")
    /\ \/ Is("stopRequested") \/ Is("userInitiatedStop")
       \/ ~Is("psiphonVpnActivated") \/ ~Is("connected")
    /\ Goto(c, "idle")
    /\ UNCHANGED <<latches, rungs, path, psiphonTunnel, library, generations, work,
                   history>>

-----------------------------------------------------------------------------
Main == Connect \/ ConnectLost \/ Disconnect \/ Pause \/ Reconnect
Ladder == Restart \/ RestartGivesUp \/ WatchdogTick \/ TimerFires
Job == \/ BeginUp \/ BeginRefused
       \/ RedialStop \/ RedialStopped \/ RedialRested \/ RedialLeft
       \/ CreateController \/ startTunneling \/ DialFails \/ armLadderTimer
Callback(c) ==
    \/ ConnectedDisarms(c) \/ ConnectedAsProxy(c)
    \/ ConnectedAgain(c) \/ ConnectedStarts(c) \/ ConnectedRoutes(c) \/ ConnectedFails(c)
    \/ ExitingDropped(c) \/ ExitingDone(c)
Library(c) ==
    \/ onListeningSocksProxyPort(c) \/ onConnected(c) \/ onExiting(c)
    \/ StopperEnds(c)
Call(t) ==
    \/ StopDetaches(t) \/ StopForgets(t) \/ StopCloses(t) \/ StartLaunch(t) \/ Escalate(t)
    \/ DropRegion(t) \/ NextRung(t) \/ Exhausted(t)

Next ==
    \/ Main \/ Ladder \/ TakeJob \/ Job
    \/ \E t \in Threads : Call(t)
    \/ \E c \in Controllers : Callback(c) \/ Library(c)

\* A thread inside a call goes on, the worker takes its jobs, an armed timer
\* fires, and a controller told to stop ends. Nobody has to connect or
\* disconnect, and a controller need neither come up nor end by itself.
Fairness ==
    /\ WF_vars(Call("main"))
    /\ WF_vars(TimerFires \/ Call("ladder"))
    /\ WF_vars(TakeJob \/ Job \/ Call("worker"))
    /\ \A c \in Controllers :
         /\ WF_vars(Callback(c) \/ Call(c))
         /\ WF_vars(StopperEnds(c) \/ (c \in told /\ onExiting(c)))

Spec == Init /\ [][Next]_vars
FairSpec == Spec /\ Fairness

-----------------------------------------------------------------------------
(***************************************************************************)
(* Properties.                                                             *)
(***************************************************************************)

TypeOK ==
    /\ raised \subseteq Latches /\ timer \in BOOLEAN
    /\ ladderIndex \in 0..(Rungs - 1) /\ ladderAttempts \in 0..(Rungs - 1)
    /\ tun \in BOOLEAN /\ engine \in BOOLEAN
    /\ psiphonTunnel \in Controllers \cup {None}
    /\ live \subseteq Controllers /\ told \subseteq Controllers
    /\ sessionGeneration \in 0..MaxSessions
    /\ psiphonGeneration \in 0..MaxSessions
    /\ queue \in Seq({"begin", "redial"})
    /\ mine \in Controllers \cup {None}
    /\ pc \in [Threads -> Labels]
    /\ tried \subseteq 0..(Rungs - 1) /\ fresh \in BOOLEAN

\* A claimed whole-device session that has not been stopped and does not
\* route yet.
Connecting ==
    /\ Is("connected") /\ Is("psiphonVpnMode")
    /\ ~Is("stopRequested") /\ ~Is("psiphonVpnActivated")

\* What can still move it.
Underway ==
    \/ \E t \in {"main", "ladder"} : At(t, "launch")
    \/ queue # <<>> \/ ~At("worker", "idle")
    \/ Is("ladderActive") /\ (timer \/ At("ladder", "escalate"))
    \/ \E t \in Threads : pc[t] \in StopLabels \cup {"escalated", "bridge", "routed"}

\* "Without stopping here the service sits on Connecting forever with a live
\* TUN and no tunnel behind it" (startPsiphonTunnel): whatever timers,
\* callbacks of any controller, stops and starts did, a session that is
\* connecting has a job, an armed rung or a call under way that moves it on.
NeverStalled == Connecting => Underway

\* "Done means every rung has had a turn, not that the index hit the last
\* slot" (escalateLadder), and the preferred country must not "silently
\* shorten the ladder by one": a session that found nothing left over from an
\* earlier one gives up only after each rung was dialled to all countries.
EveryRungTried ==
    [][\A t \in Threads :
          fresh /\ ~Is("stopRequested") /\ Exhausted(t)
             => tried = 0..(Rungs - 1)]_vars

\* Racing a controller's own end "would restart the tunnel while the old
\* controller is still stopping" (armLadderTimer): through every redial, callback
\* and exit, a session that found nothing left over has no controller running
\* beside the one of its handle, so that a stop reaches whatever runs.
OneController == fresh /\ ~Is("stopRequested") => live \subseteq {psiphonTunnel}

\* A connect ends: with a routed device, with a failure or with a stop.
DialEnds == Connecting ~> ~Connecting
=============================================================================
