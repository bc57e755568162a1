------------------------ MODULE PsiphonLadder_proofs ------------------------
(* Proofs for PsiphonLadder, for any controllers, any ladder and any number   *)
(* of sessions: whatever its threads do in whatever order, a session that is  *)
(* connecting has something under way that moves it on, and one that gives up *)
(* has dialled every rung.                                                    *)
EXTENDS PsiphonLadder, TLAPS

\* The worker starts the controller it made, and leaves the escalation to the
\* timer and to the callbacks.
WorkerInv ==
    /\ At("worker", "dial") => mine \in Controllers
    /\ ~At("worker", "escalate")

\* A session that found nothing left over and has not been stopped.
Clean == fresh /\ ~Is("stopRequested")

\* A thread that is about to escalate, or was elected to.
Escalating(t) == pc[t] \in {"escalate", "escalated"}

\* Where the threads of such a session can be.
PlaceInv ==
    /\ Is("psiphonVpnMode")
    /\ pc["worker"] \in {"idle"} \cup WorkerLabels
    /\ pc["main"] \in {"idle", "launch"}
    /\ pc["ladder"] \in {"idle", "launch", "escalate", "escalated"}
    /\ \A c \in Controllers :
         pc[c] \in {"idle", "disarm", "bridge", "routed", "exited", "escalate", "escalated"}

\* One thing at a time moves the ladder: a job, the armed rung or the thread
\* that was elected to escalate it.
TokenInv ==
    /\ queue \in {<<>>, <<"begin">>, <<"redial">>}
    /\ queue # <<>> => At("worker", "idle")
    /\ queue # <<>> \/ ~At("worker", "idle") \/ Is("ladderActive") =>
          \A t \in Threads : ~At(t, "escalated")
    /\ queue # <<>> \/ ~At("worker", "idle") => ~Is("ladderActive")
    /\ \A t, u \in Threads : At(t, "escalated") /\ At(u, "escalated") => t = u

\* At most the controller of the handle runs, and none while the next is made.
LiveInv ==
    /\ live \subseteq {psiphonTunnel}
    /\ queue = <<"begin">> \/ pc["worker"] \in {"begin", "rest", "create", "dial"} => live = {}
    /\ At("worker", "dial") => mine = psiphonTunnel
    /\ At("worker", "await") /\ live # {} => mine = psiphonTunnel
    /\ \A c \in Controllers : pc[c] \in {"disarm", "bridge", "routed"} => c \in live

\* The preferred country comes before everything else.
RegionInv ==
    Is("regionPhase") =>
      /\ ladderAttempts = 0
      /\ queue # <<"redial">> /\ pc["worker"] \notin {"redial", "await", "rest"}
      /\ \A c \in Controllers : Escalating(c) =>
            live = {} /\ queue = <<>> /\ At("worker", "idle")

\* The current rung has been handed to a controller.
Dialled ==
    \/ pc["worker"] \in {"dial", "arm"} \/ Is("ladderActive")
    \/ \E t \in Threads : At(t, "escalated")

\* The k-th rung before the current one.
Back(i, k) == IF k <= i THEN i - k ELSE i + Rungs - k

\* Every rung the session has used up was dialled to all countries.
Walked ==
    /\ Dialled /\ ~Is("regionPhase") => ladderIndex \in tried
    /\ \A k \in 1..ladderAttempts : Back(ladderIndex, k) \in tried

\* The preferred country came up under the ladder, which counts its rung all the
\* same: then the session routes, or is about to, and is escalated at most once.
Excused ==
    /\ ~Is("regionPhase")
    /\ \A c \in Controllers : ~Escalating(c)
    /\ \/ /\ ladderAttempts = 0
          /\ Is("psiphonVpnActivated") \/ \E c \in Controllers : pc[c] \in {"bridge", "routed"}
       \/ /\ ~Escalating("ladder")
          /\ \/ Is("psiphonVpnActivated")
             \/ \E c \in Controllers :
                  /\ pc[c] \in {"bridge", "routed"}
                  /\ \/ queue = <<"redial">> \/ At("worker", "redial")
                     \/ At("worker", "await") /\ mine = c

CleanParts == PlaceInv /\ TokenInv /\ LiveInv /\ RegionInv /\ (Walked \/ Excused)
CleanInv == Clean => CleanParts

IInv == TypeOK /\ WorkerInv /\ NeverStalled /\ CleanInv

USE DEF Is, At, Goto, Threads, Services

\* A ladder has a first rung.
LEMMA FirstRung == 0 \in 0..(Rungs - 1)
  BY LadderAssumption

\* The threads a step may be of.
LEMMA NextCases ==
    ASSUME Next
    PROVE  \/ Main \/ Ladder \/ TakeJob \/ Job
           \/ \E t \in Threads : Call(t)
           \/ \E c \in Controllers : Callback(c) \/ Library(c)
  BY DEF Next

\* Types are kept by the intents.
LEMMA TypeMain ==
    ASSUME TypeOK, WorkerInv, Main
    PROVE  TypeOK' /\ WorkerInv'
  <1> USE ControllersAssumption, LadderAssumption
      DEF WorkerInv, TypeOK, Labels, StopLabels, Detaching, Forgetting, Closing, WorkerLabels,
          CallbackLabels, Latches, latches, rungs, path, library, generations, work, history
  <1>1. CASE Connect
    BY <1>1 DEF Connect, StartClaim
  <1>2. CASE ConnectLost
    BY <1>2 DEF ConnectLost
  <1>3. CASE Disconnect
    BY <1>3 DEF Disconnect, StopIntent, StopBegin
  <1>4. CASE Pause
    BY <1>4 DEF Pause, StopIntent, StopBegin
  <1>5. CASE Reconnect
    BY <1>5 DEF Reconnect, StopIntent, StopBegin
  <1>6. QED BY <1>1, <1>2, <1>3, <1>4, <1>5 DEF Main

\* Types are kept by the restarts, the watchdog and the rung's timer.
LEMMA TypeLadder ==
    ASSUME TypeOK, WorkerInv, Ladder
    PROVE  TypeOK' /\ WorkerInv'
  <1> USE ControllersAssumption, LadderAssumption
      DEF WorkerInv, TypeOK, Labels, StopLabels, Detaching, Forgetting, Closing, WorkerLabels,
          CallbackLabels, Latches, latches, rungs, path, library, generations, work, history
  <1>1. CASE Restart
    BY <1>1 DEF Restart, StartClaim
  <1>2. CASE RestartGivesUp
    BY <1>2 DEF RestartGivesUp
  <1>3. CASE WatchdogTick
    BY <1>3 DEF WatchdogTick, onTunnelLost, failAndStop, StopBegin
  <1>4. CASE TimerFires
    BY <1>4 DEF TimerFires
  <1>5. QED BY <1>1, <1>2, <1>3, <1>4 DEF Ladder

\* Types are kept by the worker.
LEMMA TypeWorker ==
    ASSUME TypeOK, WorkerInv, TakeJob \/ Job
    PROVE  TypeOK' /\ WorkerInv'
  <1> USE ControllersAssumption, LadderAssumption
      DEF WorkerInv, TypeOK, Labels, StopLabels, Detaching, Forgetting, Closing, WorkerLabels,
          CallbackLabels, Latches, latches, rungs, path, library, generations, work, history
  <1>1. CASE TakeJob
    BY <1>1 DEF TakeJob
  <1>2. CASE BeginUp
    BY <1>2 DEF BeginUp
  <1>3. CASE BeginRefused
    BY <1>3 DEF BeginRefused
  <1>4. CASE RedialStop
    BY <1>4 DEF RedialStop
  <1>5. CASE RedialStopped
    BY <1>5 DEF RedialStopped
  <1>6. CASE RedialRested
    BY <1>6 DEF RedialRested
  <1>7. CASE RedialLeft
    BY <1>7 DEF RedialLeft
  <1>8. CASE CreateController
    BY <1>8 DEF CreateController
  <1>9. CASE startTunneling
    BY <1>9 DEF startTunneling
  <1>10. CASE DialFails
    BY <1>10 DEF DialFails, StopBegin
  <1>11. CASE armLadderTimer
    BY <1>11 DEF armLadderTimer
  <1>12. QED BY <1>1, <1>2, <1>3, <1>4, <1>5, <1>6, <1>7, <1>8, <1>9, <1>10, <1>11 DEF Job

\* Types are kept by a thread inside a call.
LEMMA TypeCall ==
    ASSUME TypeOK, WorkerInv, NEW t \in Threads, Call(t)
    PROVE  TypeOK' /\ WorkerInv'
  <1> USE ControllersAssumption, LadderAssumption
      DEF WorkerInv, TypeOK, Labels, StopLabels, Detaching, Forgetting, Closing, WorkerLabels,
          CallbackLabels, Latches, latches, rungs, path, library, generations, work, history
  <1>1. CASE StopDetaches(t)
    BY <1>1 DEF StopDetaches
  <1>2. CASE StartLaunch(t)
    BY <1>2 DEF StartLaunch, Quiet
  <1>3. CASE Escalate(t)
    BY <1>3 DEF Escalate, Returned
  <1>4. CASE DropRegion(t)
    BY <1>4 DEF DropRegion, Returned
  <1>5. CASE NextRung(t)
    BY <1>5 DEF NextRung, RungFollows, Returned
  <1>6. CASE Exhausted(t)
    BY <1>6, FirstRung DEF Exhausted, failAndStop, StopBegin
  <1>7. CASE StopForgets(t)
    BY <1>7 DEF StopForgets
  <1>8. CASE StopCloses(t)
    BY <1>8 DEF StopCloses, Returned
  <1>9. QED BY <1>1, <1>2, <1>3, <1>4, <1>5, <1>6, <1>7, <1>8 DEF Call

\* Types are kept by the controllers' callbacks.
LEMMA TypeCallback ==
    ASSUME TypeOK, WorkerInv, NEW c \in Controllers, Callback(c) \/ Library(c)
    PROVE  TypeOK' /\ WorkerInv'
  <1> USE ControllersAssumption, LadderAssumption
      DEF WorkerInv, TypeOK, Labels, StopLabels, Detaching, Forgetting, Closing, WorkerLabels,
          CallbackLabels, Latches, latches, rungs, path, library, generations, work, history
  <1>1. CASE ConnectedDisarms(c)
    BY <1>1, FirstRung DEF ConnectedDisarms
  <1>2. CASE ConnectedAsProxy(c)
    BY <1>2 DEF ConnectedAsProxy
  <1>3. CASE ConnectedAgain(c)
    BY <1>3 DEF ConnectedAgain
  <1>4. CASE ConnectedStarts(c)
    BY <1>4 DEF ConnectedStarts, Unrouted
  <1>5. CASE ConnectedFails(c)
    BY <1>5 DEF ConnectedFails, Unrouted, failAndStop, StopBegin
  <1>6. CASE ExitingDropped(c)
    BY <1>6 DEF ExitingDropped, onTunnelLost, failAndStop, StopBegin
  <1>7. CASE ExitingDone(c)
    BY <1>7 DEF ExitingDone
  <1>8. CASE onListeningSocksProxyPort(c)
    BY <1>8 DEF onListeningSocksProxyPort, Running
  <1>9. CASE onConnected(c)
    BY <1>9 DEF onConnected, Running
  <1>10. CASE onExiting(c)
    BY <1>10 DEF onExiting, Running
  <1>11. CASE StopperEnds(c)
    BY <1>11 DEF StopperEnds
  <1>12. CASE ConnectedRoutes(c)
    BY <1>12 DEF ConnectedRoutes
  <1>13. QED BY <1>1, <1>2, <1>3, <1>4, <1>5, <1>6, <1>7, <1>8, <1>9, <1>10, <1>11, <1>12
    DEF Callback, Library

\* NeverStalled is kept by the intents.
LEMMA StallMain ==
    ASSUME TypeOK, WorkerInv, NeverStalled, Main
    PROVE  NeverStalled'
  <1> USE ControllersAssumption
      DEF NeverStalled, Connecting, Underway, TypeOK, Labels, StopLabels, Detaching, Forgetting,
          Closing, WorkerLabels, CallbackLabels, Latches, latches, rungs, path, library,
          generations, work, history
  <1>1. CASE Connect
    BY <1>1 DEF Connect, StartClaim
  <1>2. CASE ConnectLost
    BY <1>2 DEF ConnectLost
  <1>3. CASE Disconnect
    BY <1>3 DEF Disconnect, StopIntent, StopBegin
  <1>4. CASE Pause
    BY <1>4 DEF Pause, StopIntent, StopBegin
  <1>5. CASE Reconnect
    BY <1>5 DEF Reconnect, StopIntent, StopBegin
  <1>6. QED BY <1>1, <1>2, <1>3, <1>4, <1>5 DEF Main

\* NeverStalled is kept by the restarts, the watchdog and the rung's timer.
LEMMA StallLadder ==
    ASSUME TypeOK, WorkerInv, NeverStalled, Ladder
    PROVE  NeverStalled'
  <1> USE ControllersAssumption
      DEF NeverStalled, Connecting, Underway, TypeOK, Labels, StopLabels, Detaching, Forgetting,
          Closing, WorkerLabels, CallbackLabels, Latches, latches, rungs, path, library,
          generations, work, history
  <1>1. CASE Restart
    BY <1>1 DEF Restart, StartClaim
  <1>2. CASE RestartGivesUp
    BY <1>2 DEF RestartGivesUp
  <1>3. CASE WatchdogTick
    BY <1>3 DEF WatchdogTick, onTunnelLost, failAndStop, StopBegin
  <1>4. CASE TimerFires
    BY <1>4 DEF TimerFires
  <1>5. QED BY <1>1, <1>2, <1>3, <1>4 DEF Ladder

\* NeverStalled is kept by the worker.
LEMMA StallWorker ==
    ASSUME TypeOK, WorkerInv, NeverStalled, TakeJob \/ Job
    PROVE  NeverStalled'
  <1> USE ControllersAssumption
      DEF NeverStalled, Connecting, Underway, TypeOK, Labels, StopLabels, Detaching, Forgetting,
          Closing, WorkerLabels, CallbackLabels, Latches, latches, rungs, path, library,
          generations, work, history
  <1>1. CASE TakeJob
    BY <1>1 DEF TakeJob
  <1>2. CASE BeginUp
    BY <1>2 DEF BeginUp
  <1>3. CASE BeginRefused
    BY <1>3 DEF BeginRefused
  <1>4. CASE RedialStop
    BY <1>4 DEF RedialStop
  <1>5. CASE RedialStopped
    BY <1>5 DEF RedialStopped
  <1>6. CASE RedialRested
    BY <1>6 DEF RedialRested
  <1>7. CASE RedialLeft
    BY <1>7 DEF RedialLeft
  <1>8. CASE CreateController
    BY <1>8 DEF CreateController
  <1>9. CASE startTunneling
    BY <1>9 DEF startTunneling
  <1>10. CASE DialFails
    BY <1>10 DEF DialFails, StopBegin
  <1>11. CASE armLadderTimer
    BY <1>11 DEF armLadderTimer
  <1>12. QED BY <1>1, <1>2, <1>3, <1>4, <1>5, <1>6, <1>7, <1>8, <1>9, <1>10, <1>11 DEF Job

\* NeverStalled is kept by the election of the thread that escalates: a loser
\* leaves what moves the session.
LEMMA StallEscalate ==
    ASSUME TypeOK, WorkerInv, NeverStalled, NEW t \in Threads, Escalate(t)
    PROVE  NeverStalled'
  <1>1. CASE Is("stopRequested") \/ ~Is("ladderActive")
    <2>1. raised' = raised
      BY <1>1 DEF Escalate, latches
    <2>2. CASE Is("stopRequested")
      BY <2>1, <2>2 DEF NeverStalled, Connecting
    <2>3. CASE ~Is("ladderActive")
      <3>1. SUFFICES ASSUME Connecting' PROVE Underway'
        BY DEF NeverStalled
      <3>2. Underway
        BY <2>1, <3>1 DEF NeverStalled, Connecting
      <3>3. \A u \in Threads : pc[u] # "escalate" => pc'[u] = pc[u]
        BY DEF Escalate, TypeOK
      <3>4. queue' = queue
        BY DEF Escalate, work
      <3>5. QED BY <2>3, <3>2, <3>3, <3>4 
        DEF Underway, StopLabels, Detaching, Forgetting, Closing, WorkerInv
    <2>4. QED BY <1>1, <2>2, <2>3
  <1>2. CASE ~Is("stopRequested") /\ Is("ladderActive")
    <2>1. pc'[t] = "escalated"
      BY <1>2 DEF Escalate, TypeOK
    <2>2. QED BY <2>1 DEF NeverStalled, Underway
  <1>3. QED BY <1>1, <1>2

\* NeverStalled is kept by a thread inside a call.
LEMMA StallCall ==
    ASSUME TypeOK, WorkerInv, NeverStalled, NEW t \in Threads, Call(t)
    PROVE  NeverStalled'
  <1> USE ControllersAssumption
      DEF NeverStalled, Connecting, Underway, TypeOK, Labels, StopLabels, Detaching, Forgetting,
          Closing, WorkerLabels, CallbackLabels, Latches, latches, rungs, path, library,
          generations, work, history
  <1>1. CASE StopDetaches(t)
    BY <1>1 DEF StopDetaches
  <1>2. CASE StartLaunch(t)
    BY <1>2 DEF StartLaunch, Quiet
  <1>3. CASE Escalate(t)
    BY <1>3, StallEscalate
  <1>4. CASE DropRegion(t)
    BY <1>4 DEF DropRegion, Returned
  <1>5. CASE NextRung(t)
    BY <1>5 DEF NextRung, RungFollows, Returned
  <1>6. CASE Exhausted(t)
    BY <1>6 DEF Exhausted, failAndStop, StopBegin
  <1>7. CASE StopForgets(t)
    BY <1>7 DEF StopForgets
  <1>8. CASE StopCloses(t)
    BY <1>8 DEF StopCloses, Returned
  <1>9. QED BY <1>1, <1>2, <1>3, <1>4, <1>5, <1>6, <1>7, <1>8 DEF Call

\* NeverStalled is kept by the controllers' callbacks.
LEMMA StallCallback ==
    ASSUME TypeOK, WorkerInv, NeverStalled, NEW c \in Controllers, Callback(c) \/ Library(c)
    PROVE  NeverStalled'
  <1> USE ControllersAssumption
      DEF NeverStalled, Connecting, Underway, TypeOK, Labels, StopLabels, Detaching, Forgetting,
          Closing, WorkerLabels, CallbackLabels, Latches, latches, rungs, path, library,
          generations, work, history
  <1>1. CASE ConnectedDisarms(c)
    BY <1>1 DEF ConnectedDisarms
  <1>2. CASE ConnectedAsProxy(c)
    BY <1>2 DEF ConnectedAsProxy
  <1>3. CASE ConnectedAgain(c)
    BY <1>3 DEF ConnectedAgain
  <1>4. CASE ConnectedStarts(c)
    BY <1>4 DEF ConnectedStarts, Unrouted
  <1>5. CASE ConnectedFails(c)
    BY <1>5 DEF ConnectedFails, Unrouted, failAndStop, StopBegin
  <1>6. CASE ExitingDropped(c)
    BY <1>6 DEF ExitingDropped, onTunnelLost, failAndStop, StopBegin
  <1>7. CASE ExitingDone(c)
    BY <1>7 DEF ExitingDone
  <1>8. CASE onListeningSocksProxyPort(c)
    BY <1>8 DEF onListeningSocksProxyPort, Running
  <1>9. CASE onConnected(c)
    BY <1>9 DEF onConnected, Running
  <1>10. CASE onExiting(c)
    BY <1>10 DEF onExiting, Running
  <1>11. CASE StopperEnds(c)
    BY <1>11 DEF StopperEnds
  <1>12. CASE ConnectedRoutes(c)
    BY <1>12 DEF ConnectedRoutes
  <1>13. QED BY <1>1, <1>2, <1>3, <1>4, <1>5, <1>6, <1>7, <1>8, <1>9, <1>10, <1>11, <1>12
    DEF Callback, Library

\* The rung after the last is the first.
LEMMA NextIndex ==
    ASSUME NEW i \in 0..(Rungs - 1)
    PROVE  (i + 1) % Rungs = (IF i + 1 = Rungs THEN 0 ELSE i + 1)
  BY LadderAssumption

\* CleanInv is kept by the intents.
LEMMA CleanMain ==
    ASSUME TypeOK, WorkerInv, CleanInv, Main PROVE CleanInv'
  <1> USE ControllersAssumption, LadderAssumption
      DEF TypeOK, CleanInv, Clean, CleanParts, PlaceInv, TokenInv, LiveInv, RegionInv,
          Walked, Excused, Dialled, Escalating, WorkerLabels, latches, rungs, path,
          library, generations, work, history
  <1>1. CASE Connect
    BY <1>1 DEF Connect, StartClaim
  <1>2. CASE ConnectLost
    BY <1>2 DEF ConnectLost
  <1>3. CASE Disconnect
    BY <1>3 DEF Disconnect, StopIntent, StopBegin
  <1>4. CASE Pause
    BY <1>4 DEF Pause, StopIntent, StopBegin
  <1>5. CASE Reconnect
    BY <1>5 DEF Reconnect, StopIntent, StopBegin
  <1>6. QED BY <1>1, <1>2, <1>3, <1>4, <1>5 DEF Main

\* CleanInv is kept by the restarts, the watchdog and the rung's timer.
LEMMA CleanLadder ==
    ASSUME TypeOK, WorkerInv, CleanInv, Ladder
    PROVE  CleanInv'
  <1> USE ControllersAssumption, LadderAssumption
      DEF TypeOK, CleanInv, Clean, CleanParts, PlaceInv, TokenInv, LiveInv, RegionInv,
          Walked, Excused, Dialled, Escalating, WorkerLabels, latches, rungs, path,
          library, generations, work, history
  <1>1. CASE Restart
    BY <1>1 DEF Restart, StartClaim
  <1>2. CASE RestartGivesUp
    BY <1>2 DEF RestartGivesUp
  <1>3. CASE WatchdogTick
    <2>1. CASE Is("reconnectRequested")
      <3>1. raised' = raised /\ pc' = pc
        BY <1>3, <2>1 DEF WatchdogTick, onTunnelLost
      <3>2. QED BY <1>3, <3>1 DEF WatchdogTick
    <2>2. CASE ~Is("reconnectRequested")
      BY <1>3, <2>2 DEF WatchdogTick, onTunnelLost, failAndStop, StopBegin
    <2>3. QED BY <2>1, <2>2
  <1>4. CASE TimerFires
    <2> SUFFICES ASSUME Clean' PROVE CleanParts'
      OBVIOUS
    <2>1. Clean /\ pc["ladder"] = "idle"
      BY <1>4 DEF TimerFires
    <2>2. CASE Is("ladderActive") /\ ~Is("psiphonVpnActivated")
      <3>1. pc' = [pc EXCEPT !["ladder"] = "escalate"]
        BY <1>4, <2>2 DEF TimerFires
      <3>2. (Walked \/ Excused)'
        BY <1>4, <2>1, <2>2, <3>1 DEF TimerFires
      <3>3. (PlaceInv /\ TokenInv /\ LiveInv /\ RegionInv)'
        BY <1>4, <2>1, <2>2, <3>1 DEF TimerFires
      <3>4. QED BY <3>2, <3>3
    <2>3. CASE ~(Is("ladderActive") /\ ~Is("psiphonVpnActivated"))
      <3>1. pc' = pc
        BY <1>4, <2>3 DEF TimerFires
      <3>2. QED BY <1>4, <2>1, <3>1 DEF TimerFires
    <2>4. QED BY <2>2, <2>3
  <1>5. QED BY <1>1, <1>2, <1>3, <1>4 DEF Ladder

\* CleanInv is kept by the worker.
LEMMA CleanWorker ==
    ASSUME TypeOK, WorkerInv, CleanInv, TakeJob \/ Job
    PROVE  CleanInv'
  <1> USE ControllersAssumption, LadderAssumption
      DEF TypeOK, CleanInv, Clean, CleanParts, PlaceInv, TokenInv, LiveInv, RegionInv,
          Walked, Excused, Dialled, Escalating, WorkerLabels, latches, rungs, path,
          library, generations, work, history
  <1>1. CASE TakeJob
    BY <1>1 DEF TakeJob
  <1>2. CASE BeginUp
    BY <1>2 DEF BeginUp
  <1>3. CASE BeginRefused
    BY <1>3 DEF BeginRefused
  <1>4. CASE RedialStop
    BY <1>4 DEF RedialStop
  <1>5. CASE RedialStopped
    BY <1>5 DEF RedialStopped, Unwound
  <1>6. CASE RedialRested
    BY <1>6 DEF RedialRested
  <1>7. CASE RedialLeft
    BY <1>7 DEF RedialLeft
  <1>8. CASE CreateController
    BY <1>8 DEF CreateController, Unwound
  <1>9. CASE startTunneling
    <2> SUFFICES ASSUME Clean' PROVE CleanParts'
      OBVIOUS
    <2>1. Clean /\ live = {} /\ live' = {psiphonTunnel}
      BY <1>9 DEF startTunneling
    <2>2. (PlaceInv /\ TokenInv)'
      BY <1>9, <2>1 DEF startTunneling
    <2>3. (LiveInv /\ RegionInv)'
      BY <1>9, <2>1 DEF startTunneling
    <2>4. (Walked \/ Excused)'
      BY <1>9, <2>1 DEF startTunneling
    <2>5. QED BY <2>2, <2>3, <2>4
  <1>10. CASE DialFails
    BY <1>10 DEF DialFails, StopBegin
  <1>11. CASE armLadderTimer
    BY <1>11 DEF armLadderTimer
  <1>12. QED BY <1>1, <1>2, <1>3, <1>4, <1>5, <1>6, <1>7, <1>8, <1>9, <1>10, <1>11 DEF Job

\* CleanInv is kept by a thread inside a call: the election, the next rung.
LEMMA CleanCall ==
    ASSUME TypeOK, WorkerInv, CleanInv, NEW t \in Threads, Call(t)
    PROVE  CleanInv'
  <1> USE ControllersAssumption, LadderAssumption
      DEF TypeOK, CleanInv, Clean, CleanParts, PlaceInv, TokenInv, LiveInv, RegionInv,
          Walked, Excused, Dialled, Escalating, WorkerLabels, latches, rungs, path,
          library, generations, work, history
  <1>1. CASE StopDetaches(t)
    BY <1>1 DEF StopDetaches, Detaching
  <1>2. CASE StartLaunch(t)
    <2> SUFFICES ASSUME Clean' PROVE CleanParts'
      OBVIOUS
    <2>1. queue = <<>> /\ live = {} /\ ~Is("ladderActive") /\ \A u \in Threads \ {t} : At(u, "idle")
      BY <1>2 DEF StartLaunch, Quiet
    <2>2. pc' = [pc EXCEPT ![t] = "idle"]
      BY <1>2 DEF StartLaunch
    <2>3. \A u \in Threads : pc'[u] = "idle"
      BY <2>1, <2>2
    <2>4. queue' = <<"begin">> /\ live' = {} /\ ladderAttempts' = 0
      BY <1>2, <2>1 DEF StartLaunch
    <2>5. "psiphonVpnMode" \in raised' /\ "ladderActive" \notin raised'
      BY <1>2, <2>1 DEF StartLaunch
    <2>6. <<"begin">> # <<"redial">> /\ <<"begin">> # <<>>
      OBVIOUS
    <2>7. \A u \in Threads : ~Escalating(u)'
      BY <2>3
    <2>8. PlaceInv' /\ TokenInv'
      BY <2>3, <2>4, <2>5, <2>6
    <2>9. LiveInv' /\ RegionInv'
      BY <2>3, <2>4, <2>5, <2>6, <2>7
    <2>10. Walked'
      BY <2>3, <2>4, <2>5
    <2>11. QED BY <2>8, <2>9, <2>10
  <1>3. CASE Escalate(t)
    <2> SUFFICES ASSUME Clean' PROVE CleanParts'
      OBVIOUS
    <2>1. Clean
      BY <1>3 DEF Escalate
    <2>2. t = "ladder" \/ t \in Controllers
      BY <1>3, <2>1 DEF Escalate
    <2>3. CASE ~Is("ladderActive")
      <3>1. /\ raised' = raised
            /\ pc' = [pc EXCEPT ![t] = IF t \in Controllers THEN "exited" ELSE "idle"]
        BY <1>3, <2>1, <2>3 DEF Escalate, Returned
      <3>2. (PlaceInv /\ TokenInv)'
        BY <1>3, <2>1, <2>2, <2>3, <3>1 DEF Escalate
      <3>3. (LiveInv /\ RegionInv)'
        BY <1>3, <2>1, <2>2, <2>3, <3>1 DEF Escalate
      <3>4. (Walked \/ Excused)'
        BY <1>3, <2>1, <2>2, <2>3, <3>1 DEF Escalate
      <3>5. QED BY <3>2, <3>3, <3>4
    <2>4. CASE Is("ladderActive")
      <3>1. raised' = raised \ {"ladderActive"} /\ pc' = [pc EXCEPT ![t] = "escalated"]
        BY <1>3, <2>1, <2>4 DEF Escalate
      <3>2. queue = <<>> /\ pc["worker"] = "idle" /\ \A u \in Threads : ~At(u, "escalated")
        BY <2>1, <2>4
      <3>3. (PlaceInv /\ TokenInv)'
        BY <1>3, <2>1, <2>2, <3>1, <3>2 DEF Escalate
      <3>4. (LiveInv /\ RegionInv)'
        BY <1>3, <2>1, <2>2, <3>1, <3>2 DEF Escalate
      <3>5. CASE Walked
        BY <1>3, <2>1, <2>4, <3>1, <3>2, <3>5 DEF Escalate
      <3>6. CASE Excused
        BY <1>3, <2>1, <2>2, <3>1, <3>2, <3>6 DEF Escalate
      <3>7. QED BY <2>1, <3>3, <3>4, <3>5, <3>6
    <2>5. QED BY <2>3, <2>4
  <1>4. CASE DropRegion(t)
    <2> SUFFICES ASSUME Clean' PROVE CleanParts'
      OBVIOUS
    <2>1. Clean /\ Is("regionPhase") /\ At(t, "escalated")
      BY <1>4 DEF DropRegion
    <2>2. t = "ladder" \/ t \in Controllers
      BY <2>1
    <2>3. queue = <<>> /\ pc["worker"] = "idle" /\ ~Is("ladderActive") /\ ladderAttempts = 0
      BY <2>1
    <2>4. queue' = <<"redial">>
      BY <1>4, <2>3 DEF DropRegion
    <2>5. pc' = [pc EXCEPT ![t] = IF t \in Controllers THEN "exited" ELSE "idle"]
      BY <1>4 DEF DropRegion, Returned
    <2>6. \A u \in Threads : pc'[u] # "escalated"
      BY <2>1, <2>5
    <2>7. <<"begin">> # <<"redial">> /\ <<"redial">> # <<>>
      OBVIOUS
    <2>8. (PlaceInv /\ TokenInv)'
      BY <1>4, <2>1, <2>2, <2>3, <2>4, <2>5, <2>6, <2>7 DEF DropRegion
    <2>9. (LiveInv /\ RegionInv)'
      BY <1>4, <2>1, <2>2, <2>3, <2>4, <2>5, <2>6, <2>7 DEF DropRegion
    <2>10. Walked'
      BY <1>4, <2>1, <2>3, <2>5, <2>6 DEF DropRegion
    <2>11. QED BY <2>8, <2>9, <2>10
  <1>5. CASE NextRung(t)
    <2> SUFFICES ASSUME Clean' PROVE CleanParts'
      OBVIOUS
    <2>1. Clean /\ ~Is("regionPhase") /\ At(t, "escalated")
      BY <1>5 DEF NextRung, RungFollows
    <2>2. t = "ladder" \/ t \in Controllers
      BY <2>1
    <2>3. queue = <<>> /\ pc["worker"] = "idle" /\ ~Is("ladderActive")
      BY <2>1
    <2>4. queue' = <<"redial">>
      BY <1>5, <2>3 DEF NextRung, RungFollows
    <2>5. pc' = [pc EXCEPT ![t] = IF t \in Controllers THEN "exited" ELSE "idle"]
      BY <1>5 DEF NextRung, RungFollows, Returned
    <2>6. \A u \in Threads : pc'[u] # "escalated"
      BY <2>1, <2>5
    <2>7. <<"begin">> # <<"redial">> /\ <<"redial">> # <<>>
      OBVIOUS
    <2>8. (PlaceInv /\ TokenInv)'
      BY <1>5, <2>1, <2>2, <2>3, <2>4, <2>5, <2>6, <2>7 DEF NextRung, RungFollows
    <2>9. (LiveInv /\ RegionInv)'
      BY <1>5, <2>1, <2>2, <2>3, <2>4, <2>5, <2>6, <2>7 DEF NextRung, RungFollows
    <2>10. CASE Excused
      <3>1. t = "ladder" /\ ~Escalating("ladder")'
        BY <2>1, <2>2, <2>5, <2>10
      <3>2. \A c \in Controllers : pc'[c] = pc[c]
        BY <2>5, <3>1
      <3>3. Excused'
        BY <1>5, <2>1, <2>4, <2>10, <3>1, <3>2 DEF NextRung, RungFollows
      <3>4. QED BY <2>8, <2>9, <3>3
    <2>11. CASE Walked
      <3>1. ~Dialled'
        BY <1>5, <2>2, <2>3, <2>5, <2>6 DEF NextRung, RungFollows
      <3>2. ladderIndex \in tried
        BY <2>1, <2>11
      <3>3. ladderIndex' = (IF ladderIndex + 1 = Rungs THEN 0 ELSE ladderIndex + 1)
        BY <1>5, NextIndex DEF NextRung, RungFollows
      <3>4. ladderAttempts' = ladderAttempts + 1 /\ tried' = tried
        BY <1>5 DEF NextRung, RungFollows
      <3>5. ASSUME NEW k \in 1..ladderAttempts' PROVE Back(ladderIndex', k) \in tried
        <4>1. CASE k = 1
          BY <3>2, <3>3, <3>5, <4>1 DEF Back
        <4>2. CASE k # 1
          <5>1. k - 1 \in 1..ladderAttempts
            BY <3>4, <3>5, <4>2
          <5>2. Back(ladderIndex', k) = Back(ladderIndex, k - 1)
            BY <3>3, <3>4, <4>2, <5>1 DEF Back
          <5>3. QED BY <2>11, <5>1, <5>2
        <4>3. QED BY <4>1, <4>2
      <3>6. Walked'
        BY <3>1, <3>4, <3>5
      <3>7. QED BY <2>8, <2>9, <3>6
    <2>12. QED BY <2>1, <2>10, <2>11
  <1>6. CASE Exhausted(t)
    BY <1>6 DEF Exhausted, failAndStop, StopBegin
  <1>7. CASE StopForgets(t)
    BY <1>7 DEF StopForgets, Forgetting
  <1>8. CASE StopCloses(t)
    BY <1>8 DEF StopCloses, Returned, Closing
  <1>9. QED BY <1>1, <1>2, <1>3, <1>4, <1>5, <1>6, <1>7, <1>8 DEF Call

\* CleanInv is kept by the controllers' callbacks.
LEMMA CleanCallback ==
    ASSUME TypeOK, WorkerInv, CleanInv, NEW c \in Controllers, Callback(c) \/ Library(c)
    PROVE  CleanInv'
  <1> USE ControllersAssumption, LadderAssumption
      DEF TypeOK, CleanInv, Clean, CleanParts, PlaceInv, TokenInv, LiveInv, RegionInv,
          Walked, Excused, Dialled, Escalating, WorkerLabels, latches, rungs, path,
          library, generations, work, history
  <1>1. CASE ConnectedDisarms(c)
    BY <1>1 DEF ConnectedDisarms
  <1>2. CASE ConnectedAsProxy(c)
    BY <1>2 DEF ConnectedAsProxy
  <1>3. CASE ConnectedAgain(c)
    BY <1>3 DEF ConnectedAgain
  <1>4. CASE ConnectedStarts(c)
    BY <1>4 DEF ConnectedStarts, Unrouted
  <1>5. CASE ConnectedFails(c)
    BY <1>5 DEF ConnectedFails, Unrouted, failAndStop, StopBegin
  <1>6. CASE ExitingDropped(c)
    <2>1. CASE Is("reconnectRequested")
      <3>1. raised' = raised /\ pc' = [pc EXCEPT ![c] = "idle"] /\ At(c, "exited")
        BY <1>6, <2>1 DEF ExitingDropped, onTunnelLost
      <3>2. QED BY <1>6, <3>1 DEF ExitingDropped
    <2>2. CASE ~Is("reconnectRequested")
      BY <1>6, <2>2 DEF ExitingDropped, onTunnelLost, failAndStop, StopBegin
    <2>3. QED BY <2>1, <2>2
  <1>7. CASE ExitingDone(c)
    BY <1>7 DEF ExitingDone
  <1>8. CASE onListeningSocksProxyPort(c)
    BY <1>8 DEF onListeningSocksProxyPort, Running
  <1>9. CASE onConnected(c)
    BY <1>9 DEF onConnected, Running
  <1>10. CASE onExiting(c)
    BY <1>10 DEF onExiting, Running
  <1>11. CASE StopperEnds(c)
    BY <1>11 DEF StopperEnds
  <1>12. CASE ConnectedRoutes(c)
    BY <1>12 DEF ConnectedRoutes
  <1>13. QED BY <1>1, <1>2, <1>3, <1>4, <1>5, <1>6, <1>7, <1>8, <1>9, <1>10, <1>11, <1>12
    DEF Callback, Library

\* IInv holds from the start and is kept by every step of every thread.
THEOREM Inductive == Spec => []IInv
  <1>1. ASSUME Init PROVE IInv
    <2>1. TypeOK
      <3>1. pc \in [Threads -> Labels]
        BY <1>1 DEF Init, Labels
      <3>2. queue \in Seq({"begin", "redial"})
        BY <1>1 DEF Init
      <3>3. raised \subseteq Latches
        BY <1>1 DEF Init, Latches
      <3>4. 0 \in 0..MaxSessions
        BY LadderAssumption
      <3>5. QED BY <1>1, <3>1, <3>2, <3>3, <3>4, FirstRung DEF Init, TypeOK
    <2>2. WorkerInv /\ NeverStalled /\ CleanInv
      BY <1>1 DEF Init, WorkerInv, NeverStalled, Connecting, CleanInv, Clean
    <2>3. QED BY <2>1, <2>2 DEF IInv
  <1>2. ASSUME IInv, Next PROVE IInv'
    <2>1. TypeOK' /\ WorkerInv'
      BY <1>2, NextCases, TypeMain, TypeLadder, TypeWorker, TypeCall, TypeCallback DEF IInv
    <2>2. NeverStalled'
      BY <1>2, NextCases, StallMain, StallLadder, StallWorker, StallCall, StallCallback
      DEF IInv
    <2>3. CleanInv'
      BY <1>2, NextCases, CleanMain, CleanLadder, CleanWorker, CleanCall, CleanCallback
      DEF IInv
    <2>4. QED BY <2>1, <2>2, <2>3 DEF IInv
  <1>3. ASSUME IInv, UNCHANGED vars PROVE IInv'
    BY <1>3 DEF IInv, CleanInv, Clean, CleanParts, PlaceInv, TokenInv, LiveInv, RegionInv, Walked,
        Dialled, Back, Excused, Escalating, WorkerInv, NeverStalled, Connecting, Underway,
        TypeOK, Labels, StopLabels, Detaching, Forgetting, Closing, vars, latches, rungs,
        path, library, generations, work, history
  <1>4. QED BY <1>1, <1>2, <1>3, PTL DEF Spec

\* Every variable keeps its type; the rung and the count of attempts stay
\* within the ladder.
THEOREM TypeCorrect == Spec => []TypeOK
  BY Inductive, PTL DEF IInv

\* A claimed session that is neither routed nor stopped has a job, an armed
\* rung or a call under way that moves it on (NeverStalled).
THEOREM NeverStalledHolds == Spec => []NeverStalled
  BY Inductive, PTL DEF IInv

\* A session that found nothing left over never has a controller beside the one
\* of its handle, however often the ladder has replaced it (OneController).
THEOREM OneControllerHolds == Spec => []OneController
  <1>1. IInv => OneController
    BY DEF IInv, CleanInv, Clean, CleanParts, LiveInv, OneController
  <1>2. QED BY <1>1, Inductive, PTL

\* A ladder that is exhausted has been walked once round.
LEMMA WalkedRound ==
    ASSUME TypeOK, Walked, Dialled, ~Is("regionPhase"), ladderAttempts + 1 >= Rungs
    PROVE  tried = 0..(Rungs - 1)
  <1>1. ladderAttempts = Rungs - 1
    BY LadderAssumption DEF TypeOK
  <1>2. ASSUME NEW j \in 0..(Rungs - 1) PROVE j \in tried
    <2>1. CASE j = ladderIndex
      BY <2>1 DEF Walked
    <2>2. CASE j # ladderIndex
      <3> DEFINE k == IF j < ladderIndex THEN ladderIndex - j ELSE ladderIndex + Rungs - j
      <3>1. k \in 1..ladderAttempts /\ Back(ladderIndex, k) = j
        BY <1>1, <2>2, LadderAssumption DEF TypeOK, Back
      <3>2. QED BY <3>1 DEF Walked
    <2>3. QED BY <2>1, <2>2
  <1>3. QED BY <1>2 DEF TypeOK

\* A session that found nothing left over gives up only when every rung was
\* dialled to all countries (EveryRungTried).
THEOREM EveryRungTriedHolds == Spec => EveryRungTried
  <1> DEFINE Step == \A t \in Threads :
                       fresh /\ ~Is("stopRequested") /\ Exhausted(t) => tried = 0..(Rungs - 1)
  <1>1. ASSUME IInv PROVE Step
    <2> SUFFICES ASSUME NEW t \in Threads, fresh, ~Is("stopRequested"), Exhausted(t)
                 PROVE  tried = 0..(Rungs - 1)
      OBVIOUS
    <2>1. At(t, "escalated") /\ ~Is("regionPhase") /\ ladderAttempts + 1 >= Rungs
      BY DEF Exhausted
    <2>2. TypeOK /\ CleanParts
      BY <1>1 DEF IInv, CleanInv, Clean
    <2>3. ladderAttempts # 0
      BY <2>1, <2>2, LadderAssumption DEF TypeOK
    <2>4. t \in Controllers \/ t = "ladder"
      BY <2>1, <2>2 DEF CleanParts, PlaceInv, WorkerLabels
    <2>5. ~Excused
      BY <2>1, <2>3, <2>4 DEF Excused, Escalating
    <2>6. Walked /\ Dialled
      BY <2>1, <2>2, <2>5 DEF CleanParts, Dialled
    <2>7. QED BY <2>1, <2>2, <2>6, WalkedRound
  <1>2. QED BY <1>1, Inductive, PTL DEF EveryRungTried
=============================================================================
