------------------------ MODULE VpnSession_proofs ------------------------
(***************************************************************************)
(* What TLAPS proves of VpnSession for every number of sessions, intents   *)
(* and rungs and for every set of preferences.                             *)
(*                                                                         *)
(* Type correctness comes first, one lemma per group of variables. The     *)
(* other theorems rest on one inductive invariant, IInv: the typing,       *)
(* SitesInv (the worker's only way into stopTunnel), TunInv, which says    *)
(* that a session past the close of its finally holds no routing           *)
(* interface, and ClaimInv, which says more of the claim's owner than      *)
(* NoStuckClaim does: a ladder that throws out of startTunnel must not be  *)
(* the only owner of a claim that a newer startTunnel has made meanwhile.  *)
(***************************************************************************)
EXTENDS VpnSession, SequenceTheorems, TLAPS

ClaimOwned ==
    \/ pc["main"] \in Launching
    \/ pc["ladder"] \in Launching /\ claim["ladder"] = sessionGeneration
    \/ queue # <<>>
    \/ SessionOpen
    \/ sessionGeneration \in refused

ClaimInv == Is("connected") /\ svc # "down" => ClaimOwned

\* A routing interface the service holds.
Held == tun = "live" /\ handle = "open"

\* The worker is past the close of its finally.
PastClose == pc["worker"] \in {"forget", "drop", "idle", "decide", "seal", "again", "end"}

TunInv == Held => ~PastClose

\* The worker enters stopTunnel through failAndStop only.
SitesInv == pc["worker"] \in StopSites => pc["worker"] \in {"failed", "failedSealed"}

IInv == TypeOK /\ SitesInv /\ ClaimInv /\ TunInv

-----------------------------------------------------------------------------
(* Typing, variable by variable *)

\* Intents, onRevoke and onDestroy keep every variable in its type.
LEMMA MainTyped ==
    ASSUME TypeOK, MainStep
    PROVE  TypeOK'
<1> USE DEF TypeOK, MainStep, Connect, Disconnect, CancelConnect,
            ResetIdentities, Revoke, Pause, ReconnectLive, ReconnectIdle,
            Destroy, UserStop, Intent, StartClaim, StopBegin,
            cancelAutoReconnect, Goto, Keep, net, path, sched, work, starts,
            outside
<1>1. raised' \subseteq Latches
  BY DEF Latches
<1>2. /\ tun' \in {"none", "live", "block"} /\ handle' \in {"null", "open", "closed"}
      /\ copies' \subseteq {"engine", "lost"} /\ running' \subseteq {"engine", "core"}
  OBVIOUS
<1>3. timers' \subseteq {"watchdog", "retry", "netcb"}
  OBVIOUS
<1>4. restarts' \in [{"quick", "again"} -> Nat]
  OBVIOUS
<1>5. queue' \in Seq(Nat) /\ generation' \in Nat /\ rung' \in 0..MaxRungs
  OBVIOUS
<1>6. claim' \in [Starters -> Nat] /\ sessionGeneration' \in Nat
  OBVIOUS
<1>7. armed' \subseteq Threads /\ prefs' \in Preferences
  OBVIOUS
<1>8. intents' \in Nat
  OBVIOUS
<1>9. pc' \in [Threads -> Labels] /\ phase' \in [Threads -> Phases]
  BY DEF Labels, StopSites, LadderSteps, WorkerSteps, Launching
<1>10. svc' \in {"up", "stopping", "down"}
  OBVIOUS
<1>11. status' \in {"disconnected", "connecting", "connected", "failed"}
  OBVIOUS
<1>12. verified' \subseteq Nat /\ refused' \subseteq Nat
  OBVIOUS
<1>13. QED
  BY <1>1, <1>2, <1>3, <1>4, <1>5, <1>6, <1>7, <1>8, <1>9, <1>10, <1>11, <1>12

\* The watchdog, onTunnelLost and the scheduled restarts do.
LEMMA LadderTyped ==
    ASSUME TypeOK, LadderStep
    PROVE  TypeOK'
<1> USE DEF TypeOK, LadderStep, Restarting, RunRetry, RetryClaims, RunRestart,
            PortWaited, RestartClaims, GoesOn, StartThrows,
            QuickTimesOut, WatchdogTick, LostOffSeals, LostRetrySeals,
            StartClaim, StopBegin, AfterSchedule, rebuildKillSwitchVpn,
            sealWithKillSwitch, stopSelf, Goto, Keep, CloseTun, Closed,
            Establishes, net, path, sched, work, starts, outside
<1>1. raised' \subseteq Latches
  BY DEF Latches
<1>2. /\ tun' \in {"none", "live", "block"} /\ handle' \in {"null", "open", "closed"}
      /\ copies' \subseteq {"engine", "lost"} /\ running' \subseteq {"engine", "core"}
  OBVIOUS
<1>3. timers' \subseteq {"watchdog", "retry", "netcb"}
  OBVIOUS
<1>4. restarts' \in [{"quick", "again"} -> Nat]
  <2>1. \/ restarts' = restarts
        \/ \E k \in {"quick", "again"} :
              restarts[k] > 0 /\ restarts' = [restarts EXCEPT ![k] = @ - 1]
    OBVIOUS
  <2>2. QED
    BY ONLY <2>1, restarts \in [{"quick", "again"} -> Nat]
<1>5. queue' \in Seq(Nat) /\ generation' \in Nat /\ rung' \in 0..MaxRungs
  OBVIOUS
<1>6. claim' \in [Starters -> Nat] /\ sessionGeneration' \in Nat
  <2>1. \/ UNCHANGED <<claim, sessionGeneration>>
        \/ /\ sessionGeneration' = sessionGeneration + 1
           /\ claim' = [claim EXCEPT !["ladder"] = sessionGeneration + 1]
    OBVIOUS
  <2>2. QED
    BY ONLY <2>1, claim \in [Starters -> Nat], sessionGeneration \in Nat
<1>7. armed' \subseteq Threads
  BY DEF Threads
<1>8. prefs' \in Preferences /\ intents' \in Nat
  OBVIOUS
<1>9. pc' \in [Threads -> Labels] /\ phase' \in [Threads -> Phases]
  BY DEF Labels, StopSites, LadderSteps, WorkerSteps, Launching
<1>10. svc' \in {"up", "stopping", "down"}
  OBVIOUS
<1>11. status' \in {"disconnected", "connecting", "connected", "failed"}
  OBVIOUS
<1>12. verified' \subseteq Nat /\ refused' \subseteq Nat
  <2>1. refused' = refused \/ refused' = refused \cup {claim["ladder"]}
    OBVIOUS
  <2>2. claim["ladder"] \in Nat
    BY DEF Starters
  <2>3. refused' \subseteq Nat
    BY <2>1, <2>2
  <2>4. verified' \subseteq Nat
    OBVIOUS
  <2>5. QED
    BY <2>3, <2>4
<1>13. QED
  BY <1>1, <1>2, <1>3, <1>4, <1>5, <1>6, <1>7, <1>8, <1>9, <1>10, <1>11, <1>12

\* Only Begin takes a session from the queue; every other step of the worker
\* leaves the queue, the generation, the restarts and the starters alone.
LEMMA WorkerFrame ==
    ASSUME WorkerStep
    PROVE  /\ Begin \/ UNCHANGED <<queue, generation>>
           /\ UNCHANGED <<restarts, claim, sessionGeneration, prefs, intents, phase,
                          refused>>
<1> USE DEF Quiet, Moves, Caught, StopBegin, work, sched, starts, outside
<1>1. Begin => UNCHANGED <<restarts, claim, sessionGeneration, prefs, intents, phase,
                          refused>>
  BY DEF Begin
<1>2. ASSUME ~Begin
      PROVE  UNCHANGED <<queue, generation, restarts, claim, sessionGeneration,
                         prefs, intents, phase, refused>>
  BY <1>2 DEF WorkerStep, Prepare, SidecarFails, FailedInReconnect, AfterFailed,
     Rung, Establish, EstablishThrows, StartEngine, EngineFails, FallForget,
     Fallback, TunGone, StartCore, StartedTooLate, CheckStart, SocksAnswers,
     WaitEnds, Publish, PublishThrows, Poll, Teardown, RungForget, Exhausted,
     FinalClose, FinalForget, FinalDrop, FinalDecide, FinalSeals, FinalRetries,
     FinalStops
<1>3. QED
  BY <1>1, <1>2

\* The worker's session does.
LEMMA WorkerTyped ==
    ASSUME TypeOK, WorkerStep
    PROVE  TypeOK'
<1>1. queue' \in Seq(Nat) /\ generation' \in Nat
  <2>1. CASE Begin
    BY <2>1 DEF Begin, TypeOK
  <2>2. CASE UNCHANGED <<queue, generation>>
    BY <2>2 DEF TypeOK
  <2>3. QED
    BY <2>1, <2>2, WorkerFrame
<1>2. /\ restarts' \in [{"quick", "again"} -> Nat]
      /\ claim' \in [Starters -> Nat] /\ sessionGeneration' \in Nat
      /\ prefs' \in Preferences /\ intents' \in Nat
      /\ phase' \in [Threads -> Phases] /\ refused' \subseteq Nat
  BY WorkerFrame DEF TypeOK
<1> USE DEF TypeOK, WorkerStep, Begin, Prepare, SidecarFails,
            FailedInReconnect, AfterFailed, Rung, Establish, EstablishThrows,
            StartEngine, EngineFails, FallForget, Fallback, TunGone, StartCore,
            StartedTooLate, CheckStart, SocksAnswers, WaitEnds, Publish,
            PublishThrows, Poll, Teardown, RungForget, Exhausted, FinalClose,
            FinalForget, FinalDrop, FinalReads, FinalDecide, FinalSeals,
            FinalRetries, FinalStops, Quiet, Caught, NextRung, Moves, StopBegin,
            AfterSchedule, rebuildKillSwitchVpn, sealWithKillSwitch, stopSelf,
            Goto, Keep, CloseTun, ForgetTun, Closed, Establishes, net, path,
            sched, work
<1>3. raised' \subseteq Latches
  BY DEF Latches
<1>4. /\ tun' \in {"none", "live", "block"} /\ handle' \in {"null", "open", "closed"}
      /\ copies' \subseteq {"engine", "lost"} /\ running' \subseteq {"engine", "core"}
  OBVIOUS
<1>5. timers' \subseteq {"watchdog", "retry", "netcb"}
  OBVIOUS
<1>6. rung' \in 0..MaxRungs
  BY BoundsAssumption
<1>7. armed' \subseteq Threads
  BY DEF Threads
<1>8. pc' \in [Threads -> Labels]
  BY DEF Labels, StopSites, LadderSteps, WorkerSteps, Launching
<1>9. svc' \in {"up", "stopping", "down"}
  OBVIOUS
<1>10. status' \in {"disconnected", "connecting", "connected", "failed"}
  OBVIOUS
<1>11. verified' \subseteq Nat
  OBVIOUS
<1>12. QED
  BY <1>1, <1>2, <1>3, <1>4, <1>5, <1>6, <1>7, <1>8, <1>9, <1>10, <1>11

\* The ends of stopTunnel and startTunnel, and the environment, do.
LEMMA SharedTyped ==
    ASSUME TypeOK, SharedStep
    PROVE  TypeOK'
<1> USE DEF TypeOK, Goto, InPhase, Phases, net, path, sched, work, starts, outside
<1>1. ASSUME NEW t \in Threads, StopCloses(t) \/ StopForgets(t) \/ StopDrops(t)
      PROVE  TypeOK'
  BY <1>1 DEF StopCloses, StopForgets, StopDrops, Keep, CloseTun, ForgetTun, Closed
<1>2. ASSUME NEW t \in Threads, StopEnds(t)
      PROVE  TypeOK'
  <2> USE <1>2 DEF StopEnds
  <2>1. timers' \subseteq {"watchdog", "retry", "netcb"} /\ queue' \in Seq(Nat)
    <3>1. timers' = timers \/ timers' = timers \ {"watchdog", "retry"}
      OBVIOUS
    <3>2. queue' = queue \/ queue' = <<>>
      OBVIOUS
    <3>3. timers' \subseteq {"watchdog", "retry", "netcb"}
      BY <3>1 DEF TypeOK
    <3>4. queue \in Seq(Nat)
      OBVIOUS
    <3>5. queue' \in Seq(Nat)
      <4>1. <<>> \in Seq(Nat)
        BY EmptySeq, Zenon
      <4>2. QED
        BY ONLY <3>2, <3>4, <4>1, Zenon
    <3>6. QED
      BY <3>3, <3>5
  <2>2. restarts' \in [{"quick", "again"} -> Nat]
    <3>1. \/ restarts' = restarts
          \/ restarts' = [k \in {"quick", "again"} |-> 0]
          \/ restarts' = [restarts EXCEPT !["quick"] = @ + 1]
      OBVIOUS
    <3>2. QED
      BY ONLY <3>1, restarts \in [{"quick", "again"} -> Nat]
  <2>3. svc' \in {"up", "stopping", "down"}
    BY DEF stopSelf
  <2>4. pc' \in [Threads -> Labels]
    BY DEF Labels, LadderSteps, WorkerSteps
  <2>5. phase' \in [Threads -> Phases]
    OBVIOUS
  <2>6. QED
    BY <2>1, <2>2, <2>3, <2>4, <2>5
<1>3. ASSUME NEW t \in Starters, StartLaunch(t)
      PROVE  TypeOK'
  <2> USE <1>3 DEF StartLaunch
  <2>1. claim[t] \in Nat /\ queue \in Seq(Nat)
    OBVIOUS
  <2>2. queue' \in Seq(Nat)
    BY <2>1
  <2>3. pc' \in [Threads -> Labels]
    BY DEF Labels
  <2>4. QED
    BY <2>2, <2>3
<1>4. CASE NetworkAvailable
  BY <1>4 DEF NetworkAvailable
<1>5. CASE ChangePreferences
  BY <1>5 DEF ChangePreferences
<1>6. CASE CoreDies \/ Finalized
  BY <1>6 DEF CoreDies, Finalized, Keep
<1>7. QED
  BY <1>1, <1>2, <1>3, <1>4, <1>5, <1>6 DEF SharedStep, StopFinish

\* Typing is preserved by every step.
LEMMA TypeStep ==
    ASSUME TypeOK, [Next]_vars
    PROVE  TypeOK'
<1>1. CASE UNCHANGED vars
  BY <1>1 DEF vars, TypeOK, net, path, sched, work, starts, outside
<1>2. QED
  BY <1>1, MainTyped, LadderTyped, WorkerTyped, SharedTyped DEF Next

-----------------------------------------------------------------------------
(* The claim and the interface have an owner *)

\* A step of main or of the ladder leaves the worker and its queue where they
\* are. The claim it finds owned it leaves owned, and it raises `connected` only
\* with an owner. It establishes no routing interface.
LEMMA StarterFrame ==
    ASSUME TypeOK, MainStep \/ LadderStep
    PROVE  /\ pc'["worker"] = pc["worker"]
           /\ ClaimOwned => ClaimOwned'
           /\ "connected" \in raised' => "connected" \in raised \/ ClaimOwned'
           /\ Held' => Held
           /\ svc = "down" => svc' = "down"
<1> USE DEF TypeOK, StartClaim, StopBegin, Goto, At, Starters, Threads, Launching,
            StopSites, Keep, net, path, sched, work, starts, outside
<1>1. CASE MainStep
  <2> USE <1>1 DEF MainStep, Connect, Disconnect, CancelConnect,
            ResetIdentities, Revoke, Pause, ReconnectLive, ReconnectIdle,
            Destroy, UserStop, Intent
  <2>1. pc'["worker"] = pc["worker"] /\ queue' = queue /\ refused' = refused
    OBVIOUS
  <2>2. /\ pc["main"] = "idle"
        /\ pc'["main"] \in Launching \/ UNCHANGED <<claim, sessionGeneration>>
        /\ pc'["ladder"] = pc["ladder"]
    OBVIOUS
  <2>3. ClaimOwned => ClaimOwned'
    BY ONLY <2>1, <2>2 DEF ClaimOwned, Launching, SessionOpen
  <2>4. "connected" \in raised' => "connected" \in raised \/ pc'["main"] \in Launching
    <3>1. CASE Connect
      <4>1. CASE "connected" \in raised
        BY <4>1
      <4>2. CASE "connected" \notin raised
        BY <3>1, <4>2
      <4>3. QED
        BY <4>1, <4>2
    <3>2. CASE ReconnectIdle
      BY <3>2
    <3>3. CASE ~Connect /\ ~ReconnectIdle
      BY <3>3
    <3>4. QED
      BY <3>1, <3>2, <3>3
  <2>5. Held' => Held
    BY DEF Held
  <2>6. svc' = svc
    OBVIOUS
  <2>7. QED
    BY <2>1, <2>3, <2>4, <2>5, <2>6 DEF ClaimOwned
<1>2. CASE LadderStep
  <2> USE <1>2 DEF LadderStep, Restarting, RunRetry, RetryClaims, RunRestart,
            PortWaited, RestartClaims, GoesOn, StartThrows,
            QuickTimesOut, WatchdogTick, LostOffSeals, LostRetrySeals,
            rebuildKillSwitchVpn, sealWithKillSwitch, stopSelf, CloseTun, Closed,
            Establishes
  <2>1. /\ pc'["worker"] = pc["worker"] /\ queue' = queue
        /\ pc'["main"] = pc["main"] /\ refused \subseteq refused'
    OBVIOUS
  <2>2. \/ pc'["ladder"] \in Launching /\ claim'["ladder"] = sessionGeneration'
        \/ /\ UNCHANGED <<claim, sessionGeneration>>
           /\ pc["ladder"] \notin Launching \/ claim["ladder"] \in refused'
    OBVIOUS
  <2>3. ClaimOwned => ClaimOwned'
    BY ONLY <2>1, <2>2 DEF ClaimOwned, SessionOpen
  <2>4. "connected" \in raised' =>
           "connected" \in raised
             \/ (pc'["ladder"] \in Launching /\ claim'["ladder"] = sessionGeneration')
    OBVIOUS
  <2>5. Held' => Held
    BY DEF Held
  <2>6. svc = "down" => svc' = "down"
    OBVIOUS
  <2>7. QED
    BY <2>1, <2>3, <2>4, <2>5, <2>6 DEF ClaimOwned
<1>3. QED
  BY <1>1, <1>2

\* The steps of a session whose finally has dropped the claim.
Deciding == FinalDecide \/ FinalSeals \/ FinalRetries \/ FinalStops

\* A step of the worker leaves the starters where they are, and either its
\* session is still open, or the step dropped its claim, or it came after that.
LEMMA WorkerEnds ==
    ASSUME TypeOK, WorkerStep
    PROVE  /\ \A t \in Starters : pc'[t] = pc[t]
           /\ svc = "down" => svc' = "down"
           /\ SessionOpen' \/ FinalDrop \/ Deciding
<1> USE DEF TypeOK, WorkerStep, Begin, Prepare, SidecarFails,
            FailedInReconnect, AfterFailed, Rung, Establish, EstablishThrows,
            StartEngine, EngineFails, FallForget, Fallback, TunGone, StartCore,
            StartedTooLate, CheckStart, SocksAnswers, WaitEnds, Publish,
            PublishThrows, Poll, Teardown, RungForget, Exhausted, FinalClose,
            FinalForget, Caught, NextRung, Moves, StopBegin,
            rebuildKillSwitchVpn, stopSelf, Goto, At, Threads, path
<1>1. \A t \in Starters : pc'[t] = pc[t]
  BY DEF FinalDrop, FinalDecide, FinalSeals, FinalRetries, FinalStops, Starters
<1>2. svc = "down" => svc' = "down"
  BY DEF FinalDrop, FinalDecide, FinalSeals, FinalRetries, FinalStops,
         sealWithKillSwitch
<1>3. SessionOpen' \/ FinalDrop \/ Deciding
  BY DEF SessionOpen, Deciding, StopSites
<1>4. QED
  BY <1>1, <1>2, <1>3

\* Those last steps start from a closed session, claim nothing and establish at
\* most the blocking interface.
LEMMA DecidingFrame ==
    ASSUME TypeOK, Deciding
    PROVE  /\ ~SessionOpen
           /\ UNCHANGED <<queue, claim, sessionGeneration, refused>>
           /\ "connected" \in raised' => "connected" \in raised
           /\ Held' => Held
BY DEF Held, TypeOK, Deciding, FinalDecide, FinalSeals, FinalRetries, FinalStops, At,
       SessionOpen, Quiet, sealWithKillSwitch, rebuildKillSwitchVpn, Keep, CloseTun,
       Closed, Establishes, net, path, starts

\* The worker's way into stopTunnel.
LEMMA SitesStep ==
    ASSUME TypeOK, SitesInv, [Next]_vars
    PROVE  SitesInv'
<1> USE DEF SitesInv
<1>1. CASE MainStep \/ LadderStep
  BY <1>1, StarterFrame
<1>2. CASE WorkerStep
  BY <1>2 DEF TypeOK, WorkerStep, Begin, Prepare, SidecarFails,
            FailedInReconnect, AfterFailed, Rung, Establish, EstablishThrows,
            StartEngine, EngineFails, FallForget, Fallback, TunGone, StartCore,
            StartedTooLate, CheckStart, SocksAnswers, WaitEnds, Publish,
            PublishThrows, Poll, Teardown, RungForget, Exhausted, FinalClose,
            FinalForget, FinalDrop, FinalDecide, FinalSeals, FinalRetries,
            FinalStops, Caught, NextRung, Moves, StopBegin, Goto, Threads, StopSites
<1>3. CASE SharedStep
  <2>1. ASSUME NEW t \in Threads, StopFinish(t)
        PROVE  SitesInv'
    BY <2>1 DEF StopFinish, StopCloses, StopForgets, StopDrops, StopEnds, Goto,
                TypeOK, Threads, StopSites
  <2>2. ASSUME NEW t \in Starters, StartLaunch(t)
        PROVE  SitesInv'
    BY <2>2 DEF StartLaunch, Goto, TypeOK, Starters, Threads
  <2>3. QED
    BY <1>3, <2>1, <2>2 DEF SharedStep, NetworkAvailable, ChangePreferences, CoreDies,
       Finalized
<1>4. QED
  BY <1>1, <1>2, <1>3 DEF Next, vars

\* The end of a stopTunnel on the worker is not the end of its session.
LEMMA StopEndsOpen ==
    ASSUME TypeOK, SitesInv, NEW t \in Threads, StopEnds(t)
    PROVE  /\ SessionOpen => SessionOpen'
           /\ PastClose' => PastClose
<1>1. CASE t = "worker"
  <2>1. pc["worker"] \in {"failed", "failedSealed"}
    BY <1>1 DEF StopEnds, InPhase, SitesInv
  <2>2. pc'["worker"] \in {"afterFailed", "afterFailedSealed"}
    BY <1>1, <2>1 DEF StopEnds, Goto, At, TypeOK, Threads
  <2>3. QED
    BY <2>2 DEF SessionOpen, PastClose
<1>2. CASE t # "worker"
  BY <1>2 DEF StopEnds, Goto, TypeOK, Threads, SessionOpen, PastClose
<1>3. QED
  BY <1>1, <1>2

\* The claim keeps an owner.
LEMMA ClaimStep ==
    ASSUME TypeOK, SitesInv, ClaimInv, [Next]_vars
    PROVE  ClaimInv'
<1> USE DEF ClaimInv, Is
<1>1. CASE MainStep \/ LadderStep
  BY <1>1, StarterFrame
<1>2. CASE WorkerStep
  <2>1. CASE FinalDrop
    BY <2>1 DEF FinalDrop
  <2>2. CASE Deciding
    <3>1. pc'["main"] = pc["main"] /\ pc'["ladder"] = pc["ladder"]
      BY <1>2, WorkerEnds DEF Starters
    <3>2. svc = "down" => svc' = "down"
      BY <1>2, WorkerEnds
    <3>3. /\ ~SessionOpen
          /\ UNCHANGED <<queue, claim, sessionGeneration, refused>>
          /\ "connected" \in raised' => "connected" \in raised
      BY <2>2, DecidingFrame
    <3>4. ClaimOwned => ClaimOwned'
      BY <3>1, <3>3 DEF ClaimOwned, Launching
    <3>5. QED
      BY <3>2, <3>3, <3>4
  <2>3. QED
    BY <1>2, <2>1, <2>2, WorkerEnds DEF ClaimOwned
<1>3. CASE SharedStep
  <2>1. ASSUME NEW t \in Threads, StopCloses(t) \/ StopForgets(t)
        PROVE  ClaimInv'
    BY <2>1 DEF StopCloses, StopForgets, ClaimOwned, SessionOpen, work, starts
  <2>2. ASSUME NEW t \in Threads, StopDrops(t)
        PROVE  ClaimInv'
    BY <2>2 DEF StopDrops
  <2>3. ASSUME NEW t \in Threads, StopEnds(t)
        PROVE  ClaimInv'
    <3>1. CASE At(t, "destroy")
      <4>1. svc' = "down"
        BY <2>3, <3>1 DEF StopEnds, At
      <4>2. QED
        BY <4>1
    <3>2. CASE ~At(t, "destroy")
      <4>1. pc[t] \in StopSites
        BY <2>3 DEF StopEnds, InPhase
      <4>2. /\ queue' = queue /\ raised' = raised /\ refused' = refused
            /\ svc = "down" => svc' = "down"
            /\ UNCHANGED <<claim, sessionGeneration>>
        BY <2>3, <3>2, <4>1 DEF StopEnds, stopSelf, starts, sched, At, StopSites
      <4>3. ASSUME NEW s \in Threads, pc[s] \in Launching
            PROVE  pc'[s] = pc[s]
        BY <2>3, <4>1, <4>3 DEF StopEnds, Goto, TypeOK, StopSites, Launching
      <4>4. SessionOpen => SessionOpen'
        BY <2>3, StopEndsOpen
      <4>5. ClaimOwned => ClaimOwned'
        BY <4>2, <4>3, <4>4 DEF ClaimOwned, Threads
      <4>6. QED
        BY <4>2, <4>5
    <3>3. QED
      BY <3>1, <3>2
  <2>4. ASSUME NEW t \in Starters, StartLaunch(t)
        PROVE  ClaimInv'
    <3>1. queue' # <<>>
      BY <2>4 DEF StartLaunch, TypeOK
    <3>2. QED
      BY <3>1 DEF ClaimOwned
  <2>5. CASE NetworkAvailable \/ ChangePreferences \/ CoreDies \/ Finalized
    BY <2>5 DEF NetworkAvailable, ChangePreferences, CoreDies, Finalized, ClaimOwned,
       SessionOpen, starts, work
  <2>6. QED
    BY <1>3, <2>1, <2>2, <2>3, <2>4, <2>5 DEF SharedStep, StopFinish
<1>4. CASE UNCHANGED vars
  BY <1>4 DEF vars, work, starts, SessionOpen, ClaimOwned
<1>5. QED
  BY <1>1, <1>2, <1>3, <1>4 DEF Next

\* The routing interface keeps its session.
LEMMA TunStep ==
    ASSUME TypeOK, SitesInv, TunInv, [Next]_vars
    PROVE  TunInv'
<1> USE DEF TunInv
<1>1. CASE MainStep \/ LadderStep
  BY <1>1, StarterFrame DEF PastClose
<1>2. CASE WorkerStep
  <2>1. CASE FinalDrop
    BY <2>1 DEF FinalDrop, Held, PastClose, At, path, net
  <2>2. CASE Deciding
    <3>1. PastClose
      BY <2>2 DEF Deciding, FinalDecide, FinalSeals, FinalRetries, FinalStops, At,
                  PastClose
    <3>2. QED
      BY <2>2, <3>1, DecidingFrame
  <2>3. CASE FinalClose \/ FinalForget
    BY <2>3 DEF FinalClose, FinalForget, CloseTun, ForgetTun, Closed, Keep, Held
  <2>4. CASE ~(FinalDrop \/ Deciding \/ FinalClose \/ FinalForget)
    BY <1>2, <2>4 DEF TypeOK, WorkerStep, Begin, Prepare, SidecarFails,
            FailedInReconnect, AfterFailed, Rung, Establish, EstablishThrows,
            StartEngine, EngineFails, FallForget, Fallback, TunGone, StartCore,
            StartedTooLate, CheckStart, SocksAnswers, WaitEnds, Publish,
            PublishThrows, Poll, Teardown, RungForget, Exhausted, Caught,
            NextRung, Moves, StopBegin, Goto, Threads, Deciding, PastClose
  <2>5. QED
    BY <2>1, <2>2, <2>3, <2>4
<1>3. CASE SharedStep
  <2>1. ASSUME NEW t \in Threads, StopCloses(t) \/ StopForgets(t)
        PROVE  TunInv'
    BY <2>1 DEF StopCloses, StopForgets, CloseTun, ForgetTun, Closed, Keep, Held,
                PastClose
  <2>2. ASSUME NEW t \in Threads, StopDrops(t)
        PROVE  TunInv'
    BY <2>2 DEF StopDrops, Held, PastClose, path, net
  <2>3. ASSUME NEW t \in Threads, StopEnds(t)
        PROVE  TunInv'
    <3>1. Held' = Held
      BY <2>3 DEF StopEnds, Held, path, net
    <3>2. PastClose' => PastClose
      BY <2>3, StopEndsOpen
    <3>3. QED
      BY <3>1, <3>2
  <2>4. ASSUME NEW t \in Starters, StartLaunch(t)
        PROVE  TunInv'
    BY <2>4 DEF StartLaunch, Goto, TypeOK, Starters, Threads, Held, PastClose, path, net
  <2>5. CASE NetworkAvailable \/ ChangePreferences \/ CoreDies \/ Finalized
    BY <2>5 DEF NetworkAvailable, ChangePreferences, CoreDies, Finalized, Keep, Held,
       PastClose, path, net
  <2>6. QED
    BY <1>3, <2>1, <2>2, <2>3, <2>4, <2>5 DEF SharedStep, StopFinish
<1>4. CASE UNCHANGED vars
  BY <1>4 DEF vars, net, path, Held, PastClose
<1>5. QED
  BY <1>1, <1>2, <1>3, <1>4 DEF Next

-----------------------------------------------------------------------------
(* The theorems *)

\* A service that has just been created satisfies the invariant.
LEMMA InitIInv == Init => IInv
BY BoundsAssumption, EnvironmentAssumption
   DEF Init, IInv, TypeOK, SitesInv, StopSites, ClaimInv, TunInv, Held, Latches, Labels, Phases,
       Threads, Starters, Is

\* Every step keeps it.
LEMMA StepIInv == IInv /\ [Next]_vars => IInv'
BY TypeStep, SitesStep, ClaimStep, TunStep DEF IInv

\* The invariant holds throughout.
LEMMA Inductive == Spec => []IInv
BY InitIInv, StepIInv, PTL DEF Spec

\* Type correctness: every variable stays in its type, and in particular
\* runWarpWithMtuRetry never runs past the last rung of its ladder.
THEOREM TypeCorrect == Spec => []TypeOK
<1>1. IInv => TypeOK
  BY DEF IInv
<1>2. QED
  BY <1>1, Inductive, PTL

\* Whatever the intents, the retries and the late finally blocks do, `connected`
\* is only set while somebody will clear it, or Android threw out of the newest
\* startTunnel: nothing else gets the service into the state in which every later
\* startTunnel returns at once.
THEOREM NoStuckClaimHolds == Spec => []NoStuckClaim
<1>1. IInv => NoStuckClaim
  BY DEF IInv, ClaimInv, ClaimOwned, NoStuckClaim, Starting, Starters
<1>2. QED
  BY <1>1, Inductive, PTL

\* A routing interface the service holds belongs to a session whose finally is
\* to come.
THEOREM HeldTunHasSessionHolds == Spec => []HeldTunHasSession
<1>1. IInv => HeldTunHasSession
  BY DEF IInv, TunInv, Held, PastClose, HeldTunHasSession, SessionOpen
<1>2. QED
  BY <1>1, Inductive, PTL
=============================================================================
