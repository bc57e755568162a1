---------------------------- MODULE MCVpnSession ----------------------------
(***************************************************************************)
(* Instances of VpnSession for TLC; the .cfg files set the preferences.    *)
(*                                                                         *)
(* Below are further promises that comments of the source make and the     *)
(* model refutes. They have no .cfg of their own: naming one of them in    *)
(* MCVpnSession.cfg in place of its properties shows what breaks it, and   *)
(* the README describes each.                                              *)
(***************************************************************************)
EXTENDS VpnSession

Unattended == /\ Settled
              /\ "retry" \notin timers
              /\ \A k \in {"quick", "again"} : restarts[k] = 0

\* "Only a drop arms this - never a first connect that failed"
\* (sealWithKillSwitch): a seal means that some tunnel had carried traffic
\* since the user connected.
SealOnlyAfterDrop == Is("killSwitchSealed") => verified # {}

\* "Keeping the service alive is a precondition of the seal" (failAndStop):
\* a service sealed after a drop has not stopped itself.
SealKeepsService ==
    Is("killSwitchSealed") /\ verified # {} /\ ~Is("userInitiatedStop") => svc = "up"

\* The seal is "cleared on a verified connect" (killSwitchSealed): the step
\* that publishes CONNECTED leaves it cleared.
SealEndsOnConnect == [][Publish => "killSwitchSealed" \notin raised']_vars

\* "Keep the service alive and schedule another attempt" (failAndStop): a
\* pending auto-reconnect has a service to run in.
RetryKeepsService == "retry" \in timers => svc = "up"

\* While the pause latch says "the tunnel is down but the session is alive",
\* no session starts: Connect and Reconnect clear the latch first.
PauseHolds ==
    [][sessionGeneration' # sessionGeneration => "paused" \notin raised']_vars

\* Auto-reconnect goes on "until it works or the user intervenes"
\* (scheduleAutoReconnect): the UI does not show CONNECTING while no session
\* runs and none is scheduled.
NoIdleSpinner == status = "connecting" /\ svc = "up" /\ ~Is("paused") => ~Unattended

\* "The tunnel must be gone" after stopTunnel (ACTION_RESET_IDENTITIES): a
\* destroyed service whose threads are done leaves no core running.
StopTakesCore == svc = "down" /\ Settled => "core" \notin running

\* "Synchronously close the TUN and tear down the service here" (stopTunnel),
\* against "the TUN established and the VPN key on screen while the data path was
\* already dead": no routing interface outlives its session. An engine's duplicate
\* of the descriptor does, and one that a stop's `tun = null` overwrites.
NoTunWithoutSession == tun = "live" => SessionOpen

\* The same promise for good: after a user's stop the interface goes down.
TunGoesDown == <>[]Is("userInitiatedStop") => <>[](tun = "none")

\* "A teardown block that runs late can recognise that a newer session has taken
\* over and keep its hands off the lifecycle" (startTunnel): the finally block
\* ends the service, seals or schedules only when no later startTunnel has
\* claimed the service.
NewerSession ==
    \/ \E i \in 1..Len(queue) : queue[i] > generation
    \/ \E t \in Starters : pc[t] \in Launching /\ claim[t] > generation
LateTeardownHarmless ==
    [][(FinalSeals \/ FinalRetries \/ FinalStops) => ~NewerSession]_vars

\* "Dropping the latch here is what makes a failed connect survivable" (the catch
\* of the worker), for every start that fails: `connected` always has an owner.
ClaimHasOwner ==
    Is("connected") /\ svc # "down" => Starting \/ queue # <<>> \/ SessionOpen
=============================================================================
