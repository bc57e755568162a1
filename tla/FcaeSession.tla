---------------------------- MODULE FcaeSession ----------------------------
(* The supervisor of src/core/fcae-ffi/runtime/src/session.rs: host threads   *)
(* start, stop, pause and resume the one session; a worker thread runs it     *)
(* (backend, optional Psiphon hop, TUN, reconnects); a reaper joins a stopped *)
(* worker and lifts the barrier that keeps the next start waiting. A step     *)
(* ends where a lock is dropped, a future is awaited or the bridge is called. *)
EXTENDS Naturals

CONSTANTS
    Callers,       \* host threads
    MaxSessions,   \* bound: how many sessions are ever started
    Chained,       \* psiphon.through_tunnel
    None

Sessions == 1..MaxSessions

ASSUME BoundAssumption == MaxSessions \in Nat
ASSUME ChainedAssumption == Chained \in BOOLEAN
ASSUME NoneAssumption == None \notin Callers \cup Sessions
ASSUME ThreadAssumption == Callers \cap Sessions = {}

VARIABLES
    slot, count,       \* running (0: None), and how many have been started
    stopping,          \* the barrier
    paused, live,      \* tun_paused, live_tun
    control, running,  \* who holds tun_control, who the lock of running
    tun,               \* the bridge: "down", "up", "aborted" (not restored yet)
    state,             \* telemetry (Reconnecting is "Connecting" here)
    wpc, cancelled, failed,  \* a session: its worker, its token, its outcome
    carrier, psi,      \* a session's two handles
    next,              \* where the worker goes once its handles are stopped
    cpc, mine, already,      \* a caller: its place, and what stop() took
    reapers

supervisor == <<slot, count, stopping, paused, live>>
locks == <<control, running>>
worker == <<wpc, cancelled, failed, next>>
handles == <<carrier, psi>>
calls == <<cpc, mine, already>>
vars == <<supervisor, locks, tun, state, worker, handles, calls, reapers>>

Init ==
    /\ slot = 0 /\ count = 0 /\ stopping = FALSE /\ paused = FALSE /\ live = FALSE
    /\ control = None /\ running = None
    /\ tun = "down" /\ state = "Idle"
    /\ wpc = [s \in Sessions |-> "none"]
    /\ cancelled = [s \in Sessions |-> FALSE]
    /\ failed = [s \in Sessions |-> FALSE]
    /\ carrier = [s \in Sessions |-> FALSE] /\ psi = [s \in Sessions |-> FALSE]
    /\ next = [s \in Sessions |-> "guard"]
    /\ cpc = [c \in Callers |-> "idle"] /\ mine = [c \in Callers |-> 0]
    /\ already = [c \in Callers |-> FALSE]
    /\ reapers = {}

Alive(s) == wpc[s] \notin {"none", "finished"}
IsRunning == slot # 0 /\ Alive(slot)

\* TelemetryCell.set_state: an error stays until a connect or a new session.
Show(st) == state' = IF state = "Error" /\ st # "Connected" THEN state ELSE st

\* TunBridge.abort drops the descriptors; routes and DNS are for stop().
Abort == tun' = IF tun = "up" THEN "aborted" ELSE tun

-----------------------------------------------------------------------------
(* Host threads *)

Idle(c) == cpc[c] = "idle"
To(c, p) == cpc' = [cpc EXCEPT ![c] = p]

\* start() holds both locks throughout: it reaps a session that ended by
\* itself, refuses a second one, and spawns the worker.
Start(c) ==
    /\ Idle(c) /\ control = None /\ running = None
    /\ ~stopping /\ ~IsRunning
    /\ \/ /\ count < MaxSessions
          /\ count' = count + 1 /\ slot' = count + 1
          /\ wpc' = [wpc EXCEPT ![count + 1] = "spawned"]
          /\ paused' = FALSE /\ live' = FALSE
          /\ state' = "Provisioning"
       \/ slot # 0 /\ slot' = 0 /\ UNCHANGED <<count, wpc, paused, live, state>>
    /\ UNCHANGED <<stopping, locks, tun, cancelled, failed, next, handles, calls, reapers>>

\* Mutant: the lock is dropped before the descriptors are.
BeginStop_DropsLock(c) ==
    /\ Idle(c) /\ running = None /\ slot # 0 /\ ~stopping
    /\ stopping' = TRUE
    /\ cancelled' = [cancelled EXCEPT ![slot] = TRUE]
    /\ To(c, "begin")
    /\ UNCHANGED <<slot, count, paused, live, locks, tun, state, wpc, failed, next, handles, mine, already, reapers>>

BeginStop(c) ==
    /\ Idle(c) /\ running = None /\ slot # 0 /\ ~stopping
    /\ stopping' = TRUE
    /\ cancelled' = [cancelled EXCEPT ![slot] = TRUE]
    /\ running' = c
    /\ To(c, "begin")
    /\ UNCHANGED <<slot, count, paused, live, control, tun, state, wpc, failed, next, handles, mine, already, reapers>>

BeginStopAborts(c) ==
    /\ cpc[c] = "begin"
    /\ Abort
    /\ running' = IF running = c THEN None ELSE running
    /\ To(c, "idle")
    /\ UNCHANGED <<supervisor, control, state, worker, handles, mine, already, reapers>>

\* stop() takes the worker; without one it leaves the barrier alone.
Stop(c) ==
    /\ Idle(c) /\ running = None /\ slot # 0
    /\ mine' = [mine EXCEPT ![c] = slot]
    /\ already' = [already EXCEPT ![c] = stopping]
    /\ slot' = 0 /\ stopping' = TRUE
    /\ To(c, "cancel")
    /\ UNCHANGED <<count, paused, live, locks, tun, state, worker, handles, reapers>>

StopCancels(c) ==
    /\ cpc[c] = "cancel"
    /\ cancelled' = [cancelled EXCEPT ![mine[c]] = TRUE]
    /\ To(c, IF already[c] THEN "report" ELSE "abort")
    /\ UNCHANGED <<supervisor, locks, tun, state, wpc, failed, next, handles, mine, already, reapers>>

StopAborts(c) ==
    /\ cpc[c] = "abort"
    /\ Abort
    /\ To(c, "report")
    /\ UNCHANGED <<supervisor, locks, state, worker, handles, mine, already, reapers>>

StopReports(c) ==
    /\ cpc[c] = "report"
    /\ Show("Disconnected")
    /\ To(c, "join")
    /\ UNCHANGED <<supervisor, locks, tun, worker, handles, mine, already, reapers>>

\* Mutant: no reaper is spawned.
StopJoins_NoReaper(c) ==
    /\ cpc[c] = "join"
    /\ stopping' = Alive(mine[c])
    /\ To(c, "idle") /\ mine' = [mine EXCEPT ![c] = 0]
    /\ UNCHANGED <<slot, count, paused, live, locks, tun, state, worker, handles, already, reapers>>

\* A worker that is not finished is joined by a reaper thread.
StopJoins(c) ==
    /\ cpc[c] = "join"
    /\ IF Alive(mine[c])
       THEN reapers' = reapers \cup {mine[c]} /\ UNCHANGED stopping
       ELSE stopping' = FALSE /\ UNCHANGED reapers
    /\ To(c, "idle") /\ mine' = [mine EXCEPT ![c] = 0]
    /\ UNCHANGED <<slot, count, paused, live, locks, tun, state, worker, handles, already>>

\* The reaper's join returns.
Reap(s) ==
    /\ s \in reapers /\ ~Alive(s)
    /\ reapers' = reapers \ {s}
    /\ stopping' = FALSE
    /\ UNCHANGED <<slot, count, paused, live, locks, tun, state, worker, handles, calls>>

PauseTun(c) ==
    /\ Idle(c) /\ control = None /\ running = None
    /\ IsRunning /\ ~stopping /\ ~paused
    /\ paused' = TRUE
    /\ tun' = "down"
    /\ UNCHANGED <<slot, count, stopping, live, locks, state, worker, handles, calls, reapers>>

\* Mutant: a second resume starts the bridge again.
ResumeTun_Always(c) ==
    /\ Idle(c) /\ control = None /\ running = None
    /\ IsRunning /\ ~stopping /\ live
    /\ control' = c
    /\ To(c, "raise")
    /\ UNCHANGED <<supervisor, running, tun, state, worker, handles, mine, already, reapers>>

\* resume_tun keeps tun_control while the bridge starts ...
ResumeTun(c) ==
    /\ Idle(c) /\ control = None /\ running = None
    /\ IsRunning /\ ~stopping /\ paused /\ live
    /\ control' = c
    /\ To(c, "raise")
    /\ UNCHANGED <<supervisor, running, tun, state, worker, handles, mine, already, reapers>>

ResumeRaises(c) ==
    /\ cpc[c] = "raise"
    /\ \/ tun' = "up" /\ To(c, "recheck") /\ UNCHANGED control
       \/ control' = None /\ To(c, "idle") /\ UNCHANGED tun
    /\ UNCHANGED <<supervisor, running, state, worker, handles, mine, already, reapers>>

\* Mutant: a stop that came meanwhile is not noticed.
ResumeEnds_NoRecheck(c) ==
    /\ cpc[c] = "recheck" /\ running = None
    /\ paused' = FALSE /\ UNCHANGED tun
    /\ control' = None /\ To(c, "idle")
    /\ UNCHANGED <<slot, count, stopping, live, running, state, worker, handles, mine, already, reapers>>

\* ... and takes the device down again if the session was stopped meanwhile.
ResumeEnds(c) ==
    /\ cpc[c] = "recheck" /\ running = None
    /\ IF stopping \/ ~IsRunning
       THEN tun' = "down" /\ UNCHANGED paused
       ELSE paused' = FALSE /\ UNCHANGED tun
    /\ control' = None /\ To(c, "idle")
    /\ UNCHANGED <<slot, count, stopping, live, running, state, worker, handles, mine, already, reapers>>

-----------------------------------------------------------------------------
(* The worker: run_session *)

At(s, p) == wpc[s] = p
Goto(s, p) == wpc' = [wpc EXCEPT ![s] = p]
Fail(s) == failed' = [failed EXCEPT ![s] = TRUE]

\* The handles are stopped next, and the worker goes to p from there.
Unwind(s, p) == Goto(s, "psi_stop") /\ next' = [next EXCEPT ![s] = p]

\* The new thread finds no runtime to run on: nothing was started.
RuntimeFails(s) ==
    /\ At(s, "spawned")
    /\ state' = "Error"
    /\ Goto(s, "finished")
    /\ UNCHANGED <<supervisor, locks, tun, cancelled, failed, next, handles, calls, reapers>>

Loop(s) ==
    /\ At(s, "spawned") \/ At(s, "loop")
    /\ Goto(s, IF cancelled[s] THEN "guard" ELSE "report")
    /\ UNCHANGED <<supervisor, locks, tun, state, cancelled, failed, next, handles, calls, reapers>>

ReportConnecting(s) ==
    /\ At(s, "report")
    /\ Show("Connecting")
    /\ Goto(s, "dial")
    /\ UNCHANGED <<supervisor, locks, tun, cancelled, failed, next, handles, calls, reapers>>

\* The backend's start is raced against the token and a timeout.
BackendStarts(s) ==
    /\ At(s, "dial") /\ ~cancelled[s]
    /\ carrier' = [carrier EXCEPT ![s] = TRUE]
    /\ Goto(s, IF Chained THEN "psi" ELSE "tun")
    /\ UNCHANGED <<supervisor, locks, tun, state, cancelled, failed, next, psi, calls, reapers>>

BackendFails(s) ==
    /\ At(s, "dial")
    /\ \/ ~cancelled[s] /\ Show("Connecting") /\ Goto(s, "backoff") /\ UNCHANGED failed
       \/ ~cancelled[s] /\ Fail(s) /\ Goto(s, "guard") /\ UNCHANGED state
       \/ cancelled[s] /\ Goto(s, "guard") /\ UNCHANGED <<failed, state>>
    /\ UNCHANGED <<supervisor, locks, tun, cancelled, next, handles, calls, reapers>>

\* start_psiphon_through_tunnel, raced against the end of the carrier.
PsiphonStarts(s) ==
    /\ At(s, "psi")
    /\ \/ /\ ~cancelled[s]
          /\ Show("Connecting")
          /\ psi' = [psi EXCEPT ![s] = TRUE]
          /\ \/ Goto(s, "tun") /\ UNCHANGED <<failed, next>>
             \/ Unwind(s, "guard") /\ Fail(s)
       \/ Unwind(s, "chain") /\ UNCHANGED <<psi, failed>>
          /\ (UNCHANGED state \/ Show("Connecting"))
    /\ UNCHANGED <<supervisor, locks, tun, cancelled, carrier, calls, reapers>>

\* Mutant: the token and the pause are looked at before the lock is taken.
TunLock_Unpaused(s) ==
    /\ At(s, "tun") /\ control = None
    /\ live' = TRUE
    /\ control' = s /\ Goto(s, "raise")
    /\ UNCHANGED <<slot, count, stopping, paused, running, tun, state, cancelled, failed, next, handles, calls, reapers>>

\* Under tun_control: publish the session, then raise the TUN unless cancelled
\* or paused.
TunLock(s) ==
    /\ At(s, "tun") /\ control = None
    /\ live' = TRUE
    /\ IF cancelled[s] \/ paused
       THEN Goto(s, "check") /\ UNCHANGED control
       ELSE Goto(s, "raise") /\ control' = s
    /\ UNCHANGED <<slot, count, stopping, paused, running, tun, state, cancelled, failed, next, handles, calls, reapers>>

\* Mutant: a failed start forgets the lock.
TunRaises_KeepsLock(s) ==
    /\ At(s, "raise")
    /\ \/ control' = None /\ tun' = "up" /\ Goto(s, "check") /\ UNCHANGED <<failed, next>>
       \/ Unwind(s, "guard") /\ Fail(s) /\ UNCHANGED <<control, tun>>
    /\ UNCHANGED <<supervisor, running, state, cancelled, handles, calls, reapers>>

TunRaises(s) ==
    /\ At(s, "raise")
    /\ control' = None
    /\ \/ tun' = "up" /\ Goto(s, "check") /\ UNCHANGED <<failed, next>>
       \/ Unwind(s, "guard") /\ Fail(s) /\ UNCHANGED tun
    /\ UNCHANGED <<supervisor, running, state, cancelled, handles, calls, reapers>>

Check(s) ==
    /\ At(s, "check")
    /\ Goto(s, IF cancelled[s] THEN "tun_stop" ELSE "connected")
    /\ UNCHANGED <<supervisor, locks, tun, state, cancelled, failed, next, handles, calls, reapers>>

ReportConnected(s) ==
    /\ At(s, "connected")
    /\ Show("Connected")
    /\ Goto(s, "run")
    /\ UNCHANGED <<supervisor, locks, tun, cancelled, failed, next, handles, calls, reapers>>

\* The select loop: the token comes first.
SelectCancelled(s) ==
    /\ At(s, "run") /\ cancelled[s]
    /\ Goto(s, "tun_stop")
    /\ UNCHANGED <<supervisor, locks, tun, state, cancelled, failed, next, handles, calls, reapers>>

\* The carrier drops, and the chained hop is stopped; or it is back.
CarrierChanged(s) ==
    /\ At(s, "run") /\ ~cancelled[s] /\ Chained
    /\ \/ psi[s] /\ psi' = [psi EXCEPT ![s] = FALSE] /\ UNCHANGED wpc
       \/ ~psi[s] /\ Goto(s, "restart") /\ UNCHANGED psi
    /\ UNCHANGED <<supervisor, locks, tun, state, cancelled, failed, next, carrier, calls, reapers>>

\* The hop is started again, raced against the token and the carrier.
PsiphonRestarts(s) ==
    /\ At(s, "restart")
    /\ \/ ~cancelled[s] /\ Show("Connecting")
          /\ psi' = [psi EXCEPT ![s] = TRUE] /\ Goto(s, "connected")
       \/ UNCHANGED psi /\ (UNCHANGED state \/ Show("Connecting"))
          /\ Goto(s, IF cancelled[s] THEN "tun_stop" ELSE "drop")
    /\ UNCHANGED <<supervisor, locks, tun, cancelled, failed, next, carrier, calls, reapers>>

\* A hop ends, or pump_counters gives up on a TUN that is not paused.
TunnelEnds(s) ==
    /\ At(s, "run") /\ ~cancelled[s]
    /\ Goto(s, "drop")
    /\ UNCHANGED <<supervisor, locks, tun, state, cancelled, failed, next, handles, calls, reapers>>

ReportDropped(s) ==
    /\ At(s, "drop")
    /\ IF cancelled[s] THEN UNCHANGED state ELSE Show("Connecting")
    /\ Goto(s, "teardown")
    /\ UNCHANGED <<supervisor, locks, tun, cancelled, failed, next, handles, calls, reapers>>

\* Under tun_control: nobody resumes a TUN on a backend that is going down.
Teardown(s) ==
    /\ At(s, "teardown") /\ control = None
    /\ live' = FALSE
    /\ tun' = "down"
    /\ Unwind(s, "retry")
    /\ UNCHANGED <<slot, count, stopping, paused, locks, state, cancelled, failed, handles, calls, reapers>>

TunStop(s) ==
    /\ At(s, "tun_stop")
    /\ tun' = "down"
    /\ Unwind(s, "guard")
    /\ UNCHANGED <<supervisor, locks, state, cancelled, failed, handles, calls, reapers>>

\* stop_chained_handles: Psiphon dials through the carrier and goes first.
PsiStop(s) ==
    /\ At(s, "psi_stop")
    /\ psi' = [psi EXCEPT ![s] = FALSE]
    /\ Goto(s, "carrier_stop")
    /\ UNCHANGED <<supervisor, locks, tun, state, cancelled, failed, next, carrier, calls, reapers>>

\* Then the carrier, and the token once more: a cancelled chain is no failure, a
\* drop that was an error is returned although the session was cancelled.
CarrierStop(s) ==
    /\ At(s, "carrier_stop")
    /\ carrier' = [carrier EXCEPT ![s] = FALSE]
    /\ \/ next[s] = "guard" /\ Goto(s, "guard") /\ UNCHANGED failed
       \/ next[s] = "chain" /\ Goto(s, "guard")
          /\ IF cancelled[s] THEN UNCHANGED failed ELSE Fail(s)
       \/ next[s] = "retry" /\ ~cancelled[s] /\ Goto(s, "backoff") /\ UNCHANGED failed
       \/ next[s] = "retry" /\ cancelled[s] /\ Goto(s, "guard")
          /\ (UNCHANGED failed \/ Fail(s))
    /\ UNCHANGED <<supervisor, locks, tun, state, cancelled, next, psi, calls, reapers>>

Backoff(s) ==
    /\ At(s, "backoff")
    /\ Goto(s, IF cancelled[s] THEN "guard" ELSE "loop")
    /\ UNCHANGED <<supervisor, locks, tun, state, cancelled, failed, next, handles, calls, reapers>>

\* LiveGuard::drop, when run_session returns.
LiveGuardDrop(s) ==
    /\ At(s, "guard") /\ control = None
    /\ live' = FALSE /\ paused' = FALSE
    /\ Goto(s, "final")
    /\ UNCHANGED <<slot, count, stopping, locks, tun, state, cancelled, failed, next, handles, calls, reapers>>

\* The thread stops the bridge once more, drains the backend and its runtime ...
FinalStop(s) ==
    /\ At(s, "final")
    /\ tun' = "down"
    /\ Goto(s, "outcome")
    /\ UNCHANGED <<supervisor, locks, state, cancelled, failed, next, handles, calls, reapers>>

\* Mutant: a session that was stopped says nothing.
Outcome_Silent(s) ==
    /\ At(s, "outcome")
    /\ state' = IF failed[s] THEN "Error" ELSE state
    /\ Goto(s, "finished")
    /\ UNCHANGED <<supervisor, locks, tun, cancelled, failed, next, handles, calls, reapers>>

\* ... and shows how the session ended.
Outcome(s) ==
    /\ At(s, "outcome")
    /\ IF failed[s] THEN state' = "Error" ELSE Show("Disconnected")
    /\ Goto(s, "finished")
    /\ UNCHANGED <<supervisor, locks, tun, cancelled, failed, next, handles, calls, reapers>>

-----------------------------------------------------------------------------

Call(c) ==
    \/ Start(c) \/ BeginStop(c) \/ Stop(c) \/ PauseTun(c) \/ ResumeTun(c)

\* What a caller does once it is inside.
Proceed(c) ==
    \/ BeginStopAborts(c) \/ StopCancels(c) \/ StopAborts(c) \/ StopReports(c)
    \/ StopJoins(c) \/ ResumeRaises(c) \/ ResumeEnds(c)

Connect(s) ==
    \/ RuntimeFails(s) \/ Loop(s) \/ ReportConnecting(s) \/ BackendStarts(s) \/ BackendFails(s)
    \/ PsiphonStarts(s) \/ TunLock(s) \/ TunRaises(s) \/ Check(s) \/ ReportConnected(s)

Run(s) == SelectCancelled(s) \/ CarrierChanged(s) \/ PsiphonRestarts(s) \/ TunnelEnds(s)

Leave(s) ==
    \/ ReportDropped(s) \/ Teardown(s) \/ TunStop(s) \/ PsiStop(s) \/ CarrierStop(s)
    \/ Backoff(s) \/ LiveGuardDrop(s) \/ FinalStop(s) \/ Outcome(s)

Worker(s) == Connect(s) \/ Run(s) \/ Leave(s)

Next ==
    \/ \E c \in Callers : Call(c) \/ Proceed(c)
    \/ \E s \in Sessions : Worker(s) \/ Reap(s)

Spec == Init /\ [][Next]_vars

\* Threads are scheduled: a call that is inside goes on, the worker goes on (its
\* waits look at the token and have timeouts), a join returns. Nobody has to call.
Fairness ==
    /\ \A c \in Callers : WF_vars(Proceed(c))
    /\ \A s \in Sessions : WF_vars(Worker(s)) /\ WF_vars(Reap(s))

FairSpec == Spec /\ Fairness

-----------------------------------------------------------------------------
(* Properties *)

Threads == Callers \cup Sessions \cup {None}

WorkerStates == {"none", "spawned", "loop", "report", "dial", "psi", "tun", "raise", "check",
                 "connected", "run", "restart", "drop", "teardown", "tun_stop", "psi_stop",
                 "carrier_stop", "backoff", "guard", "final", "outcome", "finished"}

\* The shape of the state; whoever holds a lock is at a place where it does.
TypeOK ==
    /\ slot \in 0..MaxSessions /\ count \in 0..MaxSessions
    /\ stopping \in BOOLEAN /\ paused \in BOOLEAN /\ live \in BOOLEAN
    /\ control \in Threads /\ running \in Callers \cup {None}
    /\ tun \in {"down", "up", "aborted"}
    /\ state \in {"Idle", "Provisioning", "Connecting", "Connected", "Disconnected", "Error"}
    /\ wpc \in [Sessions -> WorkerStates]
    /\ cancelled \in [Sessions -> BOOLEAN] /\ failed \in [Sessions -> BOOLEAN]
    /\ carrier \in [Sessions -> BOOLEAN] /\ psi \in [Sessions -> BOOLEAN]
    /\ next \in [Sessions -> {"guard", "chain", "retry"}]
    /\ cpc \in [Callers -> {"idle", "begin", "cancel", "abort", "report", "join",
                            "raise", "recheck"}]
    /\ mine \in [Callers -> 0..MaxSessions] /\ already \in [Callers -> BOOLEAN]
    /\ reapers \subseteq Sessions
    /\ control \in Sessions => At(control, "raise")
    /\ control \in Callers => cpc[control] \in {"raise", "recheck"}
    /\ running # None => cpc[running] = "begin"

\* However stops are repeated and overlap, no second worker runs while the first
\* one still restores routes and DNS. (TunDevice: Open. This and the next two are
\* what BridgeContract asks of a state.)
OneWorker == \A s, t \in Sessions : Alive(s) /\ Alive(t) => s = t

\* A worker leaves neither a device nor routes behind, whichever of its exits it
\* took and whoever was resuming the TUN. (TunDevice: Close.)
TunDiesWithSession == (\A s \in Sessions : ~Alive(s)) => tun = "down"

\* A stop aborts the TUN of the session it was called for, never that of the
\* session which came after. (TunDevice: Abort.)
AbortHitsItsOwn ==
    tun = "aborted" => \A s \in Sessions : Alive(s) => cancelled[s]

\* The bridge is only started on a clean device: over one that was aborted it
\* would overwrite the routes and DNS that are still to be restored.
RaisedOnClean ==
    /\ \A s \in Sessions : At(s, "raise") => tun = "down"
    /\ \A c \in Callers : cpc[c] = "raise" => tun = "down"

\* While the user has the TUN paused no reconnect raises it.
PausedIsDown == paused /\ control = None => tun # "up"

\* The TUN stands on a backend, and Psiphon on its carrier: they go down in that
\* order. (A resume that loses against a stop still holds the lock. A session
\* whose TUN could not be raised stays published while its handles are stopped,
\* so that a pause and a resume get their TUN: see TunStandsOnBackend.)
TearsDownInOrder ==
    /\ tun = "up" /\ control = None =>
          \E s \in Sessions : Alive(s) /\ (carrier[s] \/ failed[s])
    /\ \A s \in Sessions : psi[s] => carrier[s] /\ Alive(s)

\* Once there is no session the UI says so, although the worker and stop() both
\* report.
IdleIsShown ==
    slot = 0 /\ ~stopping => state \in {"Idle", "Disconnected", "Error"}

\* The barrier is in somebody's hands: a stop() that still has to join, or the
\* reaper of a worker whose token is set. However stops overlap, no start() waits
\* for a barrier that nobody will lift. (With the fairness of the threads:
\* StopCompletes.)
BarrierInHand ==
    slot = 0 /\ stopping =>
        \/ \E c \in Callers : cpc[c] \in {"cancel", "abort", "report", "join"}
        \/ \E s \in reapers : cancelled[s]

Bridge == INSTANCE TunDevice WITH
    device <- tun,
    live <- {s \in Sessions : Alive(s)},
    told <- {s \in Sessions : Alive(s) /\ cancelled[s]},
    ended <- {s \in Sessions : At(s, "finished")}

\* The supervisor of session.rs implements TunDevice: whatever start, begin_stop,
\* stop, pause_tun, resume_tun and the worker do beside each other, the calls of
\* start(), stop() and abort() that reach a TunBridge keep to its contract.
BridgeContract == Bridge!Spec

\* A stop that has taken the worker is always completed, and start() let in.
StopCompletes == (slot = 0 /\ stopping) ~> ~stopping
=============================================================================
