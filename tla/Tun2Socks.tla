----------------------------- MODULE Tun2Socks -----------------------------
(* The default TUN engine: Tun2SocksManager.kt, whose start() and stop() are *)
(* @Synchronized, and the native run()/terminate of badvpn's tun2socks.c it  *)
(* drives through one flag, g_terminate. A run is one native thread; all     *)
(* runs share the file-scope lwIP globals of tun2socks.c.                    *)
EXTENDS Naturals

CONSTANTS
    Workers,    \* threads that call start() and stop(), off the main thread
    Stoppers,   \* threads that only call stop(): main, the ladder scheduler
    MaxRuns     \* bound: how many native threads are ever created

Threads == Workers \cup Stoppers

ASSUME WorkersAssumption == Workers # {}
ASSUME MaxRunsAssumption == MaxRuns \in Nat

NoRun == 0
Runs == 1..MaxRuns
Free == "free"
ASSUME FreeAssumption == Free \notin Threads

VARIABLES
    pc,          \* where each thread is in start() or stop()
    monitor,     \* who holds the manager's monitor between two steps
    handle,      \* tun2SocksThread: what isRunning looks at
    last,        \* lastThread: what start() joins
    run,         \* the state of each native thread
    nextRun,     \* the next thread to be created
    gTerminate,  \* g_terminate
    stopped      \* history: the runs that stop() has raised the flag for

vars == <<pc, monitor, handle, last, run, nextRun, gTerminate, stopped>>
native == <<run, nextRun, gTerminate, stopped>>

States == {"idle", "startEnter", "startJoin", "stopEnter"}
RunStates == {"none", "spawned", "running", "unwinding", "dead"}

Init ==
    /\ pc = [t \in Threads |-> "idle"]
    /\ monitor = Free
    /\ handle = NoRun
    /\ last = NoRun
    /\ run = [r \in Runs |-> "none"]
    /\ nextRun = 1
    /\ gTerminate = FALSE
    /\ stopped = {}

At(t, s) == pc[t] = s
Goto(t, s) == pc' = [pc EXCEPT ![t] = s]
Alive(r) == r \in Runs /\ run[r] \in {"spawned", "running", "unwinding"}

-----------------------------------------------------------------------------
(* Tun2SocksManager.start *)

CallStart(t) ==
    /\ t \in Workers
    /\ At(t, "idle")
    /\ Goto(t, "startEnter")
    /\ UNCHANGED <<monitor, handle, last, native>>

\* The handle is set: "tun2socks already running", true.
StartAlready(t) ==
    /\ At(t, "startEnter") /\ monitor = Free
    /\ handle # NoRun
    /\ Goto(t, "idle")
    /\ UNCHANGED <<monitor, handle, last, native>>

\* The previous thread still lives: join it, keeping the monitor.
StartWaits(t) ==
    /\ At(t, "startEnter") /\ monitor = Free
    /\ handle = NoRun /\ Alive(last)
    /\ monitor' = t
    /\ Goto(t, "startJoin")
    /\ UNCHANGED <<handle, last, native>>

\* Mutants of Spawn: the handle is taken after the counter has moved on ...
Spawn_LateHandle ==
    /\ nextRun \in Runs
    /\ run' = [run EXCEPT ![nextRun] = "spawned"]
    /\ nextRun' = nextRun + 1
    /\ handle' = nextRun'
    /\ last' = nextRun
    /\ UNCHANGED <<gTerminate, stopped>>

\* ... or the thread is remembered in tun2SocksThread only, which stop() clears.
Spawn_ForgetsLast ==
    /\ nextRun \in Runs
    /\ run' = [run EXCEPT ![nextRun] = "spawned"]
    /\ handle' = nextRun
    /\ nextRun' = nextRun + 1
    /\ UNCHANGED <<last, gTerminate, stopped>>

\* Past the join: a new thread, remembered under both names ...
Spawn ==
    /\ nextRun \in Runs
    /\ run' = [run EXCEPT ![nextRun] = "spawned"]
    /\ handle' = nextRun
    /\ last' = nextRun
    /\ nextRun' = nextRun + 1
    /\ UNCHANGED <<gTerminate, stopped>>

\* ... or an invalid port, or a descriptor that cannot be duplicated: false.
SpawnFails ==
    /\ last' = NoRun
    /\ UNCHANGED <<handle, native>>

StartNow(t) ==
    /\ At(t, "startEnter") /\ monitor = Free
    /\ handle = NoRun /\ ~Alive(last)
    /\ Spawn \/ SpawnFails
    /\ Goto(t, "idle")
    /\ UNCHANGED monitor

StartJoined(t) ==
    /\ At(t, "startJoin")
    /\ ~Alive(last)
    /\ Spawn \/ SpawnFails
    /\ monitor' = Free
    /\ Goto(t, "idle")

\* A mutant of StartRefused: start() goes on once the grace is over, as the code
\* did before lastThread.
StartRefused_GoesOn(t) ==
    /\ At(t, "startJoin")
    /\ Alive(last)
    /\ Spawn
    /\ monitor' = Free
    /\ Goto(t, "idle")

\* NATIVE_EXIT_GRACE_MS are over, or the join was interrupted, and the
\* previous thread is still alive: false.
StartRefused(t) ==
    /\ At(t, "startJoin")
    /\ Alive(last)
    /\ monitor' = Free
    /\ Goto(t, "idle")
    /\ UNCHANGED <<handle, last, native>>

-----------------------------------------------------------------------------
(* Tun2SocksManager.stop *)

CallStop(t) ==
    /\ At(t, "idle")
    /\ Goto(t, "stopEnter")
    /\ UNCHANGED <<monitor, handle, last, native>>

StopNothing(t) ==
    /\ At(t, "stopEnter") /\ monitor = Free
    /\ handle = NoRun
    /\ Goto(t, "idle")
    /\ UNCHANGED <<monitor, handle, last, native>>

\* terminateTun2Socks() sets the flag; nobody waits for the thread.
StopSignals(t) ==
    /\ At(t, "stopEnter") /\ monitor = Free
    /\ handle # NoRun
    /\ handle' = NoRun
    /\ gTerminate' = TRUE
    /\ stopped' = stopped \cup {handle}
    /\ Goto(t, "idle")
    /\ UNCHANGED <<monitor, last, run, nextRun>>

\* The native call throws: the handle is cleared all the same, the flag not set.
StopThrows(t) ==
    /\ At(t, "stopEnter") /\ monitor = Free
    /\ handle # NoRun
    /\ handle' = NoRun
    /\ Goto(t, "idle")
    /\ UNCHANGED <<monitor, last, native>>

-----------------------------------------------------------------------------
(* The native thread *)

RunGoes(r, from, to) ==
    /\ run[r] = from
    /\ run' = [run EXCEPT ![r] = to]
    /\ UNCHANGED <<pc, monitor, handle, last, nextRun, stopped>>

\* A mutant of RunEnter: runTun2SocksNative does not reset the flag.
RunEnter_KeepsFlag(r) ==
    /\ RunGoes(r, "spawned", "running")
    /\ UNCHANGED gTerminate

\* runTun2SocksNative resets the flag and enters run().
RunEnter(r) ==
    /\ RunGoes(r, "spawned", "running")
    /\ gTerminate' = FALSE

\* detachFd or the JNI call throws: the thread ends without having run.
RunThrows(r) ==
    /\ RunGoes(r, "spawned", "dead")
    /\ UNCHANGED gTerminate

\* tcp_timer_handler finds the flag set and calls terminate().
RunTick(r) ==
    /\ gTerminate
    /\ RunGoes(r, "running", "unwinding")
    /\ UNCHANGED gTerminate

\* run() fails to initialise, or device_error_handler calls terminate().
RunQuits(r) ==
    /\ RunGoes(r, "running", "unwinding")
    /\ UNCHANGED gTerminate

\* The rest of run() after the event loop, and the end of the Java thread.
RunExits(r) ==
    /\ RunGoes(r, "unwinding", "dead")
    /\ UNCHANGED gTerminate

-----------------------------------------------------------------------------
Calling(t) == CallStart(t) \/ CallStop(t)

Step(t) ==
    \/ StartAlready(t) \/ StartWaits(t) \/ StartNow(t)
    \/ StartJoined(t) \/ StartRefused(t)
    \/ StopNothing(t) \/ StopSignals(t) \/ StopThrows(t)

RunStep(r) == RunEnter(r) \/ RunThrows(r) \/ RunTick(r) \/ RunExits(r)

Next ==
    \/ \E t \in Threads : Calling(t) \/ Step(t)
    \/ \E r \in Runs : RunStep(r) \/ RunQuits(r)

Spec == Init /\ [][Next]_vars

\* Threads inside a call and native threads keep going; nobody has to call,
\* and a healthy run has no reason to quit.
Fairness ==
    /\ \A t \in Threads : WF_vars(Step(t))
    /\ \A r \in Runs : WF_vars(RunStep(r))

FairSpec == Spec /\ Fairness

-----------------------------------------------------------------------------
\* The state is well typed.
TypeOK ==
    /\ pc \in [Threads -> States]
    /\ monitor \in Threads \cup {Free}
    /\ handle \in Runs \cup {NoRun}
    /\ last \in Runs \cup {NoRun}
    /\ run \in [Runs -> RunStates]
    /\ nextRun \in 1..(MaxRuns + 1)
    /\ gTerminate \in BOOLEAN
    /\ stopped \subseteq Runs

\* Two native threads never live at the same time: the second would find the
\* lwIP globals of the first (ASSERT(!have_netif) aborts the process). stop()
\* forgets the handle of a thread that still runs, so this rests on lastThread
\* and the join in start().
OneRun == \A r, s \in Runs : (Alive(r) /\ Alive(s)) => r = s

\* A run that is about to be told to quit was itself stopped: the flag that an
\* earlier stop() left behind never ends the session that came after it.
NoStaleTerminate ==
    \A r \in Runs : (run[r] = "running" /\ gTerminate) => r \in stopped

\* g_terminate is not taken away from a run that has still to see it: only the
\* entry of another run resets it, and none enters run() meanwhile. (With the
\* fairness of the threads: SeenStopEnds.)
FlagReachesRun ==
    [][\A r \in Runs : run[r] = "running" /\ gTerminate =>
            run'[r] # "running" \/ gTerminate']_vars

\* A stop() that raises the flag of a run inside run() ends it: nothing takes the flag
\* away before tcp_timer_handler has seen it, whatever is started meanwhile.
SeenStopEnds ==
    \A r \in Runs : (run[r] = "running" /\ r \in stopped /\ gTerminate) ~> (run[r] = "dead")
=============================================================================
