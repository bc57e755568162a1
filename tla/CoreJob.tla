------------------------------ MODULE CoreJob ------------------------------
(* The bridge between the Android host and the in-process aether engine: the *)
(* one-slot job handle g_job of aether_jni.cpp, the leftover-job guard that  *)
(* NativeCore.kt puts in front of it, and the job registry of the engine's   *)
(* ffi.rs. Every lock region is one step, so calls made by different threads *)
(* (the service's worker, the main thread, the identity fetcher) interleave  *)
(* between them exactly where the C++ code lets go of g_job_mu.              *)
EXTENDS Naturals, FiniteSets

CONSTANTS
    Starters,   \* threads that call NativeCore.start() / startProxy()
    Others,     \* threads that only call stop(), isRunning() and lastError()
    MaxJobs     \* bound: how many jobs aether_core_start hands out

Threads == Starters \cup Others

ASSUME ThreadsAssumption == Starters # {} /\ Starters \cap Others = {}
ASSUME MaxJobsAssumption == MaxJobs \in Nat

NoJob == 0
Ids == 1..MaxJobs

VARIABLES
    gJob,       \* g_job: the only job handle the host keeps
    jobs,       \* ffi.rs JOBS: the ids with a registry entry
    task,       \* the tokio task behind each id
    cancelled,  \* ids whose cancel token has been set
    nextId,     \* ffi.rs NEXT
    lastError,  \* g_last_error: the id whose failure it describes, or NoJob
    pc,         \* where each thread is
    call,       \* the NativeCore.kt call the thread is inside
    loc,        \* the thread's local copy of the id
    raced,      \* history: starters whose start() in progress met another one
    overwritten \* history: ids whose handle such a start() stored another over

vars == <<gJob, jobs, task, cancelled, nextId, lastError, pc, call, loc,
          raced, overwritten>>
engine == <<jobs, task, cancelled, nextId>>
thread == <<pc, call, loc>>
history == <<raced, overwritten>>

States == {"idle", "isRead", "isPoll", "isPayload", "isStamp", "isReap",
           "stopRead", "stopCancel", "stopWait", "stopFree", "stopClear",
           "startClear", "startCheck", "startSpawn", "startPublish"}
Calls == {"start", "stop", "isRunning"}
TaskStates == {"none", "running", "done", "failed"}

Init ==
    /\ gJob = NoJob
    /\ jobs = {}
    /\ task = [j \in Ids |-> "none"]
    /\ cancelled = {}
    /\ nextId = 1
    /\ lastError = NoJob
    /\ pc = [t \in Threads |-> "idle"]
    /\ call = [t \in Threads |-> "stop"]
    /\ loc = [t \in Threads |-> NoJob]
    /\ raced = {}
    /\ overwritten = {}

-----------------------------------------------------------------------------
(* Control flow helpers *)

At(t, s) == pc[t] = s
Goto(t, s) == pc' = [pc EXCEPT ![t] = s] /\ UNCHANGED <<call, loc>>
Enter(t, c, s) ==
    /\ At(t, "idle")
    /\ pc' = [pc EXCEPT ![t] = s]
    /\ call' = [call EXCEPT ![t] = c]
    /\ UNCHANGED loc

\* Between the "already running" test of nativeStart and the store of the id the
\* lock is free: the threads in that window, and the ones whose start() still has
\* the test before it.
InWindow == {t \in Starters : pc[t] \in {"startSpawn", "startPublish"}}
BeforeCheck == {t \in Starters : call[t] = "start" /\ pc[t] # "idle"} \ InWindow

\* What nativeIsRunning() == r means to the caller: start() stops the leftover
\* job first, every other caller is simply done.
AfterIsRunning(t, r) ==
    IF call[t] # "start" THEN "idle" ELSE IF r THEN "stopRead" ELSE "startClear"
AfterStop(t) == IF call[t] = "start" THEN "startClear" ELSE "idle"

Ended(j) == task[j] \in {"done", "failed"}

\* job_finished: the poll reply says "done". An id without a registry entry
\* gets an error reply, which is not "done", so it counts as still running.
Finished(j) == j \in jobs /\ Ended(j)

-----------------------------------------------------------------------------
(* NativeCore.kt entry points *)

CallStart(t) ==
    /\ t \in Starters
    /\ Enter(t, "start", "isRead")
    /\ UNCHANGED <<gJob, lastError, engine, history>>

CallStop(t) ==
    /\ Enter(t, "stop", "stopRead")
    /\ UNCHANGED <<gJob, lastError, engine, history>>

CallIsRunning(t) ==
    /\ Enter(t, "isRunning", "isRead")
    /\ UNCHANGED <<gJob, lastError, engine, history>>

\* nativeLastError holds g_job_mu throughout: a failed current job refreshes
\* the cache; nothing else changes.
CallLastError(t) ==
    /\ At(t, "idle")
    /\ gJob \in jobs /\ task[gJob] = "failed"
    /\ lastError' = gJob
    /\ UNCHANGED <<gJob, engine, thread, history>>

-----------------------------------------------------------------------------
(* nativeIsRunning *)

IsRead(t) ==
    /\ At(t, "isRead")
    /\ loc' = [loc EXCEPT ![t] = gJob]
    /\ pc' = [pc EXCEPT ![t] = IF gJob = NoJob THEN AfterIsRunning(t, FALSE)
                                               ELSE "isPoll"]
    /\ UNCHANGED <<gJob, lastError, call, engine, history>>

IsPoll(t) ==
    /\ At(t, "isPoll")
    /\ Goto(t, IF Finished(loc[t]) THEN "isPayload" ELSE AfterIsRunning(t, TRUE))
    /\ UNCHANGED <<gJob, lastError, engine, history>>

\* The payload is polled again before the reap; only an error reply is kept ...
IsPayload(t) ==
    /\ At(t, "isPayload")
    /\ Goto(t, IF loc[t] \in jobs /\ task[loc[t]] = "failed" THEN "isStamp"
                                                             ELSE "isReap")
    /\ UNCHANGED <<gJob, lastError, engine, history>>

\* ... and stamped into the cache under g_last_err_mu, outside g_job_mu.
IsStamp(t) ==
    /\ At(t, "isStamp")
    /\ lastError' = loc[t]
    /\ Goto(t, "isReap")
    /\ UNCHANGED <<gJob, engine, history>>

\* Under g_job_mu: free the entry and clear the handle, if it is still ours.
IsReap(t) ==
    /\ At(t, "isReap")
    /\ IF gJob = loc[t]
         THEN /\ jobs' = jobs \ {loc[t]}
              /\ cancelled' = cancelled \cup (jobs \cap {loc[t]})
              /\ gJob' = NoJob
         ELSE UNCHANGED <<gJob, jobs, cancelled>>
    /\ Goto(t, AfterIsRunning(t, FALSE))
    /\ UNCHANGED <<task, nextId, lastError, history>>

-----------------------------------------------------------------------------
(* nativeStop *)

StopRead(t) ==
    /\ At(t, "stopRead")
    /\ loc' = [loc EXCEPT ![t] = gJob]
    /\ pc' = [pc EXCEPT ![t] = IF gJob = NoJob THEN AfterStop(t) ELSE "stopCancel"]
    /\ UNCHANGED <<gJob, lastError, call, engine, history>>

\* Slip: a stop that neither cancels nor frees, leaving both to "the registry".
StopCancel_Skipped(t) ==
    /\ At(t, "stopCancel")
    /\ Goto(t, "stopClear")
    /\ UNCHANGED <<gJob, lastError, engine, history>>

StopCancel(t) ==
    /\ At(t, "stopCancel")
    /\ cancelled' = cancelled \cup (jobs \cap {loc[t]})
    /\ Goto(t, "stopWait")
    /\ UNCHANGED <<gJob, jobs, task, nextId, lastError, history>>

\* The bounded wait for "done": 30 polls of 10 ms, so it may also end while
\* the task is still running.
StopWait(t) ==
    /\ At(t, "stopWait")
    /\ Goto(t, "stopFree")
    /\ UNCHANGED <<gJob, lastError, engine, history>>

\* aether_job_free: drop the entry, and cancel once more if there was one.
StopFree(t) ==
    /\ At(t, "stopFree")
    /\ jobs' = jobs \ {loc[t]}
    /\ cancelled' = cancelled \cup (jobs \cap {loc[t]})
    /\ Goto(t, "stopClear")
    /\ UNCHANGED <<gJob, task, nextId, lastError, history>>

\* Slip: the handle is cleared without checking that it is still this job.
StopClear_Unconditional(t) ==
    /\ At(t, "stopClear")
    /\ gJob' = NoJob
    /\ Goto(t, AfterStop(t))
    /\ UNCHANGED <<lastError, engine, history>>

\* Slip: the handle is left behind once the entry is freed.
StopClear_Forgotten(t) ==
    /\ At(t, "stopClear")
    /\ Goto(t, AfterStop(t))
    /\ UNCHANGED <<gJob, lastError, engine, history>>

StopClear(t) ==
    /\ At(t, "stopClear")
    /\ gJob' = IF gJob = loc[t] THEN NoJob ELSE gJob
    /\ Goto(t, AfterStop(t))
    /\ UNCHANGED <<lastError, engine, history>>

-----------------------------------------------------------------------------
(* nativeStart *)

StartClear(t) ==
    /\ At(t, "startClear")
    /\ lastError' = NoJob
    /\ Goto(t, "startCheck")
    /\ UNCHANGED <<gJob, engine, history>>

\* "aether already running": return -1. The lock is dropped either way.
StartCheck(t) ==
    /\ At(t, "startCheck")
    /\ Goto(t, IF gJob # NoJob THEN "idle" ELSE "startSpawn")
    /\ raced' = IF gJob = NoJob /\ InWindow # {} THEN raced \cup InWindow \cup {t}
                                                  ELSE raced \ {t}
    /\ UNCHANGED <<gJob, lastError, overwritten, engine>>

\* aether_core_start registers the job and spawns its task ...
StartSpawn(t) ==
    /\ At(t, "startSpawn")
    /\ nextId \in Ids
    /\ jobs' = jobs \cup {nextId}
    /\ task' = [task EXCEPT ![nextId] = "running"]
    /\ nextId' = nextId + 1
    /\ loc' = [loc EXCEPT ![t] = nextId]
    /\ pc' = [pc EXCEPT ![t] = "startPublish"]
    /\ UNCHANGED <<gJob, cancelled, lastError, call, history>>

\* ... or answers ok:false (no runtime, bad reply): -1, nothing registered.
StartFails(t) ==
    /\ At(t, "startSpawn")
    /\ Goto(t, "idle")
    /\ raced' = raced \ {t}
    /\ UNCHANGED <<gJob, lastError, overwritten, engine>>

\* Slip: the handle is stored as read before the spawn, one id too high.
StartPublish_NextId(t) ==
    /\ At(t, "startPublish")
    /\ gJob' = nextId
    /\ Goto(t, "idle")
    /\ raced' = (raced \ {t}) \cup (BeforeCheck \ {t})
    /\ UNCHANGED <<lastError, overwritten, engine>>

StartPublish(t) ==
    /\ At(t, "startPublish")
    /\ gJob' = loc[t]
    /\ Goto(t, "idle")
    /\ raced' = (raced \ {t}) \cup (BeforeCheck \ {t})
    /\ overwritten' = overwritten \cup (IF t \in raced THEN {gJob} \ {NoJob} ELSE {})
    /\ UNCHANGED <<lastError, engine>>

-----------------------------------------------------------------------------
(* The engine *)

\* run_with returns: an error, or an orderly close.
TaskEnds(j) ==
    /\ task[j] = "running"
    /\ \E outcome \in {"done", "failed"} : task' = [task EXCEPT ![j] = outcome]
    /\ UNCHANGED <<gJob, jobs, cancelled, nextId, lastError, thread, history>>

\* The biased select! takes the cancel arm at the task's next await point.
TaskStops(j) ==
    /\ task[j] = "running" /\ j \in cancelled
    /\ task' = [task EXCEPT ![j] = "done"]
    /\ UNCHANGED <<gJob, jobs, cancelled, nextId, lastError, thread, history>>

-----------------------------------------------------------------------------
Step(t) ==
    \/ IsRead(t) \/ IsPoll(t) \/ IsPayload(t) \/ IsStamp(t) \/ IsReap(t)
    \/ StopRead(t) \/ StopCancel(t) \/ StopWait(t) \/ StopFree(t) \/ StopClear(t)
    \/ StartClear(t) \/ StartCheck(t) \/ StartSpawn(t) \/ StartFails(t)
    \/ StartPublish(t)

Calling(t) == CallStart(t) \/ CallStop(t) \/ CallIsRunning(t) \/ CallLastError(t)

Next ==
    \/ \E t \in Threads : Calling(t) \/ Step(t)
    \/ \E j \in Ids : TaskEnds(j) \/ TaskStops(j)

Spec == Init /\ [][Next]_vars

\* A native call in progress keeps running (OS threads are scheduled, and the
\* wait inside nativeStop is bounded); a cancelled task reaches an await point.
\* Nobody is obliged to make a call, and no job is obliged to end by itself.
FairSpec ==
    /\ Spec
    /\ \A t \in Threads : WF_vars(Step(t))
    /\ \A j \in Ids : WF_vars(TaskStops(j))

-----------------------------------------------------------------------------
(* Properties *)

\* Every id the host keeps is one the engine handed out, and every thread stands
\* at a step of the call it is in.
TypeOK ==
    /\ gJob \in Ids \cup {NoJob}
    /\ jobs \subseteq Ids
    /\ task \in [Ids -> TaskStates]
    /\ cancelled \subseteq Ids
    /\ nextId \in 1..(MaxJobs + 1)
    /\ lastError \in Ids \cup {NoJob}
    /\ pc \in [Threads -> States]
    /\ call \in [Threads -> Calls]
    /\ loc \in [Threads -> Ids \cup {NoJob}]
    /\ raced \subseteq Threads
    /\ overwritten \subseteq Ids

\* Every job the engine still has registered can be reached by a later
\* nativeStop: g_job names it, or the thread that spawned it is about to store
\* it there. "The tunnel keeps running until nativeStop cancels the job"
\* (aether_jni.cpp:326) needs this. One thing alone can take a job its handle:
\* two start() calls that were both between test and store (aether_jni.cpp:270
\* and 301), the later store overwriting the earlier one. No stop(), isRunning()
\* or reap of any thread does, and no start() that comes later.
NoOrphanJob ==
    \A j \in jobs \ overwritten :
        gJob = j \/ \E t \in Threads : At(t, "startPublish") /\ loc[t] = j

\* And every task that still runs can be ended: its job is registered, hence
\* reachable, or its token is set, although nativeStop frees the entry of a task
\* that outlives the bounded wait. (With the fairness of the engine: StopEndsTask.)
NoOrphanTask ==
    \A j \in Ids \ overwritten : task[j] = "running" =>
        \/ j \in cancelled
        \/ gJob = j
        \/ \E t \in Threads : At(t, "startPublish") /\ loc[t] = j

\* NativeCore.start() guards against a leftover job with isRunning()/stop(); the
\* "already running" test of nativeStart then refuses it only for a job that
\* another start() stored meanwhile, never because of its own predecessor, even
\* when another thread is half way through stopping or reaping that predecessor.
RestartNotRefused ==
    \A t \in Threads : At(t, "startCheck") => gJob = NoJob \/ t \in raced

\* nativeStop does end the engine: once a stop has read the id of a job, the
\* task behind it ends, although the wait for it is bounded and other threads
\* may free the entry first.
StopEndsTask ==
    \A t \in Threads, j \in Ids :
        (At(t, "stopCancel") /\ loc[t] = j) ~> (task[j] # "running")
=============================================================================
