--------------------------- MODULE CoreJob_proofs ---------------------------
(* Machine-checked facts about CoreJob, for any set of threads, any number of *)
(* them starting the core, and any number of jobs.                            *)
EXTENDS CoreJob, TLAPS

Guarded == {"startClear", "startCheck"}
Holding == {"isPoll", "isPayload", "isStamp", "isReap",
            "stopCancel", "stopWait", "stopFree", "stopClear"}

\* Only starters are inside start().
StartersStart ==
    \A t \in Threads :
        (call[t] = "start" \/ pc[t] \in Guarded \cup {"startSpawn", "startPublish"})
            => t \in Starters /\ call[t] = "start"

\* Past the leftover guard the slot is free, unless another start() filled it.
SlotFree == \A t \in Threads : pc[t] \in Guarded => gJob = NoJob \/ t \in raced

\* While a starter stops or reaps a leftover, the slot holds that job or has been
\* cleared, unless another start() filled it.
SlotHeld ==
    \A t \in Threads :
        (pc[t] \in Holding /\ call[t] = "start")
            => gJob \in {loc[t], NoJob} \/ t \in raced

\* Two threads between test and store have met; one alone there has a free slot.
WindowMet == \A s, t \in InWindow : s # t => {s, t} \subseteq raced
WindowFree == \A t \in InWindow : gJob = NoJob \/ t \in raced

\* The entry is gone before the handle is cleared, and ids are never reused.
FreedBeforeCleared == \A t \in Threads : At(t, "stopClear") => loc[t] \notin jobs

FreshIds == gJob < nextId /\ \A t \in Threads : loc[t] < nextId

SlotInv ==
    /\ NoOrphanJob /\ StartersStart /\ SlotFree /\ SlotHeld
    /\ WindowMet /\ WindowFree /\ FreedBeforeCleared /\ FreshIds

IInv == TypeOK /\ SlotInv

-----------------------------------------------------------------------------
\* Init establishes the inductive invariant.
LEMMA InitIInv == Init => IInv
BY MaxJobsAssumption
   DEF Init, IInv, SlotInv, TypeOK, NoOrphanJob, StartersStart, SlotFree, SlotHeld,
       WindowMet, WindowFree, InWindow, FreedBeforeCleared, FreshIds, Ids, NoJob,
       States, Calls, TaskStates, At, Guarded, Holding, Threads

\* Typing is preserved by every step (used below to keep the leaves small).
LEMMA TypeStep == TypeOK /\ [Next]_vars => TypeOK'
<1> SUFFICES ASSUME TypeOK, [Next]_vars PROVE TypeOK'
  OBVIOUS
<1> USE MaxJobsAssumption DEF TypeOK, Ids, NoJob, States, Calls, TaskStates, At,
      Goto, Enter, AfterIsRunning, AfterStop, engine, thread, history
<1>1. ASSUME NEW t \in Threads, Calling(t) PROVE TypeOK'
  BY <1>1 DEF Calling, CallStart, CallStop, CallIsRunning, CallLastError
<1>2. ASSUME NEW t \in Threads, Step(t) PROVE TypeOK'
  <2>1. CASE IsRead(t)
    BY <2>1 DEF IsRead
  <2>2. CASE IsPoll(t)
    BY <2>2 DEF IsPoll
  <2>3. CASE IsPayload(t)
    BY <2>3 DEF IsPayload
  <2>4. CASE IsStamp(t)
    BY <2>4 DEF IsStamp
  <2>5. CASE IsReap(t)
    BY <2>5 DEF IsReap
  <2>6. CASE StopRead(t)
    BY <2>6 DEF StopRead
  <2>7. CASE StopCancel(t)
    BY <2>7 DEF StopCancel
  <2>8. CASE StopWait(t)
    BY <2>8 DEF StopWait
  <2>9. CASE StopFree(t)
    BY <2>9 DEF StopFree
  <2>10. CASE StopClear(t)
    BY <2>10 DEF StopClear
  <2>11. CASE StartClear(t)
    BY <2>11 DEF StartClear
  <2>12. CASE StartCheck(t)
    BY <2>12 DEF StartCheck, InWindow, Threads
  <2>13. CASE StartSpawn(t)
    BY <2>13 DEF StartSpawn
  <2>14. CASE StartFails(t)
    BY <2>14 DEF StartFails
  <2>15. CASE StartPublish(t)
    BY <2>15 DEF StartPublish, BeforeCheck, Threads
  <2>16. QED
    BY <1>2, <2>1, <2>2, <2>3, <2>4, <2>5, <2>6, <2>7, <2>8, <2>9, <2>10, <2>11, <2>12, <2>13, <2>14, <2>15 DEF Step
<1>3. ASSUME NEW j \in Ids, TaskEnds(j) \/ TaskStops(j) PROVE TypeOK'
  BY <1>3 DEF TaskEnds, TaskStops
<1>4. CASE UNCHANGED vars
  BY <1>4 DEF vars
<1>5. QED
  BY <1>1, <1>2, <1>3, <1>4 DEF Next

\* The state stays well typed: the job ids, the registry, the task states and
\* the threads' positions in the native calls of aether_jni.cpp.
THEOREM TypeCorrect == Spec => []TypeOK
<1>1. Init => TypeOK
  BY InitIInv DEF IInv
<1>2. QED
  BY <1>1, TypeStep, PTL DEF Spec

\* The other conjuncts are preserved by a step of a thread inside a call.
LEMMA ThreadStep ==
  ASSUME IInv, TypeOK', NEW t \in Threads, Step(t)
  PROVE  SlotInv'
<1> USE MaxJobsAssumption DEF IInv, TypeOK, Ids, NoJob, At, Goto, Threads,
      AfterIsRunning, AfterStop, engine, history, SlotInv, NoOrphanJob, StartersStart,
      SlotFree, SlotHeld, WindowMet, WindowFree, InWindow, FreedBeforeCleared,
      FreshIds, Guarded, Holding
<1>1. CASE IsRead(t)
  BY <1>1 DEF IsRead
<1>2. CASE IsPoll(t)
  BY <1>2 DEF IsPoll
<1>3. CASE IsPayload(t)
  BY <1>3 DEF IsPayload
<1>4. CASE IsStamp(t)
  BY <1>4 DEF IsStamp
<1>5. CASE IsReap(t)
  BY <1>5 DEF IsReap
<1>6. CASE StopRead(t)
  BY <1>6 DEF StopRead
<1>7. CASE StopCancel(t)
  BY <1>7 DEF StopCancel
<1>8. CASE StopWait(t)
  BY <1>8 DEF StopWait
<1>9. CASE StopFree(t)
  BY <1>9 DEF StopFree
<1>10. CASE StopClear(t)
  BY <1>10 DEF StopClear
<1>11. CASE StartClear(t)
  BY <1>11 DEF StartClear
<1>12. CASE StartCheck(t)
  BY <1>12 DEF StartCheck
<1>13. CASE StartSpawn(t)
  BY <1>13 DEF StartSpawn
<1>14. CASE StartFails(t)
  BY <1>14 DEF StartFails
<1>15. CASE StartPublish(t)
  BY <1>15 DEF StartPublish, BeforeCheck
<1>16. QED
  BY <1>1, <1>2, <1>3, <1>4, <1>5, <1>6, <1>7, <1>8, <1>9, <1>10, <1>11, <1>12,
     <1>13, <1>14, <1>15 DEF Step

\* Entering a call and the engine's own steps disturb nothing the invariant
\* relates.
LEMMA OtherStep ==
  ASSUME IInv, TypeOK',
         (\E t \in Threads : Calling(t))
           \/ (\E j \in Ids : TaskEnds(j) \/ TaskStops(j))
           \/ UNCHANGED vars
  PROVE  SlotInv'
<1> USE MaxJobsAssumption DEF IInv, TypeOK, Ids, NoJob, At, Enter, Threads, engine,
      thread, history, SlotInv, NoOrphanJob, StartersStart, SlotFree, SlotHeld,
      WindowMet, WindowFree, InWindow, FreedBeforeCleared, FreshIds, Guarded, Holding
<1>1. ASSUME NEW t \in Threads, Calling(t)
      PROVE  SlotInv'
  <2>1. CASE CallStart(t)
    BY <2>1 DEF CallStart
  <2>2. CASE CallStop(t)
    BY <2>2 DEF CallStop
  <2>3. CASE CallIsRunning(t)
    BY <2>3 DEF CallIsRunning
  <2>4. CASE CallLastError(t)
    BY <2>4 DEF CallLastError
  <2>5. QED
    BY <1>1, <2>1, <2>2, <2>3, <2>4 DEF Calling
<1>2. ASSUME NEW j \in Ids, TaskEnds(j) \/ TaskStops(j)
      PROVE  SlotInv'
  BY <1>2 DEF TaskEnds, TaskStops
<1>3. CASE UNCHANGED vars
  BY <1>3 DEF vars
<1>4. QED
  BY <1>1, <1>2, <1>3

\* The invariant is inductive.
LEMMA InductiveStep == IInv /\ [Next]_vars => IInv'
<1> SUFFICES ASSUME IInv, [Next]_vars PROVE IInv'
  OBVIOUS
<1>1. TypeOK'
  BY TypeStep DEF IInv
<1>2. CASE \E t \in Threads : Step(t)
  BY <1>1, <1>2, ThreadStep DEF IInv
<1>3. CASE ~(\E t \in Threads : Step(t))
  BY <1>1, <1>3, OtherStep DEF IInv, Next
<1>4. QED
  BY <1>2, <1>3

\* Every registered job stays reachable by nativeStop, for any number of threads
\* that start, stop, poll and reap concurrently, unless the handle was overwritten
\* by a start() that passed the test together with the one that stored it.
THEOREM NoOrphanJobHolds == Spec => []NoOrphanJob
<1>1. IInv /\ [Next]_vars => IInv'
  BY InductiveStep
<1>2. IInv => NoOrphanJob
  BY DEF IInv, SlotInv
<1>3. QED
  BY InitIInv, <1>1, <1>2, PTL DEF Spec

\* The leftover guard of NativeCore.start() leaves the slot free: nativeStart
\* answers "already running" only when another start() stored a job meanwhile.
THEOREM RestartNotRefusedHolds == Spec => []RestartNotRefused
<1>1. IInv /\ [Next]_vars => IInv'
  BY InductiveStep
<1>2. IInv => RestartNotRefused
  BY DEF IInv, SlotInv, SlotFree, RestartNotRefused, Guarded, At
<1>3. QED
  BY InitIInv, <1>1, <1>2, PTL DEF Spec


\* A task leaves the registry only with its token set.
TokenInv == \A j \in Ids : task[j] = "running" => j \in jobs \cup cancelled

\* TokenInv is preserved by every step.
LEMMA TokenStep == TypeOK /\ TokenInv /\ [Next]_vars => TokenInv'
<1> SUFFICES ASSUME TypeOK, TokenInv, [Next]_vars PROVE TokenInv'
  OBVIOUS
<1> USE DEF TokenInv, engine, thread
<1>1. ASSUME NEW t \in Threads, Calling(t) PROVE TokenInv'
  BY <1>1 DEF Calling, CallStart, CallStop, CallIsRunning, CallLastError
<1>2. ASSUME NEW t \in Threads, Step(t) PROVE TokenInv'
  <2>1. CASE StartSpawn(t)
    BY <2>1 DEF StartSpawn, TypeOK
  <2>2. CASE ~StartSpawn(t)
    <3>1. UNCHANGED task /\ jobs \cup cancelled \subseteq jobs' \cup cancelled'
      BY <1>2, <2>2 DEF Step, IsRead, IsPoll, IsPayload, IsStamp, IsReap, StopRead, StopCancel,
         StopWait, StopFree, StopClear, StartClear, StartCheck, StartFails, StartPublish
    <3>2. QED
      BY <3>1
  <2>3. QED
    BY <2>1, <2>2
<1>3. ASSUME NEW j \in Ids, TaskEnds(j) \/ TaskStops(j) PROVE TokenInv'
  BY <1>3 DEF TaskEnds, TaskStops, TypeOK
<1>4. CASE UNCHANGED vars
  BY <1>4 DEF vars
<1>5. QED
  BY <1>1, <1>2, <1>3, <1>4 DEF Next

\* A tunnel that still runs can be stopped through g_job or has its token set,
\* unless its handle was overwritten: what StopEndsTask rests on.
THEOREM NoOrphanTaskHolds == Spec => []NoOrphanTask
<1>1. Init => TokenInv
  BY DEF Init, TokenInv
<1>2. Spec => []TokenInv
  BY <1>1, TokenStep, TypeCorrect, PTL DEF Spec
<1>3. Spec => []NoOrphanJob
  BY NoOrphanJobHolds
<1>4. TokenInv /\ NoOrphanJob => NoOrphanTask
  BY DEF TokenInv, NoOrphanJob, NoOrphanTask
<1>5. QED
  BY <1>2, <1>3, <1>4, PTL
=============================================================================
