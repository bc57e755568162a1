-------------------------- MODULE Tun2Socks_proofs --------------------------
(* Machine-checked facts about Tun2Socks, for any set of threads and any      *)
(* number of native runs.                                                     *)
EXTENDS Tun2Socks, TLAPS

\* Whoever waits in the join keeps the monitor and is alone in doing so, and
\* start() only gets there with the handle cleared.
JoinHolds ==
    \A t \in Threads : At(t, "startJoin") => monitor = t /\ handle = NoRun

\* lastThread follows every thread that still lives, and the handle, when it is
\* set, names the same one: this is what makes joining lastThread enough.
LastIsTheOne ==
    /\ \A r \in Runs : Alive(r) => r = last
    /\ handle # NoRun => handle = last

\* A thread that has not been created is not a run yet.
Uncreated == \A r \in Runs : r >= nextRun => run[r] = "none"

IInv == TypeOK /\ JoinHolds /\ LastIsTheOne /\ Uncreated /\ NoStaleTerminate

-----------------------------------------------------------------------------
\* Init establishes the inductive invariant.
LEMMA InitIInv == Init => IInv
<1> SUFFICES ASSUME Init PROVE IInv
  OBVIOUS
<1>1. TypeOK
  <2>1. nextRun \in 1..(MaxRuns + 1)
    BY MaxRunsAssumption DEF Init
  <2>2. gTerminate \in BOOLEAN /\ stopped \subseteq Runs
    BY DEF Init
  <2>3. pc \in [Threads -> States] /\ run \in [Runs -> RunStates]
    BY DEF Init, States, RunStates
  <2>4. QED
    BY <2>1, <2>2, <2>3 DEF Init, TypeOK
<1>2. JoinHolds /\ NoStaleTerminate
  BY DEF Init, JoinHolds, NoStaleTerminate, At
<1>3. LastIsTheOne /\ Uncreated
  BY DEF Init, LastIsTheOne, Uncreated, Alive
<1>4. QED
  BY <1>1, <1>2, <1>3 DEF IInv

\* A new thread, with nobody alive before it, becomes the one lastThread names.
LEMMA SpawnStep ==
  ASSUME IInv, Spawn, ~Alive(last)
  PROVE  /\ handle' \in Runs \cup {NoRun} /\ last' \in Runs \cup {NoRun}
         /\ run' \in [Runs -> RunStates] /\ nextRun' \in 1..(MaxRuns + 1)
         /\ LastIsTheOne' /\ Uncreated' /\ NoStaleTerminate'
<1> USE MaxRunsAssumption DEF IInv, TypeOK, Spawn, Runs, RunStates, NoRun
<1>1. \A r \in Runs : ~Alive(r)
  BY DEF LastIsTheOne
<1>2. LastIsTheOne'
  BY <1>1 DEF LastIsTheOne, Alive
<1>3. Uncreated' /\ NoStaleTerminate'
  BY DEF Uncreated, NoStaleTerminate
<1>4. QED
  BY <1>2, <1>3

\* A start that fails past the join forgets a thread that is dead anyway.
LEMMA FailStep ==
  ASSUME IInv, SpawnFails, ~Alive(last), handle = NoRun
  PROVE  LastIsTheOne' /\ Uncreated' /\ NoStaleTerminate'
BY DEF IInv, SpawnFails, native, LastIsTheOne, Uncreated, NoStaleTerminate, Alive

\* The invariant is preserved by a thread that calls or is inside a call.
LEMMA ThreadStep ==
  ASSUME IInv, NEW t \in Threads, Calling(t) \/ Step(t)
  PROVE  IInv'
<1> USE FreeAssumption, MaxRunsAssumption
    DEF IInv, TypeOK, States, At, Goto, native
<1>1. CASE CallStart(t) \/ CallStop(t) \/ StartAlready(t) \/ StopNothing(t)
  <2>1. UNCHANGED <<monitor, handle, last, run, nextRun, gTerminate, stopped>>
    BY <1>1 DEF CallStart, CallStop, StartAlready, StopNothing
  <2>2. /\ pc' \in [Threads -> States]
        /\ \A u \in Threads : pc'[u] = "startJoin" => pc[u] = "startJoin"
    BY <1>1 DEF CallStart, CallStop, StartAlready, StopNothing
  <2>3. QED
    BY <2>1, <2>2 DEF JoinHolds, LastIsTheOne, Uncreated, NoStaleTerminate, Alive
<1>2. CASE StartWaits(t)
  <2>1. UNCHANGED <<handle, last, run, nextRun, gTerminate, stopped>>
    BY <1>2 DEF StartWaits
  <2>2. JoinHolds' /\ pc' \in [Threads -> States]
    BY <1>2 DEF StartWaits, JoinHolds
  <2>3. QED
    BY <1>2, <2>1, <2>2 DEF StartWaits, LastIsTheOne, Uncreated, NoStaleTerminate, Alive
<1>3. CASE StartNow(t) \/ StartJoined(t)
  <2>1. /\ ~Alive(last) /\ handle = NoRun
        /\ Spawn \/ SpawnFails
        /\ \A u \in Threads : pc'[u] # "startJoin"
        /\ pc' \in [Threads -> States] /\ monitor' = Free
    <3>1. \A u \in Threads : At(u, "startJoin") => monitor = u
      BY DEF JoinHolds
    <3>2. QED
      BY <1>3, <3>1 DEF StartNow, StartJoined, JoinHolds
  <2>2. JoinHolds'
    BY <2>1 DEF JoinHolds
  <2>3. CASE Spawn
    BY <2>1, <2>2, <2>3, SpawnStep DEF Spawn
  <2>4. CASE SpawnFails
    BY <2>1, <2>2, <2>4, FailStep DEF SpawnFails
  <2>5. QED
    BY <2>1, <2>3, <2>4
<1>4. CASE StartRefused(t)
  BY <1>4 DEF StartRefused, JoinHolds, LastIsTheOne, Uncreated, NoStaleTerminate, Alive
<1>5. CASE StopSignals(t)
  <2>1. handle \in Runs /\ handle = last
    BY <1>5 DEF StopSignals, LastIsTheOne
  <2>2. NoStaleTerminate'
    \* the run inside run() is lastThread's, which is the handle's
    BY <1>5, <2>1 DEF StopSignals, NoStaleTerminate, LastIsTheOne, Alive
  <2>3. JoinHolds' /\ LastIsTheOne' /\ Uncreated'
    BY <1>5 DEF StopSignals, JoinHolds, LastIsTheOne, Uncreated, Alive, NoRun
  <2>4. QED
    BY <1>5, <2>1, <2>2, <2>3 DEF StopSignals
<1>6. CASE StopThrows(t)
  BY <1>6 DEF StopThrows, JoinHolds, LastIsTheOne, Uncreated, NoStaleTerminate, Alive, NoRun
<1>7. QED
  BY <1>1, <1>2, <1>3, <1>4, <1>5, <1>6 DEF Calling, Step

\* The invariant is preserved by a native thread.
LEMMA NativeStep ==
  ASSUME IInv, NEW r \in Runs, RunStep(r) \/ RunQuits(r)
  PROVE  IInv'
<1> USE DEF IInv, TypeOK, RunStates, RunGoes, Runs
<1>1. /\ UNCHANGED <<pc, monitor, handle, last, nextRun, stopped>>
      /\ run' \in [Runs -> RunStates] /\ gTerminate' \in BOOLEAN
      /\ run[r] # "none" /\ Alive(r)
      /\ \A s \in Runs : s # r => run'[s] = run[s]
  BY DEF RunStep, RunEnter, RunThrows, RunTick, RunExits, RunQuits, Alive
<1>2. JoinHolds' /\ LastIsTheOne' /\ Uncreated'
  BY <1>1 DEF JoinHolds, LastIsTheOne, Uncreated, Alive, At
<1>3. CASE gTerminate'
  <2>1. \A s \in Runs : run'[s] = "running" => run[s] = "running"
    BY <1>1, <1>3 DEF RunStep, RunEnter, RunThrows, RunTick, RunExits, RunQuits
  <2>2. gTerminate
    BY <1>3 DEF RunStep, RunEnter, RunThrows, RunTick, RunExits, RunQuits
  <2>3. QED
    BY <1>1, <1>2, <2>1, <2>2 DEF NoStaleTerminate
<1>4. CASE ~gTerminate'
  BY <1>1, <1>2, <1>4 DEF NoStaleTerminate
<1>5. QED
  BY <1>3, <1>4

\* Every behaviour of the manager and its native threads keeps the invariant.
LEMMA Inductive == Spec => []IInv
<1>1. IInv /\ [Next]_vars => IInv'
  <2> SUFFICES ASSUME IInv, [Next]_vars PROVE IInv'
    OBVIOUS
  <2>1. CASE UNCHANGED vars
    BY <2>1 DEF vars, IInv, TypeOK, JoinHolds, LastIsTheOne, Uncreated,
                NoStaleTerminate, At, Alive
  <2>2. QED
    BY <2>1, ThreadStep, NativeStep DEF Next
<1>2. QED
  BY <1>1, InitIInv, PTL DEF Spec

\* The state of Tun2SocksManager and of the native threads stays well typed.
THEOREM TypeCorrect == Spec => []TypeOK
BY Inductive, PTL DEF IInv

\* However many threads call start() and stop() of Tun2SocksManager, no two
\* native run() calls of tun2socks.c overlap.
THEOREM OneRunHolds == Spec => []OneRun
<1>1. IInv => OneRun
  BY DEF IInv, LastIsTheOne, OneRun
<1>2. QED
  BY <1>1, Inductive, PTL

\* g_terminate, left set by the stop() of an earlier run, never ends a later one.
THEOREM NoStaleTerminateHolds == Spec => []NoStaleTerminate
BY Inductive, PTL DEF IInv

\* While a run that was told to quit has not seen the flag, no other native
\* thread enters run() and resets it: what SeenStopEnds rests on.
THEOREM FlagReachesRunHolds == Spec => FlagReachesRun
<1>1. ASSUME IInv, Next, NEW r \in Runs, run[r] = "running", gTerminate
      PROVE  run'[r] # "running" \/ gTerminate'
  <2>1. ASSUME NEW t \in Threads, Calling(t) \/ Step(t) PROVE gTerminate'
    BY <1>1, <2>1 DEF Calling, Step, CallStart, CallStop, StartAlready, StartWaits, StartNow,
       StartJoined, StartRefused, StopNothing, StopSignals, StopThrows, Spawn, SpawnFails, native
  <2>2. ASSUME NEW s \in Runs, RunEnter(s) PROVE FALSE
    BY <1>1, <2>2 DEF RunEnter, RunGoes, IInv, LastIsTheOne, Alive
  <2>3. ASSUME NEW s \in Runs, RunThrows(s) \/ RunTick(s) \/ RunExits(s) \/ RunQuits(s)
        PROVE  gTerminate'
    BY <1>1, <2>3 DEF RunThrows, RunTick, RunExits, RunQuits
  <2> QED BY <1>1, <2>1, <2>2, <2>3 DEF Next, RunStep
<1>2. IInv /\ [Next]_vars =>
      [\A r \in Runs : run[r] = "running" /\ gTerminate => run'[r] # "running" \/ gTerminate']_vars
  BY <1>1
<1> QED BY <1>2, Inductive, PTL DEF Spec, FlagReachesRun
=============================================================================
