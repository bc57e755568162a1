------------------------- MODULE FcaeSession_proofs -------------------------
(* Proofs for FcaeSession, for any callers, any number of sessions and either *)
(* value of Chained: every invariant of the supervisor, from one inductive    *)
(* invariant that says who answers for a worker, who may hold which lock, and *)
(* what stands at each place of the worker.                                   *)
EXTENDS FcaeSession, TLAPS

Stopper(c) == cpc[c] \in {"cancel", "abort", "report", "join"}

\* A lock is held exactly where the code holds it.
LockInv ==
    /\ \A c \in Callers : cpc[c] \in {"raise", "recheck"} => control = c
    /\ \A s \in Sessions : At(s, "raise") => control = s
    /\ \A c \in Callers : cpc[c] = "begin" => running = c /\ slot # 0 /\ cancelled[slot]

\* A worker is answered for by the slot, by the one stop() that took it or by
\* the one reaper that joins it; the last two keep the barrier up.
OwnerInv ==
    /\ \A c \in Callers : Stopper(c) =>
           /\ slot = 0 /\ stopping /\ reapers = {} /\ mine[c] \in Sessions
           /\ \A d \in Callers : Stopper(d) => d = c
           /\ cpc[c] # "cancel" => cancelled[mine[c]]
    /\ \A s \in reapers : slot = 0 /\ stopping /\ \A t \in reapers : t = s
    /\ \A s \in Sessions : Alive(s) =>
           s = slot \/ s \in reapers \/ \E c \in Callers : Stopper(c) /\ mine[c] = s
    /\ \A s \in Sessions : Alive(s) /\ cancelled[s] => stopping

\* Numbers that have not been given out are untouched.
FreshInv ==
    /\ \A s \in Sessions : s > count => At(s, "none") /\ ~cancelled[s]
    /\ slot <= count /\ \A c \in Callers : mine[c] <= count

\* No session is published where the worker has no backend: nobody resumes.
Unpublished(s) ==
    \/ wpc[s] \in {"spawned", "loop", "report", "dial", "psi", "tun", "backoff"}
    \/ wpc[s] \in {"psi_stop", "carrier_stop"} /\ next[s] \in {"retry", "chain"}

\* Whoever raises the TUN does so on a clean device, for a published session.
TunInv ==
    /\ \A s \in Sessions : Unpublished(s) => ~live /\ tun = "down"
    /\ \A s \in Sessions : wpc[s] \in {"final", "outcome"} => ~live
    /\ \A s \in Sessions : At(s, "raise") => tun = "down" /\ ~paused
    /\ \A s \in Sessions : At(s, "outcome") => tun = "down"
    /\ \A c \in Callers : cpc[c] \in {"raise", "recheck"} =>
           live /\ \E s \in Sessions : Alive(s)
    /\ \A c \in Callers : cpc[c] = "raise" => tun = "down"

Leaving(s) ==
    wpc[s] \in {"guard", "final"} \/ (wpc[s] \in {"psi_stop", "carrier_stop"} /\ next[s] = "guard")

\* The handles stand from the dial to their stop, and a worker that leaves
\* without an error has taken the TUN down, or the resume under way will.
HandleInv ==
    /\ \A s \in Sessions :
           wpc[s] \in {"psi", "tun", "raise", "check", "connected", "run", "restart", "drop",
                       "teardown", "tun_stop", "psi_stop", "carrier_stop"} => carrier[s]
    /\ \A s \in Sessions : psi[s] =>
           wpc[s] \in {"tun", "raise", "check", "connected", "run", "restart", "drop",
                       "teardown", "tun_stop", "psi_stop"}
    /\ \A s \in Sessions : Leaving(s) /\ ~failed[s] => cancelled[s] /\ (tun = "up" => control # None)
    /\ \A s \in Sessions : At(s, "tun_stop") => cancelled[s]

\* Without a worker the last report stands.
ShownInv ==
    (\A s \in Sessions : ~Alive(s)) => state \in {"Idle", "Disconnected", "Error"}

Device ==
    /\ TunInv /\ HandleInv /\ ShownInv
    /\ TunDiesWithSession /\ AbortHitsItsOwn /\ PausedIsDown

IInv == TypeOK /\ LockInv /\ OwnerInv /\ FreshInv /\ OneWorker /\ Device
-----------------------------------------------------------------------------
(* The parts of the state the SMT solver does not handle well, apart *)

Flags == /\ stopping \in BOOLEAN /\ paused \in BOOLEAN /\ live \in BOOLEAN
         /\ cancelled \in [Sessions -> BOOLEAN] /\ failed \in [Sessions -> BOOLEAN]
         /\ carrier \in [Sessions -> BOOLEAN] /\ psi \in [Sessions -> BOOLEAN]
         /\ already \in [Callers -> BOOLEAN]

\* Session numbers start at one; zero is the empty slot.
LEMMA SessionsAre == 0 \notin Sessions /\ 0 \in 0..MaxSessions /\ Sessions \subseteq 0..MaxSessions
                     /\ \A k \in 0..MaxSessions : k # 0 => k \in Sessions
BY BoundAssumption DEF Sessions

\* Every step keeps the Boolean flags Boolean.
LEMMA FlagsStep ==
  ASSUME TypeOK, [Next]_vars
  PROVE  Flags'
<1> USE DEF Flags, TypeOK, To, Goto, Fail, Unwind, supervisor, locks, worker, handles, calls
<1>1. ASSUME NEW c \in Callers, Call(c) PROVE Flags'
  BY <1>1, SessionsAre DEF Call, Start, BeginStop, Stop, PauseTun, ResumeTun
<1>2. ASSUME NEW c \in Callers, Proceed(c) PROVE Flags'
  BY <1>2 DEF Proceed, BeginStopAborts, StopCancels, StopAborts, StopReports, StopJoins,
     ResumeRaises, ResumeEnds
<1>3. ASSUME NEW s \in Sessions, Connect(s) PROVE Flags'
  BY <1>3 DEF Connect, RuntimeFails, Loop, ReportConnecting, BackendStarts, BackendFails, PsiphonStarts,
     TunLock, TunRaises, Check, ReportConnected
<1>4. ASSUME NEW s \in Sessions, Run(s) \/ Leave(s) \/ Reap(s) PROVE Flags'
  BY <1>4 DEF Run, Leave, SelectCancelled, CarrierChanged, PsiphonRestarts, TunnelEnds,
     ReportDropped, Teardown, TunStop, PsiStop, CarrierStop, Backoff, LiveGuardDrop,
     FinalStop, Outcome, Reap
<1>5. CASE UNCHANGED vars
  BY <1>5 DEF vars
<1> QED BY <1>1, <1>2, <1>3, <1>4, <1>5 DEF Next, Worker

\* The rest of TypeOK.
Shape ==
    /\ slot \in 0..MaxSessions /\ count \in 0..MaxSessions
    /\ control \in Threads /\ running \in Callers \cup {None}
    /\ tun \in {"down", "up", "aborted"}
    /\ state \in {"Idle", "Provisioning", "Connecting", "Connected", "Disconnected", "Error"}
    /\ wpc \in [Sessions -> WorkerStates]
    /\ next \in [Sessions -> {"guard", "chain", "retry"}]
    /\ cpc \in [Callers -> {"idle", "begin", "cancel", "abort", "report", "join",
                            "raise", "recheck"}]
    /\ mine \in [Callers -> 0..MaxSessions]
    /\ reapers \subseteq Sessions
    /\ control \in Sessions => At(control, "raise")
    /\ control \in Callers => cpc[control] \in {"raise", "recheck"}
    /\ running # None => cpc[running] = "begin"

\* The invariant holds in a new supervisor.
LEMMA InitIInv == Init => IInv
<1> SUFFICES ASSUME Init PROVE IInv
  OBVIOUS
<1> USE SessionsAre DEF Init, Alive, At, Stopper, Unpublished, Leaving
<1>1. TypeOK
  BY NoneAssumption DEF TypeOK, Threads, WorkerStates
<1>2. LockInv /\ OwnerInv /\ FreshInv /\ TunInv /\ HandleInv /\ ShownInv
  BY BoundAssumption DEF LockInv, FreshInv, OwnerInv, TunInv, HandleInv, ShownInv
<1>3. OneWorker /\ TunDiesWithSession /\ AbortHitsItsOwn /\ PausedIsDown
  BY DEF OneWorker, TunDiesWithSession, AbortHitsItsOwn, PausedIsDown
<1> QED BY <1>1, <1>2, <1>3 DEF IInv, Device

\* Every step keeps the other variables in their sets.
LEMMA ShapeStep ==
  ASSUME TypeOK, LockInv, OwnerInv, [Next]_vars
  PROVE  Shape'
<1> USE SessionsAre, NoneAssumption, ThreadAssumption, BoundAssumption
    DEF Shape, LockInv, Threads, WorkerStates, Idle, To, At, Goto, Fail, Unwind, Show, Abort,
        supervisor, locks, worker, handles, calls
<1>0. Shape
  BY DEF TypeOK
<1>1. ASSUME NEW c \in Callers, Call(c) PROVE Shape'
  <2>1. CASE Start(c)
    BY <1>0, <2>1 DEF Start
  <2>2. CASE BeginStop(c)
    BY <1>0, <2>2 DEF BeginStop
  <2>3. CASE Stop(c)
    BY <1>0, <2>3 DEF Stop
  <2>4. CASE PauseTun(c)
    BY <1>0, <2>4 DEF PauseTun
  <2>5. CASE ResumeTun(c)
    BY <1>0, <2>5 DEF ResumeTun
  <2> QED BY <1>1, <2>1, <2>2, <2>3, <2>4, <2>5 DEF Call
<1>2. ASSUME NEW c \in Callers, Proceed(c) PROVE Shape'
  <2>1. CASE BeginStopAborts(c)
    BY <1>0, <2>1 DEF BeginStopAborts
  <2>2. CASE StopCancels(c)
    BY <1>0, <2>2 DEF StopCancels
  <2>3. CASE StopAborts(c)
    BY <1>0, <2>3 DEF StopAborts
  <2>4. CASE StopReports(c)
    BY <1>0, <2>4 DEF StopReports
  <2>5. CASE StopJoins(c)
    <3>1. mine[c] \in Sessions
      BY <2>5 DEF StopJoins, OwnerInv, Stopper
    <3>2. reapers' \subseteq reapers \cup {mine[c]}
      BY <2>5 DEF StopJoins, Alive
    <3> QED BY <1>0, <2>5, <3>1, <3>2 DEF StopJoins
  <2>6. CASE ResumeRaises(c)
    BY <1>0, <2>6 DEF ResumeRaises
  <2>7. CASE ResumeEnds(c)
    BY <1>0, <2>7 DEF ResumeEnds
  <2> QED BY <1>2, <2>1, <2>2, <2>3, <2>4, <2>5, <2>6, <2>7 DEF Proceed
<1>3. ASSUME NEW s \in Sessions, Connect(s) PROVE Shape'
  <2>0. CASE RuntimeFails(s)
    BY <1>0, <2>0 DEF RuntimeFails
  <2>1. CASE Loop(s)
    BY <1>0, <2>1 DEF Loop
  <2>2. CASE ReportConnecting(s)
    BY <1>0, <2>2 DEF ReportConnecting
  <2>3. CASE BackendStarts(s)
    BY <1>0, <2>3 DEF BackendStarts
  <2>4. CASE BackendFails(s)
    <3>1. PICK p \in {"backoff", "guard"} : Goto(s, p)
      BY <2>4 DEF BackendFails
    <3> QED BY <1>0, <2>4, <3>1 DEF BackendFails
  <2>5. CASE PsiphonStarts(s)
    <3>1. PICK p \in {"tun", "psi_stop"} : Goto(s, p)
      BY <2>5 DEF PsiphonStarts
    <3>2. next' \in [Sessions -> {"guard", "chain", "retry"}]
      BY <1>0, <2>5 DEF PsiphonStarts
    <3>3. state' \in {state, "Connecting"}
      BY <2>5 DEF PsiphonStarts
    <3> QED BY <1>0, <2>5, <3>1, <3>2, <3>3 DEF PsiphonStarts
  <2>6. CASE TunLock(s)
    BY <1>0, <2>6 DEF TunLock
  <2>7. CASE TunRaises(s)
    BY <1>0, <2>7 DEF TunRaises
  <2>8. CASE Check(s)
    BY <1>0, <2>8 DEF Check
  <2>9. CASE ReportConnected(s)
    BY <1>0, <2>9 DEF ReportConnected
  <2> QED BY <1>3, <2>0, <2>1, <2>2, <2>3, <2>4, <2>5, <2>6, <2>7, <2>8, <2>9 DEF Connect
<1>4. ASSUME NEW s \in Sessions, Run(s) PROVE Shape'
  <2>1. CASE SelectCancelled(s)
    BY <1>0, <2>1 DEF SelectCancelled
  <2>2. CASE CarrierChanged(s)
    <3>1. UNCHANGED wpc \/ Goto(s, "restart")
      BY <2>2 DEF CarrierChanged
    <3>2. wpc' \in [Sessions -> WorkerStates]
      BY <1>0, <3>1
    <3>3. UNCHANGED <<supervisor, locks, tun, state, next, calls, reapers>> /\ At(s, "run")
      BY <2>2 DEF CarrierChanged
    <3> QED BY <1>0, <3>1, <3>2, <3>3
  <2>3. CASE PsiphonRestarts(s)
    BY <1>0, <2>3 DEF PsiphonRestarts
  <2>4. CASE TunnelEnds(s)
    BY <1>0, <2>4 DEF TunnelEnds
  <2> QED BY <1>4, <2>1, <2>2, <2>3, <2>4 DEF Run
<1>5. ASSUME NEW s \in Sessions, Leave(s) PROVE Shape'
  <2>1. CASE ReportDropped(s)
    BY <1>0, <2>1 DEF ReportDropped
  <2>2. CASE Teardown(s)
    BY <1>0, <2>2 DEF Teardown
  <2>3. CASE TunStop(s)
    BY <1>0, <2>3 DEF TunStop
  <2>4. CASE PsiStop(s)
    BY <1>0, <2>4 DEF PsiStop
  <2>5. CASE CarrierStop(s)
    <3>1. PICK p \in {"backoff", "guard"} : Goto(s, p)
      BY <2>5 DEF CarrierStop
    <3> QED BY <1>0, <2>5, <3>1 DEF CarrierStop
  <2>6. CASE Backoff(s)
    BY <1>0, <2>6 DEF Backoff
  <2>7. CASE LiveGuardDrop(s)
    BY <1>0, <2>7 DEF LiveGuardDrop
  <2>8. CASE FinalStop(s)
    BY <1>0, <2>8 DEF FinalStop
  <2>9. CASE Outcome(s)
    BY <1>0, <2>9 DEF Outcome
  <2> QED BY <1>5, <2>1, <2>2, <2>3, <2>4, <2>5, <2>6, <2>7, <2>8, <2>9 DEF Leave
<1>6. ASSUME NEW s \in Sessions, Reap(s) PROVE Shape'
  BY <1>0, <1>6 DEF Reap
<1>7. CASE UNCHANGED vars
  BY <1>0, <1>7 DEF vars
<1> QED BY <1>1, <1>2, <1>3, <1>4, <1>5, <1>6, <1>7 DEF Next, Worker

\* Only start() touches a number that was not given out.
LEMMA FreshStep ==
  ASSUME TypeOK, FreshInv, [Next]_vars
  PROVE  FreshInv'
<1> USE BoundAssumption DEF TypeOK, Sessions, FreshInv, To, At, Goto, Unwind, supervisor, locks, worker, calls
<1>1. ASSUME NEW c \in Callers, Call(c) PROVE FreshInv'
  <2>1. CASE Start(c)
    BY <2>1 DEF Start
  <2>2. CASE BeginStop(c)
    BY <2>2 DEF BeginStop
  <2>3. CASE Stop(c)
    BY <2>3 DEF Stop
  <2>4. CASE PauseTun(c) \/ ResumeTun(c)
    BY <2>4 DEF PauseTun, ResumeTun
  <2> QED BY <1>1, <2>1, <2>2, <2>3, <2>4 DEF Call
<1>2. ASSUME NEW c \in Callers, Proceed(c) PROVE FreshInv'
  <2>1. CASE StopCancels(c)
    BY <2>1 DEF StopCancels
  <2>2. CASE StopJoins(c)
    BY <2>2 DEF StopJoins
  <2>3. CASE BeginStopAborts(c) \/ StopAborts(c) \/ StopReports(c) \/ ResumeRaises(c) \/ ResumeEnds(c)
    BY <2>3 DEF BeginStopAborts, StopAborts, StopReports, ResumeRaises, ResumeEnds
  <2> QED BY <1>2, <2>1, <2>2, <2>3 DEF Proceed
<1>3. ASSUME NEW s \in Sessions, Worker(s) \/ Reap(s) PROVE FreshInv'
  <2>1. (wpc[s] # "none" \/ UNCHANGED wpc) /\ UNCHANGED <<count, slot, mine, cancelled>>
    BY <1>3 DEF Worker, Connect, RuntimeFails, Loop, ReportConnecting, BackendStarts, BackendFails, PsiphonStarts,
       TunLock, TunRaises, Check, ReportConnected, Run, SelectCancelled, CarrierChanged,
       PsiphonRestarts, TunnelEnds, Leave, ReportDropped, Teardown, TunStop, PsiStop,
       CarrierStop, Backoff, LiveGuardDrop, FinalStop, Outcome, Reap
  <2>2. \A t \in Sessions : t # s => wpc'[t] = wpc[t]
    BY <1>3 DEF Worker, Connect, RuntimeFails, Loop, ReportConnecting, BackendStarts, BackendFails, PsiphonStarts,
       TunLock, TunRaises, Check, ReportConnected, Run, SelectCancelled, CarrierChanged,
       PsiphonRestarts, TunnelEnds, Leave, ReportDropped, Teardown, TunStop, PsiStop,
       CarrierStop, Backoff, LiveGuardDrop, FinalStop, Outcome, Reap
  <2> QED BY <2>1, <2>2
<1>4. CASE UNCHANGED vars
  BY <1>4 DEF vars
<1> QED BY <1>1, <1>2, <1>3, <1>4 DEF Next

\* A call of the interface keeps the invariant.
LEMMA CallStep ==
  ASSUME IInv, TypeOK', FreshInv', NEW c \in Callers, Call(c)
  PROVE  IInv'
<1> USE SessionsAre, NoneAssumption, ThreadAssumption
    DEF IInv, Idle, To, At, Goto, Fail, Unwind, Show, Abort, Alive, IsRunning, Stopper,
        Unpublished, Leaving, supervisor, locks, worker, handles, calls
<1>1. CASE Start(c)
  <2>1. (\A t \in Sessions : ~Alive(t)) /\ (\A d \in Callers : ~Stopper(d)) /\ reapers = {}
    BY <1>1 DEF Start, TypeOK, OwnerInv
  <2>2. \A t \in Sessions : Alive(t)' => t = slot' /\ ~cancelled'[t]
    BY <1>1, <2>1, BoundAssumption DEF Start, TypeOK, FreshInv, Sessions
  <2>3. UNCHANGED <<cpc, mine, reapers, stopping, control, running, cancelled>>
    BY <1>1 DEF Start
  <2>4. LockInv'
    BY <1>1, <2>1 DEF Start, TypeOK, LockInv
  <2>5. LockInv' /\ OwnerInv' /\ OneWorker'
    BY <1>1, <2>1, <2>2, <2>3, <2>4 DEF Start, TypeOK, LockInv, OwnerInv, OneWorker
  <2>6. Device'
    BY <1>1 DEF Start, TypeOK, LockInv, OwnerInv, OneWorker, Device, TunInv, HandleInv, ShownInv,
       TunDiesWithSession, AbortHitsItsOwn, PausedIsDown
  <2> QED BY <2>5, <2>6
<1>2. CASE BeginStop(c)
  <2>1. LockInv' /\ OwnerInv' /\ OneWorker'
    BY <1>2 DEF BeginStop, TypeOK, LockInv, OwnerInv, OneWorker
  <2>2. Device'
    BY <1>2 DEF BeginStop, TypeOK, LockInv, OwnerInv, OneWorker, Device, TunInv, HandleInv, ShownInv,
       TunDiesWithSession, AbortHitsItsOwn, PausedIsDown
  <2> QED BY <2>1, <2>2
<1>3. CASE Stop(c)
  <2>1. LockInv' /\ OwnerInv' /\ OneWorker'
    BY <1>3 DEF Stop, TypeOK, LockInv, OwnerInv, OneWorker
  <2>2. Device'
    BY <1>3 DEF Stop, TypeOK, LockInv, OwnerInv, OneWorker, Device, TunInv, HandleInv, ShownInv,
       TunDiesWithSession, AbortHitsItsOwn, PausedIsDown
  <2> QED BY <2>1, <2>2
<1>4. CASE PauseTun(c)
  <2>1. LockInv' /\ OwnerInv' /\ OneWorker'
    BY <1>4 DEF PauseTun, TypeOK, LockInv, OwnerInv, OneWorker
  <2>2. Device'
    BY <1>4 DEF PauseTun, TypeOK, LockInv, OwnerInv, OneWorker, Device, TunInv, HandleInv, ShownInv,
       TunDiesWithSession, AbortHitsItsOwn, PausedIsDown
  <2> QED BY <2>1, <2>2
<1>5. CASE ResumeTun(c)
  <2>1. LockInv' /\ OwnerInv' /\ OneWorker'
    BY <1>5 DEF ResumeTun, TypeOK, LockInv, OwnerInv, OneWorker
  <2>2. Device'
    BY <1>5 DEF ResumeTun, TypeOK, LockInv, OwnerInv, OneWorker, Device, TunInv, HandleInv, ShownInv,
       TunDiesWithSession, AbortHitsItsOwn, PausedIsDown
  <2> QED BY <2>1, <2>2
<1> QED BY <1>1, <1>2, <1>3, <1>4, <1>5 DEF Call

\* A caller inside a call keeps it.
LEMMA ProceedStep ==
  ASSUME IInv, TypeOK', FreshInv', NEW c \in Callers, Proceed(c)
  PROVE  IInv'
<1> USE SessionsAre, NoneAssumption, ThreadAssumption
    DEF IInv, Idle, To, At, Goto, Fail, Unwind, Show, Abort, Alive, IsRunning, Stopper,
        Unpublished, Leaving, supervisor, locks, worker, handles, calls
<1>1. CASE BeginStopAborts(c)
  <2>1. LockInv' /\ OwnerInv' /\ OneWorker'
    BY <1>1 DEF BeginStopAborts, TypeOK, LockInv, OwnerInv, OneWorker
  <2>2. Device'
    BY <1>1 DEF BeginStopAborts, TypeOK, LockInv, OwnerInv, OneWorker, Device, TunInv, HandleInv, ShownInv,
       TunDiesWithSession, AbortHitsItsOwn, PausedIsDown
  <2> QED BY <2>1, <2>2
<1>2. CASE StopCancels(c)
  <2>1. LockInv' /\ OwnerInv' /\ OneWorker'
    BY <1>2 DEF StopCancels, TypeOK, LockInv, OwnerInv, OneWorker
  <2>2. Device'
    BY <1>2 DEF StopCancels, TypeOK, LockInv, OwnerInv, OneWorker, Device, TunInv, HandleInv, ShownInv,
       TunDiesWithSession, AbortHitsItsOwn, PausedIsDown
  <2> QED BY <2>1, <2>2
<1>3. CASE StopAborts(c)
  <2>1. LockInv' /\ OwnerInv' /\ OneWorker'
    BY <1>3 DEF StopAborts, TypeOK, LockInv, OwnerInv, OneWorker
  <2>2. Device'
    BY <1>3 DEF StopAborts, TypeOK, LockInv, OwnerInv, OneWorker, Device, TunInv, HandleInv, ShownInv,
       TunDiesWithSession, AbortHitsItsOwn, PausedIsDown
  <2> QED BY <2>1, <2>2
<1>4. CASE StopReports(c)
  <2>1. LockInv' /\ OwnerInv' /\ OneWorker'
    BY <1>4 DEF StopReports, TypeOK, LockInv, OwnerInv, OneWorker
  <2>2. Device'
    BY <1>4 DEF StopReports, TypeOK, LockInv, OwnerInv, OneWorker, Device, TunInv, HandleInv, ShownInv,
       TunDiesWithSession, AbortHitsItsOwn, PausedIsDown
  <2> QED BY <2>1, <2>2
<1>5. CASE StopJoins(c)
  <2>1. LockInv' /\ OwnerInv' /\ OneWorker'
    BY <1>5 DEF StopJoins, TypeOK, LockInv, OwnerInv, OneWorker
  <2>2. Device'
    BY <1>5 DEF StopJoins, TypeOK, LockInv, OwnerInv, OneWorker, Device, TunInv, HandleInv, ShownInv,
       TunDiesWithSession, AbortHitsItsOwn, PausedIsDown
  <2> QED BY <2>1, <2>2
<1>6. CASE ResumeRaises(c)
  <2>1. LockInv' /\ OwnerInv' /\ OneWorker'
    BY <1>6 DEF ResumeRaises, TypeOK, LockInv, OwnerInv, OneWorker
  <2>2. Device'
    BY <1>6 DEF ResumeRaises, TypeOK, LockInv, OwnerInv, OneWorker, Device, TunInv, HandleInv, ShownInv,
       TunDiesWithSession, AbortHitsItsOwn, PausedIsDown
  <2> QED BY <2>1, <2>2
<1>7. CASE ResumeEnds(c)
  <2>1. LockInv' /\ OwnerInv' /\ OneWorker'
    BY <1>7 DEF ResumeEnds, TypeOK, LockInv, OwnerInv, OneWorker
  <2>2. Device'
    BY <1>7 DEF ResumeEnds, TypeOK, LockInv, OwnerInv, OneWorker, Device, TunInv, HandleInv, ShownInv,
       TunDiesWithSession, AbortHitsItsOwn, PausedIsDown
  <2> QED BY <2>1, <2>2
<1> QED BY <1>1, <1>2, <1>3, <1>4, <1>5, <1>6, <1>7 DEF Proceed

\* A worker that connects keeps it.
LEMMA ConnectStep ==
  ASSUME IInv, TypeOK', FreshInv', NEW s \in Sessions, Connect(s)
  PROVE  IInv'
<1> USE SessionsAre, NoneAssumption, ThreadAssumption
    DEF IInv, Idle, To, At, Goto, Fail, Unwind, Show, Abort, Alive, IsRunning, Stopper,
        Unpublished, Leaving, supervisor, locks, worker, handles, calls
<1>0. CASE RuntimeFails(s)
  <2>1. LockInv' /\ OwnerInv' /\ OneWorker'
    BY <1>0 DEF RuntimeFails, TypeOK, LockInv, OwnerInv, OneWorker
  <2>2. Device'
    BY <1>0 DEF RuntimeFails, TypeOK, LockInv, OwnerInv, OneWorker, Device, TunInv, HandleInv, ShownInv,
       TunDiesWithSession, AbortHitsItsOwn, PausedIsDown
  <2> QED BY <2>1, <2>2
<1>1. CASE Loop(s)
  <2>1. LockInv' /\ OwnerInv' /\ OneWorker'
    BY <1>1 DEF Loop, TypeOK, LockInv, OwnerInv, OneWorker
  <2>2. Device'
    BY <1>1 DEF Loop, TypeOK, LockInv, OwnerInv, OneWorker, Device, TunInv, HandleInv, ShownInv,
       TunDiesWithSession, AbortHitsItsOwn, PausedIsDown
  <2> QED BY <2>1, <2>2
<1>2. CASE ReportConnecting(s)
  <2>1. LockInv' /\ OwnerInv' /\ OneWorker'
    BY <1>2 DEF ReportConnecting, TypeOK, LockInv, OwnerInv, OneWorker
  <2>2. Device'
    BY <1>2 DEF ReportConnecting, TypeOK, LockInv, OwnerInv, OneWorker, Device, TunInv, HandleInv, ShownInv,
       TunDiesWithSession, AbortHitsItsOwn, PausedIsDown
  <2> QED BY <2>1, <2>2
<1>3. CASE BackendStarts(s)
  <2>1. LockInv' /\ OwnerInv' /\ OneWorker'
    BY <1>3 DEF BackendStarts, TypeOK, LockInv, OwnerInv, OneWorker
  <2>2. Device'
    BY <1>3 DEF BackendStarts, TypeOK, LockInv, OwnerInv, OneWorker, Device, TunInv, HandleInv, ShownInv,
       TunDiesWithSession, AbortHitsItsOwn, PausedIsDown
  <2> QED BY <2>1, <2>2
<1>4. CASE BackendFails(s)
  <2>1. LockInv' /\ OwnerInv' /\ OneWorker'
    BY <1>4 DEF BackendFails, TypeOK, LockInv, OwnerInv, OneWorker
  <2>2. Device'
    BY <1>4 DEF BackendFails, TypeOK, LockInv, OwnerInv, OneWorker, Device, TunInv, HandleInv, ShownInv,
       TunDiesWithSession, AbortHitsItsOwn, PausedIsDown
  <2> QED BY <2>1, <2>2
<1>5. CASE PsiphonStarts(s)
  <2>1. LockInv' /\ OwnerInv' /\ OneWorker'
    BY <1>5 DEF PsiphonStarts, TypeOK, LockInv, OwnerInv, OneWorker
  <2>2. Device'
    BY <1>5 DEF PsiphonStarts, TypeOK, LockInv, OwnerInv, OneWorker, Device, TunInv, HandleInv, ShownInv,
       TunDiesWithSession, AbortHitsItsOwn, PausedIsDown
  <2> QED BY <2>1, <2>2
<1>6. CASE TunLock(s)
  <2>1. LockInv' /\ OwnerInv' /\ OneWorker'
    BY <1>6 DEF TunLock, TypeOK, LockInv, OwnerInv, OneWorker
  <2>2. Device'
    BY <1>6 DEF TunLock, TypeOK, LockInv, OwnerInv, OneWorker, Device, TunInv, HandleInv, ShownInv,
       TunDiesWithSession, AbortHitsItsOwn, PausedIsDown
  <2> QED BY <2>1, <2>2
<1>7. CASE TunRaises(s)
  <2>1. LockInv' /\ OwnerInv' /\ OneWorker'
    BY <1>7 DEF TunRaises, TypeOK, LockInv, OwnerInv, OneWorker
  <2>2. Device'
    BY <1>7 DEF TunRaises, TypeOK, LockInv, OwnerInv, OneWorker, Device, TunInv, HandleInv, ShownInv,
       TunDiesWithSession, AbortHitsItsOwn, PausedIsDown
  <2> QED BY <2>1, <2>2
<1>8. CASE Check(s)
  <2>1. LockInv' /\ OwnerInv' /\ OneWorker'
    BY <1>8 DEF Check, TypeOK, LockInv, OwnerInv, OneWorker
  <2>2. Device'
    BY <1>8 DEF Check, TypeOK, LockInv, OwnerInv, OneWorker, Device, TunInv, HandleInv, ShownInv,
       TunDiesWithSession, AbortHitsItsOwn, PausedIsDown
  <2> QED BY <2>1, <2>2
<1>9. CASE ReportConnected(s)
  <2>1. LockInv' /\ OwnerInv' /\ OneWorker'
    BY <1>9 DEF ReportConnected, TypeOK, LockInv, OwnerInv, OneWorker
  <2>2. Device'
    BY <1>9 DEF ReportConnected, TypeOK, LockInv, OwnerInv, OneWorker, Device, TunInv, HandleInv, ShownInv,
       TunDiesWithSession, AbortHitsItsOwn, PausedIsDown
  <2> QED BY <2>1, <2>2
<1> QED BY <1>0, <1>1, <1>2, <1>3, <1>4, <1>5, <1>6, <1>7, <1>8, <1>9 DEF Connect

\* A worker with a session up keeps it.
LEMMA RunStep ==
  ASSUME IInv, TypeOK', FreshInv', NEW s \in Sessions, Run(s)
  PROVE  IInv'
<1> USE SessionsAre, NoneAssumption, ThreadAssumption
    DEF IInv, Idle, To, At, Goto, Fail, Unwind, Show, Abort, Alive, IsRunning, Stopper,
        Unpublished, Leaving, supervisor, locks, worker, handles, calls
<1>1. CASE SelectCancelled(s)
  <2>1. LockInv' /\ OwnerInv' /\ OneWorker'
    BY <1>1 DEF SelectCancelled, TypeOK, LockInv, OwnerInv, OneWorker
  <2>2. Device'
    BY <1>1 DEF SelectCancelled, TypeOK, LockInv, OwnerInv, OneWorker, Device, TunInv, HandleInv, ShownInv,
       TunDiesWithSession, AbortHitsItsOwn, PausedIsDown
  <2> QED BY <2>1, <2>2
<1>2. CASE CarrierChanged(s)
  <2>1. LockInv' /\ OwnerInv' /\ OneWorker'
    BY <1>2 DEF CarrierChanged, TypeOK, LockInv, OwnerInv, OneWorker
  <2>2. Device'
    BY <1>2 DEF CarrierChanged, TypeOK, LockInv, OwnerInv, OneWorker, Device, TunInv, HandleInv, ShownInv,
       TunDiesWithSession, AbortHitsItsOwn, PausedIsDown
  <2> QED BY <2>1, <2>2
<1>3. CASE PsiphonRestarts(s)
  <2>1. LockInv' /\ OwnerInv' /\ OneWorker'
    BY <1>3 DEF PsiphonRestarts, TypeOK, LockInv, OwnerInv, OneWorker
  <2>2. Device'
    BY <1>3 DEF PsiphonRestarts, TypeOK, LockInv, OwnerInv, OneWorker, Device, TunInv, HandleInv, ShownInv,
       TunDiesWithSession, AbortHitsItsOwn, PausedIsDown
  <2> QED BY <2>1, <2>2
<1>4. CASE TunnelEnds(s)
  <2>1. LockInv' /\ OwnerInv' /\ OneWorker'
    BY <1>4 DEF TunnelEnds, TypeOK, LockInv, OwnerInv, OneWorker
  <2>2. Device'
    BY <1>4 DEF TunnelEnds, TypeOK, LockInv, OwnerInv, OneWorker, Device, TunInv, HandleInv, ShownInv,
       TunDiesWithSession, AbortHitsItsOwn, PausedIsDown
  <2> QED BY <2>1, <2>2
<1> QED BY <1>1, <1>2, <1>3, <1>4 DEF Run

\* A worker on its way out keeps it.
LEMMA LeaveStep ==
  ASSUME IInv, TypeOK', FreshInv', NEW s \in Sessions, Leave(s)
  PROVE  IInv'
<1> USE SessionsAre, NoneAssumption, ThreadAssumption
    DEF IInv, Idle, To, At, Goto, Fail, Unwind, Show, Abort, Alive, IsRunning, Stopper,
        Unpublished, Leaving, supervisor, locks, worker, handles, calls
<1>1. CASE ReportDropped(s)
  <2>1. LockInv' /\ OwnerInv' /\ OneWorker'
    BY <1>1 DEF ReportDropped, TypeOK, LockInv, OwnerInv, OneWorker
  <2>2. Device'
    BY <1>1 DEF ReportDropped, TypeOK, LockInv, OwnerInv, OneWorker, Device, TunInv, HandleInv, ShownInv,
       TunDiesWithSession, AbortHitsItsOwn, PausedIsDown
  <2> QED BY <2>1, <2>2
<1>2. CASE Teardown(s)
  <2>1. LockInv' /\ OwnerInv' /\ OneWorker'
    BY <1>2 DEF Teardown, TypeOK, LockInv, OwnerInv, OneWorker
  <2>2. Device'
    BY <1>2 DEF Teardown, TypeOK, LockInv, OwnerInv, OneWorker, Device, TunInv, HandleInv, ShownInv,
       TunDiesWithSession, AbortHitsItsOwn, PausedIsDown
  <2> QED BY <2>1, <2>2
<1>3. CASE TunStop(s)
  <2>1. LockInv' /\ OwnerInv' /\ OneWorker'
    BY <1>3 DEF TunStop, TypeOK, LockInv, OwnerInv, OneWorker
  <2>2. Device'
    BY <1>3 DEF TunStop, TypeOK, LockInv, OwnerInv, OneWorker, Device, TunInv, HandleInv, ShownInv,
       TunDiesWithSession, AbortHitsItsOwn, PausedIsDown
  <2> QED BY <2>1, <2>2
<1>4. CASE PsiStop(s)
  <2>1. LockInv' /\ OwnerInv' /\ OneWorker'
    BY <1>4 DEF PsiStop, TypeOK, LockInv, OwnerInv, OneWorker
  <2>2. Device'
    BY <1>4 DEF PsiStop, TypeOK, LockInv, OwnerInv, OneWorker, Device, TunInv, HandleInv, ShownInv,
       TunDiesWithSession, AbortHitsItsOwn, PausedIsDown
  <2> QED BY <2>1, <2>2
<1>5. CASE CarrierStop(s)
  <2>1. LockInv' /\ OwnerInv' /\ OneWorker'
    BY <1>5 DEF CarrierStop, TypeOK, LockInv, OwnerInv, OneWorker
  <2>2. Device'
    BY <1>5 DEF CarrierStop, TypeOK, LockInv, OwnerInv, OneWorker, Device, TunInv, HandleInv, ShownInv,
       TunDiesWithSession, AbortHitsItsOwn, PausedIsDown
  <2> QED BY <2>1, <2>2
<1>6. CASE Backoff(s)
  <2>1. LockInv' /\ OwnerInv' /\ OneWorker'
    BY <1>6 DEF Backoff, TypeOK, LockInv, OwnerInv, OneWorker
  <2>2. Device'
    BY <1>6 DEF Backoff, TypeOK, LockInv, OwnerInv, OneWorker, Device, TunInv, HandleInv, ShownInv,
       TunDiesWithSession, AbortHitsItsOwn, PausedIsDown
  <2> QED BY <2>1, <2>2
<1>7. CASE LiveGuardDrop(s)
  <2>1. LockInv' /\ OwnerInv' /\ OneWorker'
    BY <1>7 DEF LiveGuardDrop, TypeOK, LockInv, OwnerInv, OneWorker
  <2>2. Device'
    BY <1>7 DEF LiveGuardDrop, TypeOK, LockInv, OwnerInv, OneWorker, Device, TunInv, HandleInv, ShownInv,
       TunDiesWithSession, AbortHitsItsOwn, PausedIsDown
  <2> QED BY <2>1, <2>2
<1>8. CASE FinalStop(s)
  <2>1. LockInv' /\ OwnerInv' /\ OneWorker'
    BY <1>8 DEF FinalStop, TypeOK, LockInv, OwnerInv, OneWorker
  <2>2. Device'
    BY <1>8 DEF FinalStop, TypeOK, LockInv, OwnerInv, OneWorker, Device, TunInv, HandleInv, ShownInv,
       TunDiesWithSession, AbortHitsItsOwn, PausedIsDown
  <2> QED BY <2>1, <2>2
<1>9. CASE Outcome(s)
  <2>1. LockInv' /\ OwnerInv' /\ OneWorker'
    BY <1>9 DEF Outcome, TypeOK, LockInv, OwnerInv, OneWorker
  <2>2. Device'
    BY <1>9 DEF Outcome, TypeOK, LockInv, OwnerInv, OneWorker, Device, TunInv, HandleInv, ShownInv,
       TunDiesWithSession, AbortHitsItsOwn, PausedIsDown
  <2> QED BY <2>1, <2>2
<1> QED BY <1>1, <1>2, <1>3, <1>4, <1>5, <1>6, <1>7, <1>8, <1>9 DEF Leave

\* The reaper keeps it.
LEMMA ReapStep ==
  ASSUME IInv, TypeOK', FreshInv', NEW s \in Sessions, Reap(s)
  PROVE  IInv'
<1> USE SessionsAre DEF IInv, Device, At, Alive, Stopper, Unpublished, Leaving, locks, worker, handles, calls
<1>1. \A t \in Sessions : ~Alive(t)
  BY DEF Reap, OwnerInv, TypeOK
<1>2. LockInv' /\ OwnerInv' /\ OneWorker'
  BY <1>1 DEF Reap, TypeOK, LockInv, OwnerInv, OneWorker
<1>3. TunInv' /\ HandleInv' /\ ShownInv'
  BY <1>1 DEF Reap, TypeOK, LockInv, TunInv, HandleInv, ShownInv
<1>4. TunDiesWithSession' /\ AbortHitsItsOwn' /\ PausedIsDown'
  BY <1>1 DEF Reap, TypeOK, TunDiesWithSession, AbortHitsItsOwn, PausedIsDown
<1> QED BY <1>2, <1>3, <1>4

\* Hence every step keeps it.
LEMMA NextIInv == IInv /\ [Next]_vars => IInv'
<1> SUFFICES ASSUME IInv, [Next]_vars PROVE IInv'
  OBVIOUS
<1>1. Flags'
  BY FlagsStep DEF IInv, Device
<1>2. Shape'
  BY ShapeStep DEF IInv, Device
<1>3. TypeOK'
  BY <1>1, <1>2 DEF Flags, Shape, TypeOK
<1>4. FreshInv'
  BY FreshStep DEF IInv, Device
<1>5. CASE UNCHANGED vars
  <2> USE <1>5 DEF IInv, Device, At, Alive, Stopper, Unpublished, Leaving, vars, supervisor, locks,
      worker, handles, calls
  <2>1. LockInv' /\ OwnerInv' /\ TunInv' /\ HandleInv' /\ ShownInv'
    BY DEF LockInv, OwnerInv, TunInv, HandleInv, ShownInv
  <2>2. OneWorker' /\ TunDiesWithSession' /\ AbortHitsItsOwn' /\ PausedIsDown'
    BY DEF OneWorker, TunDiesWithSession, AbortHitsItsOwn, PausedIsDown
  <2> QED BY <1>3, <1>4, <2>1, <2>2
<1> QED BY <1>3, <1>4, <1>5, CallStep, ProceedStep, ConnectStep, RunStep, LeaveStep, ReapStep
        DEF Next, Worker

\* The inductive invariant holds throughout, fair or not.
THEOREM Inductive == Spec => []IInv
BY InitIInv, NextIInv, PTL DEF Spec

-----------------------------------------------------------------------------

\* For any callers and any number of sessions the state keeps its shape, and
\* whoever holds tun_control or the lock of running is at a place where the
\* code holds it.
THEOREM TypeCorrect == Spec => []TypeOK
<1>1. IInv => TypeOK
  BY DEF IInv, Device
<1> QED BY Inductive, <1>1, PTL

\* However many threads call start(), begin_stop() and stop(), two workers never
\* run at once: the barrier outlives every worker that has left the slot.
THEOREM OneWorkerHolds == Spec => []OneWorker
<1>1. IInv => OneWorker
  BY DEF IInv, Device
<1> QED BY Inductive, <1>1, PTL

\* The last thing a worker does to the TUN is to take it down, and no
\* resume_tun comes after that.
THEOREM TunDiesWithSessionHolds == Spec => []TunDiesWithSession
<1>1. IInv => TunDiesWithSession
  BY DEF IInv, Device
<1> QED BY Inductive, <1>1, PTL

\* The abort of a stop never hits the session that came after.
THEOREM AbortHitsItsOwnHolds == Spec => []AbortHitsItsOwn
<1>1. IInv => AbortHitsItsOwn
  BY DEF IInv, Device
<1> QED BY Inductive, <1>1, PTL

\* Neither the worker nor resume_tun starts the bridge over a TUN that is up or
\* whose routes and DNS are still to be restored.
THEOREM RaisedOnCleanHolds == Spec => []RaisedOnClean
<1>1. IInv => RaisedOnClean
  BY DEF IInv, Device, TunInv, RaisedOnClean
<1> QED BY Inductive, <1>1, PTL

\* No reconnect raises a TUN the user has paused.
THEOREM PausedIsDownHolds == Spec => []PausedIsDown
<1>1. IInv => PausedIsDown
  BY DEF IInv, Device
<1> QED BY Inductive, <1>1, PTL

\* The TUN goes down before the backend, and Psiphon before its carrier, on
\* every way out of run_session but that of a TUN that could not be started.
THEOREM TearsDownInOrderHolds == Spec => []TearsDownInOrder
<1>1. ASSUME IInv PROVE TearsDownInOrder
  <2>1. \A s \in Sessions : psi[s] => carrier[s] /\ Alive(s)
    BY <1>1 DEF IInv, Device, HandleInv, Alive
  <2>2. ASSUME tun = "up", control = None
        PROVE  \E s \in Sessions : Alive(s) /\ (carrier[s] \/ failed[s])
    <3>1. PICK s \in Sessions : Alive(s)
      BY <1>1, <2>2 DEF IInv, Device, TunDiesWithSession
    <3>2. ~Unpublished(s) /\ wpc[s] # "outcome"
      BY <1>1, <2>2 DEF IInv, Device, TunInv, At
    <3>3. carrier[s] \/ failed[s]
      BY <1>1, <2>2, <3>1, <3>2 DEF IInv, Device, TypeOK, WorkerStates, HandleInv, Unpublished, Leaving, Alive
    <3> QED BY <3>1, <3>3
  <2> QED BY <2>1, <2>2 DEF TearsDownInOrder
<1> QED BY Inductive, <1>1, PTL

\* With no session and no stop under way the UI shows one of the states of rest.
THEOREM IdleIsShownHolds == Spec => []IdleIsShown
<1>1. IInv => IdleIsShown
  BY SessionsAre DEF IInv, Device, TypeOK, OwnerInv, ShownInv, IdleIsShown
<1> QED BY Inductive, <1>1, PTL

\* BarrierInHand is not part of IInv, but a step from IInv keeps it: only stop()
\* raises the barrier over an empty slot, and hands it to a reaper that it leaves
\* with a cancelled worker.
LEMMA BarrierStep == IInv /\ BarrierInHand /\ [Next]_vars => BarrierInHand'
<1> SUFFICES ASSUME IInv, BarrierInHand, [Next]_vars PROVE BarrierInHand'
  OBVIOUS
<1> USE DEF To, supervisor, locks, worker, handles, calls
<1>1. ASSUME NEW c \in Callers, Call(c) PROVE BarrierInHand'
  <2>1. CASE Start(c)
    BY <2>1, SessionsAre DEF Start, IInv, TypeOK, BarrierInHand
  <2>2. CASE BeginStop(c)
    BY <2>2 DEF BeginStop, BarrierInHand
  <2>3. CASE Stop(c)
    BY <2>3 DEF Stop, IInv, TypeOK, BarrierInHand
  <2>4. CASE PauseTun(c) \/ ResumeTun(c)
    BY <2>4, SessionsAre DEF PauseTun, ResumeTun, IsRunning, BarrierInHand
  <2> QED BY <1>1, <2>1, <2>2, <2>3, <2>4 DEF Call
<1>2. ASSUME NEW c \in Callers, Proceed(c) PROVE BarrierInHand'
  <2>1. CASE BeginStopAborts(c) \/ ResumeRaises(c) \/ ResumeEnds(c)
    <3>1. UNCHANGED <<slot, stopping, reapers, cancelled>>
      BY <2>1 DEF BeginStopAborts, ResumeRaises, ResumeEnds
    <3>2. \A d \in Callers : Stopper(d) => Stopper(d)'
      BY <2>1 DEF BeginStopAborts, ResumeRaises, ResumeEnds, IInv, TypeOK, Stopper
    <3> QED BY <3>1, <3>2 DEF BarrierInHand, Stopper
  <2>2. CASE StopCancels(c) \/ StopAborts(c) \/ StopReports(c)
    BY <2>2 DEF StopCancels, StopAborts, StopReports, IInv, TypeOK, BarrierInHand
  <2>3. CASE StopJoins(c)
    BY <2>3 DEF StopJoins, IInv, TypeOK, OwnerInv, Stopper, BarrierInHand
  <2> QED BY <1>2, <2>1, <2>2, <2>3 DEF Proceed
<1>3. ASSUME NEW s \in Sessions, Worker(s) PROVE BarrierInHand'
  <2>1. UNCHANGED <<slot, stopping, reapers, cancelled, cpc>>
    <3>1. CASE Connect(s)
      BY <3>1 DEF Connect, RuntimeFails, Loop, ReportConnecting, BackendStarts, BackendFails, PsiphonStarts,
         TunLock, TunRaises, Check, ReportConnected
    <3>2. CASE Run(s)
      BY <3>2 DEF Run, SelectCancelled, CarrierChanged, PsiphonRestarts, TunnelEnds
    <3>3. CASE Leave(s)
      BY <3>3 DEF Leave, ReportDropped, Teardown, TunStop, PsiStop, CarrierStop, Backoff,
         LiveGuardDrop, FinalStop, Outcome
    <3> QED BY <1>3, <3>1, <3>2, <3>3 DEF Worker
  <2> QED BY <2>1 DEF BarrierInHand
<1>4. ASSUME NEW s \in Sessions, Reap(s) PROVE BarrierInHand'
  BY <1>4 DEF Reap, BarrierInHand
<1>5. CASE UNCHANGED vars
  BY <1>5 DEF vars, BarrierInHand
<1> QED BY <1>1, <1>2, <1>3, <1>4, <1>5 DEF Next

\* However stops overlap, the barrier over an empty slot has a stop() that will
\* join or a reaper whose worker is told to end: what StopCompletes rests on.
THEOREM BarrierInHandHolds == Spec => []BarrierInHand
<1>1. Init => BarrierInHand
  BY DEF Init, BarrierInHand
<1> QED BY <1>1, BarrierStep, Inductive, PTL DEF Spec

-----------------------------------------------------------------------------
(* FcaeSession implements TunDevice *)

\* A step leaves every session as TunDevice sees it.
SameSessions ==
    \A s \in Sessions : /\ Alive(s)' <=> Alive(s)
                        /\ At(s, "finished")' <=> At(s, "finished")
                        /\ Alive(s) => (cancelled'[s] <=> cancelled[s])

\* The four ways the device may change.
DeviceMoves ==
    \/ tun' = tun \/ tun' = "down"
    \/ tun = "down" /\ tun' = "up"
    \/ tun = "up" /\ tun' = "aborted"

\* Between steps of sessions, such a change is one of TunDevice: the invariant
\* says that somebody lives and, after an abort, that it was told to end.
LEMMA DeviceStep ==
  ASSUME IInv, IInv', SameSessions, DeviceMoves
  PROVE  [Bridge!Next]_(Bridge!vars)
<1> DEFINE L == {s \in Sessions : Alive(s)}
           T == {s \in Sessions : Alive(s) /\ cancelled[s]}
           E == {s \in Sessions : At(s, "finished")}
<1>1. L' = L /\ T' = T /\ E' = E
  BY DEF SameSessions
<1>2. tun # "down" \/ tun' # "down" => L # {}
  <2>1. tun # "down" => L # {}
    BY DEF IInv, Device, TunDiesWithSession
  <2>2. tun' # "down" => L' # {}
    BY DEF IInv, Device, TunDiesWithSession
  <2> QED BY <1>1, <2>1, <2>2
<1>3. tun' = "aborted" => L = T
  <2>1. tun' = "aborted" => L' = T'
    BY DEF IInv, Device, AbortHitsItsOwn
  <2> QED BY <1>1, <2>1
<1>4. CASE tun' = tun
  BY <1>1, <1>4 DEF Bridge!vars
<1>5. CASE tun' = "down" /\ tun # "down"
  <2>1. Bridge!Lower
    BY <1>1, <1>2, <1>5 DEF Bridge!Lower
  <2> QED BY <2>1 DEF Bridge!Next
<1>6. CASE tun = "down" /\ tun' = "up"
  <2>1. Bridge!Raise
    BY <1>1, <1>2, <1>6 DEF Bridge!Raise
  <2> QED BY <2>1 DEF Bridge!Next
<1>7. CASE tun = "up" /\ tun' = "aborted"
  <2>1. Bridge!Abort
    BY <1>1, <1>2, <1>3, <1>7 DEF Bridge!Abort
  <2> QED BY <2>1 DEF Bridge!Next
<1> QED BY <1>4, <1>5, <1>6, <1>7 DEF DeviceMoves

\* Setting a token tells a session that lives to end, and is nothing else.
LEMMA TellStep ==
  ASSUME IInv, IInv', NEW s \in Sessions, cancelled' = [cancelled EXCEPT ![s] = TRUE],
         UNCHANGED <<tun, wpc>>
  PROVE  [Bridge!Next]_(Bridge!vars)
<1>1. {t \in Sessions : Alive(t)}' = {t \in Sessions : Alive(t)}
      /\ {t \in Sessions : At(t, "finished")}' = {t \in Sessions : At(t, "finished")}
  BY DEF Alive, At
<1>2. CASE Alive(s)
  <2>1. {t \in Sessions : Alive(t) /\ cancelled[t]}' = {t \in Sessions : Alive(t) /\ cancelled[t]} \cup {s}
    BY <1>2, Zenon DEF Alive, IInv, TypeOK
  <2>2. Bridge!Tell(s)
    BY <1>1, <1>2, <2>1 DEF Bridge!Tell
  <2> QED BY <2>2 DEF Bridge!Next
<1>3. CASE ~Alive(s)
  <2>1. SameSessions /\ DeviceMoves
    BY <1>3 DEF SameSessions, DeviceMoves, Alive, At, IInv, TypeOK
  <2> QED BY <2>1, DeviceStep
<1> QED BY <1>2, <1>3

\* The calls of host threads.
LEMMA BridgeCall ==
  ASSUME IInv, IInv', NEW c \in Callers, Call(c)
  PROVE  [Bridge!Next]_(Bridge!vars)
<1> USE DEF To, supervisor, locks, worker, handles, calls
<1>1. CASE Start(c)
  <2>1. CASE UNCHANGED wpc
    <3>1. SameSessions /\ DeviceMoves
      BY <1>1, <2>1 DEF Start, SameSessions, DeviceMoves, Alive, At
    <3> QED BY <3>1, DeviceStep
  <2>2. CASE wpc' # wpc
    <3>1. PICK s \in Sessions : s = count + 1
      BY <1>1, <2>2, BoundAssumption DEF Start, IInv, TypeOK, Sessions
    <3>2. wpc' = [wpc EXCEPT ![s] = "spawned"] /\ UNCHANGED <<tun, cancelled>>
      BY <1>1, <2>2, <3>1 DEF Start
    <3>3. At(s, "none") /\ ~cancelled[s]
      BY <3>1, BoundAssumption DEF IInv, TypeOK, FreshInv, Sessions
    <3>4. \A t \in Sessions : ~Alive(t)
      <4>1. ~stopping /\ ~IsRunning
        BY <1>1 DEF Start
      <4>2. \A t \in Sessions : Alive(t) => t = slot
        BY <4>1, Zenon DEF IInv, OwnerInv
      <4> QED BY <4>1, <4>2, SessionsAre DEF IsRunning
    <3>5. {t \in Sessions : Alive(t)} = {} /\ {t \in Sessions : Alive(t)}' = {s}
      BY <3>2, <3>3, <3>4 DEF Alive, At, IInv, TypeOK
    <3>6. {t \in Sessions : Alive(t) /\ cancelled[t]}' = {t \in Sessions : Alive(t) /\ cancelled[t]}
      <4>1. {t \in Sessions : Alive(t) /\ cancelled[t]} = {}
        BY <3>4
      <4>2. \A t \in Sessions : Alive(t)' => t = s
        BY <3>5
      <4>3. ~cancelled'[s]
        BY <3>2, <3>3
      <4>4. {t \in Sessions : Alive(t) /\ cancelled[t]}' = {}
        BY <4>2, <4>3
      <4> QED BY <4>1, <4>4
    <3>7. {t \in Sessions : At(t, "finished")}' = {t \in Sessions : At(t, "finished")}
          /\ s \notin {t \in Sessions : At(t, "finished")}
      BY <3>2, <3>3 DEF At, IInv, TypeOK
    <3>8. tun = "down"
      BY <3>4 DEF IInv, Device, TunDiesWithSession
    <3>9. Bridge!Open(s)
      BY <3>2, <3>5, <3>6, <3>7, <3>8 DEF Bridge!Open
    <3> QED BY <3>9 DEF Bridge!Next
  <2> QED BY <2>1, <2>2
<1>2. CASE BeginStop(c)
  <2>1. PICK s \in Sessions : s = slot
    BY <1>2, SessionsAre DEF BeginStop, IInv, TypeOK
  <2>2. cancelled' = [cancelled EXCEPT ![s] = TRUE] /\ UNCHANGED <<tun, wpc>>
    BY <1>2, <2>1 DEF BeginStop
  <2> QED BY <2>2, TellStep
<1>3. CASE Stop(c) \/ PauseTun(c) \/ ResumeTun(c)
  <2>1. UNCHANGED <<wpc, cancelled>> /\ DeviceMoves
    BY <1>3 DEF Stop, PauseTun, ResumeTun, DeviceMoves
  <2>2. SameSessions
    BY <2>1 DEF SameSessions, Alive, At
  <2> QED BY <2>1, <2>2, DeviceStep
<1> QED BY <1>1, <1>2, <1>3 DEF Call

\* What they do once inside.
LEMMA BridgeProceed ==
  ASSUME IInv, IInv', NEW c \in Callers, Proceed(c)
  PROVE  [Bridge!Next]_(Bridge!vars)
<1> USE DEF To, supervisor, locks, worker, handles, calls
<1>1. CASE StopCancels(c)
  <2>1. PICK s \in Sessions : s = mine[c]
    BY <1>1 DEF StopCancels, IInv, OwnerInv, Stopper
  <2>2. cancelled' = [cancelled EXCEPT ![s] = TRUE] /\ UNCHANGED <<tun, wpc>>
    BY <1>1, <2>1 DEF StopCancels
  <2> QED BY <2>2, TellStep
<1>2. CASE ~StopCancels(c)
  <2>1. UNCHANGED <<wpc, cancelled>>
    BY <1>2 DEF Proceed, BeginStopAborts, StopAborts, StopReports, StopJoins, ResumeRaises, ResumeEnds
  <2>2. DeviceMoves
    BY <1>2 DEF Proceed, BeginStopAborts, StopAborts, StopReports, StopJoins, ResumeRaises,
       ResumeEnds, Abort, DeviceMoves, IInv, Device, TunInv
  <2>3. SameSessions
    BY <2>1 DEF SameSessions, Alive, At
  <2> QED BY <2>2, <2>3, DeviceStep
<1> QED BY <1>1, <1>2

\* The worker, up to its last step.
LEMMA BridgeWorker ==
  ASSUME IInv, IInv', NEW s \in Sessions, Worker(s)
  PROVE  [Bridge!Next]_(Bridge!vars)
<1> USE DEF At, Goto, Unwind, supervisor, locks, worker, handles, calls
<1>1. CASE Outcome(s) \/ RuntimeFails(s)
  <2>1. wpc' = [wpc EXCEPT ![s] = "finished"] /\ UNCHANGED <<tun, cancelled>> /\ Alive(s)
    BY <1>1 DEF Outcome, RuntimeFails, Alive
  <2>2. tun = "down"
    BY <1>1 DEF Outcome, RuntimeFails, Unpublished, IInv, Device, TunInv
  <2>3. {t \in Sessions : Alive(t)}' = {t \in Sessions : Alive(t)} \ {s}
    BY <2>1 DEF Alive, IInv, TypeOK
  <2>4. {t \in Sessions : Alive(t) /\ cancelled[t]}' = {t \in Sessions : Alive(t) /\ cancelled[t]} \ {s}
    BY <2>1 DEF Alive, IInv, TypeOK
  <2>5. {t \in Sessions : At(t, "finished")}' = {t \in Sessions : At(t, "finished")} \cup {s}
    BY <2>1 DEF IInv, TypeOK
  <2>6. Bridge!Close(s)
    BY <2>1, <2>2, <2>3, <2>4, <2>5 DEF Bridge!Close
  <2> QED BY <2>6 DEF Bridge!Next
<1>2. CASE ~Outcome(s) /\ ~RuntimeFails(s)
  <2>1. UNCHANGED cancelled /\ DeviceMoves
    <3>1. CASE Connect(s)
      BY <1>2, <3>1 DEF Connect, Loop, ReportConnecting, BackendStarts, BackendFails, PsiphonStarts,
         TunLock, TunRaises, Check, ReportConnected, DeviceMoves, IInv, Device, TunInv
    <3>2. CASE Run(s)
      BY <3>2 DEF Run, SelectCancelled, CarrierChanged, PsiphonRestarts, TunnelEnds, DeviceMoves
    <3>3. CASE Leave(s)
      BY <1>2, <3>3 DEF Leave, ReportDropped, Teardown, TunStop, PsiStop, CarrierStop, Backoff,
         LiveGuardDrop, FinalStop, DeviceMoves
    <3> QED BY <3>1, <3>2, <3>3 DEF Worker
  <2>2. /\ \A t \in Sessions \ {s} : wpc'[t] = wpc[t]
        /\ wpc[s] \notin {"none", "finished"} /\ wpc'[s] \notin {"none", "finished"}
    <3>1. CASE Connect(s)
      BY <1>2, <3>1 DEF Connect, Loop, ReportConnecting, BackendStarts, BackendFails, PsiphonStarts,
         TunLock, TunRaises, Check, ReportConnected, IInv, TypeOK
    <3>2. CASE Run(s)
      BY <3>2 DEF Run, SelectCancelled, CarrierChanged, PsiphonRestarts, TunnelEnds, IInv, TypeOK
    <3>3. CASE Leave(s)
      BY <1>2, <3>3 DEF Leave, ReportDropped, Teardown, TunStop, PsiStop, CarrierStop, Backoff,
         LiveGuardDrop, FinalStop, IInv, TypeOK
    <3> QED BY <3>1, <3>2, <3>3 DEF Worker
  <2>3. SameSessions
    BY <2>1, <2>2 DEF SameSessions, Alive
  <2> QED BY <2>1, <2>3, DeviceStep
<1> QED BY <1>1, <1>2

\* The supervisor of session.rs implements TunDevice, for any callers and any
\* number of sessions: what a TunBridge is called for keeps to its contract.
THEOREM BridgeContractHolds == Spec => BridgeContract
<1>1. Init => Bridge!Init
  BY DEF Init, Bridge!Init, Alive, At
<1>2. IInv /\ IInv' /\ [Next]_vars => [Bridge!Next]_(Bridge!vars)
  <2> SUFFICES ASSUME IInv, IInv', [Next]_vars PROVE [Bridge!Next]_(Bridge!vars)
    OBVIOUS
  <2>1. ASSUME NEW s \in Sessions, Reap(s) PROVE [Bridge!Next]_(Bridge!vars)
    <3>1. SameSessions /\ DeviceMoves
      BY <2>1 DEF Reap, SameSessions, DeviceMoves, Alive, At, worker
    <3> QED BY <3>1, DeviceStep
  <2>2. CASE UNCHANGED vars
    BY <2>2 DEF vars, worker, Bridge!vars, Alive, At
  <2> QED BY <2>1, <2>2, BridgeCall, BridgeProceed, BridgeWorker DEF Next
<1> QED BY <1>1, <1>2, Inductive, PTL DEF Spec, BridgeContract, Bridge!Spec
=============================================================================
