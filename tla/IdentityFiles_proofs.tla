------------------------ MODULE IdentityFiles_proofs ------------------------
(***************************************************************************)
(* Proofs for IdentityFiles, for any files, contents and settings screens: *)
(* the type invariant, what a successful fetch leaves, that the relay is   *)
(* not blocked by its own remains, and that identities are kept.           *)
(***************************************************************************)
EXTENDS IdentityFiles, TLAPS

\* What each thread keeps in memory, by where it is.
ThreadInv(t) ==
    /\ pc[t] \in {"idle", "connect"} => targets[t] = {} /\ todo[t] = {}
    /\ pc[t] \in {"idle", "connect", "recover", "enrol", "install", "undo"} => moved[t] = {}
    /\ pc[t] \notin {"install", "undo"} => backups[t] = {} /\ installed[t] = {}
    /\ pc[t] \in {"aside", "install"} => todo[t] \subseteq targets[t]
    /\ todo[t] \cap (moved[t] \cup installed[t]) = {} \/ pc[t] \in {"save", "restore", "undo"}
    /\ backups[t] \cup installed[t] \subseteq targets[t]

\* The engine is at a file only while it runs.
EngineInv ==
    /\ job = "none" => at = NoFile
    /\ at = NoFile => held = None

NoneOrValid(c) == c = None \/ Valid(c)

\* What a thread knows of a file that nobody else is at.
KnownInv(t, f) ==
    \* recover() has left one of the two ...
    /\ (\/ At(t, "recover") /\ f \in targets[t] \ todo[t]
        \/ At(t, "aside") /\ f \in todo[t])
          => bak[f] = None \/ file[f] = None
    \* ... and what is set aside is written by the engine of this fetch only.
    /\ (\/ At(t, "aside") /\ f \in targets[t] \ todo[t]
        \/ At(t, "start") /\ f \in targets[t])
          => file[f] = None
    /\ pc[t] \in {"wait", "lost"} /\ f \in targets[t] => NoneOrValid(file[f])
    /\ pc[t] \in {"won", "save"} /\ f \in targets[t] => Valid(file[f])
    \* A relay enrols for files that are not valid, sets only those aside, and
    \* what it has installed is valid.
    /\ pc[t] \in {"enrol", "install"} /\ f \in targets[t] \ installed[t] => ~Valid(file[f])
    /\ f \in backups[t] => /\ bak[f] = None
                           /\ ~Valid(relayOld[f])
                           /\ f \notin installed[t] => file[f] = None
    /\ f \in installed[t] => Valid(file[f])

\* What the disk holds of it: beside a backup of either kind there is nothing or
\* a valid identity, and beside both the older one is valid too.
DiskInv(f) ==
    /\ bak[f] # None => NoneOrValid(file[f])
    /\ relayOld[f] # None => NoneOrValid(file[f])
    /\ bak[f] # None /\ relayOld[f] # None => Valid(bak[f])
    /\ at = f => held = file[f]

FileInv(f) == DiskInv(f) /\ \A t \in Threads : KnownInv(t, f)

IInv ==
    /\ TypeOK
    /\ \A t \in Threads : ThreadInv(t)
    /\ EngineInv
    /\ \A f \in Files : Shared(f) => f \in contested
    /\ \A f \in Files \ contested : FileInv(f)

-----------------------------------------------------------------------------

\* NoFile is not one of the files.
LEMMA FilesFact == \A f \in Files : f # NoFile
  BY FilesAssumption DEF NoFile

\* The invariant holds in an idle app, whatever its files hold.
LEMMA InitIInv == Init => IInv
<1> SUFFICES ASSUME Init PROVE IInv
  OBVIOUS
<1> USE DEF Init
<1>1. TypeOK
  BY ContentsAssumption, FilesAssumption DEF TypeOK, Labels, Threads
<1>2. (\A t \in Threads : ThreadInv(t)) /\ EngineInv
  BY DEF ThreadInv, EngineInv
<1>3. ASSUME NEW f \in Files PROVE ~Shared(f)
  BY FilesFact DEF Shared, Touches, At
<1>4. ASSUME NEW f \in Files PROVE FileInv(f)
  BY FilesFact DEF FileInv, DiskInv, KnownInv, At
<1> QED BY <1>1, <1>2, <1>3, <1>4, Zenon DEF IInv

\* The shape of the state, apart from the files.
ShapeInv == TypeOK /\ (\A t \in Threads : ThreadInv(t)) /\ EngineInv

\* A step of the engine, the reset or the process.
Background == TunnelStarts \/ EngineSaves \/ EngineEnds \/ Reset \/ ProcessDies
             \/ \E f \in Files : EngineLoads(f) \/ Wipe(f)

\* The steps of a fetch keep the shape of the state.
LEMMA FetchShape ==
  ASSUME ShapeInv, NEW t \in Screens, Fetch(t), contested' \in SUBSET Files
  PROVE  ShapeInv'
<1> USE ContentsAssumption, FilesAssumption, ScreensAssumption DEF ShapeInv, TypeOK, ThreadInv,
        EngineInv, Labels, Threads, At, Goto, Put, PutBak, Done, Gains, Loses, First,
        disk, loops, relay, engine
<1>1. CASE Begin(t)
  BY <1>1 DEF Begin
<1>2. CASE Recovered(t)
  BY <1>2 DEF Recovered
<1>3. CASE SetAside(t)
  BY <1>3 DEF SetAside
<1>4. CASE StartProxy(t)
  <2>1. TypeOK' /\ EngineInv'
    BY <1>4 DEF StartProxy
  <2>2. \A u \in Threads : ThreadInv(u)'
    BY <1>4 DEF StartProxy
  <2> QED BY <2>1, <2>2
<1>5. CASE Finally(t)
  <2>1. TypeOK' /\ EngineInv'
    BY <1>5 DEF Finally, StopEngine, JobGone
  <2>2. \A u \in Threads : ThreadInv(u)'
    BY <1>5 DEF Finally
  <2> QED BY <2>1, <2>2
<1>6. CASE FetchReturns(t)
  BY <1>6 DEF FetchReturns, Return
<1>7. ASSUME NEW f \in Files, Recover(t, f) PROVE ShapeInv'
  BY <1>7 DEF Recover
<1>8. ASSUME NEW f \in Files, MoveAside(t, f) PROVE ShapeInv'
  BY <1>8 DEF MoveAside
<1>9. ASSUME NEW f \in Files, DeleteBackup(t, f) PROVE ShapeInv'
  BY <1>9 DEF DeleteBackup
<1>10. ASSUME NEW f \in Files, Restore(t, f) PROVE ShapeInv'
  BY <1>10 DEF Restore
<1>11. CASE Verdict(t)
  BY <1>11 DEF Verdict
<1> QED BY <1>1, <1>2, <1>3, <1>4, <1>5, <1>6, <1>7, <1>8, <1>9, <1>10, <1>11 DEF Fetch

\* So do those of a relay ...
LEMMA RelayShape ==
  ASSUME ShapeInv, NEW t \in Threads, Relay(t), contested' \in SUBSET Files
  PROVE  ShapeInv'
<1> USE ContentsAssumption, FilesAssumption DEF ShapeInv, TypeOK, ThreadInv,
        EngineInv, Labels, At, Goto, Put, PutOld, Done, Gains, Loses, First,
        disk, loops, relay, engine
<1>1. CASE RelayProvision(t)
  BY <1>1 DEF RelayProvision
<1>2. CASE RelayFails(t)
  BY <1>2 DEF RelayFails, Return
<1>3. CASE RelayStages(t)
  BY <1>3 DEF RelayStages
<1>4. CASE RelayReturns(t)
  BY <1>4 DEF RelayReturns, Return
<1>5. ASSUME NEW f \in Files, RelayEnrols(t, f) PROVE ShapeInv'
  BY <1>5 DEF RelayEnrols
<1>6. ASSUME NEW f \in Files, BackUp(t, f) PROVE ShapeInv'
  BY <1>6 DEF BackUp
<1>7. ASSUME NEW f \in Files, Install(t, f) PROVE ShapeInv'
  BY <1>7 DEF Install
<1>8. ASSUME NEW f \in Files, Discard(t, f) PROVE ShapeInv'
  BY <1>8 DEF Discard
<1>9. ASSUME NEW f \in Files, UndoInstall(t, f) PROVE ShapeInv'
  BY <1>9 DEF UndoInstall
<1>10. ASSUME NEW f \in Files, UndoBackUp(t, f) PROVE ShapeInv'
  BY <1>10 DEF UndoBackUp
<1> QED BY <1>1, <1>2, <1>3, <1>4, <1>5, <1>6, <1>7, <1>8, <1>9, <1>10 DEF Relay

\* ... and all the others.
LEMMA OtherShape ==
  ASSUME ShapeInv, Background, contested' \in SUBSET Files
  PROVE  ShapeInv'
<1> USE ContentsAssumption, FilesAssumption DEF ShapeInv, TypeOK, ThreadInv,
        EngineInv, Labels, Threads, At, Goto, Put, First,
        disk, loops, relay, engine, JobGone, NoFile
<1>1. CASE TunnelStarts
  BY <1>1 DEF TunnelStarts
<1>2. CASE EngineSaves
  BY <1>2 DEF EngineSaves
<1>3. CASE EngineEnds
  BY <1>3 DEF EngineEnds
<1>4. CASE Reset
  BY <1>4 DEF Reset, StopEngine
<1>5. CASE ProcessDies
  BY <1>5 DEF ProcessDies
<1>6. ASSUME NEW f \in Files, EngineLoads(f) PROVE ShapeInv'
  <2>1. file' \in [Files -> Contents]
    BY <1>6 DEF EngineLoads
  <2>4. (at' = f /\ held' = file[f] /\ left' = left \ {f}) \/ JobGone
    BY <1>6 DEF EngineLoads
  <2>6. at' \in Files \cup {NoFile} /\ held' \in Contents
    BY <2>4
  <2>7. left' \in SUBSET Files
    BY <2>4
  <2>5. EngineInv' /\ job' \in Threads \cup {"none"}
    BY <1>6, FilesFact DEF EngineLoads
  <2>2. TypeOK' /\ EngineInv'
    BY <1>6, <2>1, <2>5, <2>6, <2>7 DEF EngineLoads
  <2>3. \A u \in Threads : ThreadInv(u)'
    BY <1>6 DEF EngineLoads
  <2> QED BY <2>2, <2>3
<1>7. ASSUME NEW f \in Files, Wipe(f) PROVE ShapeInv'
  BY <1>7 DEF Wipe
<1> QED BY <1>1, <1>2, <1>3, <1>4, <1>5, <1>6, <1>7 DEF Background

\* The steps of a fetch keep what is known of a file that nobody shares.
LEMMA FetchFile ==
  ASSUME ShapeInv, NEW f \in Files, FileInv(f), ~Shared(f), ~Shared(f)',
         NEW t \in Threads, Fetch(t)
  PROVE  FileInv(f)'
<1> USE ContentsAssumption, FilesFact DEF ShapeInv, TypeOK, ThreadInv, EngineInv, FileInv, DiskInv,
        KnownInv, NoneOrValid, Valid, Complete, Shared, Touches, Strange, At, Goto, Put, PutBak,
        PutOld, Done, Gains, Loses, First, disk, loops, relay, engine
<1>1. CASE Begin(t)
  BY <1>1 DEF Begin
<1>2. CASE Recovered(t)
  BY <1>2 DEF Recovered
<1>3. CASE SetAside(t)
  BY <1>3 DEF SetAside
<1>4. CASE StartProxy(t)
  BY <1>4 DEF StartProxy
<1>5. CASE Verdict(t)
  BY <1>5 DEF Verdict
<1>6. CASE Finally(t)
  BY <1>6 DEF Finally, StopEngine, JobGone
<1>7. CASE FetchReturns(t)
  BY <1>7 DEF FetchReturns, Return
<1>8. ASSUME NEW g \in Files, Recover(t, g) PROVE FileInv(f)'
  BY <1>8 DEF Recover
<1>9. ASSUME NEW g \in Files, MoveAside(t, g) PROVE FileInv(f)'
  BY <1>9 DEF MoveAside
<1>10. ASSUME NEW g \in Files, DeleteBackup(t, g) PROVE FileInv(f)'
  BY <1>10 DEF DeleteBackup
<1>11. ASSUME NEW g \in Files, Restore(t, g) PROVE FileInv(f)'
  BY <1>11 DEF Restore
<1> QED BY <1>1, <1>2, <1>3, <1>4, <1>5, <1>6, <1>7, <1>8, <1>9, <1>10, <1>11 DEF Fetch

\* So do those of a relay ...
LEMMA RelayFile ==
  ASSUME ShapeInv, NEW f \in Files, FileInv(f), ~Shared(f), ~Shared(f)',
         NEW t \in Threads, Relay(t)
  PROVE  FileInv(f)'
<1> USE ContentsAssumption, FilesFact DEF ShapeInv, TypeOK, ThreadInv, EngineInv, FileInv, DiskInv,
        KnownInv, NoneOrValid, Valid, Complete, Shared, Touches, Strange, At, Goto, Put, PutBak,
        PutOld, Done, Gains, Loses, First, disk, loops, relay, engine
<1>1. CASE RelayProvision(t)
  BY <1>1 DEF RelayProvision
<1>2. CASE RelayFails(t)
  BY <1>2 DEF RelayFails, Return
<1>3. CASE RelayStages(t)
  BY <1>3 DEF RelayStages
<1>4. CASE RelayReturns(t)
  BY <1>4 DEF RelayReturns, Return
<1>5. ASSUME NEW g \in Files, RelayEnrols(t, g) PROVE FileInv(f)'
  BY <1>5 DEF RelayEnrols
<1>6. ASSUME NEW g \in Files, BackUp(t, g) PROVE FileInv(f)'
  BY <1>6 DEF BackUp
<1>7. ASSUME NEW g \in Files, Install(t, g) PROVE FileInv(f)'
  BY <1>7 DEF Install
<1>8. ASSUME NEW g \in Files, Discard(t, g) PROVE FileInv(f)'
  BY <1>8 DEF Discard
<1>9. ASSUME NEW g \in Files, UndoInstall(t, g) PROVE FileInv(f)'
  BY <1>9 DEF UndoInstall
<1>10. ASSUME NEW g \in Files, UndoBackUp(t, g) PROVE FileInv(f)'
  BY <1>10 DEF UndoBackUp
<1> QED BY <1>1, <1>2, <1>3, <1>4, <1>5, <1>6, <1>7, <1>8, <1>9, <1>10 DEF Relay

\* ... and all the others.
LEMMA OtherFile ==
  ASSUME ShapeInv, NEW f \in Files, FileInv(f), ~Shared(f), ~Shared(f)',
         Background
  PROVE  FileInv(f)'
<1> USE ContentsAssumption, FilesFact DEF ShapeInv, TypeOK, ThreadInv, EngineInv, FileInv, DiskInv,
        KnownInv, NoneOrValid, Valid, Complete, Shared, Touches, Strange, At, Goto, Put, PutBak,
        PutOld, Done, Gains, Loses, First, disk, loops, relay, engine
<1>1. CASE TunnelStarts
  BY <1>1 DEF TunnelStarts, Threads
<1>2. CASE EngineSaves
  BY <1>2 DEF EngineSaves
<1>3. CASE EngineEnds
  BY <1>3 DEF EngineEnds, JobGone
<1>4. CASE Reset
  BY <1>4 DEF Reset, StopEngine, JobGone
<1>5. CASE ProcessDies
  BY <1>5 DEF ProcessDies, JobGone
<1>6. ASSUME NEW g \in Files, EngineLoads(g) PROVE FileInv(f)'
  BY <1>6 DEF EngineLoads, JobGone
<1>7. ASSUME NEW g \in Files, Wipe(g) PROVE FileInv(f)'
  BY <1>7 DEF Wipe
<1> QED BY <1>1, <1>2, <1>3, <1>4, <1>5, <1>6, <1>7 DEF Background

\* What KeepsIdentities says of one file and one step.
KeepsFile(f) ==
    Valid(Kept(f)) => \/ Kept(f)' = Kept(f)
                      \/ f \in wiping
                      \/ Valid(Kept(f)') /\ (Replaceable(f) \/ ProcessDies)

\* No step of a fetch loses or replaces an identity but for a reason.
LEMMA FetchKeeps ==
  ASSUME ShapeInv, NEW f \in Files, FileInv(f), ~Shared(f), ~Shared(f)',
         NEW t \in Threads, Fetch(t)
  PROVE  KeepsFile(f)
<1> USE ContentsAssumption, FilesFact DEF ShapeInv, TypeOK, ThreadInv, EngineInv, FileInv, DiskInv,
        KnownInv, NoneOrValid, Valid, Complete, Shared, Touches, Strange, At, Goto, Put, PutBak,
        PutOld, Done, Gains, Loses, First, disk, loops, relay, engine, KeepsFile, Kept,
        SetAsideBy, Replaceable
<1>1. CASE Begin(t)
  BY <1>1 DEF Begin
<1>2. CASE Recovered(t)
  BY <1>2 DEF Recovered
<1>3. CASE SetAside(t)
  BY <1>3 DEF SetAside
<1>4. CASE StartProxy(t)
  BY <1>4 DEF StartProxy
<1>5. CASE Verdict(t)
  BY <1>5 DEF Verdict
<1>6. CASE Finally(t)
  BY <1>6 DEF Finally
<1>7. CASE FetchReturns(t)
  BY <1>7 DEF FetchReturns, Return
<1>8. ASSUME NEW g \in Files, Recover(t, g) PROVE KeepsFile(f)
  BY <1>8 DEF Recover
<1>9. ASSUME NEW g \in Files, MoveAside(t, g) PROVE KeepsFile(f)
  BY <1>9 DEF MoveAside
<1>10. ASSUME NEW g \in Files, DeleteBackup(t, g) PROVE KeepsFile(f)
  BY <1>10 DEF DeleteBackup
<1>11. ASSUME NEW g \in Files, Restore(t, g) PROVE KeepsFile(f)
  BY <1>11 DEF Restore
<1> QED BY <1>1, <1>2, <1>3, <1>4, <1>5, <1>6, <1>7, <1>8, <1>9, <1>10, <1>11 DEF Fetch

\* Nor does one of a relay ...
LEMMA RelayKeeps ==
  ASSUME ShapeInv, NEW f \in Files, FileInv(f), ~Shared(f), ~Shared(f)',
         NEW t \in Threads, Relay(t)
  PROVE  KeepsFile(f)
<1> USE ContentsAssumption, FilesFact DEF ShapeInv, TypeOK, ThreadInv, EngineInv, FileInv, DiskInv,
        KnownInv, NoneOrValid, Valid, Complete, Shared, Touches, Strange, At, Goto, Put, PutBak,
        PutOld, Done, Gains, Loses, First, disk, loops, relay, engine, KeepsFile, Kept,
        SetAsideBy, Replaceable
<1>1. CASE RelayProvision(t)
  BY <1>1 DEF RelayProvision
<1>2. CASE RelayFails(t)
  BY <1>2 DEF RelayFails, Return
<1>3. CASE RelayStages(t)
  BY <1>3 DEF RelayStages
<1>4. CASE RelayReturns(t)
  BY <1>4 DEF RelayReturns, Return
<1>5. ASSUME NEW g \in Files, RelayEnrols(t, g) PROVE KeepsFile(f)
  BY <1>5 DEF RelayEnrols
<1>6. ASSUME NEW g \in Files, BackUp(t, g) PROVE KeepsFile(f)
  BY <1>6 DEF BackUp
<1>7. ASSUME NEW g \in Files, Install(t, g) PROVE KeepsFile(f)
  BY <1>7 DEF Install
<1>8. ASSUME NEW g \in Files, Discard(t, g) PROVE KeepsFile(f)
  BY <1>8 DEF Discard
<1>9. ASSUME NEW g \in Files, UndoInstall(t, g) PROVE KeepsFile(f)
  BY <1>9 DEF UndoInstall
<1>10. ASSUME NEW g \in Files, UndoBackUp(t, g) PROVE KeepsFile(f)
  BY <1>10 DEF UndoBackUp
<1> QED BY <1>1, <1>2, <1>3, <1>4, <1>5, <1>6, <1>7, <1>8, <1>9, <1>10 DEF Relay

\* ... nor any other.
LEMMA OtherKeeps ==
  ASSUME ShapeInv, NEW f \in Files, FileInv(f), ~Shared(f), ~Shared(f)',
         Background
  PROVE  KeepsFile(f)
<1> USE ContentsAssumption, FilesFact DEF ShapeInv, TypeOK, ThreadInv, EngineInv, FileInv, DiskInv,
        KnownInv, NoneOrValid, Valid, Complete, Shared, Touches, Strange, At, Goto, Put, PutBak,
        PutOld, Done, Gains, Loses, First, disk, loops, relay, engine, KeepsFile, Kept,
        SetAsideBy, Replaceable
<1>1. CASE TunnelStarts
  BY <1>1 DEF TunnelStarts
<1>2. CASE EngineSaves
  BY <1>2 DEF EngineSaves
<1>3. CASE EngineEnds
  BY <1>3 DEF EngineEnds
<1>4. CASE Reset
  BY <1>4 DEF Reset
<1>5. CASE ProcessDies
  BY <1>5 DEF ProcessDies
<1>6. ASSUME NEW g \in Files, EngineLoads(g) PROVE KeepsFile(f)
  BY <1>6 DEF EngineLoads
<1>7. ASSUME NEW g \in Files, Wipe(g) PROVE KeepsFile(f)
  BY <1>7 DEF Wipe
<1> QED BY <1>1, <1>2, <1>3, <1>4, <1>5, <1>6, <1>7 DEF Background

-----------------------------------------------------------------------------

\* Every step keeps the invariant: a file is shared only once it is contested, and
\* of the others the lemmas above speak.
LEMMA IInvStep == IInv /\ [Next]_vars => IInv'
<1> SUFFICES ASSUME IInv, [Next]_vars PROVE IInv'
  OBVIOUS
<1>1. CASE UNCHANGED vars
  BY <1>1 DEF IInv, TypeOK, ThreadInv, EngineInv, FileInv, DiskInv, KnownInv, NoneOrValid, Valid,
     Shared, Touches, Strange, At, vars, disk, loops, relay, engine
<1>2. CASE Next
  <2>1. contested' \in SUBSET Files
    BY <1>2 DEF Next, IInv, TypeOK
  <2>2. ShapeInv
    BY DEF IInv, ShapeInv
  <2>3. ShapeInv'
    BY <1>2, <2>1, <2>2, FetchShape, RelayShape, OtherShape DEF Next, Step, Background
  <2>4. \A f \in Files : Shared(f)' => f \in contested'
    BY <1>2 DEF Next
  <2>5. ASSUME NEW f \in Files \ contested' PROVE FileInv(f)'
    <3>1. FileInv(f) /\ ~Shared(f) /\ ~Shared(f)'
      BY <1>2, <2>4, <2>5 DEF IInv, Next
    <3>2. Screens \subseteq Threads
      BY DEF Threads
    <3> QED BY <1>2, <2>2, <3>1, <3>2, FetchFile, RelayFile, OtherFile DEF Next, Step, Background
  <2> QED BY <2>3, <2>4, <2>5 DEF IInv, ShapeInv
<1> QED BY <1>1, <1>2

\* So it always holds.
LEMMA Invariance == Spec => []IInv
  BY InitIInv, IInvStep, PTL DEF Spec

\* Every file, thread and engine stays in its state space, and a fetch sets aside
\* only what it was asked for.
THEOREM TypeCorrect == Spec => []TypeOK
  BY Invariance, PTL DEF IInv

\* A fetch that reports success leaves identities that the stricter test accepts,
\* as far as nobody else was at them.
THEOREM SavedIsValidHolds == Spec => []SavedIsValid
<1>1. IInv => SavedIsValid
  <2>1. ASSUME IInv, NEW t \in Threads, At(t, "save"), NEW f \in targets[t] \ contested
        PROVE  Valid(file[f])
    <3>1. f \in Files \ contested
      BY <2>1 DEF IInv, TypeOK
    <3>2. KnownInv(t, f)
      BY <2>1, <3>1 DEF IInv, FileInv
    <3> QED BY <2>1, <3>2 DEF KnownInv, At
  <2> QED BY <2>1 DEF SavedIsValid
<1> QED BY <1>1, Invariance, PTL

\* An interrupted installation does not stand in the way of a later one.
THEOREM RelayNotBlockedHolds == Spec => []RelayNotBlocked
<1>1. IInv => RelayNotBlocked
  <2>1. ASSUME IInv, NEW t \in Threads, At(t, "install"),
               NEW f \in todo[t] \ (backups[t] \cup contested)
        PROVE  file[f] = None \/ relayOld[f] = None
    <3>1. f \in Files \ contested
      BY <2>1 DEF IInv, TypeOK
    <3>2. KnownInv(t, f) /\ DiskInv(f) /\ ThreadInv(t)
      BY <2>1, <3>1 DEF IInv, FileInv
    <3> QED BY <2>1, <3>2 DEF KnownInv, DiskInv, ThreadInv, NoneOrValid, At
  <2> QED BY <2>1 DEF RelayNotBlocked
<1> QED BY <1>1, Invariance, PTL

\* Whatever fails, is cancelled or dies, a valid identity that no two writers were
\* at is kept, or gives way to another one for a reason.
THEOREM KeepsIdentitiesHolds == Spec => KeepsIdentities
<1>1. ASSUME IInv, Next, NEW f \in Files \ contested' PROVE KeepsFile(f)
  <2>1. ShapeInv /\ FileInv(f) /\ ~Shared(f) /\ ~Shared(f)'
    BY <1>1 DEF IInv, ShapeInv, Next
  <2>2. Screens \subseteq Threads
    BY DEF Threads
  <2> QED BY <1>1, <2>1, <2>2, FetchKeeps, RelayKeeps, OtherKeeps DEF Next, Step, Background
<1>2. IInv /\ [Next]_vars =>
        [\A f \in Files \ contested' : KeepsFile(f)]_vars
  BY <1>1
<1> QED BY <1>2, Invariance, PTL DEF Spec, KeepsIdentities, KeepsFile
=============================================================================
