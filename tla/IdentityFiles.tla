--------------------------- MODULE IdentityFiles ---------------------------
(***************************************************************************)
(* The WARP identity files and everybody who writes them:                  *)
(*   a fetch of the settings screen (WarpIdentityFetcher.kt) moves the old *)
(*   files aside, lets the engine register, and then deletes the backups   *)
(*   or puts them back;                                                    *)
(*   a relay (IdentityRelayClient.kt), on the settings screen or in the    *)
(*   service's worker before a connect, installs relayed identities over   *)
(*   the files that are not valid;                                         *)
(*   the engine (lib.rs), started by a fetch or by the tunnel, loads each  *)
(*   file, talks to the account service and saves it;                      *)
(*   a reset (MsnGuardVpnService.kt) deletes them all.                     *)
(* No lock keeps them apart, and nothing they do to one file is atomic.    *)
(* The process may die between any two file operations, a rename may fail  *)
(* and the user may cancel. A delete followed by a rename is one step:     *)
(* dying between them leaves what a failed rename leaves.                  *)
(***************************************************************************)
EXTENDS Naturals

CONSTANTS
    Files,        \* the identity files, numbered in the order the code takes them
    Protocols,    \* the sets of files that the protocols need
    Screens,      \* the threads that settings screens start
    Contents,     \* what a file may hold,
    None,         \* ... no such file,
    Identities,   \* ... all that IdentityProvisioner.validIdentityFile asks for,
    Lenient,      \* ... all that WarpIdentityFetcher.complete asks for,
    Loadable      \* ... what the engine's config::load can read

NoFile == 0

ASSUME FilesAssumption ==
    Files \subseteq Nat \ {NoFile} /\ Protocols \subseteq SUBSET Files
ASSUME ContentsAssumption ==
    /\ Identities \subseteq Lenient \cap Loadable
    /\ Lenient \cup Loadable \subseteq Contents \ {None} /\ None \in Contents
ASSUME ScreensAssumption == {"service", "none"} \cap Screens = {}

\* The service's worker beside the settings screens.
Threads == Screens \cup {"service"}

VARIABLES
    file, bak,     \* each file and its .warp-bak
    relayOld,      \* its .relay-old
    pc,            \* where each thread is
    targets,       \* the files its fetch was asked for, or its relay has enrolled
    todo,          \* those its current loop has not reached
    moved,         \* what its fetch has set aside; in memory only
    backups,       \* what its relay installation has set aside ...
    installed,     \* ... and what it has installed and may have to take back
    job,           \* who started the engine's job, or "none"
    left,          \* the files the job has not loaded yet
    at, held,      \* the file it is at and what it has loaded of it
    wiping,        \* the files a reset has still to delete
    contested      \* history: files that two of them have been at, at once

disk == <<file, bak, relayOld>>
loops == <<targets, todo>>
relay == <<backups, installed>>
engine == <<job, left, at, held>>
vars == <<disk, pc, loops, moved, relay, engine, wiping, contested>>

Init ==
    /\ file \in [Files -> Contents]
    /\ bak = [f \in Files |-> None] /\ relayOld = [f \in Files |-> None]
    /\ pc = [t \in Threads |-> "idle"]
    /\ targets = [t \in Threads |-> {}] /\ todo = [t \in Threads |-> {}]
    /\ moved = [t \in Threads |-> {}]
    /\ backups = [t \in Threads |-> {}] /\ installed = [t \in Threads |-> {}]
    /\ job = "none" /\ left = {} /\ at = NoFile /\ held = None
    /\ wiping = {} /\ contested = {}

Valid(c) == c \in Identities
Complete(c) == c \in Lenient
First(f, S) == f \in S /\ \A g \in S : f <= g
At(t, l) == pc[t] = l
Goto(t, l) == pc' = [pc EXCEPT ![t] = l]
Put(f, c) == file' = [file EXCEPT ![f] = c]
PutBak(f, c) == bak' = [bak EXCEPT ![f] = c]
PutOld(f, c) == relayOld' = [relayOld EXCEPT ![f] = c]
Done(t, f) == todo' = [todo EXCEPT ![t] = @ \ {f}]
Gains(v, t, f) == [v EXCEPT ![t] = @ \cup {f}]
Loses(v, t, f) == [v EXCEPT ![t] = @ \ {f}]

\* An operation returns: what it kept in memory is gone. The service goes on to
\* its engine, whatever became of the relay.
Return(t) ==
    /\ Goto(t, IF t = "service" THEN "connect" ELSE "idle")
    /\ targets' = [targets EXCEPT ![t] = {}] /\ todo' = [todo EXCEPT ![t] = {}]

-----------------------------------------------------------------------------
(***************************************************************************)
(* fetch, fetchDirectPlain and fetchViaShard.                              *)
(***************************************************************************)

\* The START button, for a protocol that lacks a valid identity, and beginFetch;
\* a running engine ends the fetch here.
Begin(t) ==
    /\ At(t, "idle") /\ job = "none"
    /\ \E T \in Protocols :
          /\ \E f \in T : ~Valid(file[f])
          /\ targets' = [targets EXCEPT ![t] = T]
    /\ todo' = [todo EXCEPT ![t] = Files]
    /\ Goto(t, "recover")
    /\ UNCHANGED <<disk, moved, relay, engine, wiping>>

\* What an earlier, interrupted fetch left: a complete file supersedes its
\* backup, anything else is replaced by it; the rename's result is ignored.
Recover(t, f) ==
    /\ At(t, "recover") /\ First(f, todo[t])
    /\ Done(t, f)
    /\ \/ bak[f] = None /\ UNCHANGED <<file, bak>>
       \/ bak[f] # None /\ Complete(file[f]) /\ PutBak(f, None) /\ UNCHANGED file
       \/ bak[f] # None /\ ~Complete(file[f]) /\ Put(f, bak[f]) /\ PutBak(f, None)
       \/ bak[f] # None /\ ~Complete(file[f]) /\ Put(f, None) /\ UNCHANGED bak
    /\ UNCHANGED <<relayOld, pc, targets, moved, relay, engine, wiping>>

\* Mutant: every identity file is set aside.
Recovered_AllFiles(t) ==
    /\ At(t, "recover") /\ todo[t] = {}
    /\ todo' = [todo EXCEPT ![t] = Files]
    /\ Goto(t, "aside")
    /\ UNCHANGED <<disk, targets, moved, relay, engine, wiping>>

\* Only what the protocol needs is set aside.
Recovered(t) ==
    /\ At(t, "recover") /\ todo[t] = {}
    /\ todo' = [todo EXCEPT ![t] = targets[t]]
    /\ Goto(t, "aside")
    /\ UNCHANGED <<disk, targets, moved, relay, engine, wiping>>

\* A target that exists is renamed to its backup; if that fails the fetch ends.
MoveAside(t, f) ==
    /\ At(t, "aside") /\ First(f, todo[t])
    /\ Done(t, f)
    /\ \/ file[f] = None /\ UNCHANGED <<file, bak, moved, pc>>
       \/ /\ file[f] # None
          /\ PutBak(f, file[f]) /\ Put(f, None)
          /\ moved' = Gains(moved, t, f)
          /\ UNCHANGED pc
       \/ /\ file[f] # None
          /\ PutBak(f, None)
          /\ Goto(t, "restore")
          /\ UNCHANGED <<file, moved>>
    /\ UNCHANGED <<relayOld, targets, relay, engine, wiping>>

\* The engine is started directly, or through SHARD, which may be up, come up in
\* time or not, and is waited for unless the fetch is cancelled.
SetAside(t) ==
    /\ At(t, "aside") /\ todo[t] = {}
    /\ Goto(t, "start") \/ Goto(t, "restore")
    /\ UNCHANGED <<disk, loops, moved, relay, engine, wiping>>

\* startProxy; "already running" counts as started. After a failed start the
\* finally block does once more what the early return has done: restore.
StartProxy(t) ==
    /\ At(t, "start")
    /\ \/ /\ job = "none"
          /\ job' = t /\ left' = targets[t]
          /\ Goto(t, "wait")
          /\ UNCHANGED <<at, held>>
       \/ job = "none" /\ Goto(t, "lost") /\ UNCHANGED engine
       \/ job # "none" /\ Goto(t, "wait") /\ UNCHANGED engine
    /\ UNCHANGED <<disk, loops, moved, relay, wiping>>

\* Mutant: one complete file is enough.
Verdict_Any(t) ==
    /\ At(t, "wait")
    /\ \/ (\E f \in targets[t] : Complete(file[f])) /\ Goto(t, "won")
       \/ Goto(t, "lost")
    /\ UNCHANGED <<disk, loops, moved, relay, engine, wiping>>

\* The polling loop ends: all complete; or the fetch was cancelled, the engine is
\* gone or the time is up.
Verdict(t) ==
    /\ At(t, "wait")
    /\ \/ (\A f \in targets[t] : Complete(file[f])) /\ Goto(t, "won")
       \/ Goto(t, "lost")
    /\ UNCHANGED <<disk, loops, moved, relay, engine, wiping>>

\* The engine's job ends, or NativeCore.stop() tires of waiting for it.
JobGone == job' = "none" /\ left' = {} /\ at' = NoFile /\ held' = None
StopEngine == JobGone \/ UNCHANGED engine

\* The finally block: NativeCore.stop(), whosever job it is.
Finally(t) ==
    /\ StopEngine
    /\ \/ At(t, "won") /\ Goto(t, "save")
       \/ At(t, "lost") /\ Goto(t, "restore")
    /\ UNCHANGED <<disk, loops, moved, relay, wiping>>

DeleteBackup(t, f) ==
    /\ At(t, "save") /\ First(f, moved[t])
    /\ PutBak(f, None)
    /\ moved' = Loses(moved, t, f)
    /\ UNCHANGED <<file, relayOld, pc, loops, relay, engine, wiping>>

\* Mutant: what the engine has written is left alone.
Restore_KeepsNew(t, f) ==
    /\ At(t, "restore") /\ First(f, moved[t])
    /\ moved' = Loses(moved, t, f)
    /\ PutBak(f, None)
    /\ IF file[f] # None THEN UNCHANGED file ELSE Put(f, bak[f])
    /\ UNCHANGED <<relayOld, pc, loops, relay, engine, wiping>>

Restore(t, f) ==
    /\ At(t, "restore") /\ First(f, moved[t])
    /\ moved' = Loses(moved, t, f)
    /\ \/ bak[f] = None /\ UNCHANGED <<file, bak>>
       \/ bak[f] # None /\ Put(f, bak[f]) /\ PutBak(f, None)
       \/ bak[f] # None /\ Put(f, None) /\ UNCHANGED bak
    /\ UNCHANGED <<relayOld, pc, loops, relay, engine, wiping>>

FetchReturns(t) ==
    /\ pc[t] \in {"save", "restore"} /\ moved[t] = {}
    /\ Return(t)
    /\ UNCHANGED <<disk, moved, relay, engine, wiping>>

-----------------------------------------------------------------------------
(***************************************************************************)
(* IdentityRelayClient.provision and installRelayedFiles.                  *)
(***************************************************************************)

\* The START button again, or a session of the service that lacks an identity;
\* one that has it goes straight to its engine.
RelayProvision(t) ==
    /\ At(t, "idle")
    /\ \E T \in Protocols :
          LET has == \A f \in T : Valid(file[f]) IN
          /\ t = "service" \/ ~has
          /\ Goto(t, IF has THEN "connect" ELSE "enrol")
          /\ todo' = [todo EXCEPT ![t] = IF has THEN {} ELSE T]
    /\ UNCHANGED <<disk, targets, moved, relay, engine, wiping>>

\* One file after the other, a valid one is skipped and another is asked for.
RelayEnrols(t, f) ==
    /\ At(t, "enrol") /\ First(f, todo[t])
    /\ Done(t, f)
    /\ targets' = IF Valid(file[f]) THEN targets ELSE Gains(targets, t, f)
    /\ UNCHANGED <<disk, pc, moved, relay, engine, wiping>>

\* No answer, or cancelled: nothing has been touched yet.
RelayFails(t) ==
    /\ At(t, "enrol")
    /\ Return(t)
    /\ UNCHANGED <<disk, moved, relay, engine, wiping>>

\* All answers are there, and are staged under a name of their own.
RelayStages(t) ==
    /\ At(t, "enrol") /\ todo[t] = {}
    /\ todo' = [todo EXCEPT ![t] = targets[t]]
    /\ Goto(t, "install")
    /\ UNCHANGED <<disk, targets, moved, relay, engine, wiping>>

\* installRelayedFiles: an existing target is set aside, unless an earlier one
\* still is or the rename fails ...
BackUp(t, f) ==
    /\ At(t, "install") /\ First(f, todo[t]) /\ f \notin backups[t] /\ file[f] # None
    /\ \/ Goto(t, "undo") /\ UNCHANGED <<file, relayOld, backups>>
       \/ /\ relayOld[f] = None
          /\ PutOld(f, file[f]) /\ Put(f, None)
          /\ backups' = Gains(backups, t, f)
          /\ UNCHANGED pc
    /\ UNCHANGED <<bak, loops, moved, installed, engine, wiping>>

\* ... and the staged file renamed over it.
Install(t, f) ==
    /\ At(t, "install") /\ First(f, todo[t])
    /\ f \in backups[t] \/ file[f] = None
    /\ \/ Goto(t, "undo") /\ UNCHANGED <<file, installed, todo>>
       \/ /\ \E i \in Identities : Put(f, i)
          /\ installed' = Gains(installed, t, f)
          /\ Done(t, f)
          /\ UNCHANGED pc
    /\ UNCHANGED <<bak, relayOld, targets, moved, backups, engine, wiping>>

\* The backups go.
Discard(t, f) ==
    /\ At(t, "install") /\ todo[t] = {} /\ First(f, backups[t])
    /\ PutOld(f, None)
    /\ backups' = Loses(backups, t, f)
    /\ UNCHANGED <<file, bak, pc, loops, moved, installed, engine, wiping>>

\* An exception: what was installed is deleted ...
UndoInstall(t, f) ==
    /\ At(t, "undo") /\ First(f, installed[t])
    /\ Put(f, None)
    /\ installed' = Loses(installed, t, f)
    /\ UNCHANGED <<bak, relayOld, pc, loops, moved, backups, engine, wiping>>

\* Mutant: the backups are copied back.
UndoBackUp_Copies(t, f) ==
    /\ At(t, "undo") /\ installed[t] = {} /\ First(f, backups[t])
    /\ backups' = Loses(backups, t, f)
    /\ \/ relayOld[f] # None /\ Put(f, relayOld[f])
       \/ UNCHANGED file
    /\ UNCHANGED <<bak, relayOld, pc, loops, moved, installed, engine, wiping>>

\* ... and the backups renamed back, whether that works or not.
UndoBackUp(t, f) ==
    /\ At(t, "undo") /\ installed[t] = {} /\ First(f, backups[t])
    /\ backups' = Loses(backups, t, f)
    /\ \/ relayOld[f] # None /\ Put(f, relayOld[f]) /\ PutOld(f, None)
       \/ UNCHANGED <<file, relayOld>>
    /\ UNCHANGED <<bak, pc, loops, moved, installed, engine, wiping>>

RelayReturns(t) ==
    /\ \/ At(t, "install") /\ todo[t] = {}
       \/ At(t, "undo") /\ installed[t] = {}
    /\ backups[t] = {}
    /\ installed' = [installed EXCEPT ![t] = {}]
    /\ Return(t)
    /\ UNCHANGED <<disk, moved, backups, engine, wiping>>

-----------------------------------------------------------------------------
(***************************************************************************)
(* The engine, the tunnel, the reset and the process.                      *)
(***************************************************************************)

\* The worker starts its engine, over whatever job was left, or does not.
TunnelStarts ==
    /\ At("service", "connect")
    /\ \/ job' = "service" /\ left' \in Protocols /\ at' = NoFile /\ held' = None
       \/ UNCHANGED engine
    /\ Goto("service", "idle")
    /\ UNCHANGED <<disk, loops, moved, relay, wiping>>

\* config::load: what is there, or nothing; a file it cannot read is moved to
\* .corrupt, which nothing reads, and ends the job.
EngineLoads(f) ==
    /\ job # "none" /\ at = NoFile /\ First(f, left)
    /\ \/ /\ file[f] = None \/ file[f] \in Loadable
          /\ at' = f /\ held' = file[f] /\ left' = left \ {f}
          /\ UNCHANGED <<file, job>>
       \/ /\ file[f] # None /\ file[f] \notin Loadable
          /\ Put(f, None) \/ UNCHANGED file
          /\ JobGone
    /\ UNCHANGED <<bak, relayOld, pc, loops, moved, relay, wiping>>

\* config::save, after the account service has answered: the identity that was
\* loaded, or a new one because there was none, it lacked a certificate or it
\* was refused. A refused one may also be left alone.
EngineSaves ==
    /\ at # NoFile
    /\ \/ held # None /\ (Put(at, held) \/ UNCHANGED file)
       \/ \E i \in Identities : Put(at, i)
    /\ at' = NoFile /\ held' = None
    /\ UNCHANGED <<bak, relayOld, pc, loops, moved, relay, job, left, wiping>>

\* Done, stopped, or failed at any of its steps.
EngineEnds ==
    /\ job # "none"
    /\ JobGone
    /\ UNCHANGED <<disk, pc, loops, moved, relay, wiping>>

\* ACTION_RESET_IDENTITIES: stopTunnel, then one file after the other.
Reset ==
    /\ wiping = {}
    /\ StopEngine
    /\ wiping' = Files
    /\ UNCHANGED <<disk, pc, loops, moved, relay>>

Wipe(f) ==
    /\ First(f, wiping)
    /\ Put(f, None) \/ UNCHANGED file
    /\ wiping' = wiping \ {f}
    /\ UNCHANGED <<bak, relayOld, pc, loops, moved, relay, engine>>

ProcessDies ==
    /\ pc' = [t \in Threads |-> "idle"]
    /\ targets' = [t \in Threads |-> {}] /\ todo' = [t \in Threads |-> {}]
    /\ moved' = [t \in Threads |-> {}]
    /\ backups' = [t \in Threads |-> {}] /\ installed' = [t \in Threads |-> {}]
    /\ JobGone
    /\ wiping' = {}
    /\ UNCHANGED disk

Fetch(t) ==
    \/ Begin(t) \/ Recovered(t) \/ SetAside(t) \/ StartProxy(t) \/ Verdict(t) \/ Finally(t)
    \/ FetchReturns(t)
    \/ \E f \in Files : Recover(t, f) \/ MoveAside(t, f) \/ DeleteBackup(t, f)
                           \/ Restore(t, f)

Relay(t) ==
    \/ RelayProvision(t) \/ RelayFails(t) \/ RelayStages(t) \/ RelayReturns(t)
    \/ \E f \in Files : RelayEnrols(t, f) \/ BackUp(t, f) \/ Install(t, f)
                           \/ Discard(t, f) \/ UndoInstall(t, f) \/ UndoBackUp(t, f)

Step ==
    \/ \E t \in Screens : Fetch(t)
    \/ \E t \in Threads : Relay(t)
    \/ TunnelStarts \/ EngineSaves \/ EngineEnds
    \/ Reset \/ ProcessDies
    \/ \E f \in Files : EngineLoads(f) \/ Wipe(f)

\* A thread is at the files of its operation, and recover() at those with a
\* backup.
Touches(t, f) ==
    f \in targets[t] \/ (At(t, "recover") /\ f \in todo[t] /\ bak[f] # None)

\* The engine of a fetch that waits for it is no stranger to its files.
Strange(t) == job # t \/ pc[t] \notin {"wait", "won", "lost"}

\* Two of them are at f.
Shared(f) ==
    \/ \E t, u \in Threads : t # u /\ Touches(t, f) /\ Touches(u, f)
    \/ \E t \in Threads : Touches(t, f) /\ ((at = f /\ Strange(t)) \/ f \in wiping)
    \/ f \in wiping /\ at = f

Next == Step /\ contested' = contested \cup {f \in Files : Shared(f)'}

Spec == Init /\ [][Next]_vars

-----------------------------------------------------------------------------
(***************************************************************************)
(* Properties. What two writers at one file make of it the code leaves to  *)
(* chance, and so do they: they are about the files that were never        *)
(* contested. MCIdentityFiles has what becomes of the others.              *)
(***************************************************************************)

Labels == {"idle", "connect", "recover", "aside", "start", "wait", "won", "lost",
           "save", "restore", "enrol", "install", "undo"}

\* The shape of the state; a fetch sets nothing aside that it was not asked for.
TypeOK ==
    /\ file \in [Files -> Contents] /\ bak \in [Files -> Contents]
    /\ relayOld \in [Files -> Contents]
    /\ pc \in [Threads -> Labels]
    /\ targets \in [Threads -> SUBSET Files] /\ todo \in [Threads -> SUBSET Files]
    /\ moved \in [Threads -> SUBSET Files] /\ \A t \in Threads : moved[t] \subseteq targets[t]
    /\ backups \in [Threads -> SUBSET Files] /\ installed \in [Threads -> SUBSET Files]
    /\ job \in Threads \cup {"none"} /\ left \subseteq Files
    /\ at \in Files \cup {NoFile} /\ held \in Contents
    /\ wiping \subseteq Files /\ contested \subseteq Files

SetAsideBy(v, f) == \E t \in Threads : f \in v[t]

\* What the user still has of file f: what the operation under way would put
\* back if it failed, otherwise what the next recover() will leave.
Kept(f) ==
    IF SetAsideBy(moved, f)
         \/ (bak[f] # None /\ (SetAsideBy(installed, f) \/ ~Complete(file[f])))
    THEN bak[f]
    ELSE IF SetAsideBy(backups, f) THEN relayOld[f]
    ELSE IF SetAsideBy(installed, f) THEN None
    ELSE file[f]

\* A valid identity may give way to another one when its fetch has succeeded,
\* when a fetch that died or failed at a rename left it adrift in its backup,
\* and when the engine has it before the account service.
Replaceable(f) ==
    \/ \E t \in Threads : At(t, "save") /\ f \in moved[t]
    \/ bak[f] # None /\ ~SetAsideBy(moved, f)
    \/ at = f /\ held # None

\* "failed -- previous kept" is true of every valid identity, cancelled or timed
\* out, with a failed rename or a death of the process in between: none is lost
\* unless the user resets it, and none is replaced but for the reasons above,
\* although three programs decide by three different tests what an identity is.
KeepsIdentities ==
    [][\A f \in Files \ contested' : Valid(Kept(f)) =>
          \/ Kept(f)' = Kept(f)
          \/ f \in wiping
          \/ Valid(Kept(f)') /\ (Replaceable(f) \/ ProcessDies)]_vars

\* "previous relay recovery pending" (IdentityProvisioner.kt:584) is never the
\* answer: what an interrupted installation left in .relay-old, which nothing
\* reads or deletes, does not stand in the way of the next one.
RelayNotBlocked ==
    \A t \in Threads : At(t, "install") =>
        \A f \in todo[t] \ (backups[t] \cup contested) :
            file[f] = None \/ relayOld[f] = None

\* When a fetch that only looks for the fields of an identity reports success
\* and drops the backups, its files are what the stricter test of the screen and
\* of the next connect takes for one.
SavedIsValid ==
    \A t \in Threads : At(t, "save") => \A f \in targets[t] \ contested : Valid(file[f])
=============================================================================
