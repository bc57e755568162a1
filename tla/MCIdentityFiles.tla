-------------------------- MODULE MCIdentityFiles --------------------------
(***************************************************************************)
(* Instances of IdentityFiles for TLC.                                     *)
(*                                                                         *)
(* At the end are promises that the model refutes; they have no .cfg of    *)
(* their own. Name one in MCIdentityFiles.cfg in place of its properties   *)
(* to see how.                                                             *)
(***************************************************************************)
EXTENDS IdentityFiles, TLC

CONSTANT MaxOps  \* how many operations begin: fetches, relays, resets, deaths

VARIABLE ops     \* ... and how many have

\* One protocol needs the first file, the other needs both.
MCProtocols == {{1}, {1, 2}}

Symmetry == Permutations(Identities)

MCInit == Init /\ ops = 0

Begins ==
    \/ \E t \in Threads : At(t, "idle") /\ ~At(t, "idle")'
    \/ wiping = {} /\ wiping' # {}
    \/ ProcessDies

\* Of a state in which every file is contested the properties say no more.
MCNext ==
    /\ contested # Files
    /\ Next
    /\ ops' = IF Begins THEN ops + 1 ELSE ops
    /\ ops' <= MaxOps

MCSpec == MCInit /\ [][MCNext]_<<vars, ops>>

-----------------------------------------------------------------------------
\* The three properties, of every file: refuted by two writers at one file.
KeepsEveryIdentity ==
    [][\A f \in Files : Valid(Kept(f)) =>
          \/ Kept(f)' = Kept(f)
          \/ f \in wiping
          \/ Valid(Kept(f)') /\ (Replaceable(f) \/ ProcessDies)]_vars
EverySavedIsValid ==
    \A t \in Threads : At(t, "save") => \A f \in targets[t] : Valid(file[f])
RelayNeverBlocked ==
    \A t \in Threads : At(t, "install") =>
        \A f \in todo[t] \ backups[t] : file[f] = None \/ relayOld[f] = None

\* "Never touches ... WireGuard/WoW/Masque connect flow" (WarpIdentityFetcher):
\* a fetch does not end the engine of the tunnel.
TunnelIsLeftAlone ==
    [][\A t \in Screens : Finally(t) /\ job = "service" => job' = job]_vars

\* "Wipes every saved WARP/MASQUE registration" (resetIdentities): what it has
\* wiped does not come back out of a backup.
ResetIsFinal ==
    [][\A f \in Files : Wipe(f) => bak'[f] = None /\ relayOld'[f] = None]_vars
=============================================================================
