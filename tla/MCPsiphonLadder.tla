-------------------------- MODULE MCPsiphonLadder --------------------------
(* Instances of PsiphonLadder for TLC. *)
EXTENDS PsiphonLadder

\* The last session was stopped: no property says anything of what follows.
Over ==
    /\ sessionGeneration = MaxSessions /\ Is("stopRequested")
    /\ \A t \in Threads : ~At(t, "launch")

MCNext == ~Over /\ Next
MCSpec == Init /\ [][MCNext]_vars /\ Fairness

(* Promises that the model refutes and that have no .cfg of their own: name *)
(* one in MCPsiphonLadder.cfg in place of its properties to see how, the     *)
(* last one with SPECIFICATION Spec.                                        *)

\* "Comparing this against [sessionGeneration] tells the two apart"
\* (MsnGuardVpnService.kt:405-406): the exit of a controller leaves the
\* handle on another one alone. The stamp is the service's, not the
\* controller's.
OldExitIsIgnored ==
    [][\A c \in Controllers :
          onExiting(c) /\ psiphonTunnel # c => psiphonTunnel' = psiphonTunnel]_vars

\* "Detach the reference synchronously (so nothing else can use it) and let
\* the blocking stop happen off-thread" (2368-2369): a controller that runs
\* is the one of the handle, or somebody is stopping it.
NoOrphanController == live \subseteq told \cup {psiphonTunnel}

\* "an older controller can report connected while unwinding" (1262-1263) and
\* is ignored: a session that was stopped is not claimed again by a callback.
StoppedStaysStopped ==
    [][\A c \in Controllers :
          Callback(c) /\ Is("stopRequested") /\ ~Is("connected")
             => "connected" \notin raised']_vars
=============================================================================
