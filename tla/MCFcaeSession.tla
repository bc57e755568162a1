--------------------------- MODULE MCFcaeSession ---------------------------
(* Instances of FcaeSession for TLC. *)
EXTENDS FcaeSession

(* Promises that the model refutes and that have no .cfg of their own: name *)
(* one in MCFcaeSession.cfg in place of its properties to see how.          *)

\* "in teardown order: TUN first, then Psiphon [...], then Aether"
\* (session.rs:601-602), also on the exit path of a TUN that failed to start.
TunStandsOnBackend ==
    tun = "up" /\ control = None => \E s \in Sessions : carrier[s]

\* "assert_eq!(cell.snapshot().state, FcaeState::Disconnected)" right after
\* stop() (session.rs:1196): the worker has looked at its token and reports
\* Connected after stop() has reported Disconnected.
DisconnectedAtOnce ==
    slot = 0 /\ (\A c \in Callers : cpc[c] = "idle") =>
        state \in {"Idle", "Disconnected", "Error"}
=============================================================================
