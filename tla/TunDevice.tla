----------------------------- MODULE TunDevice -----------------------------
(* What a TunBridge may rely on, whoever starts, pauses, resumes and stops    *)
(* sessions: they come one after the other, each finds the device down and    *)
(* leaves it down; the device is raised for a session that lives, and only    *)
(* when its routes and DNS have been restored; it is aborted only under a     *)
(* session that was told to end.                                              *)
CONSTANT Sessions

VARIABLES
    device,    \* "down", "up", or "aborted": no descriptors, routes still there
    live,      \* the session that has the device, if any
    told,      \* ... if it was told to end
    ended      \* sessions of the past

vars == <<device, live, told, ended>>

Init == device = "down" /\ live = {} /\ told = {} /\ ended = {}

Open(s) ==
    /\ device = "down" /\ live = {} /\ s \notin ended
    /\ live' = {s}
    /\ UNCHANGED <<device, told, ended>>

Tell(s) ==
    /\ s \in live
    /\ told' = told \cup {s}
    /\ UNCHANGED <<device, live, ended>>

Raise ==
    /\ device = "down" /\ live # {}
    /\ device' = "up"
    /\ UNCHANGED <<live, told, ended>>

Lower ==
    /\ live # {}
    /\ device' = "down"
    /\ UNCHANGED <<live, told, ended>>

Abort ==
    /\ device = "up" /\ live # {} /\ live = told
    /\ device' = "aborted"
    /\ UNCHANGED <<live, told, ended>>

Close(s) ==
    /\ device = "down" /\ s \in live
    /\ live' = live \ {s} /\ told' = told \ {s} /\ ended' = ended \cup {s}
    /\ UNCHANGED device

Next ==
    \/ Raise \/ Lower \/ Abort
    \/ \E s \in Sessions : Open(s) \/ Tell(s) \/ Close(s)

Spec == Init /\ [][Next]_vars
=============================================================================
