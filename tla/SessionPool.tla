----------------------------- MODULE SessionPool -----------------------------
(* What the AnyTLS client promises about its sessions (docs/protocol.md, the  *)
(* section on reuse, and client.go): a connection is served once, with a new  *)
(* session or with the newest idle one; it has the session to itself until it *)
(* returns it or the session closes; an idle session that is retired is only  *)
(* closed, and a closed one is never seen again.                              *)
EXTENDS Naturals

CONSTANT Conns    \* connections to serve

VARIABLES
    born,         \* how many sessions were dialled: their numbers are 1..born
    served,       \* connections that were given a session
    lease,        \* the live session a connection uses, 0 for none
    free,         \* live sessions that wait for a connection
    retired,      \* live sessions that wait to be closed
    closed        \* sessions that are closed

vars == <<born, served, lease, free, retired, closed>>

Init ==
    /\ born = 0 /\ served = {}
    /\ lease = [c \in Conns |-> 0]
    /\ free = {} /\ retired = {} /\ closed = {}

\* A connection is given the session with the next number.
Dial(c) ==
    /\ c \notin served
    /\ born' = born + 1 /\ served' = served \cup {c}
    /\ lease' = [lease EXCEPT ![c] = born + 1]
    /\ UNCHANGED <<free, retired, closed>>

\* A connection is given the newest session that is free ...
Lend(c, s) ==
    /\ c \notin served
    /\ s \in free /\ \A r \in free : r <= s
    /\ served' = served \cup {c}
    /\ lease' = [lease EXCEPT ![c] = s]
    /\ free' = free \ {s}
    /\ UNCHANGED <<born, retired, closed>>

\* ... or one that has closed since, and fails.
Disappoint(c) ==
    /\ c \notin served
    /\ served' = served \cup {c}
    /\ UNCHANGED <<born, lease, free, retired, closed>>

Return(c) ==
    /\ lease[c] # 0
    /\ lease' = [lease EXCEPT ![c] = 0]
    /\ free' = free \cup {lease[c]}
    /\ UNCHANGED <<born, served, retired, closed>>

Retire(S) ==
    /\ retired = {} /\ S \subseteq free
    /\ retired' = S /\ free' = free \ S
    /\ UNCHANGED <<born, served, lease, closed>>

\* A session closes, wherever it is.
Shut(s) ==
    /\ s \in (1..born) \ closed
    /\ closed' = closed \cup {s}
    /\ lease' = [c \in Conns |-> IF lease[c] = s THEN 0 ELSE lease[c]]
    /\ free' = free \ {s} /\ retired' = retired \ {s}
    /\ UNCHANGED <<born, served>>

Next ==
    \/ \E c \in Conns : \/ Dial(c) \/ Disappoint(c) \/ Return(c)
                        \/ \E s \in free : Lend(c, s)
    \/ \E S \in SUBSET free : Retire(S)
    \/ \E s \in 1..born : Shut(s)

Spec == Init /\ [][Next]_vars
==============================================================================
