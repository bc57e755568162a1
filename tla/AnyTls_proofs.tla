---------------------------- MODULE AnyTls_proofs ----------------------------
(* Proofs for AnyTls, for any number of connections and sessions and any      *)
(* MinIdle: every invariant of the session pool, from one inductive invariant *)
(* that says how far a connection and its stream are, and where each session  *)
(* is while it lives.                                                         *)
EXTENDS AnyTls, TLAPS, WellFoundedInduction

Opening == {"register", "open", "syn", "add"}

\* A connection has no session before it asks for one, has one from the dial on,
\* and a stream once it is entered.
ConnInv ==
    \A c \in Conns :
        /\ pc[c] \in {"accepted", "get", "dial"} => sess[c] = 0
        /\ pc[c] \in Opening \/ life[c] # "none" => sess[c] \in Sessions
        /\ pc[c] \in {"accepted", "get", "dial", "failed"} \cup Opening => life[c] = "none"
        /\ ~EagerServer /\ At(c, "hook") => life[c] \in {"open", "dead"}

\* A session's map holds streams of that session, every open one among them but
\* for the one recvLoop is about to close, and is empty once the sweep is over.
StreamInv ==
    /\ \A s \in Sessions : \A c \in streams[s] :
           sess[c] = s /\ life[c] # "none" /\ closing[s] # "closed"
    /\ \A c \in Conns : life[c] = "open" =>
           c \in streams[sess[c]] \/ (recv[sess[c]] = "fin" /\ task[sess[c]] = c)
    /\ \A s \in Sessions : recv[s] = "fin" =>
           /\ task[s] \in Conns /\ sess[task[s]] = s /\ life[task[s]] # "none"
           /\ ~EagerServer => Hooked(task[s])

\* Numbers that have not been given out are nowhere, and a session that has yet
\* to run has one connection and no recvLoop.
FreshInv ==
    /\ \A s \in Sessions :
           IsClosed(s) \/ s \in idle \cup sessions \cup expired \cup snapshot \cup stray
             \/ recv[s] # "off" \/ synDone[s] # None => s <= counter
    /\ \A c \in Conns : sess[c] <= counter
    /\ \A c \in Conns : At(c, "register") => recv[sess[c]] = "off"
    /\ \A c, d \in Conns : At(c, "register") /\ At(d, "register") /\ sess[c] = sess[d] => c = d

\* A live session is in the client's map as soon as it runs, and once the map
\* has been copied nothing returns to the pool that is not in the copy.
ClientInv ==
    /\ client # "closing" => \A s \in 1..counter :
           IsClosed(s) \/ s \in sessions \/ \E c \in Conns : At(c, "register") /\ sess[c] = s
    /\ client = "closing" => \A s \in Sessions :
           s \in idle \/ (\E c \in Conns : life[c] = "put" /\ sess[c] = s)
               => IsClosed(s) \/ s \in snapshot

IInv == /\ TypeOK /\ ConnInv /\ StreamInv /\ FreshInv /\ ClientInv
        /\ SessionNotShared /\ (~EagerServer => SessionNotLeaked)

\* The pool's newest session is one of its sessions, and none is newer.
LEMMA NewestIsIn ==
  ASSUME NEW S \in SUBSET Sessions, S # {}
  PROVE  Newest(S) \in S /\ \A r \in S : r <= Newest(S)
<1> DEFINE T == {MaxSessions - s : s \in S}
           R == OpToRel(<, Nat)
<1>1. T \subseteq Nat /\ T # {}
  BY BoundAssumption DEF Sessions
<1>2. PICK x \in T : \A y \in T : ~(<<y, x>> \in R)
  <2> HIDE DEF T, R
  <2>1. IsWellFoundedOn(R, Nat)
    BY NatLessThanWellFounded DEF R
  <2> QED BY <1>1, <2>1, WFMin
<1>3. \A y \in T : ~(y < x)
  BY <1>1, <1>2 DEF OpToRel
<1>4. PICK s \in S : x = MaxSessions - s
  BY <1>2
<1>5. \A r \in S : r <= s
  BY <1>3, <1>4, BoundAssumption DEF Sessions
<1> QED BY <1>5 DEF Newest

\* Session numbers start at one; zero is no session.
LEMMA SessionsAre == 0 \notin Sessions /\ 0 \in 0..MaxSessions /\ Sessions \subseteq 0..MaxSessions
BY BoundAssumption DEF Sessions

\* The invariant holds in a new client.
LEMMA InitIInv == Init => IInv
<1> SUFFICES ASSUME Init PROVE IInv
  OBVIOUS
<1>1. TypeOK
  BY SessionsAre, BoundAssumption DEF Init, TypeOK, ConnStates, Lives
<1>2. ConnInv /\ StreamInv /\ FreshInv /\ ClientInv
  BY BoundAssumption DEF Init, ConnInv, StreamInv, FreshInv, ClientInv, Opening, At, IsClosed, Sessions
<1>3. SessionNotShared /\ SessionNotLeaked
  BY BoundAssumption DEF Init, SessionNotShared, SessionNotLeaked, Holds, IsClosed
<1> QED BY <1>1, <1>2, <1>3 DEF IInv

\* A connection that takes a session and opens its stream keeps the invariant.
LEMMA ConnectionStep ==
  ASSUME IInv, NEW c \in Conns, Connection(c)
  PROVE  IInv'
<1> USE SessionsAre, NoneAssumption
    DEF IInv, Opening, At, Goto, IsClosed, ClientDied, Close, StreamClose, Hooked, Resume, Busy, Ended, Holds,
        ConnStates, Lives, conns, pool, syn, loop, routines
<1>1. CASE CreateStream(c)
  <2>1. TypeOK' /\ ConnInv' /\ StreamInv' /\ FreshInv'
    BY <1>1 DEF CreateStream, TypeOK, ConnInv, StreamInv, FreshInv
  <2>2. ClientInv' /\ SessionNotShared'
    BY <1>1 DEF CreateStream, TypeOK, ConnInv, StreamInv, FreshInv, ClientInv, SessionNotShared
  <2>3. ~EagerServer => SessionNotLeaked'
    BY <1>1 DEF CreateStream, TypeOK, ConnInv, StreamInv, SessionNotLeaked
  <2> QED BY <2>1, <2>2, <2>3
<1>2. CASE GetIdleSession(c)
  <2>1. CASE idle = {}
    <3>1. UNCHANGED idle /\ Goto(c, "dial") /\ UNCHANGED sess /\ At(c, "get")
      BY <1>2, <2>1 DEF GetIdleSession
    <3>2. UNCHANGED <<sid, life, counter, sessions, closing, streams, streamId, syn, loop, routines>>
      BY <1>2 DEF GetIdleSession
    <3>3. TypeOK' /\ ConnInv' /\ StreamInv' /\ FreshInv'
      BY <3>1, <3>2 DEF TypeOK, ConnInv, StreamInv, FreshInv
    <3>4. ClientInv' /\ SessionNotShared'
      BY <3>1, <3>2 DEF TypeOK, ConnInv, ClientInv, SessionNotShared
    <3>5. ~EagerServer => SessionNotLeaked'
      BY <3>1, <3>2 DEF TypeOK, ConnInv, SessionNotLeaked
    <3> QED BY <3>3, <3>4, <3>5
  <2>2. CASE idle # {}
    <3>1. PICK s \in idle : sess' = [sess EXCEPT ![c] = s] /\ idle' = idle \ {s}
      <4>1. Newest(idle) \in idle
        BY <2>2, NewestIsIn DEF TypeOK
      <4> QED BY <1>2, <2>2, <4>1 DEF GetIdleSession
    <3>2. Goto(c, "open") /\ At(c, "get") /\ s \in Sessions
      BY <1>2, <2>2, <3>1 DEF GetIdleSession, TypeOK
    <3>3. UNCHANGED <<sid, life, counter, sessions, closing, streams, streamId, syn, loop, routines>>
      BY <1>2 DEF GetIdleSession
    <3>4. TypeOK'
      BY <3>1, <3>2, <3>3 DEF TypeOK
    <3>5. ConnInv' /\ StreamInv' /\ FreshInv'
      BY <3>1, <3>2, <3>3 DEF TypeOK, ConnInv, StreamInv, FreshInv
    <3>6. ClientInv'
      BY <3>1, <3>2, <3>3 DEF TypeOK, ConnInv, ClientInv
    <3>7. SessionNotShared'
      BY <3>1, <3>2, <3>3 DEF TypeOK, ConnInv, SessionNotShared
    <3>8. ~EagerServer => SessionNotLeaked'
      BY <3>1, <3>2, <3>3 DEF TypeOK, ConnInv, SessionNotLeaked
    <3> QED BY <3>4, <3>5, <3>6, <3>7, <3>8
  <2> QED BY <2>1, <2>2
<1>3. CASE CreateSession(c)
  <2>1. counter + 1 \in Sessions /\ counter' = counter + 1 /\ counter' \in 0..MaxSessions
    BY <1>3, BoundAssumption DEF CreateSession, TypeOK, Sessions
  <2>2. counter + 1 \notin idle \cup expired /\ \A d \in Conns : sess[d] # counter + 1
    <3>1. counter \in Nat /\ sess \in [Conns -> 0..MaxSessions] /\ ~(counter + 1 <= counter)
      BY BoundAssumption DEF TypeOK
    <3> QED BY <2>1, <3>1 DEF FreshInv
  <2>3. TypeOK'
    BY <1>3, <2>1 DEF CreateSession, TypeOK
  <2>4. ConnInv' /\ StreamInv'
    BY <1>3, <2>1, <2>2 DEF CreateSession, TypeOK, ConnInv, StreamInv
  <2>5. FreshInv'
    BY <1>3, <2>1, BoundAssumption DEF CreateSession, TypeOK, FreshInv, Sessions
  <2>6. ClientInv'
    BY <1>3, <2>1, <2>2 DEF CreateSession, TypeOK, ConnInv, ClientInv
  <2>7. SessionNotShared'
    BY <1>3, <2>1, <2>2 DEF CreateSession, TypeOK, ConnInv, SessionNotShared
  <2>8. ~EagerServer => SessionNotLeaked'
    BY <1>3, <2>1 DEF CreateSession, TypeOK, ConnInv, SessionNotLeaked
  <2> QED BY <2>3, <2>4, <2>5, <2>6, <2>7, <2>8
<1>4. CASE DialFails(c)
  <2>1. TypeOK' /\ ConnInv' /\ StreamInv' /\ FreshInv'
    BY <1>4 DEF DialFails, TypeOK, ConnInv, StreamInv, FreshInv
  <2>2. ClientInv' /\ SessionNotShared'
    BY <1>4 DEF DialFails, TypeOK, ConnInv, StreamInv, FreshInv, ClientInv, SessionNotShared
  <2>3. ~EagerServer => SessionNotLeaked'
    BY <1>4 DEF DialFails, TypeOK, ConnInv, StreamInv, SessionNotLeaked
  <2> QED BY <2>1, <2>2, <2>3
<1>5. CASE Run(c)
  <2>1. TypeOK' /\ FreshInv'
    <3>1. TypeOK'
      BY <1>5 DEF Run, TypeOK, ConnInv
    <3>2. FreshInv'
      BY <1>5 DEF Run, TypeOK, ConnInv, FreshInv
    <3> QED BY <3>1, <3>2
  <2>2. ConnInv' /\ StreamInv'
    <3>1. ConnInv'
      BY <1>5 DEF Run, TypeOK, ConnInv
    <3>2. StreamInv'
      BY <1>5 DEF Run, TypeOK, ConnInv, StreamInv, FreshInv
    <3> QED BY <3>1, <3>2
  <2>3. ClientInv' /\ SessionNotShared'
    BY <1>5 DEF Run, TypeOK, ConnInv, StreamInv, FreshInv, ClientInv, SessionNotShared
  <2>4. ~EagerServer => SessionNotLeaked'
    BY <1>5 DEF Run, TypeOK, ConnInv, StreamInv, SessionNotLeaked
  <2> QED BY <2>1, <2>2, <2>3, <2>4
<1>6. CASE OpenStream(c)
  <2>1. TypeOK' /\ ConnInv' /\ StreamInv' /\ FreshInv'
    BY <1>6 DEF OpenStream, TypeOK, ConnInv, StreamInv, FreshInv
  <2>2. ClientInv' /\ SessionNotShared'
    BY <1>6 DEF OpenStream, TypeOK, ConnInv, StreamInv, FreshInv, ClientInv, SessionNotShared
  <2>3. ~EagerServer => SessionNotLeaked'
    BY <1>6 DEF OpenStream, TypeOK, ConnInv, StreamInv, SessionNotLeaked
  <2> QED BY <2>1, <2>2, <2>3
<1>7. CASE WriteSyn(c)
  <2>1. TypeOK'
    BY <1>7 DEF WriteSyn, TypeOK, ConnInv
  <2>2. ConnInv' /\ StreamInv'
    BY <1>7 DEF WriteSyn, TypeOK, ConnInv, StreamInv
  <2>3. FreshInv'
    BY <1>7 DEF WriteSyn, TypeOK, ConnInv, FreshInv
  <2>4. \A t \in Sessions : IsClosed(t) => IsClosed(t)'
    BY <1>7 DEF WriteSyn, TypeOK
  <2>5. \A d \in Conns, t \in Sessions : Holds(d, t) => Holds(d, t)' \/ IsClosed(t)'
    BY <1>7 DEF WriteSyn, TypeOK, ConnInv
  <2>6. 1..counter \subseteq Sessions
    BY BoundAssumption DEF TypeOK, Sessions
  <2>7. ClientInv'
    <3>1. \A d \in Conns : At(d, "register")' <=> At(d, "register")
      BY <1>7 DEF WriteSyn, TypeOK
    <3> HIDE DEF IsClosed, At
    <3> QED BY <1>7, <2>4, <2>6, <3>1 DEF WriteSyn, ClientInv
  <2>8. SessionNotShared'
    BY <1>7 DEF WriteSyn, TypeOK, ConnInv, StreamInv, SessionNotShared
  <2>9. ~EagerServer => SessionNotLeaked'
    <3> HIDE DEF IsClosed, Holds
    <3> QED BY <1>7, <2>4, <2>5, <2>6 DEF WriteSyn, SessionNotLeaked
  <2> QED BY <2>1, <2>2, <2>3, <2>7, <2>8, <2>9
<1>8. CASE AddStream(c)
  <2>1. TypeOK' /\ ConnInv' /\ StreamInv' /\ FreshInv'
    BY <1>8 DEF AddStream, TypeOK, ConnInv, StreamInv, FreshInv
  <2>2. ClientInv' /\ SessionNotShared'
    BY <1>8 DEF AddStream, TypeOK, ConnInv, StreamInv, FreshInv, ClientInv, SessionNotShared
  <2>3. ~EagerServer => SessionNotLeaked'
    BY <1>8 DEF AddStream, TypeOK, ConnInv, StreamInv, SessionNotLeaked
  <2> QED BY <2>1, <2>2, <2>3
<1>9. CASE SetDieHook(c)
  <2>1. TypeOK' /\ ConnInv' /\ StreamInv' /\ FreshInv'
    BY <1>9 DEF SetDieHook, TypeOK, ConnInv, StreamInv, FreshInv
  <2>2. ClientInv' /\ SessionNotShared'
    BY <1>9 DEF SetDieHook, TypeOK, ConnInv, StreamInv, FreshInv, ClientInv, SessionNotShared
  <2>3. ~EagerServer => SessionNotLeaked'
    BY <1>9 DEF SetDieHook, TypeOK, ConnInv, StreamInv, SessionNotLeaked
  <2> QED BY <2>1, <2>2, <2>3
<1>10. CASE WriteAddress(c)
  <2>1. TypeOK' /\ ConnInv' /\ StreamInv' /\ FreshInv'
    BY <1>10 DEF WriteAddress, TypeOK, ConnInv, StreamInv, FreshInv
  <2>2. ClientInv' /\ SessionNotShared'
    BY <1>10 DEF WriteAddress, TypeOK, ConnInv, StreamInv, FreshInv, ClientInv, SessionNotShared
  <2>3. ~EagerServer => SessionNotLeaked'
    BY <1>10 DEF WriteAddress, TypeOK, ConnInv, StreamInv, SessionNotLeaked
  <2> QED BY <2>1, <2>2, <2>3
<1>11. CASE RelayEnds(c)
  <2>1. TypeOK' /\ ConnInv' /\ StreamInv' /\ FreshInv'
    BY <1>11 DEF RelayEnds, TypeOK, ConnInv, StreamInv, FreshInv
  <2>2. ClientInv' /\ SessionNotShared'
    BY <1>11 DEF RelayEnds, TypeOK, ConnInv, StreamInv, FreshInv, ClientInv, SessionNotShared
  <2>3. ~EagerServer => SessionNotLeaked'
    BY <1>11 DEF RelayEnds, TypeOK, ConnInv, StreamInv, SessionNotLeaked
  <2> QED BY <2>1, <2>2, <2>3
<1> QED BY <1>1, <1>2, <1>3, <1>4, <1>5, <1>6, <1>7, <1>8, <1>9, <1>10, <1>11 DEF Connection

\* A stream that ends and its dieHook keep it.
LEMMA StreamEndStep ==
  ASSUME IInv, NEW c \in Conns, StreamEnd(c)
  PROVE  IInv'
<1> USE SessionsAre, NoneAssumption
    DEF IInv, Opening, At, Goto, IsClosed, ClientDied, Close, StreamClose, Hooked, Resume, Busy, Ended, Holds,
        ConnStates, Lives, conns, pool, syn, loop, routines
<1>1. CASE WriteFin(c)
  <2>1. TypeOK'
    BY <1>1 DEF WriteFin, TypeOK, ConnInv
  <2>2. ConnInv' /\ StreamInv'
    BY <1>1 DEF WriteFin, TypeOK, ConnInv, StreamInv
  <2>3. FreshInv'
    BY <1>1 DEF WriteFin, TypeOK, ConnInv, FreshInv
  <2>4. \A t \in Sessions : IsClosed(t) => IsClosed(t)'
    BY <1>1 DEF WriteFin, TypeOK
  <2>5. \A d \in Conns, t \in Sessions : Holds(d, t) => Holds(d, t)' \/ IsClosed(t)'
    BY <1>1 DEF WriteFin, TypeOK, ConnInv
  <2>6. 1..counter \subseteq Sessions
    BY BoundAssumption DEF TypeOK, Sessions
  <2>7. \A d \in Conns, t \in Sessions : Holds(d, t)' => Holds(d, t)
    BY <1>1 DEF WriteFin, TypeOK
  <2>8. ClientInv'
    <3>1. \A d \in Conns : life'[d] = "put" => life[d] = "put"
      BY <1>1 DEF WriteFin, TypeOK
    <3> HIDE DEF IsClosed
    <3> QED BY <1>1, <2>4, <2>6, <3>1 DEF WriteFin, ClientInv
  <2>9. SessionNotShared'
    <3> HIDE DEF IsClosed, Holds
    <3> QED BY <1>1, <2>4, <2>7 DEF WriteFin, SessionNotShared
  <2>10. ~EagerServer => SessionNotLeaked'
    <3> HIDE DEF IsClosed, Holds
    <3> QED BY <1>1, <2>4, <2>5, <2>6 DEF WriteFin, SessionNotLeaked
  <2> QED BY <2>1, <2>2, <2>3, <2>8, <2>9, <2>10
<1>2. CASE DeleteStream(c)
  <2>1. TypeOK' /\ ConnInv' /\ StreamInv' /\ FreshInv'
    BY <1>2 DEF DeleteStream, TypeOK, ConnInv, StreamInv, FreshInv
  <2>2. ClientInv' /\ SessionNotShared'
    BY <1>2 DEF DeleteStream, TypeOK, ConnInv, StreamInv, FreshInv, ClientInv, SessionNotShared
  <2>3. ~EagerServer => SessionNotLeaked'
    BY <1>2 DEF DeleteStream, TypeOK, ConnInv, StreamInv, SessionNotLeaked
  <2> QED BY <2>1, <2>2, <2>3
<1>3. CASE DieHook(c)
  <2>1. TypeOK'
    BY <1>3 DEF DieHook, TypeOK, ConnInv
  <2>2. ConnInv' /\ StreamInv'
    BY <1>3 DEF DieHook, TypeOK, ConnInv, StreamInv
  <2>3. FreshInv'
    BY <1>3 DEF DieHook, TypeOK, ConnInv, FreshInv
  <2>4. \A t \in Sessions : IsClosed(t) => IsClosed(t)'
    BY <1>3 DEF DieHook, TypeOK
  <2>5. 1..counter \subseteq Sessions
    BY BoundAssumption DEF TypeOK, Sessions
  <2>6. ClientInv'
    <3>1. \A d \in Conns : life'[d] = "put" => life[d] = "put" \/ client = "open"
      BY <1>3 DEF DieHook, TypeOK
    <3> HIDE DEF IsClosed
    <3> QED BY <1>3, <2>4, <2>5, <3>1 DEF DieHook, ClientInv
  <2>7. SessionNotShared'
    BY <1>3 DEF DieHook, TypeOK, ConnInv, StreamInv, SessionNotShared
  <2>8. ~EagerServer => SessionNotLeaked'
    <3> SUFFICES ASSUME ~EagerServer PROVE SessionNotLeaked'
      OBVIOUS
    <3>1. Hooked(c) /\ sess[c] \in Sessions
      BY <1>3 DEF DieHook, TypeOK, ConnInv
    <3>2. \A d \in Conns, t \in Sessions : Holds(d, t) => Holds(d, t)' \/ IsClosed(t)'
      BY <1>3, <3>1 DEF DieHook, TypeOK
    <3> HIDE DEF IsClosed, Holds
    <3> QED BY <1>3, <2>4, <2>5, <3>2 DEF DieHook, SessionNotLeaked
  <2> QED BY <2>1, <2>2, <2>3, <2>6, <2>7, <2>8
<1>4. CASE PutIdle(c)
  <2>1. sess[c] \in Sessions
    BY <1>4 DEF PutIdle, TypeOK, ConnInv
  <2>2. recv' \in [Sessions -> {"off", "read", "push", "fin", "end", "done"}]
        /\ task' \in [Sessions -> Conns \cup {None}]
    BY <1>4 DEF PutIdle, TypeOK
  <2>3. TypeOK'
    BY <1>4, <2>1, <2>2 DEF PutIdle, TypeOK
  <2>4. ConnInv' /\ StreamInv'
    BY <1>4 DEF PutIdle, TypeOK, ConnInv, StreamInv
  <2>5. FreshInv'
    BY <1>4 DEF PutIdle, TypeOK, ConnInv, FreshInv
  <2>6. ClientInv'
    BY <1>4 DEF PutIdle, TypeOK, ConnInv, FreshInv, ClientInv, SessionNotShared
  <2>7. SessionNotShared'
    BY <1>4 DEF PutIdle, TypeOK, ConnInv, StreamInv, SessionNotShared
  <2>8. ~EagerServer => SessionNotLeaked'
    BY <1>4 DEF PutIdle, TypeOK, ConnInv, StreamInv, SessionNotLeaked
  <2> QED BY <2>3, <2>4, <2>5, <2>6, <2>7, <2>8
<1> QED BY <1>1, <1>2, <1>3, <1>4 DEF StreamEnd

\* Session.Close keeps it.
LEMMA SessionEndStep ==
  ASSUME IInv, NEW s \in Sessions, SessionEnd(s)
  PROVE  IInv'
<1> USE SessionsAre, NoneAssumption
    DEF IInv, Opening, At, Goto, IsClosed, ClientDied, Close, StreamClose, Hooked, Resume, Busy, Ended, Holds,
        ConnStates, Lives, conns, pool, syn, loop, routines
<1>1. CASE LeavePool(s)
  <2>1. TypeOK' /\ ConnInv' /\ StreamInv' /\ FreshInv'
    BY <1>1 DEF LeavePool, TypeOK, ConnInv, StreamInv, FreshInv
  <2>2. ClientInv' /\ SessionNotShared'
    BY <1>1 DEF LeavePool, TypeOK, ConnInv, StreamInv, FreshInv, ClientInv, SessionNotShared
  <2>3. ~EagerServer => SessionNotLeaked'
    BY <1>1 DEF LeavePool, TypeOK, ConnInv, StreamInv, SessionNotLeaked
  <2> QED BY <2>1, <2>2, <2>3
<1>2. CASE LeaveMap(s)
  <2>1. TypeOK' /\ ConnInv' /\ StreamInv' /\ FreshInv'
    BY <1>2 DEF LeaveMap, TypeOK, ConnInv, StreamInv, FreshInv
  <2>2. ClientInv' /\ SessionNotShared'
    BY <1>2 DEF LeaveMap, TypeOK, ConnInv, StreamInv, FreshInv, ClientInv, SessionNotShared
  <2>3. ~EagerServer => SessionNotLeaked'
    BY <1>2 DEF LeaveMap, TypeOK, ConnInv, StreamInv, SessionNotLeaked
  <2> QED BY <2>1, <2>2, <2>3
<1>3. CASE Sweep(s)
  <2>1. TypeOK' /\ ConnInv' /\ StreamInv' /\ FreshInv'
    BY <1>3 DEF Sweep, TypeOK, ConnInv, StreamInv, FreshInv
  <2>2. ClientInv' /\ SessionNotShared'
    BY <1>3 DEF Sweep, TypeOK, ConnInv, StreamInv, FreshInv, ClientInv, SessionNotShared
  <2>3. ~EagerServer => SessionNotLeaked'
    BY <1>3 DEF Sweep, TypeOK, ConnInv, StreamInv, SessionNotLeaked
  <2> QED BY <2>1, <2>2, <2>3
<1> QED BY <1>1, <1>2, <1>3 DEF SessionEnd

\* recvLoop keeps it.
LEMMA ReceiveStep ==
  ASSUME IInv, NEW s \in Sessions, Receive(s)
  PROVE  IInv'
<1> USE SessionsAre, NoneAssumption
    DEF IInv, Opening, At, Goto, IsClosed, ClientDied, Close, StreamClose, Hooked, Resume, Busy, Ended, Holds,
        ConnStates, Lives, conns, pool, syn, loop, routines
<1>1. ASSUME NEW c \in Conns, RecvFin(s, c) PROVE IInv'
  <2>1. TypeOK' /\ ConnInv' /\ StreamInv' /\ FreshInv'
    BY <1>1 DEF RecvFin, TypeOK, ConnInv, StreamInv, FreshInv, Answerable
  <2>2. ClientInv' /\ SessionNotShared'
    BY <1>1 DEF RecvFin, TypeOK, ConnInv, StreamInv, FreshInv, ClientInv, SessionNotShared
  <2>3. ~EagerServer => SessionNotLeaked'
    BY <1>1 DEF RecvFin, TypeOK, ConnInv, StreamInv, SessionNotLeaked, Answerable
  <2> QED BY <2>1, <2>2, <2>3
<1>2. ASSUME NEW c \in Conns, RecvPush(s, c) PROVE IInv'
  <2>1. TypeOK' /\ ConnInv' /\ StreamInv' /\ FreshInv'
    BY <1>2 DEF RecvPush, TypeOK, ConnInv, StreamInv, FreshInv, Answerable
  <2>2. ClientInv' /\ SessionNotShared'
    BY <1>2 DEF RecvPush, TypeOK, ConnInv, StreamInv, FreshInv, ClientInv, SessionNotShared
  <2>3. ~EagerServer => SessionNotLeaked'
    BY <1>2 DEF RecvPush, TypeOK, ConnInv, StreamInv, SessionNotLeaked, Answerable
  <2> QED BY <2>1, <2>2, <2>3
<1>3. ASSUME NEW c \in Conns, NEW error \in BOOLEAN, RecvSynAck(s, c, error) PROVE IInv'
  <2>1. TypeOK' /\ ConnInv' /\ StreamInv' /\ FreshInv'
    BY <1>3 DEF RecvSynAck, TypeOK, ConnInv, StreamInv, FreshInv, Answerable
  <2>2. ClientInv' /\ SessionNotShared'
    BY <1>3 DEF RecvSynAck, TypeOK, ConnInv, StreamInv, FreshInv, ClientInv, SessionNotShared
  <2>3. ~EagerServer => SessionNotLeaked'
    BY <1>3 DEF RecvSynAck, TypeOK, ConnInv, StreamInv, SessionNotLeaked, Answerable
  <2> QED BY <2>1, <2>2, <2>3
<1>4. CASE PushDone(s)
  <2>1. TypeOK' /\ ConnInv' /\ StreamInv' /\ FreshInv'
    BY <1>4 DEF PushDone, TypeOK, ConnInv, StreamInv, FreshInv
  <2>2. ClientInv' /\ SessionNotShared'
    BY <1>4 DEF PushDone, TypeOK, ConnInv, StreamInv, FreshInv, ClientInv, SessionNotShared
  <2>3. ~EagerServer => SessionNotLeaked'
    BY <1>4 DEF PushDone, TypeOK, ConnInv, StreamInv, SessionNotLeaked
  <2> QED BY <2>1, <2>2, <2>3
<1>5. CASE RecvServerSettings(s)
  <2>1. TypeOK' /\ ConnInv' /\ StreamInv' /\ FreshInv'
    BY <1>5 DEF RecvServerSettings, TypeOK, ConnInv, StreamInv, FreshInv
  <2>2. ClientInv' /\ SessionNotShared'
    BY <1>5 DEF RecvServerSettings, TypeOK, ConnInv, StreamInv, FreshInv, ClientInv, SessionNotShared
  <2>3. ~EagerServer => SessionNotLeaked'
    BY <1>5 DEF RecvServerSettings, TypeOK, ConnInv, StreamInv, SessionNotLeaked
  <2> QED BY <2>1, <2>2, <2>3
<1>6. CASE RecvEnds(s)
  <2>1. TypeOK' /\ ConnInv' /\ StreamInv' /\ FreshInv'
    BY <1>6 DEF RecvEnds, TypeOK, ConnInv, StreamInv, FreshInv
  <2>2. ClientInv' /\ SessionNotShared'
    BY <1>6 DEF RecvEnds, TypeOK, ConnInv, StreamInv, FreshInv, ClientInv, SessionNotShared
  <2>3. ~EagerServer => SessionNotLeaked'
    BY <1>6 DEF RecvEnds, TypeOK, ConnInv, StreamInv, SessionNotLeaked
  <2> QED BY <2>1, <2>2, <2>3
<1>7. CASE CloseLocally(s)
  <2>1. TypeOK' /\ ConnInv' /\ StreamInv' /\ FreshInv'
    <3>1. /\ recv[s] = "fin" /\ task[s] \in Conns /\ sess[task[s]] = s /\ life[task[s]] # "none"
          /\ ~EagerServer => Hooked(task[s])
      BY <1>7 DEF CloseLocally, StreamInv
    <3>2. /\ UNCHANGED <<conns, pool, closing, streams, streamId, syn, routines>>
          /\ \/ /\ life[task[s]] = "open" /\ life' = [life EXCEPT ![task[s]] = "hook"]
                /\ recv' = [recv EXCEPT ![s] = "end"]
             \/ /\ life[task[s]] # "open" /\ life' = life
                /\ \E r \in {"read", "done"} : recv' = [recv EXCEPT ![s] = r]
          /\ \E d \in Conns \cup {None} : task' = [task EXCEPT ![s] = d]
      BY <1>7, <3>1 DEF CloseLocally, TypeOK
    <3>3. TypeOK'
      BY <3>1, <3>2 DEF TypeOK
    <3>4. ConnInv'
      BY <3>1, <3>2 DEF TypeOK, ConnInv
    <3>5. /\ recv'[s] \notin {"off", "fin"}
          /\ \A t \in Sessions \ {s} : recv'[t] = recv[t] /\ task'[t] = task[t]
          /\ \A c \in Conns : life'[c] = "open" => life[c] = "open" /\ c # task[s]
          /\ \A c \in Conns : life[c] # "none" => life'[c] # "none"
      BY <3>1, <3>2 DEF TypeOK
    <3>6. StreamInv'
      BY <3>2, <3>5 DEF TypeOK, ConnInv, StreamInv
    <3>7. FreshInv'
      <4>1. \A t \in Sessions : recv'[t] # "off" => recv[t] # "off"
        BY <3>1, <3>5
      <4>2. \A c \in Conns : At(c, "register") => sess[c] # s /\ sess[c] \in Sessions
        BY <3>1 DEF ConnInv, FreshInv
      <4>3. \A c \in Conns : At(c, "register") => recv'[sess[c]] = "off"
        BY <3>5, <4>2 DEF FreshInv
      <4> QED BY <3>2, <4>1, <4>3 DEF FreshInv
    <3> QED BY <3>3, <3>4, <3>6, <3>7
  <2>2. ClientInv' /\ SessionNotShared'
    BY <1>7 DEF CloseLocally, TypeOK, ConnInv, StreamInv, FreshInv, ClientInv, SessionNotShared
  <2>3. ~EagerServer => SessionNotLeaked'
    BY <1>7 DEF CloseLocally, TypeOK, ConnInv, StreamInv, SessionNotLeaked
  <2> QED BY <2>1, <2>2, <2>3
<1>8. CASE RecvSyn(s)
  <2>1. TypeOK' /\ ConnInv' /\ StreamInv' /\ FreshInv'
    BY <1>8 DEF RecvSyn, TypeOK, ConnInv, StreamInv, FreshInv
  <2>2. ClientInv' /\ SessionNotShared'
    BY <1>8 DEF RecvSyn, TypeOK, ConnInv, StreamInv, FreshInv, ClientInv, SessionNotShared
  <2>3. ~EagerServer => SessionNotLeaked'
    BY <1>8 DEF RecvSyn, TypeOK, ConnInv, StreamInv, SessionNotLeaked
  <2> QED BY <2>1, <2>2, <2>3
<1> QED BY <1>1, <1>2, <1>3, <1>4, <1>5, <1>6, <1>7, <1>8 DEF Receive

\* The cleanup of idle sessions and Client.Close keep it.
LEMMA ClientStep ==
  ASSUME IInv, Client
  PROVE  IInv'
<1> USE SessionsAre, NoneAssumption
    DEF IInv, Opening, At, Goto, IsClosed, ClientDied, Close, StreamClose, Hooked, Resume, Busy, Ended, Holds,
        ConnStates, Lives, conns, pool, syn, loop, routines
<1>1. CASE IdleCleanup
  <2>1. PICK Excess \in SUBSET idle : expired' = Excess /\ idle' = idle \ Excess
    BY <1>1 DEF IdleCleanup
  <2>2. expired = {}
        /\ UNCHANGED <<conns, life, counter, sessions, closing, streams, streamId, syn, loop, client, snapshot>>
    BY <1>1 DEF IdleCleanup
  <2>3. TypeOK' /\ ConnInv' /\ StreamInv' /\ FreshInv'
    BY <2>1, <2>2 DEF TypeOK, ConnInv, StreamInv, FreshInv
  <2>4. ClientInv'
    BY <2>1, <2>2 DEF ClientInv
  <2>5. SessionNotShared'
    BY <2>1, <2>2 DEF TypeOK, SessionNotShared
  <2>6. ~EagerServer => SessionNotLeaked'
    BY <2>1, <2>2 DEF SessionNotLeaked
  <2> QED BY <2>3, <2>4, <2>5, <2>6
<1>2. CASE ClientCancel
  <2>1. TypeOK' /\ ConnInv' /\ StreamInv' /\ FreshInv'
    BY <1>2 DEF ClientCancel, TypeOK, ConnInv, StreamInv, FreshInv
  <2>2. ClientInv' /\ SessionNotShared'
    BY <1>2 DEF ClientCancel, TypeOK, ConnInv, StreamInv, FreshInv, ClientInv, SessionNotShared
  <2>3. ~EagerServer => SessionNotLeaked'
    BY <1>2 DEF ClientCancel, TypeOK, ConnInv, StreamInv, SessionNotLeaked
  <2> QED BY <2>1, <2>2, <2>3
<1>3. CASE ClientSnapshot
  <2>1. TypeOK'
    BY <1>3 DEF ClientSnapshot, TypeOK, ConnInv
  <2>2. ConnInv' /\ StreamInv'
    BY <1>3 DEF ClientSnapshot, TypeOK, ConnInv, StreamInv
  <2>3. FreshInv'
    <3>1. UNCHANGED <<conns, idle, counter, closing, syn, loop, expired>> /\ sessions' = {} /\ snapshot' = sessions
      BY <1>3 DEF ClientSnapshot
    <3> QED BY <3>1 DEF FreshInv
  <2>4. ClientInv'
    <3>1. \A s \in Sessions : ~IsClosed(s) /\ s <= counter
              => s \in sessions \/ \E c \in Conns : At(c, "register") /\ sess[c] = s
      BY <1>3, BoundAssumption DEF ClientSnapshot, TypeOK, ClientInv, Sessions
    <3>2. \A s \in Sessions : ~IsClosed(s) /\ s \in idle => s \in sessions
      <4> SUFFICES ASSUME NEW s \in idle, ~IsClosed(s) PROVE s \in sessions
        OBVIOUS
      <4>1. s \in Sessions /\ s <= counter
        BY DEF TypeOK, FreshInv
      <4> QED BY <3>1, <4>1 DEF SessionNotShared
    <3>3. \A s \in Sessions, c \in Conns :
              ~IsClosed(s) /\ life[c] = "put" /\ sess[c] = s => s \in sessions
      BY <3>1 DEF TypeOK, ConnInv, FreshInv, SessionNotShared
    <3> QED BY <1>3, <3>2, <3>3 DEF ClientSnapshot, ClientInv
  <2>5. SessionNotShared'
    BY <1>3 DEF ClientSnapshot, TypeOK, ConnInv, StreamInv, SessionNotShared
  <2>6. ~EagerServer => SessionNotLeaked'
    BY <1>3 DEF ClientSnapshot, TypeOK, ConnInv, StreamInv, SessionNotLeaked
  <2> QED BY <2>1, <2>2, <2>3, <2>4, <2>5, <2>6
<1>4. ASSUME NEW s \in Sessions, CloseExpired(s) PROVE IInv'
  <2>1. TypeOK' /\ ConnInv' /\ StreamInv' /\ FreshInv'
    BY <1>4 DEF CloseExpired, TypeOK, ConnInv, StreamInv, FreshInv
  <2>2. ClientInv' /\ SessionNotShared'
    BY <1>4 DEF CloseExpired, TypeOK, ConnInv, StreamInv, FreshInv, ClientInv, SessionNotShared
  <2>3. ~EagerServer => SessionNotLeaked'
    BY <1>4 DEF CloseExpired, TypeOK, ConnInv, StreamInv, SessionNotLeaked
  <2> QED BY <2>1, <2>2, <2>3
<1>5. ASSUME NEW s \in Sessions, ClientCloses(s) PROVE IInv'
  <2>1. TypeOK' /\ ConnInv' /\ StreamInv' /\ FreshInv'
    BY <1>5 DEF ClientCloses, TypeOK, ConnInv, StreamInv, FreshInv
  <2>2. ClientInv' /\ SessionNotShared'
    BY <1>5 DEF ClientCloses, TypeOK, ConnInv, StreamInv, FreshInv, ClientInv, SessionNotShared
  <2>3. ~EagerServer => SessionNotLeaked'
    BY <1>5 DEF ClientCloses, TypeOK, ConnInv, StreamInv, SessionNotLeaked
  <2> QED BY <2>1, <2>2, <2>3
<1> QED BY <1>1, <1>2, <1>3, <1>4, <1>5 DEF Client

\* A SYN that is not acknowledged keeps it.
LEMMA SynTimeoutStep ==
  ASSUME IInv, NEW s \in Sessions, SynTimeout(s)
  PROVE  IInv'
<1> USE DEF IInv, Opening, At, IsClosed, Close, Hooked, Holds, conns, pool, loop, routines
<1>1. TypeOK'
  BY DEF SynTimeout, TypeOK
<1>2. ConnInv' /\ StreamInv' /\ FreshInv'
  BY DEF SynTimeout, TypeOK, ConnInv, StreamInv, FreshInv
<1>3. ClientInv' /\ SessionNotShared'
  BY DEF SynTimeout, TypeOK, ClientInv, SessionNotShared
<1>4. ~EagerServer => SessionNotLeaked'
  BY DEF SynTimeout, TypeOK, SessionNotLeaked
<1> QED BY <1>1, <1>2, <1>3, <1>4

\* So does the end of a stream that the server opened.
LEMMA StrayStep ==
  ASSUME IInv, NEW s \in Sessions, StrayCloses(s)
  PROVE  IInv'
<1> USE DEF IInv, Opening, At, IsClosed, Close, Hooked, Holds, conns, pool, loop, routines
<1>1. TypeOK'
  BY DEF StrayCloses, TypeOK
<1>2. ConnInv' /\ StreamInv' /\ FreshInv'
  BY DEF StrayCloses, TypeOK, ConnInv, StreamInv, FreshInv
<1>3. \A t \in Sessions : IsClosed(t) => IsClosed(t)'
  BY DEF StrayCloses, TypeOK
<1>4. 1..counter \subseteq Sessions
  BY BoundAssumption DEF TypeOK, Sessions
<1>5. UNCHANGED <<pc, sess, life, counter, idle, sessions, expired, client, snapshot>>
  BY DEF StrayCloses
<1>6. ClientInv' /\ SessionNotShared' /\ (~EagerServer => SessionNotLeaked')
  <2> HIDE DEF IsClosed
  <2>1. ClientInv'
    BY <1>3, <1>4, <1>5 DEF ClientInv
  <2>2. SessionNotShared'
    BY <1>3, <1>5 DEF SessionNotShared
  <2>3. ~EagerServer => SessionNotLeaked'
    BY <1>3, <1>4, <1>5 DEF SessionNotLeaked
  <2> QED BY <2>1, <2>2, <2>3
<1> QED BY <1>1, <1>2, <1>6

\* Hence every step keeps it.
LEMMA NextIInv == IInv /\ [Next]_vars => IInv'
<1> SUFFICES ASSUME IInv, [Next]_vars PROVE IInv'
  OBVIOUS
<1>1. CASE UNCHANGED vars
  BY <1>1 DEF IInv, TypeOK, ConnInv, StreamInv, FreshInv, ClientInv, SessionNotShared,
     SessionNotLeaked, Opening, At, IsClosed, Hooked, Holds, vars, conns, pool, syn, loop, routines
<1> QED BY <1>1, ConnectionStep, StreamEndStep, SessionEndStep, ReceiveStep, ClientStep,
           SynTimeoutStep, StrayStep DEF Next

\* The inductive invariant holds throughout, fair or not.
THEOREM Inductive == Spec => []IInv
BY InitIInv, NextIInv, PTL DEF Spec

-----------------------------------------------------------------------------

\* For any connections, any number of sessions and any MinIdle the state keeps
\* its shape.
THEOREM TypeCorrect == Spec => []TypeOK
<1>1. IInv => TypeOK
  BY DEF IInv
<1> QED BY Inductive, <1>1, PTL

\* The second look at die under streamLock is enough: Session.Close never misses
\* a stream that OpenStream enters beside it.
THEOREM NoStrandedStreamHolds == Spec => []NoStrandedStream
<1>1. IInv => NoStrandedStream
  BY DEF IInv, TypeOK, ConnInv, StreamInv, NoStrandedStream
<1> QED BY Inductive, <1>1, PTL

\* The pool never hands one live session to two connections.
THEOREM SessionNotSharedHolds == Spec => []SessionNotShared
<1>1. IInv => SessionNotShared
  BY DEF IInv
<1> QED BY Inductive, <1>1, PTL

\* No live session is forgotten, as long as the server does not answer a stream
\* before its dieHook is set.
THEOREM SessionNotLeakedHolds == ASSUME ~EagerServer PROVE Spec => []SessionNotLeaked
<1>1. IInv => SessionNotLeaked
  BY ~EagerServer DEF IInv
<1> QED BY Inductive, <1>1, PTL

\* Client.Close leaves no live session in the pool, whatever ends or registers
\* beside it.
THEOREM PoolDiesWithClientHolds == Spec => []PoolDiesWithClient
<1>1. IInv => PoolDiesWithClient
  BY DEF IInv, TypeOK, ClientInv, PoolDiesWithClient
<1> QED BY Inductive, <1>1, PTL

-----------------------------------------------------------------------------
(* AnyTls implements SessionPool *)

\* A step leaves session t where SessionPool sees it.
Stays(t) ==
    /\ IsClosed(t)' <=> IsClosed(t)
    /\ ~IsClosed(t) => /\ t \in idle' <=> t \in idle
                       /\ t \in expired' <=> t \in expired
                       /\ \A c \in Conns : Holds(c, t)' <=> Holds(c, t)

\* Who holds a session has one, and that session was dialled.
LEMMA HolderHasSession ==
  ASSUME IInv, NEW c \in Conns, Holds(c, sess[c])
  PROVE  sess[c] \in Sessions /\ sess[c] \in 1..counter
<1>1. sess[c] \in Sessions
  BY DEF IInv, TypeOK, ConnInv, Opening, Holds, Lives
<1>2. sess[c] <= counter
  BY DEF IInv, FreshInv
<1> QED BY <1>1, <1>2, BoundAssumption DEF IInv, TypeOK, Sessions

\* A step that leaves every session where it is, is a stutter of the pool.
LEMMA QuietStep ==
  ASSUME IInv, IInv', UNCHANGED <<counter, sess>>, \A t \in Sessions : Stays(t)
  PROVE  UNCHANGED Pool!vars
<1>1. \A c \in Conns : Leased(c)' = Leased(c)
  <2> SUFFICES ASSUME NEW c \in Conns PROVE Leased(c)' = Leased(c)
    OBVIOUS
  <2>1. Holds(c, sess[c]) => sess[c] \in Sessions
    BY HolderHasSession
  <2>2. Holds(c, sess[c])' => sess[c] \in Sessions
    BY DEF IInv, TypeOK, ConnInv, Opening, Holds, Lives
  <2> QED BY <2>1, <2>2 DEF Stays, Leased
<1>2. Live(idle)' = Live(idle) /\ Live(expired)' = Live(expired)
  BY DEF IInv, TypeOK, Live, Stays
<1>3. {s \in Sessions : IsClosed(s)}' = {s \in Sessions : IsClosed(s)}
  BY DEF Stays
<1> QED BY <1>1, <1>2, <1>3 DEF Pool!vars

\* A step that closes a live session and leaves the others where they are.
LEMMA ShutStep ==
  ASSUME IInv, IInv', UNCHANGED <<counter, sess>>,
         NEW s \in 1..counter, ~IsClosed(s), IsClosed(s)',
         \A t \in Sessions \ {s} : Stays(t)
  PROVE  Pool!Shut(s)
<1>1. s \in Sessions
  BY BoundAssumption DEF IInv, TypeOK, Sessions
<1>2. \A c \in Conns : Leased(c)' = IF Leased(c) = s THEN 0 ELSE Leased(c)
  <2> SUFFICES ASSUME NEW c \in Conns
               PROVE  Leased(c)' = IF Leased(c) = s THEN 0 ELSE Leased(c)
    OBVIOUS
  <2>1. Holds(c, sess[c]) => sess[c] \in Sessions
    BY HolderHasSession
  <2>2. Holds(c, sess[c])' => sess[c] \in Sessions
    BY DEF IInv, TypeOK, ConnInv, Opening, Holds, Lives
  <2>3. CASE sess[c] = s
    BY <2>3 DEF Leased
  <2>4. CASE sess[c] # s
    BY <2>1, <2>2, <2>4, <1>1, SessionsAre DEF Stays, Leased
  <2> QED BY <2>3, <2>4
<1>3. Live(idle)' = Live(idle) \ {s} /\ Live(expired)' = Live(expired) \ {s}
  <2>1. idle \cup expired \cup idle' \cup expired' \subseteq Sessions
    BY DEF IInv, TypeOK
  <2>2. Live(idle)' = Live(idle) \ {s}
    BY <1>1, <2>1 DEF Live, Stays
  <2>3. Live(expired)' = Live(expired) \ {s}
    BY <1>1, <2>1 DEF Live, Stays
  <2> QED BY <2>2, <2>3
<1>4. {t \in Sessions : IsClosed(t)}' = {t \in Sessions : IsClosed(t)} \cup {s}
  BY <1>1 DEF Stays
<1>5. [c \in Conns |-> Leased(c)]' =
      [c \in Conns |-> IF [d \in Conns |-> Leased(d)][c] = s THEN 0
                       ELSE [d \in Conns |-> Leased(d)][c]]
  BY <1>2
<1> QED BY <1>1, <1>3, <1>4, <1>5 DEF Pool!Shut

\* Session.Close, by whoever comes first.
LEMMA CloseStep ==
  ASSUME IInv, IInv', UNCHANGED <<counter, sess>>, NEW s \in 1..counter, Close(s),
         \A t \in Sessions \ {s} : ~IsClosed(t) =>
             /\ t \in idle' <=> t \in idle
             /\ t \in expired' <=> t \in expired
             /\ \A c \in Conns : Holds(c, t)' <=> Holds(c, t)
  PROVE  [Pool!Next]_(Pool!vars)
<1>1. s \in Sessions /\ closing \in [Sessions -> {"none", "hook", "map", "sweep", "closed"}]
  BY BoundAssumption DEF IInv, TypeOK, Sessions
<1>2. \A t \in Sessions \ {s} : Stays(t)
  BY <1>1 DEF Close, IsClosed, Stays
<1>3. CASE IsClosed(s)
  <2>1. Stays(s)
    BY <1>3 DEF Close, IsClosed, Stays
  <2> QED BY <1>2, <2>1, QuietStep
<1>4. CASE ~IsClosed(s)
  <2>1. IsClosed(s)'
    BY <1>1, <1>4 DEF Close, IsClosed
  <2>2. Pool!Shut(s)
    BY <1>2, <1>4, <2>1, ShutStep
  <2> QED BY <2>2 DEF Pool!Next
<1> QED BY <1>3, <1>4

\* A connection is served once: a new session, the newest of the pool, or a
\* closed one; what follows only keeps or closes it.
LEMMA PoolConnection ==
  ASSUME IInv, IInv', NEW c \in Conns, Connection(c)
  PROVE  [Pool!Next]_(Pool!vars)
<1> USE NoneAssumption DEF At, Goto, StreamClose, Hooked, Resume, Busy, Ended, Opening, conns, pool, syn, loop, routines
<1>1. CASE CreateStream(c)
  <2>1. UNCHANGED <<counter, sess>> /\ \A t \in Sessions : Stays(t)
    BY <1>1 DEF CreateStream, IInv, TypeOK, ConnInv, Stays, IsClosed, Holds
  <2> QED BY <2>1, QuietStep
<1>2. CASE GetIdleSession(c)
  <2>1. CASE idle = {}
    <3>1. UNCHANGED <<counter, sess>> /\ \A t \in Sessions : Stays(t)
      BY <1>2, <2>1 DEF GetIdleSession, IInv, TypeOK, ConnInv, Stays, IsClosed, Holds
    <3> QED BY <3>1, QuietStep
  <2>2. CASE idle # {}
    <3>1. PICK s \in idle : s = Newest(idle) /\ \A r \in idle : r <= s
      BY <2>2, NewestIsIn DEF IInv, TypeOK
    <3>2. s \in Sessions /\ ~Holds(c, sess[c]) /\ At(c, "get")
          /\ pc' = [pc EXCEPT ![c] = "open"] /\ sess' = [sess EXCEPT ![c] = s] /\ idle' = idle \ {s}
          /\ UNCHANGED <<counter, life, closing, expired>>
      BY <1>2, <2>2, <3>1 DEF GetIdleSession, IInv, TypeOK, ConnInv, Holds
    <3>3. c \notin {d \in Conns : sess[d] # 0}
          /\ {d \in Conns : sess[d] # 0}' = {d \in Conns : sess[d] # 0} \cup {c}
      BY <3>2, SessionsAre DEF IInv, TypeOK, ConnInv
    <3>4. \A d \in Conns \ {c} : Leased(d)' = Leased(d)
      BY <3>2 DEF IInv, TypeOK, Leased, Holds, IsClosed
    <3>5. Leased(c) = 0 /\ Leased(c)' = IF IsClosed(s) THEN 0 ELSE s
      BY <3>2 DEF IInv, TypeOK, Leased, Holds, IsClosed
    <3>6. Live(idle)' = Live(idle) \ {s} /\ Live(expired)' = Live(expired)
          /\ {t \in Sessions : IsClosed(t)}' = {t \in Sessions : IsClosed(t)}
      BY <3>2 DEF Live, IsClosed
    <3>7. CASE IsClosed(s)
      <4>1. Live(idle)' = Live(idle)
        BY <3>6, <3>7 DEF Live
      <4>2. \A d \in Conns : Leased(d)' = Leased(d)
        BY <3>4, <3>5, <3>7
      <4>3. Pool!Disappoint(c)
        BY <3>2, <3>3, <3>6, <4>1, <4>2 DEF Pool!Disappoint
      <4> QED BY <4>3 DEF Pool!Next
    <3>8. CASE ~IsClosed(s)
      <4>1. s \in Live(idle) /\ \A r \in Live(idle) : r <= s
        BY <3>1, <3>8 DEF Live
      <4>2. [d \in Conns |-> Leased(d)]' = [[d \in Conns |-> Leased(d)] EXCEPT ![c] = s]
        BY <3>4, <3>5, <3>8
      <4>3. Pool!Lend(c, s)
        BY <3>2, <3>3, <3>6, <4>1, <4>2 DEF Pool!Lend
      <4> QED BY <4>1, <4>3 DEF Pool!Next
    <3> QED BY <3>7, <3>8
  <2> QED BY <2>1, <2>2
<1>3. CASE CreateSession(c)
  <2> DEFINE s == counter + 1
  <2>1. s \in Sessions /\ ~IsClosed(s)
    BY <1>3, BoundAssumption DEF CreateSession, IInv, TypeOK, FreshInv, Sessions
  <2>2. At(c, "dial") /\ pc' = [pc EXCEPT ![c] = "register"] /\ sess' = [sess EXCEPT ![c] = s]
        /\ counter' = s /\ UNCHANGED <<life, closing, idle, expired>>
    BY <1>3 DEF CreateSession
  <2> HIDE DEF s
  <2>3. c \notin {d \in Conns : sess[d] # 0}
        /\ {d \in Conns : sess[d] # 0}' = {d \in Conns : sess[d] # 0} \cup {c}
    BY <2>1, <2>2, SessionsAre DEF IInv, TypeOK, ConnInv
  <2>4. \A d \in Conns \ {c} : Leased(d)' = Leased(d)
    BY <2>2 DEF IInv, TypeOK, Leased, Holds, IsClosed
  <2>5. Leased(c)' = s
    BY <2>1, <2>2 DEF IInv, TypeOK, Leased, Holds, IsClosed
  <2>6. [d \in Conns |-> Leased(d)]' = [[d \in Conns |-> Leased(d)] EXCEPT ![c] = s]
    BY <2>4, <2>5
  <2>7. Live(idle)' = Live(idle) /\ Live(expired)' = Live(expired)
        /\ {t \in Sessions : IsClosed(t)}' = {t \in Sessions : IsClosed(t)}
    BY <2>2 DEF Live, IsClosed
  <2>8. Pool!Dial(c)
    BY <2>2, <2>3, <2>6, <2>7 DEF Pool!Dial, s
  <2> QED BY <2>8 DEF Pool!Next
<1>4. CASE DialFails(c)
  <2>1. UNCHANGED <<counter, sess>> /\ \A t \in Sessions : Stays(t)
    BY <1>4 DEF DialFails, IInv, TypeOK, ConnInv, Stays, IsClosed, Holds
  <2> QED BY <2>1, QuietStep
<1>5. CASE Run(c)
  <2>1. UNCHANGED <<counter, sess>> /\ \A t \in Sessions : Stays(t)
    BY <1>5 DEF Run, IInv, TypeOK, ConnInv, Stays, IsClosed, Holds
  <2> QED BY <2>1, QuietStep
<1>6. CASE OpenStream(c)
  <2>1. UNCHANGED <<counter, sess>> /\ \A t \in Sessions : Stays(t)
    BY <1>6 DEF OpenStream, IInv, TypeOK, ConnInv, Stays, IsClosed, Holds
  <2> QED BY <2>1, QuietStep
<1>7. CASE WriteSyn(c)
  <2>1. sess[c] \in 1..counter /\ UNCHANGED <<counter, sess, idle, expired>>
    BY <1>7, HolderHasSession DEF WriteSyn, Holds
  <2>2. \A t \in Sessions \ {sess[c]} : \A d \in Conns : Holds(d, t)' <=> Holds(d, t)
    BY <1>7 DEF WriteSyn, IInv, TypeOK, Holds
  <2>3. CASE Close(sess[c])
    BY <2>1, <2>2, <2>3, CloseStep
  <2>4. CASE pc' = [pc EXCEPT ![c] = "add"] /\ UNCHANGED closing
    <3>1. \A t \in Sessions : Stays(t)
      BY <1>7, <2>4 DEF WriteSyn, IInv, TypeOK, Stays, IsClosed, Holds
    <3> QED BY <2>1, <3>1, QuietStep
  <2> QED BY <1>7, <2>3, <2>4 DEF WriteSyn
<1>8. CASE AddStream(c)
  <2>1. UNCHANGED <<counter, sess>> /\ \A t \in Sessions : Stays(t)
    BY <1>8 DEF AddStream, IInv, TypeOK, ConnInv, Stays, IsClosed, Holds
  <2> QED BY <2>1, QuietStep
<1>9. CASE SetDieHook(c)
  <2>1. UNCHANGED <<counter, sess>> /\ \A t \in Sessions : Stays(t)
    BY <1>9 DEF SetDieHook, IInv, TypeOK, ConnInv, Stays, IsClosed, Holds
  <2> QED BY <2>1, QuietStep
<1>10. CASE WriteAddress(c)
  <2>1. UNCHANGED <<counter, sess>> /\ \A t \in Sessions : Stays(t)
    BY <1>10 DEF WriteAddress, IInv, TypeOK, ConnInv, Stays, IsClosed, Holds
  <2> QED BY <2>1, QuietStep
<1>11. CASE RelayEnds(c)
  <2>1. UNCHANGED <<counter, sess>> /\ \A t \in Sessions : Stays(t)
    BY <1>11 DEF RelayEnds, IInv, TypeOK, ConnInv, Stays, IsClosed, Holds
  <2> QED BY <2>1, QuietStep
<1> QED BY <1>1, <1>2, <1>3, <1>4, <1>5, <1>6, <1>7, <1>8, <1>9, <1>10, <1>11 DEF Connection

\* A stream that ends returns its session, or finds it closed, or closes it.
LEMMA PoolStreamEnd ==
  ASSUME ~EagerServer, IInv, IInv', NEW c \in Conns, StreamEnd(c)
  PROVE  [Pool!Next]_(Pool!vars)
<1> USE NoneAssumption DEF At, Goto, StreamClose, Hooked, Resume, Busy, Ended, Opening, conns, pool, syn, loop, routines
<1>1. sess[c] \in Sessions /\ sess[c] \in 1..counter /\ Holds(c, sess[c])
  <2>1. Holds(c, sess[c])
    BY DEF StreamEnd, WriteFin, DeleteStream, DieHook, PutIdle, Holds
  <2> QED BY <2>1, HolderHasSession
<1>2. CASE WriteFin(c)
  <2>1. UNCHANGED <<counter, sess, idle, expired>>
    BY <1>2 DEF WriteFin
  <2>2. \A t \in Sessions : \A d \in Conns : Holds(d, t)' <=> Holds(d, t)
    BY <1>2 DEF WriteFin, IInv, TypeOK, Holds
  <2>3. CASE Close(sess[c])
    BY <1>1, <2>1, <2>2, <2>3, CloseStep
  <2>4. CASE UNCHANGED closing
    <3>1. \A t \in Sessions : Stays(t)
      BY <2>1, <2>2, <2>4 DEF Stays, IsClosed
    <3> QED BY <2>1, <3>1, QuietStep
  <2> QED BY <1>2, <2>3, <2>4 DEF WriteFin
<1>3. CASE DeleteStream(c)
  <2>1. UNCHANGED <<counter, sess>> /\ \A t \in Sessions : Stays(t)
    BY <1>3 DEF DeleteStream, IInv, TypeOK, ConnInv, Stays, IsClosed, Holds
  <2> QED BY <2>1, QuietStep
<1>4. CASE DieHook(c)
  <2>1. UNCHANGED <<counter, sess, idle, expired>> /\ Hooked(c)
    BY <1>4 DEF DieHook, IInv, TypeOK, ConnInv, ConnStates
  <2>2. \A t \in Sessions \ {sess[c]} : \A d \in Conns : Holds(d, t)' <=> Holds(d, t)
    BY <1>4 DEF DieHook, IInv, TypeOK, Holds
  <2>3. CASE Close(sess[c])
    BY <1>1, <2>1, <2>2, <2>3, CloseStep
  <2>4. CASE ~Close(sess[c])
    <3>1. UNCHANGED closing /\ ~IsClosed(sess[c]) /\ life' = [life EXCEPT ![c] = "put"]
      BY <1>4, <2>1, <2>4 DEF DieHook, Close
    <3>2. \A t \in Sessions : Stays(t)
      BY <1>4, <2>1, <3>1 DEF DieHook, IInv, TypeOK, Stays, IsClosed, Holds
    <3> QED BY <2>1, <3>2, QuietStep
  <2> QED BY <2>3, <2>4
<1>5. CASE PutIdle(c)
  <2>1. UNCHANGED <<counter, sess, closing, expired>> /\ idle' = idle \cup {sess[c]}
        /\ life' = [life EXCEPT ![c] = "dead"] /\ UNCHANGED pc /\ life[c] = "put"
    BY <1>5 DEF PutIdle
  <2>2. CASE IsClosed(sess[c])
    <3>1. \A t \in Sessions : Stays(t)
      BY <2>1, <2>2 DEF IInv, TypeOK, Stays, IsClosed, Holds
    <3> QED BY <2>1, <3>1, QuietStep
  <2>3. CASE ~IsClosed(sess[c])
    <3>1. Leased(c) = sess[c] /\ Leased(c)' = 0
      BY <1>1, <2>1, <2>3 DEF IInv, TypeOK, ConnInv, Leased, Holds, Lives
    <3>2. \A d \in Conns \ {c} : Leased(d)' = Leased(d)
      BY <2>1 DEF IInv, TypeOK, Leased, Holds, IsClosed
    <3>3. [d \in Conns |-> Leased(d)]' = [[d \in Conns |-> Leased(d)] EXCEPT ![c] = 0]
      BY <3>1, <3>2
    <3>4. Live(idle)' = Live(idle) \cup {sess[c]} /\ Live(expired)' = Live(expired)
          /\ {t \in Sessions : IsClosed(t)}' = {t \in Sessions : IsClosed(t)}
      BY <2>1, <2>3 DEF Live, IsClosed
    <3>5. sess[c] # 0
      BY <1>1, SessionsAre
    <3>6. Pool!Return(c)
      BY <2>1, <3>1, <3>3, <3>4, <3>5 DEF Pool!Return
    <3> QED BY <3>6 DEF Pool!Next
  <2> QED BY <2>2, <2>3
<1> QED BY <1>2, <1>3, <1>4, <1>5 DEF StreamEnd

\* What is left of Session.Close is about a closed session.
LEMMA PoolSessionEnd ==
  ASSUME IInv, IInv', NEW s \in Sessions, SessionEnd(s)
  PROVE  [Pool!Next]_(Pool!vars)
<1> USE NoneAssumption DEF At, Goto, StreamClose, Hooked, Resume, Busy, Ended, Opening, conns, pool, syn, loop, routines
<1>1. CASE LeavePool(s)
  <2>1. UNCHANGED <<counter, sess>> /\ \A t \in Sessions : Stays(t)
    BY <1>1 DEF LeavePool, IInv, TypeOK, ConnInv, Stays, IsClosed, Holds
  <2> QED BY <2>1, QuietStep
<1>2. CASE LeaveMap(s)
  <2>1. UNCHANGED <<counter, sess>> /\ \A t \in Sessions : Stays(t)
    BY <1>2 DEF LeaveMap, IInv, TypeOK, ConnInv, Stays, IsClosed, Holds
  <2> QED BY <2>1, QuietStep
<1>3. CASE Sweep(s)
  <2>1. UNCHANGED <<counter, sess>> /\ \A t \in Sessions : Stays(t)
    BY <1>3 DEF Sweep, IInv, TypeOK, StreamInv, Stays, IsClosed, Holds
  <2> QED BY <2>1, QuietStep
<1> QED BY <1>1, <1>2, <1>3 DEF SessionEnd

\* recvLoop moves no session, unless it ends with its own.
LEMMA PoolReceive ==
  ASSUME IInv, IInv', NEW s \in Sessions, Receive(s)
  PROVE  [Pool!Next]_(Pool!vars)
<1> USE NoneAssumption DEF At, Goto, StreamClose, Hooked, Resume, Busy, Ended, Opening, conns, pool, syn, loop, routines
<1>1. ASSUME NEW c \in Conns, RecvFin(s, c) PROVE [Pool!Next]_(Pool!vars)
  <2>1. UNCHANGED <<counter, sess>> /\ \A t \in Sessions : Stays(t)
    BY <1>1 DEF RecvFin, IInv, TypeOK, ConnInv, Stays, IsClosed, Holds
  <2> QED BY <2>1, QuietStep
<1>2. ASSUME NEW c \in Conns, RecvPush(s, c) PROVE [Pool!Next]_(Pool!vars)
  <2>1. UNCHANGED <<counter, sess>> /\ \A t \in Sessions : Stays(t)
    BY <1>2 DEF RecvPush, IInv, TypeOK, ConnInv, Stays, IsClosed, Holds
  <2> QED BY <2>1, QuietStep
<1>3. ASSUME NEW c \in Conns, NEW error \in BOOLEAN, RecvSynAck(s, c, error) PROVE [Pool!Next]_(Pool!vars)
  <2>1. UNCHANGED <<counter, sess>> /\ \A t \in Sessions : Stays(t)
    BY <1>3 DEF RecvSynAck, IInv, TypeOK, ConnInv, Stays, IsClosed, Holds
  <2> QED BY <2>1, QuietStep
<1>4. CASE PushDone(s)
  <2>1. UNCHANGED <<counter, sess>> /\ \A t \in Sessions : Stays(t)
    BY <1>4 DEF PushDone, IInv, TypeOK, ConnInv, Stays, IsClosed, Holds
  <2> QED BY <2>1, QuietStep
<1>5. CASE RecvServerSettings(s)
  <2>1. UNCHANGED <<counter, sess>> /\ \A t \in Sessions : Stays(t)
    BY <1>5 DEF RecvServerSettings, IInv, TypeOK, ConnInv, Stays, IsClosed, Holds
  <2> QED BY <2>1, QuietStep
<1>6. CASE RecvEnds(s)
  <2>1. s \in 1..counter
    BY <1>6, BoundAssumption DEF RecvEnds, IInv, TypeOK, FreshInv, Sessions
  <2>2. UNCHANGED <<counter, sess>> /\ Close(s)
    BY <1>6 DEF RecvEnds
  <2>3. \A t \in Sessions \ {s} : ~IsClosed(t) =>
            /\ t \in idle' <=> t \in idle
            /\ t \in expired' <=> t \in expired
            /\ \A c \in Conns : Holds(c, t)' <=> Holds(c, t)
    BY <1>6 DEF RecvEnds, Holds
  <2> QED BY <2>1, <2>2, <2>3, CloseStep
<1>7. CASE CloseLocally(s)
  <2>1. UNCHANGED <<counter, sess>> /\ \A t \in Sessions : Stays(t)
    BY <1>7 DEF CloseLocally, IInv, TypeOK, ConnInv, StreamInv, Stays, IsClosed, Holds
  <2> QED BY <2>1, QuietStep
<1>8. CASE RecvSyn(s)
  <2>1. UNCHANGED <<counter, sess>> /\ \A t \in Sessions : Stays(t)
    BY <1>8 DEF RecvSyn, IInv, TypeOK, ConnInv, StreamInv, Stays, IsClosed, Holds
  <2> QED BY <2>1, QuietStep
<1> QED BY <1>1, <1>2, <1>3, <1>4, <1>5, <1>6, <1>7, <1>8 DEF Receive

\* The cleanup retires free sessions and closes them; Client.Close closes all.
LEMMA PoolClient ==
  ASSUME IInv, IInv', Client
  PROVE  [Pool!Next]_(Pool!vars)
<1> USE NoneAssumption DEF At, Goto, StreamClose, Hooked, Resume, Busy, Ended, Opening, conns, pool, syn, loop, routines
<1>1. CASE IdleCleanup
  <2>1. PICK Excess \in SUBSET idle : expired' = Excess /\ idle' = idle \ Excess
    BY <1>1 DEF IdleCleanup
  <2>2. expired = {} /\ UNCHANGED <<counter, pc, sess, life, closing>>
    BY <1>1 DEF IdleCleanup
  <2>3. Live(expired) = {} /\ Live(expired)' = Live(Excess) /\ Live(idle)' = Live(idle) \ Live(Excess)
    BY <2>1, <2>2 DEF Live, IsClosed
  <2>4. Live(Excess) \subseteq Live(idle)
    BY DEF Live
  <2>5. \A c \in Conns : Leased(c)' = Leased(c)
    BY <2>2 DEF Leased, Holds, IsClosed
  <2>6. {t \in Sessions : IsClosed(t)}' = {t \in Sessions : IsClosed(t)}
    BY <2>2 DEF IsClosed
  <2>7. Pool!Retire(Live(Excess))
    BY <2>2, <2>3, <2>4, <2>5, <2>6 DEF Pool!Retire
  <2> QED BY <2>4, <2>7 DEF Pool!Next
<1>2. CASE ClientCancel
  <2>1. UNCHANGED <<counter, sess>> /\ \A t \in Sessions : Stays(t)
    BY <1>2 DEF ClientCancel, IInv, TypeOK, ConnInv, Stays, IsClosed, Holds
  <2> QED BY <2>1, QuietStep
<1>3. CASE ClientSnapshot
  <2>1. UNCHANGED <<counter, sess>> /\ \A t \in Sessions : Stays(t)
    BY <1>3 DEF ClientSnapshot, IInv, TypeOK, ConnInv, Stays, IsClosed, Holds
  <2> QED BY <2>1, QuietStep
<1>4. ASSUME NEW s \in Sessions, CloseExpired(s) PROVE [Pool!Next]_(Pool!vars)
  <2>1. s \in 1..counter
    BY <1>4, BoundAssumption DEF CloseExpired, IInv, TypeOK, FreshInv, Sessions
  <2>2. UNCHANGED <<counter, sess>> /\ Close(s)
    BY <1>4 DEF CloseExpired
  <2>3. \A t \in Sessions \ {s} : ~IsClosed(t) =>
            /\ t \in idle' <=> t \in idle
            /\ t \in expired' <=> t \in expired
            /\ \A c \in Conns : Holds(c, t)' <=> Holds(c, t)
    BY <1>4 DEF CloseExpired, Holds
  <2> QED BY <2>1, <2>2, <2>3, CloseStep
<1>5. ASSUME NEW s \in Sessions, ClientCloses(s) PROVE [Pool!Next]_(Pool!vars)
  <2>1. s \in 1..counter
    BY <1>5, BoundAssumption DEF ClientCloses, IInv, TypeOK, FreshInv, Sessions
  <2>2. UNCHANGED <<counter, sess>> /\ Close(s)
    BY <1>5 DEF ClientCloses
  <2>3. \A t \in Sessions \ {s} : ~IsClosed(t) =>
            /\ t \in idle' <=> t \in idle
            /\ t \in expired' <=> t \in expired
            /\ \A c \in Conns : Holds(c, t)' <=> Holds(c, t)
    BY <1>5 DEF ClientCloses, Holds
  <2> QED BY <2>1, <2>2, <2>3, CloseStep
<1> QED BY <1>1, <1>2, <1>3, <1>4, <1>5 DEF Client

\* A SYN that is not acknowledged closes its session.
LEMMA PoolSynTimeout ==
  ASSUME IInv, IInv', NEW s \in Sessions, SynTimeout(s)
  PROVE  [Pool!Next]_(Pool!vars)
<1> USE NoneAssumption DEF At, Goto, StreamClose, Hooked, Resume, Busy, Ended, Opening, conns, pool, syn, loop, routines
<1>1. [Pool!Next]_(Pool!vars)
  <2>1. s \in 1..counter
    BY BoundAssumption DEF SynTimeout, IInv, TypeOK, FreshInv, Sessions
  <2>2. UNCHANGED <<counter, sess>> /\ Close(s)
    BY DEF SynTimeout
  <2>3. \A t \in Sessions \ {s} : ~IsClosed(t) =>
            /\ t \in idle' <=> t \in idle
            /\ t \in expired' <=> t \in expired
            /\ \A c \in Conns : Holds(c, t)' <=> Holds(c, t)
    BY DEF SynTimeout, Holds
  <2> QED BY <2>1, <2>2, <2>3, CloseStep
<1> QED BY <1>1

\* A stream that the server opened may close it as well.
LEMMA PoolStray ==
  ASSUME IInv, IInv', NEW s \in Sessions, StrayCloses(s)
  PROVE  [Pool!Next]_(Pool!vars)
<1> USE DEF conns, pool, loop, routines
<1>1. s \in 1..counter
  BY BoundAssumption DEF StrayCloses, IInv, TypeOK, FreshInv, Sessions
<1>2. UNCHANGED <<counter, pc, sess, life, idle, expired>>
  BY DEF StrayCloses
<1>3. CASE UNCHANGED closing
  <2>1. \A t \in Sessions : Stays(t)
    BY <1>2, <1>3 DEF Stays, IsClosed, Holds
  <2> QED BY <1>2, <2>1, QuietStep
<1>4. CASE Close(s)
  <2>1. \A t \in Sessions \ {s} : \A c \in Conns : Holds(c, t)' <=> Holds(c, t)
    BY <1>2 DEF Holds
  <2> QED BY <1>1, <1>2, <1>4, <2>1, CloseStep
<1> QED BY <1>3, <1>4 DEF StrayCloses

\* When the server answers no stream before it has its address, the client of
\* client.go and session.go implements SessionPool: a session goes from hand to
\* hand as the reuse section of protocol.md wants it, for any connections and any
\* number of sessions.
THEOREM PoolProtocolHolds == ASSUME ~EagerServer PROVE Spec => PoolProtocol
<1>1. Init => Pool!Init
  BY BoundAssumption, SessionsAre
     DEF Init, Pool!Init, Leased, Holds, Live, IsClosed
<1>2. IInv /\ IInv' /\ [Next]_vars => [Pool!Next]_(Pool!vars)
  <2> SUFFICES ASSUME IInv, IInv', [Next]_vars PROVE [Pool!Next]_(Pool!vars)
    OBVIOUS
  <2>1. CASE UNCHANGED vars
    BY <2>1 DEF Pool!vars, Leased, Holds, Live, IsClosed, vars, conns, pool, routines
  <2> QED BY <2>1, ~EagerServer, PoolConnection, PoolStreamEnd, PoolSessionEnd, PoolReceive, PoolClient,
             PoolSynTimeout, PoolStray DEF Next
<1> QED BY <1>1, <1>2, Inductive, PTL DEF Spec, PoolProtocol, Pool!Spec

-----------------------------------------------------------------------------
(* What recvLoop waits for *)

\* The stream recvLoop is busy with is its session's; one that it closes is on
\* its way out.
TaskInv ==
    \A s \in Sessions :
        /\ recv[s] \in {"push", "end"} =>
              task[s] \in Conns /\ sess[task[s]] = s /\ life[task[s]] # "none"
        /\ recv[s] = "end" => life[task[s]] \in {"fin", "delete", "hook", "put"}

\* TaskInv is not part of IInv, but a step from IInv keeps it.
LEMMA TaskStep == IInv /\ TaskInv /\ [Next]_vars => TaskInv'
<1> SUFFICES ASSUME IInv, TaskInv, [Next]_vars PROVE TaskInv'
  OBVIOUS
<1> USE DEF TaskInv, IInv, TypeOK, At, Goto, StreamClose, Resume, Busy, Ended,
            conns, pool, syn, loop, routines
<1>1. ASSUME NEW c \in Conns, Connection(c) PROVE TaskInv'
  <2>1. UNCHANGED task /\ \A s \in Sessions : recv'[s] \in {"push", "end"} => recv'[s] = recv[s]
    BY <1>1 DEF Connection, CreateStream, GetIdleSession, CreateSession, DialFails, Run,
       OpenStream, WriteSyn, AddStream, SetDieHook, WriteAddress, RelayEnds
  <2>2. \A d \in Conns : life[d] # "none" => sess'[d] = sess[d]
    BY <1>1 DEF Connection, CreateStream, GetIdleSession, CreateSession, DialFails, Run, ConnInv,
       OpenStream, WriteSyn, AddStream, SetDieHook, WriteAddress, RelayEnds
  <2>3. \A d \in Conns : life[d] # "none" =>
            life'[d] = life[d] \/ (life[d] = "open" /\ life'[d] = "fin")
    BY <1>1 DEF Connection, CreateStream, GetIdleSession, CreateSession, DialFails, Run, ConnInv,
       OpenStream, WriteSyn, AddStream, SetDieHook, WriteAddress, RelayEnds, Opening
  <2> QED BY <2>1, <2>2, <2>3
<1>2. ASSUME NEW c \in Conns, StreamEnd(c) PROVE TaskInv'
  <2>1. UNCHANGED sess /\ \A d \in Conns \ {c} : life'[d] = life[d]
    BY <1>2 DEF StreamEnd, WriteFin, DeleteStream, DieHook, PutIdle
  <2>2. CASE life'[c] \in {"delete", "hook", "put"} /\ UNCHANGED loop
    BY <2>1, <2>2
  <2>3. CASE Ended(c)
    <3>1. sess[c] \in Sessions
      BY <1>2 DEF StreamEnd, WriteFin, DeleteStream, DieHook, PutIdle, ConnInv
    <3> QED BY <2>1, <2>3, <3>1
  <2> QED BY <1>2, <2>2, <2>3 DEF StreamEnd, WriteFin, DeleteStream, DieHook, PutIdle
<1>3. ASSUME NEW s \in Sessions, Receive(s) PROVE TaskInv'
  <2>1. UNCHANGED sess /\ \A t \in Sessions \ {s} : recv'[t] = recv[t] /\ task'[t] = task[t]
    BY <1>3 DEF Receive, RecvFin, RecvPush, RecvSynAck, PushDone,
       CloseLocally, RecvSyn, RecvServerSettings, RecvEnds
  <2>2. \A d \in Conns : life'[d] = life[d] \/ (life[d] = "open" /\ life'[d] \in {"fin", "hook"})
    BY <1>3 DEF Receive, RecvFin, RecvPush, RecvSynAck, PushDone,
       CloseLocally, RecvSyn, RecvServerSettings, RecvEnds
  <2>3. recv'[s] \in {"push", "end"} =>
            task'[s] \in Conns /\ sess[task'[s]] = s /\ life'[task'[s]] # "none"
            /\ (recv'[s] = "end" => life'[task'[s]] \in {"fin", "hook"})
    BY <1>3 DEF Receive, RecvFin, RecvPush, RecvSynAck, PushDone,
       CloseLocally, RecvSyn, RecvServerSettings, RecvEnds, StreamInv
  <2> QED BY <2>1, <2>2, <2>3
<1>4. ASSUME NEW s \in Sessions, SynTimeout(s) \/ StrayCloses(s) \/ SessionEnd(s) PROVE TaskInv'
  <2>1. UNCHANGED <<sess, recv, task>>
    BY <1>4 DEF SynTimeout, StrayCloses, SessionEnd, LeavePool, LeaveMap, Sweep
  <2>2. \A d \in Conns : life'[d] = life[d] \/ (life[d] = "open" /\ life'[d] = "dead")
    BY <1>4 DEF SynTimeout, StrayCloses, SessionEnd, LeavePool, LeaveMap, Sweep
  <2> QED BY <2>1, <2>2
<1>5. CASE Client \/ UNCHANGED vars
  <2>1. UNCHANGED <<sess, recv, task, life>>
    BY <1>5 DEF Client, IdleCleanup, ClientCancel, ClientSnapshot, CloseExpired, ClientCloses, vars
  <2> QED BY <2>1
<1> QED BY <1>1, <1>2, <1>3, <1>4, <1>5 DEF Next

\* recvLoop never waits for a stream that nobody will end, feed or sweep: what
\* RecvLoopEnds rests on.
THEOREM RecvLoopServedHolds == Spec => []RecvLoopServed
<1>1. Init => TaskInv
  BY DEF Init, TaskInv
<1>2. IInv /\ TaskInv => RecvLoopServed
  BY DEF IInv, TypeOK, StreamInv, TaskInv, RecvLoopServed
<1> QED BY <1>1, <1>2, TaskStep, Inductive, PTL DEF Spec
==============================================================================
