------------------------------- MODULE AnyTls -------------------------------
(* The AnyTLS client of src/anytls: the session pool of client.go, the        *)
(* sessions of session.go and the streams of stream.go. Every accepted        *)
(* connection is a goroutine that opens one stream; every session has a       *)
(* receive goroutine; the idle cleanup, the SYNACK watchers and Client.Close  *)
(* run beside them. Each step ends where a lock is dropped or a channel or    *)
(* the network is waited for. A Once (Session.dieOnce, Stream.dieOnce) gives  *)
(* a closing session or stream exactly one executor, so what is left of the   *)
(* closing is a field of the session (closing) or of the stream (life).       *)
EXTENDS Naturals, FiniteSets

CONSTANTS
    Conns,         \* accepted connections: one goroutine, one stream each
    MaxSessions,   \* bound: how many sessions are ever dialled
    MinIdle,       \* minIdleSession
    EagerServer,   \* does the server answer a SYN before it has the address?
    OpeningServer, \* does it send a SYN of its own?
    None

Sessions == 1..MaxSessions

ASSUME BoundAssumption == MaxSessions \in Nat /\ MinIdle \in Nat
ASSUME ServerAssumption == EagerServer \in BOOLEAN /\ OpeningServer \in BOOLEAN
ASSUME NoneAssumption == None \notin Conns

VARIABLES
    pc, sess, sid,    \* a connection: its place, its session, its stream id
    life,             \* its stream: open, or how far dieOnce's winner has come
    counter,          \* sessionCounter; a session is its seq
    idle,             \* idleSession
    sessions,         \* the map of every session
    closing,          \* Session.Close: "none" until die is closed
    streams,          \* a session's map of streams
    streamId,         \* a session's counter of stream ids
    peerVersion,      \* 1 until the server's settings have arrived
    synDone,          \* the stream whose SYNACK watcher is armed
    stray,            \* sessions on which a stream that the server opened ends
    recv, task,       \* recvLoop, and the stream it is busy with
    expired,          \* what idleCleanup took out of the pool and has to close
    client, snapshot  \* Client.Close, and what it still has to close

conns == <<pc, sess, sid>>
pool == <<counter, idle, sessions>>
syn == <<peerVersion, synDone, stray>>
loop == <<recv, task>>
routines == <<expired, client, snapshot>>
vars == <<conns, life, pool, closing, streams, streamId, syn, loop, routines>>

Init ==
    /\ pc = [c \in Conns |-> "accepted"]
    /\ sess = [c \in Conns |-> 0] /\ sid = [c \in Conns |-> 0]
    /\ life = [c \in Conns |-> "none"]
    /\ counter = 0 /\ idle = {} /\ sessions = {}
    /\ closing = [s \in Sessions |-> "none"]
    /\ streams = [s \in Sessions |-> {}]
    /\ streamId = [s \in Sessions |-> 0]
    /\ peerVersion = [s \in Sessions |-> 1]
    /\ synDone = [s \in Sessions |-> None] /\ stray = {}
    /\ recv = [s \in Sessions |-> "off"] /\ task = [s \in Sessions |-> None]
    /\ expired = {}
    /\ client = "open" /\ snapshot = {}

At(c, p) == pc[c] = p
Goto(c, p) == pc' = [pc EXCEPT ![c] = p]
IsClosed(s) == closing[s] # "none"
ClientDied == client # "open"

\* Session.Close up to close(die): the first caller only.
Close(s) ==
    closing' = IF IsClosed(s) THEN closing ELSE [closing EXCEPT ![s] = "hook"]

-----------------------------------------------------------------------------
(* Client.CreateStream, and myClient.CreateProxy around it *)

CreateStream(c) ==
    /\ At(c, "accepted")
    /\ Goto(c, IF ClientDied THEN "failed" ELSE "get")
    /\ UNCHANGED <<sess, sid, life, pool, closing, streams, streamId, syn, loop, routines>>

Newest(S) == CHOOSE s \in S : \A r \in S : r <= s

\* Mutant: the session is handed out and stays in the pool.
GetIdleSession_Peek(c) ==
    /\ At(c, "get")
    /\ IF idle = {}
       THEN Goto(c, "dial") /\ UNCHANGED <<sess, idle>>
       ELSE /\ Goto(c, "open")
            /\ sess' = [sess EXCEPT ![c] = Newest(idle)]
            /\ UNCHANGED idle
    /\ UNCHANGED <<sid, life, counter, sessions, closing, streams, streamId, syn, loop, routines>>

GetIdleSession(c) ==
    /\ At(c, "get")
    /\ IF idle = {}
       THEN Goto(c, "dial") /\ UNCHANGED <<sess, idle>>
       ELSE LET s == Newest(idle) IN
            /\ Goto(c, "open")
            /\ sess' = [sess EXCEPT ![c] = s]
            /\ idle' = idle \ {s}
    /\ UNCHANGED <<sid, life, counter, sessions, closing, streams, streamId, syn, loop, routines>>

CreateSession(c) ==
    /\ At(c, "dial") /\ counter < MaxSessions
    /\ counter' = counter + 1
    /\ sess' = [sess EXCEPT ![c] = counter + 1]
    /\ Goto(c, "register")
    /\ UNCHANGED <<sid, life, idle, sessions, closing, streams, streamId, syn, loop, routines>>

DialFails(c) ==
    /\ At(c, "dial")
    /\ Goto(c, "failed")
    /\ UNCHANGED <<sess, sid, life, pool, closing, streams, streamId, syn, loop, routines>>

\* The session enters the map, buffers its settings and starts recvLoop.
Run(c) ==
    /\ At(c, "register")
    /\ sessions' = sessions \cup {sess[c]}
    /\ recv' = [recv EXCEPT ![sess[c]] = "read"]
    /\ Goto(c, "open")
    /\ UNCHANGED <<sess, sid, life, counter, idle, closing, streams, streamId, syn, task, routines>>

\* OpenStream up to the SYN: from the second stream on a watcher replaces the
\* last one, provided that the server speaks version 2.
OpenStream(c) ==
    LET s == sess[c] IN
    /\ At(c, "open")
    /\ IF IsClosed(s)
       THEN Goto(c, "failed") /\ UNCHANGED <<sid, streamId, synDone>>
       ELSE /\ Goto(c, "syn")
            /\ streamId' = [streamId EXCEPT ![s] = @ + 1]
            /\ sid' = [sid EXCEPT ![c] = streamId[s] + 1]
            /\ synDone' = IF streamId[s] >= 1 /\ peerVersion[s] >= 2
                          THEN [synDone EXCEPT ![s] = c] ELSE synDone
    /\ UNCHANGED <<sess, life, pool, closing, streams, peerVersion, stray, loop, routines>>

\* The SYN; a failed write closes the session. The first one is buffered.
WriteSyn(c) ==
    /\ At(c, "syn")
    /\ \/ Goto(c, "add") /\ UNCHANGED closing
       \/ sid[c] > 1 /\ Goto(c, "failed") /\ Close(sess[c])
    /\ UNCHANGED <<sess, sid, life, pool, streams, streamId, syn, loop, routines>>

\* Mutant: the stream is entered without a second look at die.
AddStream_NoRecheck(c) ==
    /\ At(c, "add")
    /\ Goto(c, "hook")
    /\ life' = [life EXCEPT ![c] = "open"]
    /\ streams' = [streams EXCEPT ![sess[c]] = @ \cup {c}]
    /\ UNCHANGED <<sess, sid, pool, closing, streamId, syn, loop, routines>>

\* Under streamLock: look at die again, then enter the stream.
AddStream(c) ==
    /\ At(c, "add")
    /\ IF IsClosed(sess[c])
       THEN Goto(c, "failed") /\ UNCHANGED <<life, streams>>
       ELSE /\ Goto(c, "hook")
            /\ life' = [life EXCEPT ![c] = "open"]
            /\ streams' = [streams EXCEPT ![sess[c]] = @ \cup {c}]
    /\ UNCHANGED <<sess, sid, pool, closing, streamId, syn, loop, routines>>

\* CreateStream sets the stream's dieHook and returns.
SetDieHook(c) ==
    /\ At(c, "hook")
    /\ Goto(c, "address")
    /\ UNCHANGED <<sess, sid, life, pool, closing, streams, streamId, syn, loop, routines>>

Hooked(c) == pc[c] \in {"address", "relay", "done"}

\* Stream.Close: nothing, if the stream already dies.
StreamClose(c) ==
    life' = IF life[c] = "open" THEN [life EXCEPT ![c] = "fin"] ELSE life

\* The target address is written, or the stream is closed on an error.
WriteAddress(c) ==
    /\ At(c, "address")
    /\ \/ Goto(c, "relay") /\ UNCHANGED life
       \/ Goto(c, "done") /\ StreamClose(c)
    /\ UNCHANGED <<sess, sid, pool, closing, streams, streamId, syn, loop, routines>>

RelayEnds(c) ==
    /\ At(c, "relay")
    /\ Goto(c, "done")
    /\ StreamClose(c)
    /\ UNCHANGED <<sess, sid, pool, closing, streams, streamId, syn, loop, routines>>

-----------------------------------------------------------------------------
(* recvLoop *)

\* After a frame the loop looks at die.
Resume(s) ==
    /\ recv' = [recv EXCEPT ![s] = IF closing'[s] = "none" THEN "read" ELSE "done"]
    /\ task' = [task EXCEPT ![s] = None]

\* The server has the stream's SYN and, unless it is eager, its address.
Answerable(c) ==
    \/ pc[c] \in {"relay", "done"} /\ life[c] # "none"
    \/ EagerServer /\ pc[c] \in {"add", "hook", "address"} /\ sid[c] > 1

Busy(s, c, how) ==
    /\ recv' = [recv EXCEPT ![s] = how]
    /\ task' = [task EXCEPT ![s] = c]

\* A FIN: the stream leaves the map under streamLock ...
RecvFin(s, c) ==
    /\ recv[s] = "read" /\ sess[c] = s /\ Answerable(c)
    /\ streams' = [streams EXCEPT ![s] = @ \ {c}]
    /\ UNCHANGED closing
    /\ IF c \in streams[s] THEN Busy(s, c, "fin") ELSE Resume(s)
    /\ UNCHANGED <<conns, life, pool, streamId, syn, routines>>

\* ... and is closed, without an answer, after it.
CloseLocally(s) ==
    /\ recv[s] = "fin"
    /\ UNCHANGED closing
    /\ IF life[task[s]] = "open"
       THEN life' = [life EXCEPT ![task[s]] = "hook"] /\ Busy(s, task[s], "end")
       ELSE UNCHANGED life /\ Resume(s)
    /\ UNCHANGED <<conns, pool, streams, streamId, syn, routines>>

\* A SYN, "should be server only": a stream is entered under an id that is not
\* in use (one that the client has yet to give out the server cannot know) and,
\* there being no onNewStream, a goroutine of its own closes it.
RecvSyn(s) ==
    /\ recv[s] = "read" /\ OpeningServer
    /\ stray' = stray \cup {s}
    /\ UNCHANGED closing
    /\ Resume(s)
    /\ UNCHANGED <<conns, life, pool, streams, streamId, peerVersion, synDone, routines>>

StrayCloses(s) ==
    /\ s \in stray
    /\ stray' = stray \ {s}
    /\ UNCHANGED closing \/ Close(s)
    /\ UNCHANGED <<conns, life, pool, streams, streamId, peerVersion, synDone, loop, routines>>

\* A SYNACK, whichever stream it names, disarms the watcher; one that carries
\* an error closes its stream.
RecvSynAck(s, c, error) ==
    /\ recv[s] = "read" /\ sess[c] = s /\ Answerable(c)
    /\ synDone' = [synDone EXCEPT ![s] = None]
    /\ UNCHANGED closing
    /\ IF error /\ c \in streams[s] /\ life[c] = "open"
       THEN life' = [life EXCEPT ![c] = "fin"] /\ Busy(s, c, "end")
       ELSE UNCHANGED life /\ Resume(s)
    /\ UNCHANGED <<conns, pool, streams, streamId, peerVersion, stray, routines>>

\* Data for a stream: the pipe takes it when somebody reads.
RecvPush(s, c) ==
    /\ recv[s] = "read" /\ sess[c] = s /\ Answerable(c)
    /\ c \in streams[s]
    /\ Busy(s, c, "push")
    /\ UNCHANGED <<conns, life, pool, closing, streams, streamId, syn, routines>>

\* Mutant: the pipe only waits for a reader.
PushDone_ReaderOnly(s) ==
    /\ recv[s] = "push"
    /\ life[task[s]] = "open" /\ At(task[s], "relay")
    /\ UNCHANGED closing
    /\ Resume(s)
    /\ UNCHANGED <<conns, life, pool, streams, streamId, syn, routines>>

PushDone(s) ==
    /\ recv[s] = "push"
    /\ life[task[s]] # "open" \/ At(task[s], "relay")
    /\ UNCHANGED closing
    /\ Resume(s)
    /\ UNCHANGED <<conns, life, pool, streams, streamId, syn, routines>>

\* Mutant: the version is added up with every settings frame.
RecvServerSettings_AddsUp(s) ==
    /\ recv[s] = "read"
    /\ peerVersion' = [peerVersion EXCEPT ![s] = @ + 1]
    /\ UNCHANGED closing
    /\ Resume(s)
    /\ UNCHANGED <<conns, life, pool, streams, streamId, synDone, stray, routines>>

\* The version the server names, as often as it does: below two, or not.
RecvServerSettings(s) ==
    /\ recv[s] = "read"
    /\ \E v \in {1, 2} : peerVersion' = [peerVersion EXCEPT ![s] = v]
    /\ UNCHANGED closing
    /\ Resume(s)
    /\ UNCHANGED <<conns, life, pool, streams, streamId, synDone, stray, routines>>

\* A read error, an alert or a heartbeat that cannot be answered.
RecvEnds(s) ==
    /\ recv[s] = "read"
    /\ recv' = [recv EXCEPT ![s] = "done"]
    /\ Close(s)
    /\ UNCHANGED <<conns, life, pool, streams, streamId, syn, task, routines>>

\* Close has set the connection's deadline, so the read fails.
RecvDeadline(s) == IsClosed(s) /\ RecvEnds(s)

\* No SYNACK for three seconds.
SynTimeout(s) ==
    /\ synDone[s] # None
    /\ synDone' = [synDone EXCEPT ![s] = None]
    /\ Close(s)
    /\ UNCHANGED <<conns, life, pool, streams, streamId, peerVersion, stray, loop, routines>>

-----------------------------------------------------------------------------
(* The end of a stream: streamClosed, then its dieHook *)

\* The stream is gone; recvLoop goes on if it was the one that closed it.
Ended(c) ==
    /\ life' = [life EXCEPT ![c] = "dead"]
    /\ IF recv[sess[c]] = "end" /\ task[sess[c]] = c
       THEN Resume(sess[c]) ELSE UNCHANGED loop

\* streamClosed's FIN; a failed write closes the session.
WriteFin(c) ==
    /\ life[c] = "fin"
    /\ \/ IsClosed(sess[c]) /\ life' = [life EXCEPT ![c] = "hook"] /\ UNCHANGED closing
       \/ ~IsClosed(sess[c]) /\ life' = [life EXCEPT ![c] = "delete"]
          /\ (UNCHANGED closing \/ Close(sess[c]))
    /\ UNCHANGED <<conns, pool, streams, streamId, syn, loop, routines>>

DeleteStream(c) ==
    /\ life[c] = "delete"
    /\ streams' = [streams EXCEPT ![sess[c]] = @ \ {c}]
    /\ life' = [life EXCEPT ![c] = "hook"]
    /\ UNCHANGED <<conns, pool, closing, streamId, syn, loop, routines>>

\* Mutant: a closed client is not noticed.
DieHook_IgnoresClient(c) ==
    /\ life[c] = "hook"
    /\ UNCHANGED closing
    /\ IF ~Hooked(c) \/ IsClosed(sess[c])
       THEN Ended(c)
       ELSE life' = [life EXCEPT ![c] = "put"] /\ UNCHANGED loop
    /\ UNCHANGED <<conns, pool, streams, streamId, syn, routines>>

\* The hook set by CreateStream looks at the session and at the client.
DieHook(c) ==
    /\ life[c] = "hook"
    /\ IF ~Hooked(c) \/ IsClosed(sess[c])
       THEN UNCHANGED closing /\ Ended(c)
       ELSE IF ClientDied
            THEN Close(sess[c]) /\ Ended(c)
            ELSE life' = [life EXCEPT ![c] = "put"] /\ UNCHANGED <<closing, loop>>
    /\ UNCHANGED <<conns, pool, streams, streamId, syn, routines>>

\* ... and puts the session back into the pool.
PutIdle(c) ==
    /\ life[c] = "put"
    /\ idle' = idle \cup {sess[c]}
    /\ UNCHANGED closing
    /\ Ended(c)
    /\ UNCHANGED <<conns, counter, sessions, streams, streamId, syn, routines>>

-----------------------------------------------------------------------------
(* The rest of Session.Close: the client's hook, then the streams *)

LeavePool(s) ==
    /\ closing[s] = "hook"
    /\ idle' = idle \ {s}
    /\ closing' = [closing EXCEPT ![s] = "map"]
    /\ UNCHANGED <<conns, life, counter, sessions, streams, streamId, syn, loop, routines>>

LeaveMap(s) ==
    /\ closing[s] = "map"
    /\ sessions' = sessions \ {s}
    /\ closing' = [closing EXCEPT ![s] = "sweep"]
    /\ UNCHANGED <<conns, life, counter, idle, streams, streamId, syn, loop, routines>>

\* Mutant: the map is cleared, the streams in it are not closed.
Sweep_MapOnly(s) ==
    /\ closing[s] = "sweep"
    /\ streams' = [streams EXCEPT ![s] = {}]
    /\ closing' = [closing EXCEPT ![s] = "closed"]
    /\ UNCHANGED <<conns, life, pool, streamId, syn, loop, routines>>

\* Under streamLock: every stream ends here (its hook finds a closed session).
Sweep(s) ==
    /\ closing[s] = "sweep"
    /\ life' = [c \in Conns |->
                 IF c \in streams[s] /\ life[c] = "open" THEN "dead" ELSE life[c]]
    /\ streams' = [streams EXCEPT ![s] = {}]
    /\ closing' = [closing EXCEPT ![s] = "closed"]
    /\ UNCHANGED <<conns, pool, streamId, syn, loop, routines>>

-----------------------------------------------------------------------------
(* idleCleanup and Client.Close *)

\* Of the sessions that have been idle for too long, those with MinIdle newer
\* ones beside them in the pool are taken out, and closed one by one.
IdleCleanup ==
    /\ expired = {}
    /\ \E Excess \in SUBSET {s \in idle : Cardinality({r \in idle : r > s}) >= MinIdle} :
          expired' = Excess /\ idle' = idle \ Excess
    /\ UNCHANGED <<conns, life, counter, sessions, closing, streams, streamId, syn, loop, client, snapshot>>

\* Mutant: a session that was taken out of the pool is put back instead.
CloseExpired_Spares(s) ==
    /\ s \in expired
    /\ expired' = expired \ {s}
    /\ idle' = idle \cup {s}
    /\ UNCHANGED <<conns, life, counter, sessions, closing, streams, streamId, syn, loop, client, snapshot>>

CloseExpired(s) ==
    /\ s \in expired
    /\ expired' = expired \ {s}
    /\ Close(s)
    /\ UNCHANGED <<conns, life, pool, streams, streamId, syn, loop, client, snapshot>>

ClientCancel ==
    /\ client = "open"
    /\ client' = "cancelled"
    /\ UNCHANGED <<conns, life, pool, closing, streams, streamId, syn, loop, expired, snapshot>>

ClientSnapshot ==
    /\ client = "cancelled"
    /\ client' = "closing" /\ snapshot' = sessions
    /\ sessions' = {}
    /\ UNCHANGED <<conns, life, counter, idle, closing, streams, streamId, syn, loop, expired>>

ClientCloses(s) ==
    /\ s \in snapshot
    /\ snapshot' = snapshot \ {s}
    /\ Close(s)
    /\ UNCHANGED <<conns, life, pool, streams, streamId, syn, loop, expired, client>>

-----------------------------------------------------------------------------

Connection(c) ==
    \/ CreateStream(c) \/ GetIdleSession(c) \/ CreateSession(c) \/ DialFails(c)
    \/ Run(c) \/ OpenStream(c) \/ WriteSyn(c) \/ AddStream(c) \/ SetDieHook(c)
    \/ WriteAddress(c) \/ RelayEnds(c)

StreamEnd(c) == WriteFin(c) \/ DeleteStream(c) \/ DieHook(c) \/ PutIdle(c)
SessionEnd(s) == LeavePool(s) \/ LeaveMap(s) \/ Sweep(s)

Receive(s) ==
    \/ \E c \in Conns : RecvFin(s, c) \/ RecvPush(s, c)
    \/ \E c \in Conns, error \in BOOLEAN : RecvSynAck(s, c, error)
    \/ PushDone(s) \/ CloseLocally(s) \/ RecvSyn(s) \/ RecvServerSettings(s)
    \/ RecvEnds(s)

Client ==
    \/ IdleCleanup \/ ClientCancel \/ ClientSnapshot
    \/ \E s \in Sessions : CloseExpired(s) \/ ClientCloses(s)

Next ==
    \/ \E c \in Conns : Connection(c) \/ StreamEnd(c)
    \/ \E s \in Sessions : Receive(s) \/ StrayCloses(s) \/ SynTimeout(s) \/ SessionEnd(s)
    \/ Client

Spec == Init /\ [][Next]_vars

\* Goroutines that wait for nobody are scheduled; a read past its deadline and
\* a pipe whose reader is gone return. Nothing is asked of the server, of the
\* relays or of the timers.
Fairness ==
    /\ \A c \in Conns : WF_vars(StreamEnd(c))
    /\ \A s \in Sessions : /\ WF_vars(SessionEnd(s))
                           /\ WF_vars(PushDone(s) \/ CloseLocally(s))
                           /\ WF_vars(RecvDeadline(s))

FairSpec == Spec /\ Fairness

-----------------------------------------------------------------------------
(* Properties *)

ConnStates == {"accepted", "get", "dial", "register", "open", "syn", "add",
               "hook", "address", "relay", "done", "failed"}
Lives == {"none", "open", "fin", "delete", "hook", "put", "dead"}

\* The shape of the state.
TypeOK ==
    /\ pc \in [Conns -> ConnStates]
    /\ sess \in [Conns -> 0..MaxSessions]
    /\ sid \in [Conns -> Nat]
    /\ life \in [Conns -> Lives]
    /\ counter \in 0..MaxSessions
    /\ idle \subseteq Sessions
    /\ sessions \subseteq Sessions
    /\ closing \in [Sessions -> {"none", "hook", "map", "sweep", "closed"}]
    /\ streams \in [Sessions -> SUBSET Conns]
    /\ streamId \in [Sessions -> Nat]
    /\ peerVersion \in [Sessions -> {1, 2}]
    /\ synDone \in [Sessions -> Conns \cup {None}]
    /\ stray \subseteq Sessions
    /\ recv \in [Sessions -> {"off", "read", "push", "fin", "end", "done"}]
    /\ task \in [Sessions -> Conns \cup {None}]
    /\ expired \subseteq Sessions
    /\ client \in {"open", "cancelled", "closing"}
    /\ snapshot \subseteq Sessions

\* Who keeps session s out of the pool: a connection that is still opening its
\* stream on it, or whose stream has not ended.
Holds(c, s) ==
    /\ sess[c] = s
    /\ pc[c] \in {"register", "open", "syn", "add"} \/ life[c] \notin {"none", "dead"}

\* Session.Close sweeps the streams once and OpenStream enters its stream
\* beside it: no stream that a connection was given stays open on a session
\* whose sweep is over, where nothing would ever end its reads, unless recvLoop
\* has taken it out of the map to close it.
NoStrandedStream ==
    \A c \in Conns : life[c] = "open" =>
        \/ c \in streams[sess[c]] /\ closing[sess[c]] # "closed"
        \/ recv[sess[c]] = "fin" /\ task[sess[c]] = c

\* A session carries one stream at a time: the pool hands a live session to one
\* connection, gets it back once, and does not hold what somebody uses or what
\* the cleanup is about to close.
SessionNotShared ==
    \A s \in Sessions : ~IsClosed(s) =>
        /\ \A c, d \in Conns : Holds(c, s) /\ Holds(d, s) => c = d
        /\ s \in idle => s \notin expired /\ \A c \in Conns : ~Holds(c, s)
        /\ s \in expired => \A c \in Conns : ~Holds(c, s)

\* No live session is forgotten: it is in use, in the pool, or about to be
\* closed, so that somebody reuses it or closes its connection. (With a server
\* that may answer before CreateStream has set the dieHook this fails. It is what
\* PoolProtocol asks of a state.)
SessionNotLeaked ==
    \A s \in 1..counter :
        IsClosed(s) \/ s \in idle \cup expired \/ \E c \in Conns : Holds(c, s)

\* When Client.Close has returned, the pool holds no live session, although
\* streams end and sessions are registered while it runs.
PoolDiesWithClient ==
    client = "closing" /\ snapshot = {} => \A s \in idle : IsClosed(s)

\* recvLoop only waits for what comes: the stream it closes is its session's and
\* on its way out, and the stream it feeds is still where Session.Close finds it,
\* if nobody else ends it. (With the fairness of the goroutines: RecvLoopEnds.)
RecvLoopServed ==
    \A s \in Sessions :
        /\ recv[s] = "fin" => sess[task[s]] = s /\ life[task[s]] # "none"
        /\ recv[s] = "end" =>
              sess[task[s]] = s /\ life[task[s]] \in {"fin", "delete", "hook", "put"}
        /\ recv[s] = "push" =>
              /\ sess[task[s]] = s /\ life[task[s]] # "none"
              /\ life[task[s]] = "open" => task[s] \in streams[s] /\ closing[s] # "closed"

\* The pool as SessionPool sees it: sessions that are not closed, each with the
\* connection that keeps it, in the pool, or with the cleanup.
Live(S) == {s \in S : ~IsClosed(s)}
Leased(c) == IF Holds(c, sess[c]) /\ ~IsClosed(sess[c]) THEN sess[c] ELSE 0

Pool == INSTANCE SessionPool WITH
    born <- counter,
    served <- {c \in Conns : sess[c] # 0},
    lease <- [c \in Conns |-> Leased(c)],
    free <- Live(idle),
    retired <- Live(expired),
    closed <- {s \in Sessions : IsClosed(s)}

\* The client of client.go and session.go implements SessionPool: whatever the
\* connections, recvLoop, the dieHooks, the cleanup and Client.Close do beside
\* each other, a session goes from hand to hand as protocol.md:165-171 wants it.
\* (With a server that may answer before CreateStream has set the dieHook a
\* lease may end without a return, and this fails.)
PoolProtocol == Pool!Spec

\* The end of a session reaches everybody who reads from its stream.
SessionEndReleases ==
    \A c \in Conns, s \in Sessions :
        (sess[c] = s /\ IsClosed(s) /\ life[c] = "open") ~> life[c] = "dead"

\* recvLoop ends with its session, also while its data waits for a reader.
RecvLoopEnds ==
    \A s \in Sessions : IsClosed(s) ~> recv[s] \in {"off", "done"}
=============================================================================
