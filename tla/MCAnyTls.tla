------------------------------ MODULE MCAnyTls ------------------------------
(* Instances of AnyTls for TLC; the .cfg files name the connections. *)
EXTENDS AnyTls, TLC

Symmetry == Permutations(Conns)

(* Promises that the model refutes and that have no .cfg of their own: name *)
(* one in MCAnyTls.cfg in place of its properties to see how.               *)

\* "If Session is not closed, put this Stream to pool" (client.go:110): what the
\* pool holds can be used. The hook looks at die, and inserts later; a session
\* that closes in between has already left the pool when it is inserted.
PooledIsUsable == \A s \in idle : ~IsClosed(s) \/ closing[s] = "hook"

\* A client that opens a stream expects the server's answer and "may close a
\* stuck connection early" (protocol.md:245): while a relay that was opened with
\* a watcher waits for its own SYNACK, the watcher is armed or has fired. A late
\* SYNACK of the stream before it disarms it.
WatcherIsItsOwn ==
    [][\A s \in Sessions, c \in Conns :
         (synDone[s] = c /\ synDone'[s] = None /\ life[c] = "open" /\ ~IsClosed(s)')
            => \E error \in BOOLEAN : RecvSynAck(s, c, error)]_vars
=============================================================================
