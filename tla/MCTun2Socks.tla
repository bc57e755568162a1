---------------------------- MODULE MCTun2Socks ----------------------------
(* Instances of Tun2Socks for TLC; the .cfg files name the threads. *)
EXTENDS Tun2Socks

(* Promises that the model refutes and that have no .cfg of their own: name *)
(* one in MCTun2Socks.cfg in place of its properties to see how.            *)

\* stop() is to "return immediately", since "a multi-second join there is an
\* ANR" (Tun2SocksManager.kt:249-253): nobody who calls stop() waits for the
\* monitor that start() keeps while it joins the previous run.
StopDoesNotWait ==
    \A s \in Stoppers, t \in Threads : At(s, "stopEnter") => ~At(t, "startJoin")

\* isRunning says "true if any engine is routing" (TunEngine.kt:57): the handle
\* is only set while the thread behind it lives.
RunningIsAlive == handle # NoRun => Alive(handle)

\* A start() that finds the previous run still alive may refuse, but "Refusing
\* is recoverable" (Tun2SocksManager.kt:187): that run ends some day and a
\* retry can go through. A stop() made before the new thread has cleared
\* g_terminate (tun2socks.c:441) is forgotten, and the run never ends.
RefusalIsRecoverable ==
    \A t \in Threads : At(t, "startJoin") ~> ~Alive(last)
=============================================================================
