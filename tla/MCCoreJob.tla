----------------------------- MODULE MCCoreJob -----------------------------
(* Instances of CoreJob for TLC; the .cfg files name the threads. *)
EXTENDS CoreJob

(* Promises that the model refutes and that have no .cfg of their own: name  *)
(* one in MCCoreJob.cfg in place of its properties to see how.               *)

\* nativeStart clears the cache so that "lastError() must describe THIS job
\* alone, never the one before it" (aether_jni.cpp:262): once the handle is
\* clear and the cache is what nativeLastError serves, it names the last job
\* that was started.
LastErrorIsCurrent ==
    (gJob = NoJob /\ lastError # NoJob /\ \A t \in Threads : ~At(t, "startPublish"))
        => lastError = nextId - 1

\* "The tunnel keeps running until nativeStop cancels the job"
\* (aether_jni.cpp:326), for every job: refuted by two start() calls that pass
\* the "already running" test together. The first job stays registered, runs, and
\* has no handle left that nativeStop could cancel it by.
EveryJobHasHandle ==
    \A j \in jobs : gJob = j \/ \E t \in Threads : At(t, "startPublish") /\ loc[t] = j
=============================================================================
