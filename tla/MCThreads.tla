----------------------------- MODULE MCThreads -----------------------------
(* Instances of Threads for TLC; constants are given in the .cfg files.    *)
EXTENDS Threads, TLC

CONSTANTS m, t1, t2

\* A thread that waits while others collect; joins, detaches and requests; and
\* items that the threads hand to each other.
Program(main, first, second) == (m :> main) @@ (t1 :> first) @@ (t2 :> second)
OneWaiter == Program({"start", "wait", "join"}, {"share"}, {"request", "collect"})
Joining == Program({"start", "join", "detach", "request"}, {"start", "share"},
                   {"share", "join"})
TwoWaiters == Program({"start", "wait"}, {"share", "wait"}, {"collect", "share"})
Waits == {OneWaiter}
Handles == {Joining}
Two == {TwoWaiters}
Mixed == {OneWaiter, Joining}
=============================================================================
