---------------------------- MODULE MCThreadMutex ----------------------------
(* Instances of ThreadMutex for TLC; constants are given in the .cfg files. *)
EXTENDS ThreadMutex, TLC

\* Threads other than Main that make the same calls are interchangeable.
Symmetry ==
    UNION {Permutations({t \in Thread \ {Main} :
               \A calls \in {Lockers, Notifiers, Subscribers, Clearers} :
                   (t \in calls) = (u \in calls)}) : u \in Thread \ {Main}}
=============================================================================
