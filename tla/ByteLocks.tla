----------------------------- MODULE ByteLocks -----------------------------
(***************************************************************************)
(* What hb_fileLock() promises (src/rtl/filebuf.c): every byte of a file   *)
(* has at most one owner among the threads of all processes, until the     *)
(* owner unlocks it or its process dies.  FileLocks implements it, and the *)
(* DBF driver builds its record, file and header locks on it.              *)
(***************************************************************************)
CONSTANTS
    Thread,    \* the threads of all processes that use the file
    NoThread,  \* nobody
    Byte       \* positions in the file

VARIABLE owner \* of each byte, or NoThread

Free(S) == \A b \in S : owner[b] = NoThread
Owned(t) == {b \in Byte : owner[b] = t}
Given(S, t) == owner' = [b \in Byte |-> IF b \in S THEN t ELSE owner[b]]

Init == owner = [b \in Byte |-> NoThread]

\* All bytes asked for are free, or the call fails.
Acquire(t, S) == Free(S) /\ Given(S, t)

Release(t, S) == S \subseteq Owned(t) /\ Given(S, NoThread)

\* The operating system releases what a process held when it dies.
Die(T) == Given(UNION {Owned(t) : t \in T}, NoThread)

Next == \/ \E t \in Thread, S \in SUBSET Byte : Acquire(t, S) \/ Release(t, S)
        \/ \E T \in SUBSET Thread : Die(T)

Spec == Init /\ [][Next]_owner
=============================================================================
