----------------------------- MODULE FileLocks -----------------------------
(***************************************************************************)
(* Files shared by the threads of several processes (src/rtl/filebuf.c and *)
(* hb_fsLockLarge of src/rtl/filesys.c, built for Linux: POSIX record      *)
(* locks, flock() for the sharing modes).                                  *)
(*                                                                         *)
(* The record locks of POSIX belong to a process: they do not keep its     *)
(* threads apart, and closing any descriptor of the file drops them all.   *)
(* So the threads of a process share one HB_FILE for each file, with one   *)
(* descriptor, a use counter, and a list of the ranges they have locked    *)
(* among themselves; only what is added to that list is locked in the      *)
(* operating system.  This module follows one file.                        *)
(*                                                                         *)
(* Granularity: what runs under s_lockMtx is one action, as is each call   *)
(* of the operating system.  s_fileMtx is held over several of them when a *)
(* descriptor is replaced.  Left out: contents and positions of the file,  *)
(* hb_fileLockTest (it changes nothing), and an open that fails.           *)
(***************************************************************************)
EXTENDS Integers, FiniteSets

CONSTANTS
    Process,   \* the processes
    Thread,    \* the threads of all processes
    home,      \* the process of each thread
    NoThread,  \* nobody
    Ranges,    \* the ranges that are locked
    Modes,     \* the access modes files are opened with
    LockModes  \* those of the handles that ranges are locked through

ASSUME ThreadAssumption == /\ IsFiniteSet(Thread) /\ NoThread \notin Thread
                           /\ home \in [Thread -> Process]
ASSUME RangeAssumption == Ranges \subseteq [start : Nat, len : Nat \ {0}]
ASSUME ModeAssumption == /\ Modes \subseteq {"read", "write", "readwrite"}
                         /\ LockModes \subseteq Modes

VARIABLES
    used,       \* use counter of the HB_FILE of each process, 0 if there is none
    shared, mode, hFile, \* its other fields, of use while used > 0
    pLocks,     \* its list of locked ranges, as a set
    fcntl,      \* record locks of the operating system: process, byte and kind
    s_fileMtx,  \* its holder in each process, or NoThread
    handle,     \* mode of the handle of each thread, or "none"
    pc,         \* where each thread stands
    arg,        \* the range its call is about
    held        \* the bytes each thread has locked, to its knowledge

file == <<used, shared, mode, hFile>>
locks == <<pLocks, fcntl, held>>
vars == <<file, locks, s_fileMtx, handle, pc, arg>>

-----------------------------------------------------------------------------
(* Ranges.  The code keeps the list in order and looks a position up in it *)
(* by binary search; MCFileLocks compares that with the sets used here.    *)
End(r) == r.start + r.len
Bytes(r) == r.start .. End(r) - 1
Byte == UNION {Bytes(r) : r \in Ranges}
Between(a, b) == [start |-> a, len |-> b - a]
Covered(l) == UNION {Bytes(r) : r \in l}

Overlap(r, s) == s.start < End(r) /\ r.start < End(s)
Within(r, s) == s.start <= r.start /\ End(r) <= End(s)

\* hb_fileSetLock: a new range is joined with those that touch it.
Left(l, r) == {s \in l : End(s) = r.start}
Right(l, r) == {s \in l : s.start = End(r)}
NewStart(l, r) == IF Left(l, r) = {} THEN r.start ELSE (CHOOSE s \in Left(l, r) : TRUE).start
NewEnd(l, r) == IF Right(l, r) = {} THEN End(r) ELSE End(CHOOSE s \in Right(l, r) : TRUE)
Conflict(l, r) == \E s \in l : Overlap(r, s)
Added(l, r) == (l \ (Left(l, r) \cup Right(l, r))) \cup {Between(NewStart(l, r), NewEnd(l, r))}

\* hb_fileUnlock: a range is cut out of the one it is part of, if any.
InOne(l, r) == \E s \in l : Within(r, s)
Around(l, r) == CHOOSE s \in l : Within(r, s)
Rest(s, r) == {u \in {Between(s.start, r.start), Between(End(r), End(s))} : u.len > 0}
CutEnd(l, r) ==                          \* faulty: what follows the range is lost
    IF InOne(l, r)
    THEN LET s == Around(l, r) IN
         (l \ {s}) \cup {u \in {Between(s.start, r.start)} : u.len > 0}
    ELSE l
Cut(l, r) ==
    IF InOne(l, r) THEN (l \ {Around(l, r)}) \cup Rest(Around(l, r), r) ELSE l

-----------------------------------------------------------------------------
NoRange == [start |-> 0, len |-> 0]

Init ==
    /\ used = [p \in Process |-> 0]
    /\ shared = [p \in Process |-> TRUE]
    /\ mode = [p \in Process |-> "readwrite"]
    /\ hFile = [p \in Process |-> "none"]
    /\ pLocks = [p \in Process |-> {}]
    /\ fcntl = {}
    /\ s_fileMtx = [p \in Process |-> NoThread]
    /\ handle = [t \in Thread |-> "none"]
    /\ pc = [t \in Thread |-> "run"]
    /\ arg = [t \in Thread |-> NoRange]
    /\ held = [t \in Thread |-> {}]

Goto(t, p) == pc' = [pc EXCEPT ![t] = p]
With(t, p, r) == Goto(t, p) /\ arg' = [arg EXCEPT ![t] = r]
Return(t) == With(t, "run", NoRange)
Of(p) == {l \in fcntl : l.process = p}
Got(t, S) == held' = [held EXCEPT ![t] = @ \cup S]
Listed(p, l) == pLocks' = [pLocks EXCEPT ![p] = l]

-----------------------------------------------------------------------------
(* Opening and closing                                                     *)

\* The mode of flock() keeps other processes from a file that is not shared; in
\* the process, the HB_FILE does.
Admitted(p, fShared) ==
    /\ s_fileMtx[p] = NoThread
    /\ \A q \in Process : used[q] > 0 => fShared /\ shared[q]

\* s_fileExtOpen.  The old descriptor is hFileRO from then on.
Open(t, iMode, fShared) ==
    LET p == home[t] IN
    /\ pc[t] = "run" /\ handle[t] = "none"
    /\ Admitted(p, fShared)
    /\ handle' = [handle EXCEPT ![t] = iMode]
    /\ used' = [used EXCEPT ![p] = @ + 1]
    /\ \/ /\ used[p] = 0
          /\ shared' = [shared EXCEPT ![p] = fShared]
          /\ mode' = [mode EXCEPT ![p] = iMode]
          /\ hFile' = [hFile EXCEPT ![p] = iMode]
          /\ UNCHANGED <<pc, s_fileMtx>>
       \/ /\ used[p] > 0 /\ mode[p] \in {"readwrite", iMode}
          /\ UNCHANGED <<shared, mode, hFile, pc, s_fileMtx>>
       \/ /\ used[p] > 0 /\ mode[p] \notin {"readwrite", iMode}
          /\ mode' = [mode EXCEPT ![p] = "readwrite"]
          /\ hFile' = [hFile EXCEPT ![p] = iMode]
          /\ Goto(t, "replaced")
          /\ s_fileMtx' = [s_fileMtx EXCEPT ![p] = t]
          /\ UNCHANGED shared
    /\ UNCHANGED <<locks, arg>>

\* The old descriptor is closed, unless uiLocks tells that there are locks.
Look(t) ==
    LET p == home[t] IN
    /\ pc[t] = "replaced"
    /\ \/ /\ pLocks[p] = {} /\ Goto(t, "closing") /\ UNCHANGED s_fileMtx
       \/ /\ pLocks[p] # {} /\ Goto(t, "run")
          /\ s_fileMtx' = [s_fileMtx EXCEPT ![p] = NoThread]
    /\ UNCHANGED <<file, locks, handle, arg>>

CloseReplaced(t) ==
    LET p == home[t] IN
    /\ pc[t] = "closing"
    /\ fcntl' = fcntl \ Of(p)
    /\ Goto(t, "run")
    /\ s_fileMtx' = [s_fileMtx EXCEPT ![p] = NoThread]
    /\ UNCHANGED <<file, pLocks, held, handle, arg>>

\* s_fileClose, by a thread that has unlocked what it locked.
CloseEach(t) ==                          \* faulty: use counter not looked at
    LET p == home[t] IN
    /\ pc[t] = "run" /\ handle[t] # "none" /\ held[t] = {} /\ s_fileMtx[p] = NoThread
    /\ handle' = [handle EXCEPT ![t] = "none"]
    /\ used' = [used EXCEPT ![p] = @ - 1]
    /\ fcntl' = fcntl \ Of(p)
    /\ UNCHANGED <<shared, mode, hFile, pLocks, held, s_fileMtx, pc, arg>>
Close(t) ==
    LET p == home[t] IN
    /\ pc[t] = "run" /\ handle[t] # "none" /\ held[t] = {} /\ s_fileMtx[p] = NoThread
    /\ handle' = [handle EXCEPT ![t] = "none"]
    /\ used' = [used EXCEPT ![p] = @ - 1]
    /\ \/ used[p] = 1 /\ Listed(p, {}) /\ fcntl' = fcntl \ Of(p)
       \/ used[p] > 1 /\ UNCHANGED <<pLocks, fcntl>>
    /\ UNCHANGED <<shared, mode, hFile, held, s_fileMtx, pc, arg>>

-----------------------------------------------------------------------------
(* Locking                                                                 *)
Locks(t) == pc[t] = "run" /\ handle[t] \in LockModes

\* s_fileLock: the range is listed, then locked in the operating system.
Lock(t, r) ==
    LET p == home[t] IN
    /\ Locks(t) /\ ~Conflict(pLocks[p], r)
    /\ Listed(p, Added(pLocks[p], r))
    /\ \/ shared[p] /\ With(t, "locking", r) /\ UNCHANGED held
       \/ ~shared[p] /\ Got(t, Bytes(r)) /\ UNCHANGED <<pc, arg>>
    /\ UNCHANGED <<file, fcntl, s_fileMtx, handle>>

\* Through a file opened for reading locks are shared; a descriptor must have the
\* access that the lock is about.
Kind(p) == IF mode[p] = "read" THEN "shared" ELSE "exclusive"
Lockable(p, r) ==
    /\ hFile[p] # IF Kind(p) = "shared" THEN "write" ELSE "read"
    /\ \A l \in fcntl : l.process # p /\ l.byte \in Bytes(r) =>
                        l.kind = "shared" /\ Kind(p) = "shared"

LockInOS(t) ==
    LET p == home[t] IN
    /\ pc[t] = "locking" /\ Lockable(p, arg[t])
    /\ fcntl' = {l \in fcntl : l.process # p \/ l.byte \notin Bytes(arg[t])}
                \cup [process : {p}, byte : Bytes(arg[t]), kind : {Kind(p)}]
    /\ Got(t, Bytes(arg[t]))
    /\ Return(t)
    /\ UNCHANGED <<file, pLocks, s_fileMtx, handle>>

\* Without FLX_WAIT, or when waiting would be a deadlock, the call fails.
Refuse(t) ==
    /\ pc[t] = "locking" /\ ~Lockable(home[t], arg[t])
    /\ Goto(t, "unlisting")
    /\ UNCHANGED <<file, locks, s_fileMtx, handle, arg>>

\* Its own ranges are unlocked in the operating system first, where it has them.
UnlockAtOnce(t, r) ==                    \* faulty: taken off the list first
    LET p == home[t] IN
    /\ Locks(t) /\ Bytes(r) \subseteq held[t] /\ InOne(pLocks[p], r)
    /\ held' = [held EXCEPT ![t] = @ \ Bytes(r)]
    /\ Listed(p, Cut(pLocks[p], r))
    /\ \/ shared[p] /\ With(t, "unlocking", r)
       \/ ~shared[p] /\ UNCHANGED <<pc, arg>>
    /\ UNCHANGED <<file, fcntl, s_fileMtx, handle>>
Unlock(t, r) ==
    LET p == home[t] IN
    /\ Locks(t) /\ Bytes(r) \subseteq held[t] /\ InOne(pLocks[p], r)
    /\ held' = [held EXCEPT ![t] = @ \ Bytes(r)]
    /\ \/ shared[p] /\ With(t, "unlocking", r) /\ UNCHANGED pLocks
       \/ ~shared[p] /\ Listed(p, Cut(pLocks[p], r)) /\ UNCHANGED <<pc, arg>>
    /\ UNCHANGED <<file, fcntl, s_fileMtx, handle>>

UnlockInOS(t) ==
    LET p == home[t] IN
    /\ pc[t] = "unlocking"
    /\ fcntl' = {l \in fcntl : l.process # p \/ l.byte \notin Bytes(arg[t])}
    /\ Goto(t, "unlisting")
    /\ UNCHANGED <<file, pLocks, held, s_fileMtx, handle, arg>>

\* A range that has been unlocked, or could not be locked, leaves the list.
Unlist(t) ==
    LET p == home[t] IN
    /\ pc[t] = "unlisting"
    /\ Listed(p, Cut(pLocks[p], arg[t]))
    /\ Return(t)
    /\ UNCHANGED <<file, fcntl, held, s_fileMtx, handle>>

-----------------------------------------------------------------------------
\* A process dies wherever its threads are, and is started again.
Die(p) ==
    LET here == {t \in Thread : home[t] = p} IN
    /\ used' = [used EXCEPT ![p] = 0]
    /\ Listed(p, {})
    /\ fcntl' = fcntl \ Of(p)
    /\ s_fileMtx' = [s_fileMtx EXCEPT ![p] = NoThread]
    /\ handle' = [t \in Thread |-> IF t \in here THEN "none" ELSE handle[t]]
    /\ pc' = [t \in Thread |-> IF t \in here THEN "run" ELSE pc[t]]
    /\ held' = [t \in Thread |-> IF t \in here THEN {} ELSE held[t]]
    /\ arg' = [t \in Thread |-> IF t \in here THEN NoRange ELSE arg[t]]
    /\ UNCHANGED <<shared, mode, hFile>>

Step(t) ==
    \/ \E iMode \in Modes, fShared \in BOOLEAN : Open(t, iMode, fShared)
    \/ Look(t) \/ CloseReplaced(t) \/ Close(t)
    \/ \E r \in Ranges : Lock(t, r) \/ Unlock(t, r)
    \/ LockInOS(t) \/ Refuse(t) \/ UnlockInOS(t) \/ Unlist(t)

Next == \/ \E t \in Thread : Step(t)
        \/ \E p \in Process : Die(p)

Spec == Init /\ [][Next]_vars

-----------------------------------------------------------------------------
\* Type invariant.
Flock == [start : Nat, len : Nat \ {0}]
Access == {"read", "write", "readwrite"}
Calls == {"locking", "unlocking", "unlisting"}
TypeOK ==
    /\ used \in [Process -> Nat]
    /\ shared \in [Process -> BOOLEAN]
    /\ mode \in [Process -> Access]
    /\ hFile \in [Process -> Access \cup {"none"}]
    /\ pLocks \in [Process -> SUBSET Flock]
    /\ fcntl \subseteq [process : Process, byte : Byte, kind : {"shared", "exclusive"}]
    /\ s_fileMtx \in [Process -> Thread \cup {NoThread}]
    /\ handle \in [Thread -> Access \cup {"none"}]
    /\ pc \in [Thread -> {"run", "replaced", "closing"} \cup Calls]
    /\ arg \in [Thread -> Ranges \cup {NoRange}]
    /\ held \in [Thread -> SUBSET Byte]

Owner(b) == IF \E t \in Thread : b \in held[t]
            THEN CHOOSE t \in Thread : b \in held[t] ELSE NoThread
Promise == INSTANCE ByteLocks WITH owner <- [b \in Byte |-> Owner(b)]

(* A thread that has locked a byte has it for itself, among all threads of
   all processes, until it unlocks it or its process dies: list and record
   locks together do what ByteLocks says (s_fileLock). *)
ByteLocksSpec == Promise!Spec

InHand(t) == Bytes(arg[t])
Here(p) == {t \in Thread : home[t] = p}

(* The three records of who has locked what agree: the list of a process
   covers what its threads have locked, or are about to lock or unlock, and no
   byte more, so that nothing stays locked for nobody; and what they have
   locked in a shared file is locked in the operating system, where other
   processes see it. *)
LocksAgree == \A p \in Process :
    /\ Covered(pLocks[p]) = UNION {held[t] \cup InHand(t) : t \in Here(p)}
    /\ shared[p] => \A t \in Here(p) : \A b \in held[t] :
                            \E l \in Of(p) : l.byte = b

(* The descriptor of the HB_FILE gives each handle the access it was opened
   for (s_fileExtOpen). *)
HandleServes == \A t \in Thread :
    handle[t] # "none" => hFile[home[t]] \in {"readwrite", handle[t]}
=============================================================================
