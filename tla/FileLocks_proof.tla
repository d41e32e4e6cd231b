-------------------------- MODULE FileLocks_proof --------------------------
(***************************************************************************)
(* Proofs about FileLocks: threads of all processes have what they lock    *)
(* for themselves, as ByteLocks says, and the list of ranges, the locks in *)
(* the operating system and what the threads know agree, if ranges are     *)
(* only locked through handles for reading and writing.  Then about        *)
(* LockList: the ordered array with its binary search is the set of        *)
(* ranges, whatever handles are used.                                      *)
(***************************************************************************)
EXTENDS LockList, FiniteSetTheorems, SequenceTheorems, TLAPS

-----------------------------------------------------------------------------
(* Ranges                                                                  *)

\* The ranges of a list neither meet nor touch.
Separated(l) == \A r, s \in l : r # s => End(r) < s.start \/ End(s) < r.start

LEMMA InBytes ==
  ASSUME NEW r \in Flock \cup {NoRange}, NEW b
  PROVE  b \in Bytes(r) <=> b \in Int /\ r.start <= b /\ b < End(r)
BY DEF Flock, NoRange, Bytes, End

LEMMA InCovered ==
  ASSUME NEW l, NEW b
  PROVE  b \in Covered(l) <=> \E r \in l : b \in Bytes(r)
BY DEF Covered

\* A range that separated ranges cover lies in one of them: where one of them
\* ended inside, the byte after it would be in none.
LEMMA CoveredInOne ==
  ASSUME NEW l \in SUBSET Flock, Separated(l),
         NEW r \in Flock, Bytes(r) \subseteq Covered(l)
  PROVE  InOne(l, r)
<1>1. r.start \in Bytes(r)
  BY InBytes DEF Flock, End
<1>2. PICK s \in l : r.start \in Bytes(s)
  BY <1>1, InCovered
<1>3. CASE End(r) <= End(s)
  BY <1>2, <1>3, InBytes DEF InOne, Within, Flock
<1>4. CASE End(s) < End(r)
  <2>1. End(s) \in Bytes(r)
    BY <1>2, <1>4, InBytes DEF Flock, End
  <2>2. PICK u \in l : End(s) \in Bytes(u)
    BY <2>1, InCovered
  <2>3. u.start <= End(s) /\ End(s) < End(u) /\ s.start <= End(s)
    BY <2>2, InBytes DEF Flock, End
  <2> QED BY <2>3 DEF Separated, Flock, End
<1> QED BY <1>3, <1>4 DEF Flock, End

\* hb_fileSetLock adds the range to what the list covers, and keeps it apart.
LEMMA AddedCovers ==
  ASSUME NEW l \in SUBSET Flock, Separated(l),
         NEW r \in Flock, ~Conflict(l, r)
  PROVE  /\ Added(l, r) \in SUBSET Flock
         /\ Separated(Added(l, r))
         /\ Covered(Added(l, r)) = Covered(l) \cup Bytes(r)
<1> DEFINE a == NewStart(l, r)
           z == NewEnd(l, r)
           n == Between(a, z)
           rest == l \ (Left(l, r) \cup Right(l, r))
<1>1. /\ a \in Nat /\ a <= r.start
      /\ \/ a = r.start /\ Left(l, r) = {}
         \/ \E s \in l : Left(l, r) = {s} /\ a = s.start /\ End(s) = r.start /\ a < r.start
  <2>1. ASSUME NEW s \in Left(l, r), NEW u \in Left(l, r)
        PROVE  s = u
    BY DEF Left, Separated, Flock, End
  <2>2. CASE Left(l, r) = {}
    BY <2>2 DEF NewStart, Flock
  <2>3. CASE Left(l, r) # {}
    <3>1. PICK s \in Left(l, r) : Left(l, r) = {s}
      BY <2>1, <2>3
    <3>2. (CHOOSE u \in Left(l, r) : TRUE) = s
      BY <3>1
    <3> QED BY <2>3, <3>1, <3>2 DEF NewStart, Left, Flock, End
  <2> QED BY <2>2, <2>3
<1>2. /\ z \in Nat /\ End(r) <= z
      /\ \/ z = End(r) /\ Right(l, r) = {}
         \/ \E s \in l : Right(l, r) = {s} /\ z = End(s) /\ s.start = End(r) /\ End(r) < z
  <2>1. ASSUME NEW s \in Right(l, r), NEW u \in Right(l, r)
        PROVE  s = u
    BY DEF Right, Separated, Flock, End
  <2>2. CASE Right(l, r) = {}
    BY <2>2 DEF NewEnd, Flock, End
  <2>3. CASE Right(l, r) # {}
    <3>1. PICK s \in Right(l, r) : Right(l, r) = {s}
      BY <2>1, <2>3
    <3>2. (CHOOSE u \in Right(l, r) : TRUE) = s
      BY <3>1
    <3> QED BY <2>3, <3>1, <3>2 DEF NewEnd, Right, Flock, End
  <2> QED BY <2>2, <2>3
<1>3. n \in Flock /\ n.start = a /\ End(n) = z
  BY <1>1, <1>2 DEF Between, Flock, End
<1>4. \A s \in rest : End(s) < a \/ z < s.start
  <2> SUFFICES ASSUME NEW s \in rest PROVE End(s) < a \/ z < s.start
    OBVIOUS
  <2>1. s \in l /\ s \in Flock /\ End(s) # r.start /\ s.start # End(r)
    BY DEF Left, Right
  <2>2. End(s) < r.start \/ End(r) < s.start
    BY <2>1 DEF Conflict, Overlap, Flock, End
  <2>3. CASE End(s) < r.start
    <3>1. CASE a = r.start
      BY <2>3, <3>1
    <3>2. ASSUME NEW u \in l, Left(l, r) = {u}, a = u.start, End(u) = r.start
          PROVE  End(s) < a
      BY <2>1, <2>3, <3>2 DEF Separated, Flock, End
    <3> QED BY <1>1, <3>1, <3>2
  <2>4. CASE End(r) < s.start
    <3>1. CASE z = End(r)
      BY <2>4, <3>1
    <3>2. ASSUME NEW u \in l, Right(l, r) = {u}, z = End(u), u.start = End(r)
          PROVE  z < s.start
      BY <2>1, <2>4, <3>2 DEF Separated, Flock, End
    <3> QED BY <1>2, <3>1, <3>2
  <2> QED BY <2>2, <2>3, <2>4
<1>5. Added(l, r) = rest \cup {n}
  BY DEF Added
<1> HIDE DEF n, a, z
<1>6. Added(l, r) \in SUBSET Flock
  BY <1>3, <1>5
<1>7. Separated(Added(l, r))
  BY <1>3, <1>4, <1>5 DEF Separated
<1>8. ASSUME NEW b
      PROVE  b \in Covered(Added(l, r)) <=> b \in Covered(l) \/ b \in Bytes(r)
  <2>1. b \in Bytes(n) <=> \/ b \in Bytes(r)
                           \/ \E s \in Left(l, r) \cup Right(l, r) : b \in Bytes(s)
    <3>1. /\ b \in Bytes(n) <=> b \in Int /\ a <= b /\ b < z
          /\ b \in Bytes(r) <=> b \in Int /\ r.start <= b /\ b < End(r)
          /\ r.start \in Int /\ End(r) \in Int
      BY <1>3, InBytes DEF Flock, End
    <3>2. (\E s \in Left(l, r) : b \in Bytes(s)) <=> b \in Int /\ a <= b /\ b < r.start
      BY <1>1, InBytes DEF Flock, End
    <3>3. (\E s \in Right(l, r) : b \in Bytes(s)) <=> b \in Int /\ End(r) <= b /\ b < z
      BY <1>2, InBytes DEF Flock, End
    <3>4. r.start <= End(r)
      BY DEF Flock, End
    <3> QED BY <1>1, <1>2, <3>1, <3>2, <3>3, <3>4
  <2>2. Left(l, r) \subseteq l /\ Right(l, r) \subseteq l
    BY DEF Left, Right
  <2> QED BY <1>5, <2>1, <2>2, InCovered
<1> QED BY <1>6, <1>7, <1>8

\* hb_fileUnlock takes it away again.
LEMMA CutCovers ==
  ASSUME NEW l \in SUBSET Flock, Separated(l),
         NEW r \in Flock, InOne(l, r)
  PROVE  /\ Cut(l, r) \in SUBSET Flock
         /\ Separated(Cut(l, r))
         /\ Covered(Cut(l, r)) = Covered(l) \ Bytes(r)
<1> DEFINE s == Around(l, r)
<1>1. s \in l /\ Within(r, s)
  BY DEF InOne, Around
<1>2. Cut(l, r) = (l \ {s}) \cup Rest(s, r)
  BY DEF Cut
<1> HIDE DEF s
<1>3. \A u \in Rest(s, r) :
         /\ u \in Flock
         /\ \/ u.start = s.start /\ End(u) = r.start
            \/ u.start = End(r) /\ End(u) = End(s)
  BY <1>1 DEF Rest, Between, Flock, End, Within
<1>4. \A u, v \in Rest(s, r) : u # v => End(u) < v.start \/ End(v) < u.start
  BY <1>1 DEF Rest, Between, Flock, End, Within
<1>5. \A u \in Rest(s, r) : s.start <= u.start /\ End(u) <= End(s)
  BY <1>1, <1>3 DEF Flock, End, Within
<1>6. Cut(l, r) \in SUBSET Flock
  BY <1>2, <1>3
<1>7. Separated(Cut(l, r))
  <2>1. ASSUME NEW u \in l \ {s}, NEW v \in Rest(s, r)
        PROVE  End(u) < v.start \/ End(v) < u.start
    BY <1>1, <1>3, <1>5 DEF Separated, Flock, End
  <2> QED BY <1>2, <1>4, <2>1 DEF Separated
<1>8. ASSUME NEW b
      PROVE  b \in Covered(Cut(l, r)) <=> b \in Covered(l) /\ b \notin Bytes(r)
  <2>1. (\E u \in Rest(s, r) : b \in Bytes(u)) <=> b \in Bytes(s) /\ b \notin Bytes(r)
    <3>1. (\E u \in Rest(s, r) : b \in Bytes(u)) <=>
             b \in Int /\ ((s.start <= b /\ b < r.start) \/ (End(r) <= b /\ b < End(s)))
      <4>1. \A u \in Rest(s, r) : b \in Bytes(u) <=> b \in Int /\ u.start <= b /\ b < End(u)
        BY <1>3, InBytes
      <4>2. s.start < r.start =>
               \E u \in Rest(s, r) : u.start = s.start /\ End(u) = r.start
        <5> DEFINE w == Between(s.start, r.start)
        <5>1. w.len = r.start - s.start /\ w.start = s.start /\ End(w) = r.start
          BY <1>1 DEF Between, Flock, End
        <5> QED BY <1>1, <5>1 DEF Rest, Flock
      <4>3. End(r) < End(s) =>
               \E u \in Rest(s, r) : u.start = End(r) /\ End(u) = End(s)
        <5> DEFINE w == Between(End(r), End(s))
        <5>1. w.len = End(s) - End(r) /\ w.start = End(r) /\ End(w) = End(s)
          BY <1>1 DEF Between, Flock, End
        <5>2. End(s) \in Int /\ End(r) \in Int
          BY <1>1 DEF Flock, End
        <5> QED BY <1>1, <5>1, <5>2 DEF Rest
      <4>4. r.start \in Int /\ End(r) \in Int /\ s.start \in Int /\ End(s) \in Int
        BY <1>1 DEF Flock, End
      <4> QED BY <1>3, <4>1, <4>2, <4>3, <4>4
    <3> QED BY <1>1, <3>1, InBytes DEF Within, Flock, End
  <2>2. \A u \in l \ {s} : b \in Bytes(u) => b \notin Bytes(r)
    BY <1>1, InBytes DEF Separated, Within, Flock, End
  <2> QED BY <1>1, <1>2, <2>1, <2>2, InCovered
<1> QED BY <1>6, <1>7, <1>8

-----------------------------------------------------------------------------
(* The inductive invariant                                                 *)

Busy(t) == held[t] \cup InHand(t)
Users(p) == {t \in Here(p) : handle[t] # "none"}

\* The use counter counts the handles, and files that are not shared are not
\* open twice.
Counting ==
    /\ \A p \in Process : IsFiniteSet(Users(p)) /\ used[p] = Cardinality(Users(p))
    /\ \A p, q \in Process : p # q /\ used[p] > 0 /\ used[q] > 0 =>
                             shared[p] /\ shared[q]
\* What a thread does to ranges it does through a handle for reading and
\* writing, when the descriptor of the file has been replaced by one for both.
Handles ==
    \A t \in Thread :
        /\ handle[t] = "none" => pc[t] = "run"
        /\ handle[t] = "readwrite" => mode[home[t]] = "readwrite"
        /\ Busy(t) # {} => handle[t] = "readwrite"
        /\ pc[t] \in Calls <=> arg[t] # NoRange
        /\ arg[t] # NoRange => arg[t] \in Ranges
        /\ held[t] \cap InHand(t) = {}
\* Before that there are no locks that the old descriptor would take along.
Replacing ==
    \A t \in Thread : pc[t] \in {"replaced", "closing"} =>
        /\ s_fileMtx[home[t]] = t
        /\ held[t] = {}
        /\ \A u \in Here(home[t]) : u # t => handle[u] # "readwrite"
\* The list is in order, and covers what the threads have or are about.
Lists ==
    \A p \in Process :
        /\ Separated(pLocks[p])
        /\ Covered(pLocks[p]) = UNION {Busy(t) : t \in Here(p)}
\* No two threads of a process have to do with the same byte.
Apart ==
    \A t, u \in Thread : t # u /\ home[t] = home[u] => Busy(t) \cap Busy(u) = {}
\* Nor do two processes, and what is held in a shared file is locked.
System ==
    /\ \A l \in fcntl : l.kind = "exclusive"
    /\ \A l, m \in fcntl : l.byte = m.byte => l.process = m.process
    /\ \A t \in Thread : shared[home[t]] =>
           \A b \in held[t] : \E l \in Of(home[t]) : l.byte = b
Safe == TypeOK /\ Counting /\ Handles /\ Replacing /\ Lists /\ Apart /\ System

LEMMA RangeFacts ==
  /\ Bytes(NoRange) = {}
  /\ \A r \in Ranges : r \in Flock /\ r # NoRange /\ Bytes(r) \in SUBSET Byte
<1>1. Bytes(NoRange) = {}
  BY DEF Bytes, NoRange, End
<1>2. \A r \in Ranges : r \in Flock /\ r # NoRange
  BY RangeAssumption DEF Flock, NoRange
<1> QED BY <1>1, <1>2 DEF Byte

\* What an operation makes of the list.
LEMMA LockLists ==
  ASSUME Safe, NEW t \in Thread, NEW r \in Ranges, Lock(t, r)
  PROVE  LET l == Added(pLocks[home[t]], r) IN
         /\ pLocks' = [pLocks EXCEPT ![home[t]] = l]
         /\ l \in SUBSET Flock /\ Separated(l)
         /\ Covered(l) = Covered(pLocks[home[t]]) \cup Bytes(r)
         /\ \A u \in Thread : home[u] = home[t] => Busy(u) \cap Bytes(r) = {}
<1>1. /\ home[t] \in Process /\ pLocks[home[t]] \in SUBSET Flock
      /\ Separated(pLocks[home[t]]) /\ r \in Flock
  BY ThreadAssumption, RangeFacts DEF Safe, TypeOK, Lists
<1>2. ~Conflict(pLocks[home[t]], r)
  BY DEF Lock
<1>3. \A b \in Bytes(r) : b \notin Covered(pLocks[home[t]])
  <2> SUFFICES ASSUME NEW b \in Bytes(r), NEW s \in pLocks[home[t]], b \in Bytes(s)
               PROVE  FALSE
    BY InCovered
  <2>1. s \in Flock /\ ~Overlap(r, s)
    BY <1>1, <1>2 DEF Conflict
  <2> QED BY <1>1, <2>1, InBytes DEF Overlap, Flock, End
<1>4. \A u \in Thread : home[u] = home[t] => Busy(u) \subseteq Covered(pLocks[home[t]])
  BY <1>1 DEF Safe, Lists, Here
<1>5. pLocks' = [pLocks EXCEPT ![home[t]] = Added(pLocks[home[t]], r)]
  BY DEF Lock, Listed
<1> QED BY <1>1, <1>2, <1>3, <1>4, <1>5, AddedCovers

LEMMA CutLists ==
  ASSUME Safe, NEW t \in Thread, NEW r \in Ranges, Bytes(r) \subseteq Busy(t)
  PROVE  LET l == Cut(pLocks[home[t]], r) IN
         /\ InOne(pLocks[home[t]], r)
         /\ l \in SUBSET Flock /\ Separated(l)
         /\ Covered(l) = Covered(pLocks[home[t]]) \ Bytes(r)
<1>1. /\ home[t] \in Process /\ pLocks[home[t]] \in SUBSET Flock
      /\ Separated(pLocks[home[t]]) /\ r \in Flock
  BY ThreadAssumption, RangeFacts DEF Safe, TypeOK, Lists
<1>2. Busy(t) \subseteq Covered(pLocks[home[t]])
  BY <1>1 DEF Safe, Lists, Here
<1> QED BY <1>1, <1>2, CoveredInOne, CutCovers

-----------------------------------------------------------------------------
(* Every step keeps to each part of it                                     *)

LEMMA InitSafe ==
  ASSUME Init
  PROVE  Safe
<1> USE RangeFacts DEF Init
<1>1. TypeOK
  BY DEF TypeOK, Access, Calls
<1>2. \A p \in Process : Users(p) = {}
  BY DEF Users, Here
<1>3. \A t \in Thread : Busy(t) = {}
  BY DEF Busy, InHand
<1>4. Counting
  BY <1>2, FS_EmptySet, ThreadAssumption DEF Counting
<1>5. Handles
  BY <1>3 DEF Handles, Calls, InHand
<1>6. Replacing
  BY DEF Replacing
<1>7. Lists
  <2>1. \A p \in Process : UNION {Busy(t) : t \in Here(p)} = {}
    BY <1>3 DEF Here
  <2> QED BY <2>1 DEF Lists, Separated, Covered
<1>8. Apart
  BY <1>3 DEF Apart
<1>9. System
  BY DEF System
<1> QED BY <1>1, <1>4, <1>5, <1>6, <1>7, <1>8, <1>9 DEF Safe

LEMMA TypeKept ==
  ASSUME Safe, [Next]_vars
  PROVE  TypeOK'
<1>0. TypeOK
  BY DEF Safe
<1>a. ASSUME NEW t \in Thread, NEW r \in Ranges, Lock(t, r)
      PROVE  pLocks' \in [Process -> SUBSET Flock]
  BY <1>0, <1>a, LockLists DEF TypeOK
<1>b. ASSUME NEW t \in Thread, NEW r \in Ranges, Bytes(r) \subseteq Busy(t),
             pLocks' = [pLocks EXCEPT ![home[t]] = Cut(pLocks[home[t]], r)]
      PROVE  pLocks' \in [Process -> SUBSET Flock]
  BY <1>0, <1>b, CutLists DEF TypeOK
<1>c. \A r \in Ranges : Bytes(r) \in SUBSET Byte
  BY RangeFacts
<1>d. \A t \in Thread : pc[t] \in Calls => arg[t] \in Ranges /\ Bytes(arg[t]) \subseteq Busy(t)
  BY DEF Safe, Handles, Busy, InHand
<1> USE ThreadAssumption, ModeAssumption
    DEF TypeOK, Access, Calls, Goto, With, Return, Got, Listed, locks, file
<1>1. ASSUME NEW t \in Thread, NEW iMode \in Modes, NEW fShared \in BOOLEAN,
             Open(t, iMode, fShared)
      PROVE  TypeOK'
  BY <1>0, <1>1 DEF Open
<1>2. ASSUME NEW t \in Thread, Look(t) PROVE TypeOK'
  BY <1>0, <1>2 DEF Look
<1>3. ASSUME NEW t \in Thread, CloseReplaced(t) PROVE TypeOK'
  BY <1>0, <1>3 DEF CloseReplaced
<1>4. ASSUME NEW t \in Thread, Close(t) PROVE TypeOK'
  BY <1>0, <1>4 DEF Close
<1>5. ASSUME NEW t \in Thread, NEW r \in Ranges, Lock(t, r) PROVE TypeOK'
  <2>1. /\ pLocks' \in [Process -> SUBSET Flock]
        /\ Bytes(r) \in SUBSET Byte
    BY <1>a, <1>c, <1>5
  <2>2. /\ UNCHANGED <<used, shared, mode, hFile, fcntl, s_fileMtx, handle>>
        /\ \/ pc' = [pc EXCEPT ![t] = "locking"] /\ arg' = [arg EXCEPT ![t] = r]
              /\ UNCHANGED held
           \/ held' = [held EXCEPT ![t] = @ \cup Bytes(r)] /\ UNCHANGED <<pc, arg>>
    BY <1>5 DEF Lock
  <2> QED BY <1>0, <2>1, <2>2
<1>6. ASSUME NEW t \in Thread, NEW r \in Ranges, Unlock(t, r) PROVE TypeOK'
  <2>1. pLocks' \in [Process -> SUBSET Flock]
    BY <1>0, <1>b, <1>6 DEF Unlock, Busy
  <2> QED BY <1>0, <1>6, <2>1 DEF Unlock
<1>7. ASSUME NEW t \in Thread, LockInOS(t) PROVE TypeOK'
  BY <1>0, <1>c, <1>d, <1>7 DEF LockInOS, Kind
<1>8. ASSUME NEW t \in Thread, Refuse(t) PROVE TypeOK'
  BY <1>0, <1>8 DEF Refuse
<1>9. ASSUME NEW t \in Thread, UnlockInOS(t) PROVE TypeOK'
  BY <1>0, <1>9 DEF UnlockInOS
<1>10. ASSUME NEW t \in Thread, Unlist(t) PROVE TypeOK'
  <2>1. pLocks' \in [Process -> SUBSET Flock]
    BY <1>0, <1>b, <1>d, <1>10 DEF Unlist
  <2> QED BY <1>0, <1>10, <2>1 DEF Unlist
<1>11. ASSUME NEW p \in Process, Die(p) PROVE TypeOK'
  BY <1>0, <1>11 DEF Die
<1>12. CASE UNCHANGED vars
  BY <1>0, <1>12 DEF vars
<1> QED
  BY <1>1, <1>2, <1>3, <1>4, <1>5, <1>6, <1>7, <1>8, <1>9, <1>10, <1>11, <1>12
     DEF Next, Step

\* Calls that change no handle.
Quiet(t) ==
    \/ Look(t) \/ CloseReplaced(t)
    \/ \E r \in Ranges : Lock(t, r) \/ Unlock(t, r)
    \/ LockInOS(t) \/ Refuse(t) \/ UnlockInOS(t) \/ Unlist(t)
LEMMA QuietHandles ==
  ASSUME NEW t \in Thread, Quiet(t)
  PROVE  UNCHANGED <<used, shared, mode, hFile, handle>>
BY DEF Quiet, Look, CloseReplaced, Lock, Unlock, LockInOS, Refuse, UnlockInOS,
       Unlist, file

LEMMA CountingKept ==
  ASSUME Safe, [Next]_vars
  PROVE  Counting'
<1>0. TypeOK /\ Counting
  BY DEF Safe
<1>h. \A t \in Thread : home[t] \in Process
  BY ThreadAssumption
<1>1. ASSUME NEW t \in Thread, NEW iMode \in Modes, NEW fShared \in BOOLEAN,
             Open(t, iMode, fShared)
      PROVE  Counting'
  <2>1. /\ handle[t] = "none" /\ handle' = [handle EXCEPT ![t] = iMode] /\ iMode # "none"
        /\ used' = [used EXCEPT ![home[t]] = @ + 1]
        /\ \A q \in Process : used[q] > 0 => fShared /\ shared[q]
        /\ \/ used[home[t]] = 0 /\ shared' = [shared EXCEPT ![home[t]] = fShared]
           \/ used[home[t]] > 0 /\ UNCHANGED shared
    BY <1>1, ModeAssumption DEF Open, Admitted
  <2>2. t \notin Users(home[t]) /\ Users(home[t])' = Users(home[t]) \cup {t}
    BY <1>0, <2>1 DEF Users, Here, TypeOK
  <2>3. \A p \in Process : p # home[t] => Users(p)' = Users(p)
    BY <1>0, <2>1 DEF Users, Here, TypeOK
  <2>4. /\ IsFiniteSet(Users(home[t])')
        /\ Cardinality(Users(home[t])') = Cardinality(Users(home[t])) + 1
    BY <1>0, <1>h, <2>2, FS_AddElement DEF Counting
  <2>5. \A p \in Process : IsFiniteSet(Users(p)') /\ used'[p] = Cardinality(Users(p)')
    BY <1>0, <1>h, <2>1, <2>3, <2>4 DEF Counting, TypeOK
  <2>6. \A p, q \in Process : p # q /\ used'[p] > 0 /\ used'[q] > 0 =>
                              shared'[p] /\ shared'[q]
    BY <1>0, <1>h, <2>1 DEF Counting, TypeOK
  <2> QED BY <2>5, <2>6 DEF Counting
<1>2. ASSUME NEW t \in Thread, Close(t) PROVE Counting'
  <2>1. /\ handle[t] # "none" /\ handle' = [handle EXCEPT ![t] = "none"]
        /\ used' = [used EXCEPT ![home[t]] = @ - 1] /\ UNCHANGED shared
    BY <1>2 DEF Close
  <2>2. t \in Users(home[t]) /\ Users(home[t])' = Users(home[t]) \ {t}
    BY <1>0, <2>1 DEF Users, Here, TypeOK
  <2>3. \A p \in Process : p # home[t] => Users(p)' = Users(p)
    BY <1>0, <2>1 DEF Users, Here, TypeOK
  <2>4. /\ IsFiniteSet(Users(home[t])')
        /\ Cardinality(Users(home[t])') = Cardinality(Users(home[t])) - 1
    BY <1>0, <1>h, <2>2, FS_RemoveElement DEF Counting
  <2>5. \A p \in Process : IsFiniteSet(Users(p)') /\ used'[p] = Cardinality(Users(p)')
    BY <1>0, <1>h, <2>1, <2>3, <2>4 DEF Counting, TypeOK
  <2>6. \A p, q \in Process : p # q /\ used'[p] > 0 /\ used'[q] > 0 =>
                              shared'[p] /\ shared'[q]
    BY <1>0, <1>h, <2>1 DEF Counting, TypeOK
  <2> QED BY <2>5, <2>6 DEF Counting
<1>3. ASSUME NEW p \in Process, Die(p) PROVE Counting'
  <2>1. /\ used' = [used EXCEPT ![p] = 0] /\ UNCHANGED shared
        /\ \A t \in Thread : handle'[t] = IF home[t] = p THEN "none" ELSE handle[t]
    BY <1>3 DEF Die
  <2>2. \A q \in Process : Users(q)' = IF q = p THEN {} ELSE Users(q)
    BY <2>1 DEF Users, Here
  <2>3. \A q \in Process : IsFiniteSet(Users(q)') /\ used'[q] = Cardinality(Users(q)')
    BY <1>0, <2>1, <2>2, FS_EmptySet DEF Counting, TypeOK
  <2> QED BY <1>0, <2>1, <2>3 DEF Counting, TypeOK
<1>4. ASSUME UNCHANGED <<used, shared, handle>> PROVE Counting'
  BY <1>0, <1>4 DEF Counting, Users
<1>5. ASSUME NEW t \in Thread, Quiet(t) PROVE Counting'
  BY <1>4, <1>5, QuietHandles
<1>6. CASE UNCHANGED vars
  BY <1>4, <1>6 DEF vars, file
<1> QED
  BY <1>1, <1>2, <1>3, <1>5, <1>6 DEF Next, Step, Quiet

\* What a step does to what each thread is about, and to the list.
Grows(t, r) ==
    /\ \A u \in Thread : Busy(u)' = IF u = t THEN Busy(t) \cup Bytes(r) ELSE Busy(u)
    /\ Lock(t, r)
Shrinks(t, r) ==
    /\ Bytes(r) \subseteq Busy(t)
    /\ \A u \in Thread : Busy(u)' = IF u = t THEN Busy(t) \ Bytes(r) ELSE Busy(u)
    /\ pLocks' = [pLocks EXCEPT ![home[t]] = Cut(pLocks[home[t]], r)]
Empties(p) ==
    /\ \A u \in Thread : Busy(u)' = IF home[u] = p THEN {} ELSE Busy(u)
    /\ pLocks' = [pLocks EXCEPT ![p] = {}]
Stays ==
    /\ \A u \in Thread : Busy(u)' = Busy(u)
    /\ UNCHANGED pLocks

\* Whose file is not in use, or is about to be closed, is not about anything.
LEMMA NothingLeft ==
  ASSUME Safe, NEW p \in Process
  PROVE  /\ used[p] = 0 => Users(p) = {}
         /\ \A t \in Users(p) : used[p] = 1 => Users(p) = {t}
         /\ \A t \in Here(p) \ Users(p) : Busy(t) = {}
<1>1. IsFiniteSet(Users(p)) /\ used[p] = Cardinality(Users(p))
  BY DEF Safe, Counting
<1>2. used[p] = 0 => Users(p) = {}
  BY <1>1, FS_EmptySet
<1>3. ASSUME NEW t \in Users(p), used[p] = 1 PROVE Users(p) = {t}
  <2>1. /\ IsFiniteSet(Users(p) \ {t})
        /\ Cardinality(Users(p) \ {t}) = Cardinality(Users(p)) - 1
    BY <1>1, FS_RemoveElement
  <2>2. Cardinality(Users(p) \ {t}) = 0
    BY <1>1, <1>3, <2>1
  <2>3. Users(p) \ {t} = {}
    BY <2>1, <2>2, FS_EmptySet
  <2> QED BY <2>3
<1>4. \A t \in Here(p) \ Users(p) : Busy(t) = {}
  BY DEF Safe, Handles, Users, Here
<1> QED BY <1>2, <1>3, <1>4

LEMMA BusyChanges ==
  ASSUME Safe, [Next]_vars
  PROVE  \/ \E t \in Thread, r \in Ranges : Grows(t, r) \/ Shrinks(t, r)
         \/ \E p \in Process : Empties(p)
         \/ Stays
<1>0. /\ TypeOK
      /\ \A t \in Thread : pc[t] \in Calls <=> arg[t] # NoRange
      /\ \A t \in Thread : arg[t] # NoRange => arg[t] \in Ranges
      /\ \A t \in Thread : held[t] \cap InHand(t) = {}
  BY DEF Safe, Handles
<1>h. \A t \in Thread : home[t] \in Process
  BY ThreadAssumption
<1>r. Bytes(NoRange) = {} /\ "run" \notin Calls
  BY RangeFacts DEF Calls
<1>1. ASSUME UNCHANGED <<pLocks, held, arg>> PROVE Stays
  BY <1>1 DEF Stays, Busy, InHand
<1>2. ASSUME NEW t \in Thread, NEW iMode \in Modes, NEW fShared \in BOOLEAN,
             Open(t, iMode, fShared)
      PROVE  Stays
  BY <1>1, <1>2 DEF Open, locks
<1>3. ASSUME NEW t \in Thread, Look(t) PROVE Stays
  BY <1>1, <1>3 DEF Look, locks
<1>4. ASSUME NEW t \in Thread, CloseReplaced(t) PROVE Stays
  BY <1>1, <1>4 DEF CloseReplaced
<1>5. ASSUME NEW t \in Thread, Close(t) PROVE Stays \/ Empties(home[t])
  <2>1. CASE used[home[t]] > 1
    BY <1>1, <1>5, <2>1 DEF Close
  <2>2. CASE used[home[t]] = 1
    <3>1. t \in Users(home[t]) /\ Busy(t) = {} /\ UNCHANGED <<held, arg>>
          /\ Listed(home[t], {})
      BY <1>0, <1>r, <1>5, <2>2 DEF Close, Busy, InHand, Users, Here
    <3>2. \A u \in Here(home[t]) : Busy(u) = {}
      BY <1>h, <2>2, <3>1, NothingLeft
    <3>3. \A u \in Thread : Busy(u)' = Busy(u)
      BY <3>1 DEF Busy, InHand
    <3> QED BY <3>1, <3>2, <3>3 DEF Empties, Listed, Here
  <2> QED BY <1>5, <2>1, <2>2 DEF Close
<1>6. ASSUME NEW t \in Thread, NEW r \in Ranges, Lock(t, r) PROVE Grows(t, r)
  <2>1. arg[t] = NoRange
    BY <1>0, <1>r, <1>6 DEF Lock, Locks
  <2>2. \/ arg' = [arg EXCEPT ![t] = r] /\ UNCHANGED held
        \/ held' = [held EXCEPT ![t] = @ \cup Bytes(r)] /\ UNCHANGED arg
    BY <1>6 DEF Lock, With, Got
  <2> QED BY <1>0, <1>r, <1>6, <2>1, <2>2 DEF Grows, Busy, InHand, TypeOK
<1>7. ASSUME NEW t \in Thread, NEW r \in Ranges, Unlock(t, r)
      PROVE  Stays \/ Shrinks(t, r)
  <2>1. /\ arg[t] = NoRange /\ Bytes(r) \subseteq held[t]
        /\ held' = [held EXCEPT ![t] = @ \ Bytes(r)]
    BY <1>0, <1>r, <1>7 DEF Unlock, Locks
  <2>2. CASE arg' = [arg EXCEPT ![t] = r] /\ UNCHANGED pLocks
    BY <1>0, <1>r, <2>1, <2>2 DEF Stays, Busy, InHand, TypeOK
  <2>3. CASE UNCHANGED arg /\ Listed(home[t], Cut(pLocks[home[t]], r))
    BY <1>0, <1>r, <2>1, <2>3 DEF Shrinks, Busy, InHand, TypeOK, Listed
  <2> QED BY <1>7, <2>2, <2>3 DEF Unlock, With
<1>8. ASSUME NEW t \in Thread, LockInOS(t) PROVE Stays
  <2>1. /\ held' = [held EXCEPT ![t] = @ \cup Bytes(arg[t])]
        /\ arg' = [arg EXCEPT ![t] = NoRange] /\ UNCHANGED pLocks
    BY <1>8 DEF LockInOS, Got, Return, With
  <2> QED BY <1>0, <1>r, <2>1 DEF Stays, Busy, InHand, TypeOK
<1>9. ASSUME NEW t \in Thread, Refuse(t) PROVE Stays
  BY <1>1, <1>9 DEF Refuse, locks
<1>10. ASSUME NEW t \in Thread, UnlockInOS(t) PROVE Stays
  BY <1>1, <1>10 DEF UnlockInOS
<1>11. ASSUME NEW t \in Thread, Unlist(t)
       PROVE  arg[t] \in Ranges /\ Shrinks(t, arg[t])
  <2>1. /\ arg[t] \in Ranges
        /\ arg' = [arg EXCEPT ![t] = NoRange] /\ UNCHANGED held
        /\ Listed(home[t], Cut(pLocks[home[t]], arg[t]))
    BY <1>0, <1>11 DEF Unlist, Return, With, Calls
  <2> QED BY <1>0, <1>r, <2>1 DEF Shrinks, Busy, InHand, TypeOK, Listed
<1>12. ASSUME NEW p \in Process, Die(p) PROVE Empties(p)
  <2>1. /\ \A t \in Thread : held'[t] = IF home[t] = p THEN {} ELSE held[t]
        /\ \A t \in Thread : arg'[t] = IF home[t] = p THEN NoRange ELSE arg[t]
        /\ Listed(p, {})
    BY <1>12 DEF Die
  <2> QED BY <1>r, <2>1 DEF Empties, Busy, InHand, Listed
<1>13. CASE UNCHANGED vars
  BY <1>1, <1>13 DEF vars, locks
<1> QED
  BY <1>h, <1>2, <1>3, <1>4, <1>5, <1>6, <1>7, <1>8, <1>9, <1>10, <1>11, <1>12, <1>13
     DEF Next, Step

\* No two threads of a process come to be about the same byte.
LEMMA ApartKept ==
  ASSUME Safe, [Next]_vars
  PROVE  Apart'
<1>0. Apart
  BY DEF Safe
<1>1. ASSUME NEW t \in Thread, NEW r \in Ranges, Grows(t, r) PROVE Apart'
  <2>1. \A u \in Thread : home[u] = home[t] => Busy(u) \cap Bytes(r) = {}
    BY <1>1, LockLists DEF Grows
  <2> QED BY <1>0, <1>1, <2>1 DEF Apart, Grows
<1>2. ASSUME NEW t \in Thread, NEW r \in Ranges, Shrinks(t, r) PROVE Apart'
  BY <1>0, <1>2 DEF Apart, Shrinks
<1>3. ASSUME NEW p \in Process, Empties(p) PROVE Apart'
  BY <1>0, <1>3 DEF Apart, Empties
<1>4. ASSUME Stays PROVE Apart'
  BY <1>0, <1>4 DEF Apart, Stays
<1> QED BY <1>1, <1>2, <1>3, <1>4, BusyChanges

LEMMA ListsKept ==
  ASSUME Safe, [Next]_vars
  PROVE  Lists'
<1> DEFINE All(p) == UNION {Busy(t) : t \in Here(p)}
<1>0. TypeOK /\ Lists /\ Apart
  BY DEF Safe
<1>h. \A t \in Thread : home[t] \in Process
  BY ThreadAssumption
<1>a. \A p \in Process : \A b : b \in All(p) <=> \E t \in Thread : home[t] = p /\ b \in Busy(t)
  BY DEF Here
<1>b. \A p \in Process : \A b : b \in All(p)' <=> \E t \in Thread : home[t] = p /\ b \in Busy(t)'
  BY DEF Here
<1>c. \A p \in Process : Separated(pLocks[p]) /\ Covered(pLocks[p]) = All(p)
  BY <1>0 DEF Lists
<1>d. Lists' <=> \A p \in Process : Separated(pLocks'[p]) /\ Covered(pLocks'[p]) = All(p)'
  BY DEF Lists, Separated, Covered
<1> HIDE DEF All
<1>1. ASSUME NEW t \in Thread, NEW r \in Ranges, Grows(t, r) PROVE Lists'
  <2> DEFINE l == Added(pLocks[home[t]], r)
  <2>1. /\ pLocks' = [pLocks EXCEPT ![home[t]] = l] /\ Separated(l)
        /\ Covered(l) = Covered(pLocks[home[t]]) \cup Bytes(r)
    BY <1>1, LockLists DEF Grows
  <2>2. \A u \in Thread : Busy(u)' = IF u = t THEN Busy(t) \cup Bytes(r) ELSE Busy(u)
    BY <1>1 DEF Grows
  <2> HIDE DEF l
  <2>3. All(home[t])' = All(home[t]) \cup Bytes(r)
    BY <1>a, <1>b, <1>h, <2>2
  <2>4. \A p \in Process : p # home[t] => All(p)' = All(p)
    BY <1>a, <1>b, <2>2
  <2> QED BY <1>0, <1>c, <1>d, <1>h, <2>1, <2>3, <2>4 DEF TypeOK
<1>2. ASSUME NEW t \in Thread, NEW r \in Ranges, Shrinks(t, r) PROVE Lists'
  <2> DEFINE l == Cut(pLocks[home[t]], r)
  <2>1. /\ pLocks' = [pLocks EXCEPT ![home[t]] = l] /\ Separated(l)
        /\ Covered(l) = Covered(pLocks[home[t]]) \ Bytes(r)
    BY <1>2, CutLists DEF Shrinks
  <2>2. /\ \A u \in Thread : Busy(u)' = IF u = t THEN Busy(t) \ Bytes(r) ELSE Busy(u)
        /\ Bytes(r) \subseteq Busy(t)
    BY <1>2 DEF Shrinks
  <2> HIDE DEF l
  <2>3. \A u \in Thread : u # t /\ home[u] = home[t] => Busy(u) \cap Bytes(r) = {}
    BY <1>0, <2>2 DEF Apart
  <2>4. All(home[t])' = All(home[t]) \ Bytes(r)
    <3>1. ASSUME NEW b PROVE b \in All(home[t])' <=> b \in All(home[t]) /\ b \notin Bytes(r)
      BY <1>a, <1>b, <1>h, <2>2, <2>3
    <3> QED BY <3>1
  <2>5. ASSUME NEW p \in Process, p # home[t] PROVE All(p)' = All(p)
    <3>1. ASSUME NEW b PROVE b \in All(p)' <=> b \in All(p)
      BY <1>a, <1>b, <2>2, <2>5
    <3> QED BY <3>1
  <2> QED BY <1>0, <1>c, <1>d, <1>h, <2>1, <2>4, <2>5 DEF TypeOK
<1>3. ASSUME NEW p \in Process, Empties(p) PROVE Lists'
  <2>1. /\ \A u \in Thread : Busy(u)' = IF home[u] = p THEN {} ELSE Busy(u)
        /\ pLocks' = [pLocks EXCEPT ![p] = {}]
    BY <1>3 DEF Empties
  <2>2. \A q \in Process : \A b : b \in All(q)' <=> q # p /\ b \in All(q)
    BY <1>a, <1>b, <2>1
  <2>3. \A q \in Process : All(q)' = IF q = p THEN {} ELSE All(q)
    BY <2>2
  <2>4. Separated({}) /\ Covered({}) = {}
    BY DEF Separated, Covered
  <2> QED BY <1>0, <1>c, <1>d, <2>1, <2>3, <2>4 DEF TypeOK
<1>4. ASSUME Stays PROVE Lists'
  <2>1. (\A u \in Thread : Busy(u)' = Busy(u)) /\ pLocks' = pLocks
    BY <1>4 DEF Stays
  <2>2. \A p \in Process : All(p)' = All(p)
    BY <1>a, <1>b, <2>1
  <2> QED BY <1>c, <1>d, <2>1, <2>2
<1> QED BY <1>1, <1>2, <1>3, <1>4, BusyChanges

LEMMA HandlesKept ==
  ASSUME Safe, [Next]_vars, LockModes = {"readwrite"}
  PROVE  Handles'
<1>0. TypeOK /\ Handles
  BY DEF Safe
<1>h. \A t \in Thread : home[t] \in Process
  BY ThreadAssumption
<1>r. Bytes(NoRange) = {} /\ "run" \notin Calls
  BY RangeFacts DEF Calls
<1>1. ASSUME NEW t \in Thread, NEW iMode \in Modes, NEW fShared \in BOOLEAN,
             Open(t, iMode, fShared)
      PROVE  Handles'
  <2>1. /\ handle[t] = "none" /\ pc[t] = "run" /\ UNCHANGED <<arg, held>>
        /\ handle' = [handle EXCEPT ![t] = iMode] /\ iMode # "none"
        /\ \/ used[home[t]] = 0 /\ mode' = [mode EXCEPT ![home[t]] = iMode] /\ UNCHANGED pc
           \/ mode[home[t]] \in {"readwrite", iMode} /\ UNCHANGED <<mode, pc>>
           \/ /\ mode' = [mode EXCEPT ![home[t]] = "readwrite"]
              /\ pc' = [pc EXCEPT ![t] = "replaced"]
    BY <1>1, ModeAssumption DEF Open, Goto, locks
  <2>2. \A u \in Thread : Busy(u)' = Busy(u)
    BY <2>1 DEF Busy, InHand
  <2>3. Busy(t) = {} /\ arg[t] = NoRange
    BY <1>0, <1>r, <2>1 DEF Handles
  <2>4. used[home[t]] = 0 => \A u \in Here(home[t]) : handle[u] = "none"
    BY <1>h, NothingLeft DEF Users
  <2>5. ASSUME NEW u \in Thread, handle'[u] = "readwrite"
        PROVE  mode'[home[u]] = "readwrite"
    BY <1>0, <1>h, <2>1, <2>4, <2>5 DEF Handles, TypeOK, Here
  <2>6. ASSUME NEW u \in Thread
        PROVE  /\ handle'[u] = "none" => pc'[u] = "run"
               /\ Busy(u)' # {} => handle'[u] = "readwrite"
               /\ pc'[u] \in Calls <=> arg'[u] # NoRange
               /\ arg'[u] # NoRange => arg'[u] \in Ranges
               /\ held'[u] \cap InHand(u)' = {}
    BY <1>0, <2>1, <2>2, <2>3 DEF Handles, TypeOK, Calls, InHand
  <2> QED BY <2>5, <2>6 DEF Handles
<1>2. ASSUME NEW t \in Thread, Close(t) PROVE Handles'
  <2>1. /\ pc[t] = "run" /\ held[t] = {}
        /\ handle' = [handle EXCEPT ![t] = "none"] /\ UNCHANGED <<mode, held, pc, arg>>
    BY <1>2 DEF Close
  <2>2. \A u \in Thread : Busy(u)' = Busy(u)
    BY <2>1 DEF Busy, InHand
  <2>3. Busy(t) = {}
    BY <1>0, <1>r, <2>1 DEF Handles, Busy, InHand
  <2> QED BY <1>0, <2>1, <2>2, <2>3 DEF Handles, TypeOK, InHand
<1>3. ASSUME NEW p \in Process, Die(p) PROVE Handles'
  <2>1. /\ UNCHANGED mode
        /\ \A u \in Thread :
              /\ handle'[u] = IF home[u] = p THEN "none" ELSE handle[u]
              /\ pc'[u] = IF home[u] = p THEN "run" ELSE pc[u]
              /\ held'[u] = IF home[u] = p THEN {} ELSE held[u]
              /\ arg'[u] = IF home[u] = p THEN NoRange ELSE arg[u]
    BY <1>3 DEF Die
  <2> QED BY <1>0, <1>r, <2>1 DEF Handles, Busy, InHand
<1>4. ASSUME NEW t \in Thread, NEW r \in Ranges, Lock(t, r) PROVE Handles'
  <2>1. /\ pc[t] = "run" /\ arg[t] = NoRange /\ handle[t] = "readwrite"
        /\ UNCHANGED <<mode, handle>>
        /\ \/ pc' = [pc EXCEPT ![t] = "locking"] /\ arg' = [arg EXCEPT ![t] = r]
              /\ UNCHANGED held
           \/ held' = [held EXCEPT ![t] = @ \cup Bytes(r)] /\ UNCHANGED <<pc, arg>>
    BY <1>0, <1>r, <1>4 DEF Lock, Locks, With, Goto, Got, Handles, file
  <2>2. held[t] \cap Bytes(r) = {}
    BY <1>4, LockLists DEF Busy
  <2> QED BY <1>0, <1>r, <2>1, <2>2, RangeFacts DEF Handles, TypeOK, Busy, InHand, Calls
<1>5. ASSUME NEW t \in Thread, NEW r \in Ranges, Unlock(t, r) PROVE Handles'
  <2>1. /\ pc[t] = "run" /\ arg[t] = NoRange /\ handle[t] = "readwrite"
        /\ UNCHANGED <<mode, handle>>
        /\ held' = [held EXCEPT ![t] = @ \ Bytes(r)]
        /\ \/ pc' = [pc EXCEPT ![t] = "unlocking"] /\ arg' = [arg EXCEPT ![t] = r]
           \/ UNCHANGED <<pc, arg>>
    BY <1>0, <1>r, <1>5 DEF Unlock, Locks, With, Goto, Handles, file
  <2> QED BY <1>0, <1>r, <2>1, RangeFacts DEF Handles, TypeOK, Busy, InHand, Calls
<1>6. ASSUME NEW t \in Thread, LockInOS(t) PROVE Handles'
  <2>1. /\ pc[t] = "locking" /\ UNCHANGED <<mode, handle>>
        /\ held' = [held EXCEPT ![t] = @ \cup Bytes(arg[t])]
        /\ pc' = [pc EXCEPT ![t] = "run"] /\ arg' = [arg EXCEPT ![t] = NoRange]
    BY <1>6 DEF LockInOS, Got, Return, With, Goto, file
  <2> QED BY <1>0, <1>r, <2>1 DEF Handles, TypeOK, Busy, InHand, Calls
<1>7. ASSUME NEW t \in Thread, Unlist(t) PROVE Handles'
  <2>1. /\ pc[t] = "unlisting" /\ UNCHANGED <<mode, handle, held>>
        /\ pc' = [pc EXCEPT ![t] = "run"] /\ arg' = [arg EXCEPT ![t] = NoRange]
    BY <1>7 DEF Unlist, Return, With, Goto, file
  <2> QED BY <1>0, <1>r, <2>1 DEF Handles, TypeOK, Busy, InHand, Calls
<1>8. ASSUME NEW t \in Thread, Refuse(t) \/ UnlockInOS(t) PROVE Handles'
  <2>1. /\ pc[t] \in Calls /\ UNCHANGED <<mode, handle, held, arg>>
        /\ pc' = [pc EXCEPT ![t] = "unlisting"]
    BY <1>8 DEF Refuse, UnlockInOS, Goto, file, locks, Calls
  <2> QED BY <1>0, <1>r, <2>1 DEF Handles, TypeOK, Busy, InHand, Calls
<1>9. ASSUME NEW t \in Thread, Look(t) \/ CloseReplaced(t) PROVE Handles'
  <2>1. /\ pc[t] \in {"replaced", "closing"} /\ UNCHANGED <<mode, handle, held, arg>>
        /\ \E s \in {"run", "closing"} : pc' = [pc EXCEPT ![t] = s]
    BY <1>9 DEF Look, CloseReplaced, Goto, file, locks
  <2>2. \A u \in Thread : /\ pc'[u] \in Calls <=> pc[u] \in Calls
                          /\ pc[u] = "run" => pc'[u] = "run"
    BY <1>0, <2>1 DEF TypeOK, Calls
  <2> QED BY <1>0, <2>1, <2>2 DEF Handles, Busy, InHand
<1>10. CASE UNCHANGED vars
  BY <1>0, <1>10 DEF vars, file, locks, Handles, Busy, InHand
<1> QED
  BY <1>1, <1>2, <1>3, <1>4, <1>5, <1>6, <1>7, <1>8, <1>9, <1>10 DEF Next, Step

LEMMA ReplacingKept ==
  ASSUME Safe, [Next]_vars, LockModes = {"readwrite"}
  PROVE  Replacing'
<1> DEFINE Old == {"replaced", "closing"}
<1>0. TypeOK /\ Replacing /\ Handles
  BY DEF Safe
<1>h. /\ \A t \in Thread : home[t] \in Process
      /\ NoThread \notin Thread
  BY ThreadAssumption
<1>1. ASSUME NEW t \in Thread, NEW iMode \in Modes, NEW fShared \in BOOLEAN,
             Open(t, iMode, fShared)
      PROVE  Replacing'
  <2>1. /\ handle[t] = "none" /\ pc[t] = "run" /\ UNCHANGED held
        /\ s_fileMtx[home[t]] = NoThread
        /\ handle' = [handle EXCEPT ![t] = iMode]
        /\ \/ UNCHANGED <<pc, s_fileMtx>>
           \/ /\ mode[home[t]] # "readwrite"
              /\ pc' = [pc EXCEPT ![t] = "replaced"]
              /\ s_fileMtx' = [s_fileMtx EXCEPT ![home[t]] = t]
    BY <1>1 DEF Open, Goto, locks, Admitted
  <2>2. held[t] = {}
    BY <1>0, <2>1 DEF Handles, Busy
  <2>3. \A u \in Here(home[t]) : pc[u] \notin Old
    BY <1>0, <1>h, <2>1 DEF Replacing, Here
  <2>4. mode[home[t]] # "readwrite" => \A u \in Here(home[t]) : handle[u] # "readwrite"
    BY <1>0 DEF Handles, Here
  <2>5. ASSUME NEW u \in Thread, pc'[u] \in Old
        PROVE  /\ s_fileMtx'[home[u]] = u
               /\ held'[u] = {}
               /\ \A v \in Here(home[u]) : v # u => handle'[v] # "readwrite"
    <3>1. CASE u = t
      BY <1>0, <1>h, <2>1, <2>2, <2>4, <2>5, <3>1 DEF TypeOK, Here
    <3>2. CASE u # t
      <4>1. pc[u] \in Old /\ home[u] # home[t]
        BY <1>0, <2>1, <2>3, <2>5, <3>2 DEF TypeOK, Here
      <4> QED BY <1>0, <1>h, <2>1, <4>1 DEF Replacing, TypeOK, Here
    <3> QED BY <3>1, <3>2
  <2> QED BY <2>5 DEF Replacing, Here
<1>2. ASSUME NEW t \in Thread, Look(t) \/ CloseReplaced(t) PROVE Replacing'
  <2>1. /\ pc[t] \in Old /\ UNCHANGED <<handle, held>>
        /\ \/ pc' = [pc EXCEPT ![t] = "closing"] /\ UNCHANGED s_fileMtx
           \/ /\ pc' = [pc EXCEPT ![t] = "run"]
              /\ s_fileMtx' = [s_fileMtx EXCEPT ![home[t]] = NoThread]
    BY <1>2 DEF Look, CloseReplaced, Goto, locks
  <2>2. \A u \in Thread : home[u] = home[t] /\ pc[u] \in Old => u = t
    BY <1>0, <2>1 DEF Replacing
  <2> QED BY <1>0, <1>h, <2>1, <2>2 DEF Replacing, TypeOK, Here
<1>3. ASSUME NEW t \in Thread, Close(t) PROVE Replacing'
  <2>1. /\ handle' = [handle EXCEPT ![t] = "none"]
        /\ UNCHANGED <<held, pc, s_fileMtx>>
    BY <1>3 DEF Close
  <2> QED BY <1>0, <2>1 DEF Replacing, TypeOK, Here
<1>4. ASSUME NEW p \in Process, Die(p) PROVE Replacing'
  <2>1. /\ s_fileMtx' = [s_fileMtx EXCEPT ![p] = NoThread]
        /\ \A u \in Thread :
              /\ handle'[u] = IF home[u] = p THEN "none" ELSE handle[u]
              /\ pc'[u] = IF home[u] = p THEN "run" ELSE pc[u]
              /\ held'[u] = IF home[u] = p THEN {} ELSE held[u]
    BY <1>4 DEF Die
  <2> QED BY <1>0, <1>h, <2>1 DEF Replacing, TypeOK, Here
<1>5. ASSUME NEW t \in Thread, pc[t] \notin Old, UNCHANGED <<handle, s_fileMtx>>,
             \E s \in {"run"} \cup Calls : pc' = [pc EXCEPT ![t] = s] \/ pc' = pc,
             \A u \in Thread : u # t => held'[u] = held[u]
      PROVE  Replacing'
  BY <1>0, <1>5 DEF Replacing, TypeOK, Here, Calls
<1> DEFINE Call(t) == \/ \E r \in Ranges : Lock(t, r) \/ Unlock(t, r)
                      \/ LockInOS(t) \/ Refuse(t) \/ UnlockInOS(t) \/ Unlist(t)
<1>6. ASSUME NEW t \in Thread, Call(t) PROVE Replacing'
  <2>1. pc[t] \in {"run"} \cup Calls /\ UNCHANGED <<handle, s_fileMtx>>
    BY <1>6 DEF Lock, Unlock, Locks, LockInOS, Refuse, UnlockInOS, Unlist, Calls
  <2>2. \E s \in {"run"} \cup Calls : pc' = [pc EXCEPT ![t] = s] \/ pc' = pc
    BY <1>6 DEF Lock, Unlock, LockInOS, Refuse, UnlockInOS, Unlist, Goto, With, Return, Calls
  <2>3. \A u \in Thread : u # t => held'[u] = held[u]
    BY <1>0, <1>6 DEF Lock, Unlock, LockInOS, Refuse, UnlockInOS, Unlist, Got, locks, TypeOK
  <2> QED BY <1>5, <2>1, <2>2, <2>3 DEF Calls
<1>7. CASE UNCHANGED vars
  BY <1>0, <1>7 DEF vars, locks, Replacing
<1> QED BY <1>1, <1>2, <1>3, <1>4, <1>6, <1>7 DEF Next, Step

\* What a thread asks the operating system for is asked for through a handle for
\* reading and writing.
LEMMA LocksExclusive ==
  ASSUME Safe, NEW t \in Thread, pc[t] = "locking"
  PROVE  Kind(home[t]) = "exclusive" /\ handle[t] = "readwrite"
<1>1. arg[t] \in Ranges
  BY DEF Safe, Handles, Calls
<1>2. arg[t].start \in Bytes(arg[t])
  BY <1>1, InBytes, RangeFacts DEF Flock, End
<1>3. Busy(t) # {}
  BY <1>2 DEF Busy, InHand
<1> QED BY <1>3 DEF Safe, Handles, Kind

LEMMA SystemKept ==
  ASSUME Safe, [Next]_vars, LockModes = {"readwrite"}
  PROVE  System'
<1>0. TypeOK /\ System /\ Replacing /\ Handles /\ Apart
  BY DEF Safe
<1>h. \A t \in Thread : home[t] \in Process
  BY ThreadAssumption
<1>r. Bytes(NoRange) = {} /\ "run" \notin Calls
  BY RangeFacts DEF Calls
<1> DEFINE Seen == \A t \in Thread : shared[home[t]] =>
                       \A b \in held[t] : \E l \in fcntl : l.process = home[t] /\ l.byte = b
<1>s. System <=> /\ \A l \in fcntl : l.kind = "exclusive"
                 /\ \A l, m \in fcntl : l.byte = m.byte => l.process = m.process
                 /\ Seen
  BY DEF System, Of
<1>s1. System' <=> /\ \A l \in fcntl' : l.kind = "exclusive"
                   /\ \A l, m \in fcntl' : l.byte = m.byte => l.process = m.process
                   /\ Seen'
  BY DEF System, Of
<1>1. ASSUME fcntl' \subseteq fcntl, Seen' PROVE System'
  BY <1>0, <1>1, <1>s, <1>s1
<1>2. ASSUME UNCHANGED <<shared, fcntl>>, \A t \in Thread : held'[t] \subseteq held[t]
      PROVE  System'
  BY <1>0, <1>1, <1>2, <1>s
\* All locks of the operating system go where nothing is held.
<1>3. ASSUME NEW p \in Process, UNCHANGED shared, fcntl' = fcntl \ Of(p),
             \A t \in Thread : held'[t] \subseteq held[t],
             \A t \in Here(p) : held'[t] = {}
      PROVE  System'
  <2>1. ASSUME NEW t \in Thread, shared'[home[t]], NEW b \in held'[t]
        PROVE  \E l \in fcntl' : l.process = home[t] /\ l.byte = b
    <3>1. home[t] # p
      BY <1>3, <2>1 DEF Here
    <3>2. PICK l \in fcntl : l.process = home[t] /\ l.byte = b
      BY <1>0, <1>3, <1>s, <2>1
    <3> QED BY <1>3, <3>1, <3>2 DEF Of
  <2> QED BY <1>1, <1>3, <2>1
<1>4. ASSUME NEW t \in Thread, NEW iMode \in Modes, NEW fShared \in BOOLEAN,
             Open(t, iMode, fShared)
      PROVE  System'
  <2>1. /\ UNCHANGED <<fcntl, held>>
        /\ \/ UNCHANGED shared
           \/ used[home[t]] = 0 /\ shared' = [shared EXCEPT ![home[t]] = fShared]
    BY <1>4 DEF Open, locks
  <2>2. CASE UNCHANGED shared
    BY <1>2, <2>1, <2>2
  <2>3. CASE used[home[t]] = 0 /\ shared' = [shared EXCEPT ![home[t]] = fShared]
    <3>1. \A u \in Here(home[t]) : held[u] = {}
      BY <1>h, <2>3, NothingLeft DEF Busy
    <3>2. \A u \in Thread : u \notin Here(home[t]) => shared'[home[u]] = shared[home[u]]
      BY <1>0, <1>h, <2>3 DEF TypeOK, Here
    <3>3. Seen'
      BY <1>0, <1>s, <2>1, <3>1, <3>2
    <3> QED BY <1>1, <2>1, <3>3
  <2> QED BY <2>1, <2>2, <2>3
<1>5. ASSUME NEW t \in Thread, CloseReplaced(t) PROVE System'
  <2>1. /\ pc[t] = "closing" /\ fcntl' = fcntl \ Of(home[t]) /\ UNCHANGED <<shared, held>>
    BY <1>5 DEF CloseReplaced, file
  <2>2. \A u \in Here(home[t]) : held[u] = {}
    BY <1>0, <2>1 DEF Replacing, Handles, Busy, Here
  <2> QED BY <1>3, <1>h, <2>1, <2>2
<1>6. ASSUME NEW t \in Thread, Close(t) PROVE System'
  <2>1. /\ UNCHANGED <<shared, held>>
        /\ \/ fcntl' = fcntl
           \/ used[home[t]] = 1 /\ fcntl' = fcntl \ Of(home[t])
        /\ t \in Users(home[t]) /\ held[t] = {}
    BY <1>6 DEF Close, Users, Here
  <2>2. used[home[t]] = 1 => \A u \in Here(home[t]) : held[u] = {}
    BY <1>h, <2>1, NothingLeft DEF Busy
  <2> QED BY <1>2, <1>3, <1>h, <2>1, <2>2
<1>7. ASSUME NEW t \in Thread, NEW r \in Ranges, Lock(t, r) PROVE System'
  <2>1. /\ UNCHANGED <<shared, fcntl>>
        /\ \/ UNCHANGED held
           \/ ~shared[home[t]] /\ held' = [held EXCEPT ![t] = @ \cup Bytes(r)]
    BY <1>7 DEF Lock, Got, file
  <2>2. Seen'
    BY <1>0, <1>s, <2>1 DEF TypeOK
  <2> QED BY <1>1, <2>1, <2>2
<1>8. ASSUME NEW t \in Thread, NEW r \in Ranges, Unlock(t, r) PROVE System'
  <2>1. UNCHANGED <<shared, fcntl>> /\ held' = [held EXCEPT ![t] = @ \ Bytes(r)]
    BY <1>8 DEF Unlock, file
  <2> QED BY <1>0, <1>2, <2>1 DEF TypeOK
<1>9. ASSUME NEW t \in Thread, LockInOS(t) PROVE System'
  <2> DEFINE S == Bytes(arg[t])
             new == [process : {home[t]}, byte : S, kind : {"exclusive"}]
  <2>1. Kind(home[t]) = "exclusive"
    BY <1>9, LocksExclusive DEF LockInOS
  <2>2. /\ fcntl' = {l \in fcntl : l.process # home[t] \/ l.byte \notin S} \cup new
        /\ held' = [held EXCEPT ![t] = @ \cup S]
        /\ UNCHANGED shared
        /\ \A l \in fcntl : l.process # home[t] /\ l.byte \in S => l.kind = "shared"
    BY <1>9, <2>1 DEF LockInOS, Lockable, Got, file
  <2> HIDE DEF S
  <2>3. \A l \in fcntl : l.byte \in S => l.process = home[t]
    BY <1>0, <1>s, <2>2
  <2>4. \A l \in new : l.process = home[t] /\ l.byte \in S /\ l.kind = "exclusive"
    OBVIOUS
  <2>5. \A b \in S : \E l \in new : l.process = home[t] /\ l.byte = b
    <3> SUFFICES ASSUME NEW b \in S PROVE \E l \in new : l.process = home[t] /\ l.byte = b
      OBVIOUS
    <3> DEFINE l == [process |-> home[t], byte |-> b, kind |-> "exclusive"]
    <3>1. l \in new /\ l.process = home[t] /\ l.byte = b
      OBVIOUS
    <3> QED BY <3>1
  <2> HIDE DEF new
  <2>6. \A l \in fcntl' : l.kind = "exclusive"
    BY <1>0, <1>s, <2>2, <2>4
  <2>7. \A l, m \in fcntl' : l.byte = m.byte => l.process = m.process
    BY <1>0, <1>s, <2>2, <2>3, <2>4
  <2>8. ASSUME NEW u \in Thread, shared'[home[u]], NEW b \in held'[u]
        PROVE  \E l \in fcntl' : l.process = home[u] /\ l.byte = b
    <3>1. CASE u = t /\ b \in S
      BY <2>2, <2>5, <3>1
    <3>2. CASE ~(u = t /\ b \in S)
      <4>1. b \in held[u]
        BY <1>0, <2>2, <2>8, <3>2 DEF TypeOK
      <4>2. PICK l \in fcntl : l.process = home[u] /\ l.byte = b
        BY <1>0, <1>s, <2>2, <2>8, <4>1
      <4>3. CASE b \in S
        BY <2>2, <2>3, <2>5, <4>2, <4>3
      <4>4. CASE b \notin S
        BY <2>2, <4>2, <4>4
      <4> QED BY <4>3, <4>4
    <3> QED BY <3>1, <3>2
  <2> QED BY <1>s1, <2>6, <2>7, <2>8
<1>10. ASSUME NEW t \in Thread, UnlockInOS(t) PROVE System'
  <2>1. /\ fcntl' = {l \in fcntl : l.process # home[t] \/ l.byte \notin InHand(t)}
        /\ UNCHANGED <<shared, held>>
    BY <1>10 DEF UnlockInOS, file, InHand
  <2>2. \A u \in Thread : home[u] = home[t] => held[u] \cap InHand(t) = {}
    BY <1>0 DEF Apart, Handles, Busy
  <2>3. ASSUME NEW u \in Thread, shared'[home[u]], NEW b \in held'[u]
        PROVE  \E l \in fcntl' : l.process = home[u] /\ l.byte = b
    <3>1. PICK l \in fcntl : l.process = home[u] /\ l.byte = b
      BY <1>0, <1>s, <2>1, <2>3
    <3> QED BY <2>1, <2>2, <2>3, <3>1
  <2> QED BY <1>1, <2>1, <2>3
<1>11. ASSUME NEW t \in Thread, Look(t) \/ Refuse(t) \/ Unlist(t) PROVE System'
  <2>1. UNCHANGED <<shared, fcntl, held>>
    BY <1>11 DEF Look, Refuse, Unlist, file, locks
  <2> QED BY <1>2, <2>1
<1>12. ASSUME NEW p \in Process, Die(p) PROVE System'
  <2>1. /\ UNCHANGED shared /\ fcntl' = fcntl \ Of(p)
        /\ \A t \in Thread : held'[t] = IF t \in Here(p) THEN {} ELSE held[t]
    BY <1>12 DEF Die, Here
  <2> QED BY <1>3, <2>1 DEF Here
<1>13. CASE UNCHANGED vars
  BY <1>2, <1>13 DEF vars, file, locks
<1> QED
  BY <1>4, <1>5, <1>6, <1>7, <1>8, <1>9, <1>10, <1>11, <1>12, <1>13 DEF Next, Step

THEOREM SafeAlways ==
  ASSUME LockModes = {"readwrite"}
  PROVE  Spec => []Safe
<1>1. Safe /\ [Next]_vars => Safe'
  BY TypeKept, CountingKept, HandlesKept, ReplacingKept, ListsKept, ApartKept,
     SystemKept DEF Safe
<1> QED BY <1>1, InitSafe, PTL DEF Spec

-----------------------------------------------------------------------------
(* Theorems                                                                *)

\* The types hold of every file, whatever ranges are locked in it.
THEOREM TypeCorrect == LockModes = {"readwrite"} => (Spec => []TypeOK)
<1> SUFFICES ASSUME LockModes = {"readwrite"} PROVE Spec => []TypeOK
  OBVIOUS
<1>1. Safe => TypeOK
  BY DEF Safe
<1> QED BY <1>1, SafeAlways, PTL

\* The list of ranges covers what threads have locked and no more, and what they
\* have locked is locked in the operating system (s_fileLock, hb_fileSetLock,
\* hb_fileUnlock).
THEOREM LocksAlwaysAgree == LockModes = {"readwrite"} => (Spec => []LocksAgree)
<1> SUFFICES ASSUME LockModes = {"readwrite"} PROVE Spec => []LocksAgree
  OBVIOUS
<1>1. Safe => LocksAgree
  BY DEF Safe, LocksAgree, Lists, System, Busy, Here
<1> QED BY <1>1, SafeAlways, PTL

-----------------------------------------------------------------------------
(* Threads have for themselves what they lock                              *)

OneHolder(h) == \A t, u \in Thread : \A b : b \in h[t] /\ b \in h[u] => t = u

LEMMA HoldersApart ==
  ASSUME Safe, NEW t \in Thread, NEW u \in Thread, home[t] # home[u],
         Busy(t) # {}, Busy(u) # {}
  PROVE  shared[home[t]] /\ shared[home[u]]
<1>1. home[t] \in Process /\ home[u] \in Process
  BY ThreadAssumption
<1>2. t \in Users(home[t]) /\ u \in Users(home[u])
  BY DEF Safe, Handles, Users, Here
<1>3. used[home[t]] > 0 /\ used[home[u]] > 0
  BY <1>1, <1>2, NothingLeft DEF Safe, TypeOK
<1> QED BY <1>1, <1>3 DEF Safe, Counting

LEMMA OneHolds ==
  ASSUME Safe
  PROVE  OneHolder(held)
<1> SUFFICES ASSUME NEW t \in Thread, NEW u \in Thread, NEW b, b \in held[t], b \in held[u]
             PROVE  t = u
  BY DEF OneHolder
<1>1. CASE home[t] = home[u]
  BY <1>1 DEF Safe, Apart, Busy
<1>2. CASE home[t] # home[u]
  <2>1. shared[home[t]] /\ shared[home[u]]
    BY <1>2, HoldersApart DEF Busy
  <2>2. PICK l \in fcntl, m \in fcntl : /\ l.process = home[t] /\ l.byte = b
                                       /\ m.process = home[u] /\ m.byte = b
    BY <2>1 DEF Safe, System, Of
  <2> QED BY <1>2, <2>2 DEF Safe, System
<1> QED BY <1>1, <1>2

\* What a thread comes to hold, nobody held.
LEMMA NobodyHeld ==
  ASSUME Safe, NEW t \in Thread, NEW r,
         \/ r \in Ranges /\ Lock(t, r) /\ ~shared[home[t]]
         \/ r = arg[t] /\ LockInOS(t),
         NEW u \in Thread
  PROVE  held[u] \cap Bytes(r) = {}
<1>1. CASE r \in Ranges /\ Lock(t, r) /\ ~shared[home[t]]
  <2>1. CASE home[u] = home[t]
    BY <1>1, <2>1, LockLists DEF Busy
  <2>2. CASE home[u] # home[t]
    <3>1. home[t] \in Process /\ home[u] \in Process
      BY ThreadAssumption
    <3>2. t \in Users(home[t])
      BY <1>1, ModeAssumption DEF Lock, Locks, Users, Here, Safe, TypeOK, Access
    <3>3. used[home[t]] > 0
      BY <3>1, <3>2, NothingLeft DEF Safe, TypeOK
    <3>4. ~(used[home[u]] > 0)
      BY <1>1, <2>2, <3>1, <3>3 DEF Safe, Counting
    <3>5. u \in Here(home[u]) \ Users(home[u])
      BY <3>1, <3>4, NothingLeft DEF Safe, TypeOK, Here
    <3> QED BY <3>1, <3>5, NothingLeft DEF Busy
  <2> QED BY <2>1, <2>2
<1>2. CASE r = arg[t] /\ LockInOS(t)
  <2>1. Bytes(r) = InHand(t) /\ pc[t] = "locking" /\ Lockable(home[t], r)
    BY <1>2 DEF InHand, LockInOS
  <2>2. CASE u = t
    BY <2>1, <2>2 DEF Safe, Handles
  <2>3. CASE u # t /\ home[u] = home[t]
    BY <2>1, <2>3 DEF Safe, Apart, Busy
  <2>4. CASE home[u] # home[t]
    <3> SUFFICES ASSUME NEW b \in held[u], b \in Bytes(r) PROVE FALSE
      OBVIOUS
    <3>1. shared[home[u]]
      BY <2>1, <2>4, HoldersApart DEF Busy
    <3>2. PICK l \in fcntl : l.process = home[u] /\ l.byte = b
      BY <3>1 DEF Safe, System, Of
    <3>3. l.kind = "exclusive"
      BY <3>2 DEF Safe, System
    <3> QED BY <2>1, <2>4, <3>2, <3>3 DEF Lockable
  <2> QED BY <2>2, <2>3, <2>4
<1> QED BY <1>1, <1>2

OwnerIn(h, b) == IF \E t \in Thread : b \in h[t]
                 THEN CHOOSE t \in Thread : b \in h[t] ELSE NoThread
LEMMA OwnerHolds ==
  ASSUME NEW h, OneHolder(h), NEW b
  PROVE  /\ \A t \in Thread : OwnerIn(h, b) = t <=> b \in h[t]
         /\ OwnerIn(h, b) = NoThread <=> \A t \in Thread : b \notin h[t]
BY ThreadAssumption DEF OneHolder, OwnerIn

LEMMA Promised ==
  ASSUME Safe, [Next]_vars
  PROVE  Promise!Next \/ UNCHANGED [b \in Byte |-> Owner(b)]
<1> DEFINE owner == [b \in Byte |-> OwnerIn(held, b)]
<1>0. TypeOK /\ OneHolder(held)
  BY OneHolds DEF Safe
<1>h. \A t \in Thread : home[t] \in Process
  BY ThreadAssumption
<1>o. /\ [b \in Byte |-> Owner(b)] = owner
      /\ [b \in Byte |-> Owner(b)]' = [b \in Byte |-> OwnerIn(held', b)]
  BY DEF Owner, OwnerIn
<1>p. /\ \A t \in Thread : \A S : Promise!Acquire(t, S) <=>
             /\ \A b \in S : owner[b] = NoThread
             /\ owner' = [b \in Byte |-> IF b \in S THEN t ELSE owner[b]]
      /\ \A t \in Thread : \A S : Promise!Release(t, S) <=>
             /\ S \subseteq {b \in Byte : owner[b] = t}
             /\ owner' = [b \in Byte |-> IF b \in S THEN NoThread ELSE owner[b]]
      /\ \A T : Promise!Die(T) <=>
             owner' = [b \in Byte |-> IF b \in UNION {{c \in Byte : owner[c] = t} : t \in T}
                                      THEN NoThread ELSE owner[b]]
  BY <1>o DEF Promise!Acquire, Promise!Release, Promise!Die, Promise!Given, Promise!Free,
              Promise!Owned
<1>1. ASSUME UNCHANGED held PROVE UNCHANGED [b \in Byte |-> Owner(b)]
  BY <1>1, <1>o
\* A thread gets bytes that nobody held.
<1>2. ASSUME NEW t \in Thread, NEW S \in SUBSET Byte,
             held' = [held EXCEPT ![t] = @ \cup S],
             \A u \in Thread : held[u] \cap S = {}
      PROVE  Promise!Next
  <2>1. OneHolder(held')
    BY <1>0, <1>2 DEF OneHolder, TypeOK
  <2>2. \A b \in S : OwnerIn(held, b) = NoThread
    BY <1>0, <1>2, OwnerHolds
  <2>3. \A b \in S : OwnerIn(held', b) = t
    <3>1. \A b \in S : b \in held'[t]
      BY <1>0, <1>2 DEF TypeOK
    <3> QED BY <2>1, <3>1, OwnerHolds
  <2>4. ASSUME NEW b \in Byte \ S PROVE OwnerIn(held', b) = OwnerIn(held, b)
    <3>1. \A u \in Thread : b \in held'[u] <=> b \in held[u]
      BY <1>0, <1>2 DEF TypeOK
    <3> QED BY <3>1 DEF OwnerIn
  <2>5. Promise!Acquire(t, S)
    BY <1>p, <2>2, <2>3, <2>4
  <2> QED BY <2>5 DEF Promise!Next
\* A thread gives bytes back.
<1>3. ASSUME NEW t \in Thread, NEW S \in SUBSET Byte, S \subseteq held[t],
             held' = [held EXCEPT ![t] = @ \ S]
      PROVE  Promise!Next
  <2>1. OneHolder(held')
    BY <1>0, <1>3 DEF OneHolder, TypeOK
  <2>2. \A b \in S : OwnerIn(held, b) = t
    BY <1>0, <1>3, OwnerHolds
  <2>3. \A b \in S : OwnerIn(held', b) = NoThread
    <3> SUFFICES ASSUME NEW b \in S, NEW u \in Thread, b \in held'[u] PROVE FALSE
      BY <2>1, OwnerHolds
    <3> QED BY <1>0, <1>3 DEF OneHolder, TypeOK
  <2>4. ASSUME NEW b \in Byte \ S PROVE OwnerIn(held', b) = OwnerIn(held, b)
    <3>1. \A u \in Thread : b \in held'[u] <=> b \in held[u]
      BY <1>0, <1>3 DEF TypeOK
    <3> QED BY <3>1 DEF OwnerIn
  <2>5. Promise!Release(t, S)
    BY <1>p, <2>2, <2>3, <2>4
  <2> QED BY <2>5 DEF Promise!Next
<1>4. ASSUME NEW p \in Process, Die(p) PROVE Promise!Next
  <2>1. \A t \in Thread : held'[t] = IF t \in Here(p) THEN {} ELSE held[t]
    BY <1>4 DEF Die, Here
  <2>2. OneHolder(held') /\ Here(p) \subseteq Thread
    BY <1>0, <2>1 DEF OneHolder, Here
  <2>3. ASSUME NEW b \in Byte
        PROVE  OwnerIn(held', b) = IF \E t \in Here(p) : OwnerIn(held, b) = t
                                   THEN NoThread ELSE OwnerIn(held, b)
    <3>1. CASE \E t \in Here(p) : OwnerIn(held, b) = t
      <4>1. PICK t \in Here(p) : b \in held[t]
        BY <1>0, <2>2, <3>1, OwnerHolds
      <4>2. \A u \in Thread : b \notin held'[u]
        BY <1>0, <2>1, <2>2, <4>1 DEF OneHolder
      <4> QED BY <2>2, <3>1, <4>2, OwnerHolds
    <3>2. CASE ~ \E t \in Here(p) : OwnerIn(held, b) = t
      <4>1. \A t \in Here(p) : b \notin held[t]
        BY <1>0, <2>2, <3>2, OwnerHolds
      <4>2. \A u \in Thread : b \in held'[u] <=> b \in held[u]
        BY <2>1, <4>1
      <4>3. OwnerIn(held', b) = OwnerIn(held, b)
        BY <4>2 DEF OwnerIn
      <4> QED BY <3>2, <4>3
    <3> QED BY <3>1, <3>2
  <2>4. \A b \in Byte : b \in UNION {{c \in Byte : owner[c] = t} : t \in Here(p)}
                        <=> \E t \in Here(p) : OwnerIn(held, b) = t
    OBVIOUS
  <2>5. Promise!Die(Here(p))
    BY <1>p, <2>3, <2>4
  <2> QED BY <2>2, <2>5 DEF Promise!Next
<1>5. ASSUME NEW t \in Thread, NEW r \in Ranges, Lock(t, r)
      PROVE  Promise!Next \/ UNCHANGED held
  <2>1. CASE UNCHANGED held
    BY <2>1
  <2>2. CASE ~shared[home[t]] /\ held' = [held EXCEPT ![t] = @ \cup Bytes(r)]
    <3>1. \A u \in Thread : held[u] \cap Bytes(r) = {}
      BY <1>5, <2>2, NobodyHeld
    <3> QED BY <1>2, <2>2, <3>1, RangeFacts
  <2> QED BY <1>5, <2>1, <2>2 DEF Lock, Got
<1>6. ASSUME NEW t \in Thread, LockInOS(t) PROVE Promise!Next
  <2>1. held' = [held EXCEPT ![t] = @ \cup Bytes(arg[t])] /\ Bytes(arg[t]) \in SUBSET Byte
    BY <1>6, RangeFacts DEF LockInOS, Got, Safe, Handles, Calls
  <2>2. \A u \in Thread : held[u] \cap Bytes(arg[t]) = {}
    BY <1>6, NobodyHeld
  <2> QED BY <1>2, <2>1, <2>2
<1>7. ASSUME NEW t \in Thread, NEW r \in Ranges, Unlock(t, r) PROVE Promise!Next
  BY <1>3, <1>7, RangeFacts DEF Unlock
<1>8. ASSUME NEW t \in Thread,
             \/ \E iMode \in Modes, fShared \in BOOLEAN : Open(t, iMode, fShared)
             \/ Look(t) \/ CloseReplaced(t) \/ Close(t)
             \/ Refuse(t) \/ UnlockInOS(t) \/ Unlist(t)
      PROVE  UNCHANGED held
  BY <1>8 DEF Open, Look, CloseReplaced, Close, Refuse, UnlockInOS, Unlist, locks
<1>9. CASE UNCHANGED vars
  BY <1>1, <1>9 DEF vars, locks
<1> QED
  BY <1>1, <1>4, <1>5, <1>6, <1>7, <1>8, <1>9 DEF Next, Step

\* A thread that has locked a byte has it for itself until it unlocks it or its
\* process dies, whatever the other threads and processes do (s_fileLock).
THEOREM ImplementsByteLocks == LockModes = {"readwrite"} => (Spec => ByteLocksSpec)
<1> SUFFICES ASSUME LockModes = {"readwrite"} PROVE Spec => Promise!Spec
  BY DEF ByteLocksSpec
<1>1. Init => Promise!Init
  <2> SUFFICES ASSUME Init PROVE Promise!Init
    OBVIOUS
  <2>1. \A b \in Byte : Owner(b) = NoThread
    BY DEF Init, Owner
  <2> QED BY <2>1 DEF Promise!Init
<1>2. Safe /\ [Next]_vars => [Promise!Next]_([b \in Byte |-> Owner(b)])
  BY Promised
<1> QED BY <1>1, <1>2, SafeAlways, PTL DEF Spec, Promise!Spec

-----------------------------------------------------------------------------
(* The array of ranges                                                     *)

\* Induction, in terms of sets: a set of naturals has a least element, since of
\* the finite sets 0..n one has no other inside it.
LEMMA Least ==
  ASSUME NEW T \in SUBSET Nat, T # {}
  PROVE  \E m \in T : \A n \in T : m <= n
<1> DEFINE Below == {0..n : n \in T}
<1>1. \A n \in T : 0..n \in SUBSET Nat /\ IsFiniteSet(0..n)
  BY FS_Interval
<1>2. Below \subseteq FiniteSubsetsOf(Nat) /\ Below # {}
  BY <1>1 DEF FiniteSubsetsOf
<1>3. PICK B \in Below : \A C \in Below : <<C, B>> \notin StrictSubsetOrdering(Nat)
  BY <1>2, FS_StrictSubsetOrderingWellFounded, WFMin, Zenon
<1>4. PICK m \in T : B = 0..m
  BY <1>3
<1>5. ASSUME NEW n \in T, n < m
      PROVE  FALSE
  <2>1. 0..n \in Below /\ 0..n \subseteq 0..m /\ m \in 0..m /\ m \notin 0..n
    BY <1>5
  <2>2. <<0..n, 0..m>> \in StrictSubsetOrdering(Nat)
    BY <2>1 DEF StrictSubsetOrdering
  <2> QED BY <1>3, <1>4, <2>1, <2>2
<1> QED BY <1>5

LEMMA Induction ==
  ASSUME NEW T, 0 \in T, \A n \in Nat : n \in T => n + 1 \in T
  PROVE  \A n \in Nat : n \in T
<1> SUFFICES ASSUME Nat \ T # {} PROVE FALSE
  OBVIOUS
<1>1. PICK m \in Nat \ T : \A n \in Nat \ T : m <= n
  BY Least
<1>2. m # 0 /\ m - 1 \in Nat /\ m - 1 \in T
  BY <1>1
<1>3. (m - 1) + 1 = m
  BY <1>1
<1> QED BY <1>1, <1>2, <1>3

\* The array of a set of ranges that do not touch.
IsArrayOf(list, l) ==
    /\ list \in Seq(Flock)
    /\ l = {list[i] : i \in 1..Len(list)}
    /\ \A i, j \in 1..Len(list) : i < j => End(list[i]) < list[j].start

LEMMA Starts ==
  ASSUME NEW l \in SUBSET Flock, Separated(l), NEW r \in l, NEW s \in l
  PROVE  /\ r.start = s.start => r = s
         /\ r.start < s.start <=> End(r) < s.start
BY DEF Separated, Flock, End

LEMMA ArraysExist ==
  ASSUME NEW n \in Nat
  PROVE  \A l \in SUBSET Flock : Separated(l) /\ IsFiniteSet(l) /\ Cardinality(l) = n =>
            \E list \in [1..n -> l] :
               \A i, j \in 1..n : i < j => list[i].start < list[j].start
<1> DEFINE Has(l, m) == \E list \in [1..m -> l] :
                           \A i, j \in 1..m : i < j => list[i].start < list[j].start
           All(m) == \A l \in SUBSET Flock :
                        Separated(l) /\ IsFiniteSet(l) /\ Cardinality(l) = m => Has(l, m)
           T == {m \in Nat : All(m)}
<1>1. 0 \in T
  <2>1. ASSUME NEW l
        PROVE  Has(l, 0)
    <3>1. [i \in 1..0 |-> i] \in [1..0 -> l]
      OBVIOUS
    <3>2. \A i \in 1..0 : FALSE
      OBVIOUS
    <3> WITNESS [i \in 1..0 |-> i] \in [1..0 -> l]
    <3> QED BY <3>2
  <2> QED BY <2>1
<1>2. ASSUME NEW m \in Nat, m \in T
      PROVE  m + 1 \in T
  <2> SUFFICES ASSUME NEW l \in SUBSET Flock, Separated(l), IsFiniteSet(l), Cardinality(l) = m + 1
               PROVE  Has(l, m + 1)
    OBVIOUS
  <2>1. l # {}
    BY FS_EmptySet
  <2>2. PICK r \in l : \A s \in l : r.start <= s.start
    <3> DEFINE Begins == {s.start : s \in l}
    <3>1. Begins \in SUBSET Nat /\ Begins # {}
      BY <2>1 DEF Flock
    <3>2. PICK a \in Begins : \A b \in Begins : a <= b
      BY <3>1, Least
    <3> QED BY <3>2
  <2>3. Separated(l \ {r}) /\ IsFiniteSet(l \ {r}) /\ Cardinality(l \ {r}) = m
    BY FS_RemoveElement DEF Separated
  <2>4. Has(l \ {r}, m)
    BY <1>2, <2>3
  <2>5. PICK rest \in [1..m -> l \ {r}] :
           \A i, j \in 1..m : i < j => rest[i].start < rest[j].start
    BY <2>4
  <2> DEFINE list == [i \in 1..m + 1 |-> IF i = 1 THEN r ELSE rest[i - 1]]
  <2>6. list \in [1..m + 1 -> l]
    <3>1. \A i \in 1..m + 1 : i # 1 => i - 1 \in 1..m
      OBVIOUS
    <3> QED BY <2>5, <3>1
  <2>7. ASSUME NEW i \in 1..m + 1, NEW j \in 1..m + 1, i < j
        PROVE  list[i].start < list[j].start
    <3>1. j # 1 /\ j - 1 \in 1..m /\ list[j] = rest[j - 1]
      BY <2>7
    <3>2. CASE i = 1
      <4>1. rest[j - 1] \in l /\ rest[j - 1] # r
        BY <2>5, <3>1
      <4>2. r.start <= rest[j - 1].start /\ r.start # rest[j - 1].start
        BY <2>2, <4>1, Starts
      <4>3. r.start \in Nat /\ rest[j - 1].start \in Nat
        BY <4>1 DEF Flock
      <4> QED BY <3>1, <3>2, <4>2, <4>3
    <3>3. CASE i # 1
      <4>1. i - 1 \in 1..m /\ i - 1 < j - 1 /\ list[i] = rest[i - 1]
        BY <3>3, <2>7
      <4> QED BY <2>5, <3>1, <4>1
    <3> QED BY <3>2, <3>3
  <2> QED BY <2>6, <2>7
<1> HIDE DEF T
<1>3. \A m \in Nat : m \in T
  BY <1>1, <1>2, Induction
<1> USE DEF T
<1> QED BY <1>3

LEMMA SortedIsArray ==
  ASSUME NEW l \in SUBSET Flock, Separated(l), IsFiniteSet(l)
  PROVE  IsArrayOf(Sorted(l), l) /\ Len(Sorted(l)) = Cardinality(l)
<1> DEFINE n == Cardinality(l)
           list == Sorted(l)
<1>1. n \in Nat
  BY FS_CardinalityType
<1>2. /\ list \in [1..n -> l]
      /\ \A i, j \in 1..n : i < j => list[i].start < list[j].start
  BY <1>1, ArraysExist DEF Sorted
<1>3. Len(list) = n
  BY <1>1, <1>2
<1>4. \A i, j \in 1..n : i # j => list[i] # list[j]
  <2>1. \A i \in 1..n : list[i].start \in Nat
    BY <1>2 DEF Flock
  <2> SUFFICES ASSUME NEW i \in 1..n, NEW j \in 1..n, i # j, list[i] = list[j] PROVE FALSE
    OBVIOUS
  <2>2. i < j \/ j < i
    BY <1>1
  <2> QED BY <1>2, <2>1, <2>2
<1>5. list \in Surjection(1..n, l)
  <2>1. list \in Injection(1..n, l)
    BY <1>2, <1>4 DEF Injection, IsInjective
  <2>2. IsFiniteSet(1..n) /\ Cardinality(1..n) = n
    BY <1>1, FS_Interval
  <2> HIDE DEF list, n
  <2>3. Cardinality(1..n) = Cardinality(l)
    BY <2>2 DEF n
  <2> QED BY <2>1, <2>3, FS_Injection
<1>6. l = {list[i] : i \in 1..n}
  BY <1>2, <1>5 DEF Surjection
<1>7. \A i, j \in 1..n : i < j => End(list[i]) < list[j].start
  BY <1>2, Starts
<1>8. list \in Seq(Flock)
  BY <1>1, <1>2
<1> QED BY <1>3, <1>6, <1>7, <1>8 DEF IsArrayOf

\* There is only one.
LEMMA ArrayLength ==
  ASSUME NEW list, NEW l, IsArrayOf(list, l)
  PROVE  IsFiniteSet(l) /\ Cardinality(l) = Len(list) /\ l \in SUBSET Flock
<1>1. list \in [1..Len(list) -> l] /\ Len(list) \in Nat
  BY LenProperties DEF IsArrayOf
<1>2. \A i \in 1..Len(list) : list[i] \in Flock
  BY ElementOfSeq DEF IsArrayOf
<1>3. \A i, j \in 1..Len(list) : i # j => list[i] # list[j]
  <2> SUFFICES ASSUME NEW i \in 1..Len(list), NEW j \in 1..Len(list), i < j, list[i] = list[j]
               PROVE  FALSE
    BY <1>1
  <2> QED BY <1>2 DEF IsArrayOf, Flock, End
<1>4. list \in Bijection(1..Len(list), l)
  BY <1>1, <1>3 DEF IsArrayOf, Bijection, Injection, Surjection, IsInjective
<1>5. ExistsBijection(1..Len(list), l)
  BY <1>4 DEF ExistsBijection
<1> QED BY <1>1, <1>2, <1>5, FS_NatBijection, FS_CountingElements DEF IsArrayOf

LEMMA OneArray ==
  ASSUME NEW a, NEW b, NEW l, IsArrayOf(a, l), IsArrayOf(b, l)
  PROVE  a = b
<1> DEFINE n == Cardinality(l)
           T == {i \in 1..n : a[i] # b[i]}
<1>1. /\ n \in Nat /\ Len(a) = n /\ Len(b) = n
      /\ a \in Seq(Flock) /\ b \in Seq(Flock)
  BY ArrayLength, LenProperties DEF IsArrayOf
<1>2. ASSUME T # {}
      PROVE  FALSE
  <2>1. T \in SUBSET Nat
    OBVIOUS
  <2>2. PICK i \in T : \A k \in T : i <= k
    BY <1>2, <2>1, Least
  <2>3. \A k \in 1..n : a[k] \in Flock /\ b[k] \in Flock /\ a[k] \in l /\ b[k] \in l
    BY <1>1, ElementOfSeq DEF IsArrayOf
  <2>4. PICK j \in 1..n : a[i] = b[j]
    BY <1>1, <2>3 DEF IsArrayOf
  <2>5. PICK k \in 1..n : b[i] = a[k]
    BY <1>1, <2>3 DEF IsArrayOf
  <2>6. /\ \A p, q \in 1..n : p < q => a[p].start < a[q].start
        /\ \A p, q \in 1..n : p < q => b[p].start < b[q].start
        /\ \A p \in 1..n : a[p].start \in Nat /\ b[p].start \in Nat
    <3>1. /\ \A p, q \in 1..n : p < q => End(a[p]) < a[q].start
          /\ \A p, q \in 1..n : p < q => End(b[p]) < b[q].start
      BY <1>1 DEF IsArrayOf
    <3>2. \A r \in Flock : r.start \in Nat /\ End(r) \in Nat /\ r.start < End(r)
      BY DEF Flock, End
    <3>3. \A p \in 1..n : /\ a[p].start \in Nat /\ End(a[p]) \in Nat /\ a[p].start < End(a[p])
                          /\ b[p].start \in Nat /\ End(b[p]) \in Nat /\ b[p].start < End(b[p])
      BY <2>3, <3>2
    <3> QED BY <3>1, <3>3
  <2>7. \A p \in 1..n : p < i => a[p] = b[p]
    BY <2>2
  <2>8. i < j
    <3>1. j # i
      BY <2>4
    <3>2. ~(j < i)
      BY <2>4, <2>6, <2>7
    <3> QED BY <3>1, <3>2
  <2>9. i < k
    <3>1. k # i
      BY <2>5
    <3>2. ~(k < i)
      BY <2>5, <2>6, <2>7
    <3> QED BY <3>1, <3>2
  <2>10. a[i].start < b[i].start /\ b[i].start < a[i].start
    BY <2>4, <2>5, <2>6, <2>8, <2>9
  <2> QED BY <2>6, <2>10
<1> QED BY <1>1, <1>2, SeqEqual

LEMMA ArrayIsSorted ==
  ASSUME NEW list, NEW l, Separated(l), IsArrayOf(list, l)
  PROVE  list = Sorted(l)
BY ArrayLength, SortedIsArray, OneArray

\* Binary search.
LEMMA FindOffsetFinds ==
  ASSUME NEW l, NEW list, IsArrayOf(list, l), NEW nOffset \in Int
  PROVE  /\ FindOffset(list, nOffset) \in 0..Len(list)
         /\ \A i \in 1..Len(list) :
               End(list[i]) <= nOffset <=> i <= FindOffset(list, nOffset)
<1> DEFINE n == Len(list)
           Mid(ui) == (ui.first + ui.last) \div 2
           Up(ui) == [first |-> Mid(ui) + 1, last |-> ui.last]
           Down(ui) == [first |-> ui.first, last |-> Mid(ui)]
           Past(i) == End(list[i]) <= nOffset
           Is(ui, m) == /\ m \in ui.first..ui.last
                        /\ \A i \in 1..n : ui.first < i /\ i <= m => Past(i)
                        /\ \A i \in 1..n : m < i /\ i <= ui.last => ~Past(i)
           Body(f, ui) ==
             IF ui.first < ui.last
             THEN IF End(list[Mid(ui) + 1]) <= nOffset
                  THEN f[Up(ui)] ELSE f[Down(ui)]
             ELSE Mid(ui)
           Finds(f) == f = [ui \in Window(list) |-> Body(f, ui)]
<1>1. /\ n \in Nat
      /\ \A i, j \in 1..n : i < j /\ Past(j) => Past(i)
  <2>1. n \in Nat /\ \A i \in 1..n : list[i] \in Flock
    BY LenProperties, ElementOfSeq DEF IsArrayOf
  <2> QED BY <2>1 DEF IsArrayOf, Flock, End
<1>2. ASSUME NEW ui \in Window(list), ui.first < ui.last
      PROVE  /\ Mid(ui) \in Nat /\ ui.first <= Mid(ui) /\ Mid(ui) < ui.last
             /\ Up(ui) \in Window(list) /\ Up(ui).first = Mid(ui) + 1 /\ Up(ui).last = ui.last
             /\ Down(ui) \in Window(list) /\ Down(ui).first = ui.first /\ Down(ui).last = Mid(ui)
  BY <1>1, <1>2 DEF Window
<1>3. ASSUME NEW ui \in Window(list), ui.first <= ui.last
      PROVE  \E m : Is(ui, m)
  <2> DEFINE T == {k \in Nat : \/ k = ui.last
                               \/ ui.first <= k /\ k < ui.last /\ ~Past(k + 1)}
  <2>0. ui.first \in Nat /\ ui.last \in Nat
    BY <1>1 DEF Window
  <2>1. ui.last \in T /\ T \in SUBSET Nat
    BY <2>0
  <2>2. PICK m \in T : \A k \in T : m <= k
    BY <2>1, Least
  <2>3. m \in ui.first..ui.last
    BY <1>1, <1>3, <2>2 DEF Window
  <2>4. ASSUME NEW i \in 1..n, ui.first < i, i <= m
        PROVE  Past(i)
    <3>1. i - 1 \in Nat /\ i - 1 < m /\ i - 1 >= ui.first /\ i - 1 < ui.last /\ (i - 1) + 1 = i
      BY <1>1, <2>3, <2>4 DEF Window
    <3> HIDE DEF Past
    <3> QED BY <2>2, <3>1
  <2>5. ASSUME NEW i \in 1..n, m < i, i <= ui.last
        PROVE  ~Past(i)
    <3>1. m # ui.last /\ m + 1 \in 1..n /\ ~Past(m + 1)
      BY <1>1, <2>2, <2>3, <2>5 DEF Window
    <3>2. i = m + 1 \/ m + 1 < i
      BY <1>1, <2>2, <2>5
    <3> HIDE DEF Past
    <3> QED BY <1>1, <3>1, <3>2
  <2> QED BY <2>3, <2>4, <2>5
<1>4. ASSUME NEW ui \in Window(list), NEW m, NEW k, Is(ui, m), Is(ui, k)
      PROVE  m = k
  <2> HIDE DEF Past
  <2>1. m \in Int /\ k \in Int
    BY <1>4 DEF Window
  <2>2. ~(m < k)
    <3> SUFFICES ASSUME m < k PROVE FALSE
      OBVIOUS
    <3>1. m + 1 \in 1..n /\ ui.first < m + 1 /\ m + 1 <= k /\ m < m + 1 /\ m + 1 <= ui.last
      BY <1>1, <1>4, <2>1 DEF Window
    <3> QED BY <1>4, <3>1
  <2>3. ~(k < m)
    <3> SUFFICES ASSUME k < m PROVE FALSE
      OBVIOUS
    <3>1. k + 1 \in 1..n /\ ui.first < k + 1 /\ k + 1 <= m /\ k < k + 1 /\ k + 1 <= ui.last
      BY <1>1, <1>4, <2>1 DEF Window
    <3> QED BY <1>4, <3>1
  <2> QED BY <2>1, <2>2, <2>3
<1>5. ASSUME NEW ui \in Window(list), ui.first < ui.last, NEW m
      PROVE  /\ Past(Mid(ui) + 1) /\ Is(Up(ui), m) => Is(ui, m)
             /\ ~Past(Mid(ui) + 1) /\ Is(Down(ui), m) => Is(ui, m)
  <2>1. Mid(ui) + 1 \in 1..n /\ \A i \in 1..n : i < Mid(ui) + 1 \/ i = Mid(ui) + 1 \/ Mid(ui) + 1 < i
    BY <1>1, <1>2, <1>5 DEF Window
  <2>2. CASE Past(Mid(ui) + 1) /\ Is(Up(ui), m)
    <3> HIDE DEF Past, Mid, Up
    <3>1. m \in ui.first..ui.last
      BY <1>2, <1>5, <2>2 DEF Window
    <3>2. \A i \in 1..n : i <= Mid(ui) + 1 => Past(i)
      BY <1>1, <2>1, <2>2
    <3>3. /\ \A i \in 1..n : Mid(ui) + 1 < i /\ i <= m => Past(i)
          /\ \A i \in 1..n : m < i /\ i <= ui.last => ~Past(i)
      BY <1>2, <1>5, <2>2
    <3> QED BY <2>1, <3>1, <3>2, <3>3
  <2>3. CASE ~Past(Mid(ui) + 1) /\ Is(Down(ui), m)
    <3> HIDE DEF Past, Mid, Down
    <3>1. m \in ui.first..ui.last
      BY <1>2, <1>5, <2>3 DEF Window
    <3>2. \A i \in 1..n : Mid(ui) + 1 <= i => ~Past(i)
      BY <1>1, <2>1, <2>3
    <3>3. /\ \A i \in 1..n : ui.first < i /\ i <= m => Past(i)
          /\ \A i \in 1..n : m < i /\ i <= Mid(ui) => ~Past(i)
      BY <1>2, <1>5, <2>3
    <3>4. m \in Int /\ Mid(ui) \in Int
      BY <1>1, <1>2, <1>5, <3>1 DEF Window
    <3> QED BY <2>1, <3>1, <3>2, <3>3, <3>4
  <2> QED BY <2>2, <2>3
<1>6. \E f : Finds(f)
  <2> DEFINE g == [ui \in Window(list) |->
                     IF ui.first < ui.last THEN CHOOSE m : Is(ui, m) ELSE Mid(ui)]
  <2>1. ASSUME NEW ui \in Window(list), ui.first <= ui.last
        PROVE  Is(ui, g[ui])
    <3>1. CASE ui.first = ui.last
      BY <3>1, <1>1 DEF Window
    <3>2. CASE ui.first < ui.last
      <4>1. PICK m : Is(ui, m)
        BY <1>3, <2>1
      <4>2. Is(ui, CHOOSE k : Is(ui, k))
        BY <4>1
      <4> QED BY <3>2, <4>2
    <3> HIDE DEF Is, g
    <3>3. ui.first = ui.last \/ ui.first < ui.last
      BY <1>1, <2>1 DEF Window
    <3> QED BY <3>1, <3>2, <3>3
  <2>2. ASSUME NEW ui \in Window(list)
        PROVE  g[ui] = Body(g, ui)
    <3> HIDE DEF g, Is, Mid, Up, Down
    <3>1. CASE ~(ui.first < ui.last)
      BY <3>1 DEF g
    <3>2. CASE ui.first < ui.last /\ Past(Mid(ui) + 1)
      <4>1. Is(ui, g[ui]) /\ Is(Up(ui), g[Up(ui)])
        BY <1>1, <1>2, <2>1, <3>2 DEF Window
      <4>2. Is(ui, g[Up(ui)])
        BY <1>5, <3>2, <4>1
      <4>3. g[ui] = g[Up(ui)]
        BY <1>4, <4>1, <4>2
      <4> QED BY <3>2, <4>3
    <3>3. CASE ui.first < ui.last /\ ~Past(Mid(ui) + 1)
      <4>1. Is(ui, g[ui]) /\ Is(Down(ui), g[Down(ui)])
        BY <1>1, <1>2, <2>1, <3>3 DEF Window
      <4>2. Is(ui, g[Down(ui)])
        BY <1>5, <3>3, <4>1
      <4>3. g[ui] = g[Down(ui)]
        BY <1>4, <4>1, <4>2
      <4> QED BY <3>3, <4>3
    <3> QED BY <3>1, <3>2, <3>3
  <2> HIDE DEF Body
  <2>3. Finds(g)
    BY <2>2
  <2> QED BY <2>3
<1>7. PICK f : Finds(f) /\ FindOffset(list, nOffset) = f[[first |-> 0, last |-> n]]
  BY <1>6 DEF FindOffset
<1>8. ASSUME NEW k \in Nat
      PROVE  \A ui \in Window(list) : ui.first <= ui.last /\ ui.last - ui.first = k => Is(ui, f[ui])
  <2> DEFINE T == {i \in Nat : \E ui \in Window(list) :
                      ui.first <= ui.last /\ ui.last - ui.first = i /\ ~Is(ui, f[ui])}
  <2> SUFFICES ASSUME T # {} PROVE FALSE
    OBVIOUS
  <2>1. PICK i \in T : \A j \in T : i <= j
    BY Least
  <2>2. PICK ui \in Window(list) :
           ui.first <= ui.last /\ ui.last - ui.first = i /\ ~Is(ui, f[ui])
    BY <2>1
  <2> HIDE DEF Is, Mid, Up, Down
  <2>3. \A v \in Window(list) :
           v.first <= v.last /\ v.last - v.first < i => Is(v, f[v])
    <3> SUFFICES ASSUME NEW v \in Window(list), v.first <= v.last, v.last - v.first < i,
                        ~Is(v, f[v])
                 PROVE  FALSE
      OBVIOUS
    <3>1. v.first \in Nat /\ v.last \in Nat /\ i \in Nat
      BY <1>1 DEF Window
    <3>2. v.last - v.first \in T
      BY <3>1
    <3> HIDE DEF T
    <3> QED BY <2>1, <3>1, <3>2
  <2>4. f[ui] = Body(f, ui)
    <3> HIDE DEF Body
    <3> QED BY <1>7
  <2>5. CASE ui.first = ui.last
    BY <1>1, <2>2, <2>4, <2>5 DEF Window, Is, Mid
  <2>6. CASE ui.first < ui.last /\ Past(Mid(ui) + 1)
    <3>1. /\ Up(ui) \in Window(list) /\ Up(ui).first <= Up(ui).last
          /\ Up(ui).last - Up(ui).first < i
      <4>1. ui.first \in Nat /\ ui.last \in Nat
        BY <1>1 DEF Window
      <4> QED BY <1>2, <2>2, <2>6, <4>1
    <3>2. Is(Up(ui), f[Up(ui)])
      BY <2>3, <3>1
    <3> QED BY <1>5, <2>2, <2>4, <2>6, <3>2
  <2>7. CASE ui.first < ui.last /\ ~Past(Mid(ui) + 1)
    <3>1. /\ Down(ui) \in Window(list) /\ Down(ui).first <= Down(ui).last
          /\ Down(ui).last - Down(ui).first < i
      <4>1. ui.first \in Nat /\ ui.last \in Nat
        BY <1>1 DEF Window
      <4> QED BY <1>2, <2>2, <2>7, <4>1
    <3>2. Is(Down(ui), f[Down(ui)])
      BY <2>3, <3>1
    <3> QED BY <1>5, <2>2, <2>4, <2>7, <3>2
  <2> QED BY <2>2, <2>5, <2>6, <2>7 DEF Window
<1>9. Is([first |-> 0, last |-> n], FindOffset(list, nOffset))
  <2> DEFINE w == [first |-> 0, last |-> n]
  <2>1. w \in Window(list) /\ w.first <= w.last /\ w.last - w.first = n
    BY <1>1 DEF Window
  <2> HIDE DEF w, Is
  <2>2. Is(w, f[w])
    BY <1>1, <1>8, <2>1
  <2> QED BY <1>7, <2>2 DEF w
<1> HIDE DEF Past
<1>10. \A i \in 1..n : Past(i) <=> i <= FindOffset(list, nOffset)
  BY <1>1, <1>9
<1> QED BY <1>9, <1>10 DEF Past

\* An array in which the ranges from a + 1 to b have made way for m others.
Replaces(new, list, a, b, m) ==
    /\ Len(new) = a + m + (Len(list) - b)
    /\ \A i \in 1..a : new[i] = list[i]
    /\ \A i \in b + 1..Len(list) : new[i + (a + m - b)] = list[i]
    /\ \A i, j \in a + 1..a + m : i < j => End(new[i]) < new[j].start
    /\ \A i \in a + 1..a + m, j \in 1..a : End(list[j]) < new[i].start
    /\ \A i \in a + 1..a + m, j \in b + 1..Len(list) : End(new[i]) < list[j].start
Renewed(l, new, list, a, b, m) ==
    (l \ {list[i] : i \in a + 1..b}) \cup {new[i] : i \in a + 1..a + m}

LEMMA Spliced ==
  ASSUME NEW l, NEW list, IsArrayOf(list, l), NEW new \in Seq(Flock),
         NEW a \in 0..Len(list), NEW b \in a..Len(list), NEW m \in Nat,
         Replaces(new, list, a, b, m)
  PROVE  IsArrayOf(new, Renewed(l, new, list, a, b, m))
<1> DEFINE n == Len(list)
           N == {new[i] : i \in a + 1..a + m}
<1>0. /\ Len(new) = a + m + (n - b)
      /\ \A i \in 1..a : new[i] = list[i]
      /\ \A i \in b + 1..n : new[i + (a + m - b)] = list[i]
      /\ \A i, j \in a + 1..a + m : i < j => End(new[i]) < new[j].start
      /\ \A i \in a + 1..a + m, j \in 1..a : End(list[j]) < new[i].start
      /\ \A i \in a + 1..a + m, j \in b + 1..n : End(new[i]) < list[j].start
  BY DEF Replaces
<1>1. /\ n \in Nat /\ a \in Nat /\ b \in Nat /\ a <= b /\ b <= n
      /\ \A i \in 1..n : list[i] \in Flock /\ list[i] \in l
      /\ \A i, j \in 1..n : i < j => End(list[i]) < list[j].start
  BY LenProperties, ElementOfSeq DEF IsArrayOf
<1>2. ASSUME NEW i \in 1..Len(new)
      PROVE  \/ i \in 1..a
             \/ i \in a + 1..a + m
             \/ /\ i - (a + m - b) \in b + 1..n
                /\ i = (i - (a + m - b)) + (a + m - b)
  BY <1>0, <1>1
<1>3. ASSUME NEW i \in 1..Len(new), NEW j \in 1..Len(new), i < j
      PROVE  End(new[i]) < new[j].start
  <2>1. CASE i \in 1..a
    <3>1. CASE j \in 1..a
      <4>1. i \in 1..n /\ j \in 1..n
        BY <1>0, <1>1, <2>1, <3>1
      <4> QED BY <1>0, <1>1, <1>3, <2>1, <3>1, <4>1
    <3>2. CASE j \in a + 1..a + m
      BY <1>0, <2>1, <3>2
    <3>3. CASE j - (a + m - b) \in b + 1..n /\ j = (j - (a + m - b)) + (a + m - b)
      <4> DEFINE jj == j - (a + m - b)
      <4>1. jj \in b + 1..n /\ new[j] = list[jj]
        BY <1>0, <3>3
      <4>2. i \in 1..n /\ jj \in 1..n /\ i < jj
        BY <1>0, <1>1, <2>1, <4>1
      <4> HIDE DEF jj
      <4> QED BY <1>0, <1>1, <2>1, <4>1, <4>2
    <3> QED BY <1>2, <3>1, <3>2, <3>3
  <2>2. CASE i \in a + 1..a + m
    <3>1. j \notin 1..a
      BY <1>0, <1>1, <1>3, <2>2
    <3>2. CASE j \in a + 1..a + m
      BY <1>0, <1>3, <2>2, <3>2
    <3>3. CASE j - (a + m - b) \in b + 1..n /\ j = (j - (a + m - b)) + (a + m - b)
      <4> DEFINE jj == j - (a + m - b)
      <4>1. jj \in b + 1..n /\ new[j] = list[jj]
        BY <1>0, <3>3
      <4> HIDE DEF jj
      <4> QED BY <1>0, <2>2, <4>1
    <3> QED BY <1>2, <3>1, <3>2, <3>3
  <2>3. CASE i - (a + m - b) \in b + 1..n /\ i = (i - (a + m - b)) + (a + m - b)
    <3>1. j - (a + m - b) \in b + 1..n /\ j = (j - (a + m - b)) + (a + m - b)
      BY <1>0, <1>1, <1>3, <2>3
    <3> DEFINE ii == i - (a + m - b)
               jj == j - (a + m - b)
    <3>2. /\ ii \in b + 1..n /\ new[i] = list[ii]
          /\ jj \in b + 1..n /\ new[j] = list[jj] /\ ii < jj
      BY <1>0, <1>1, <1>3, <2>3, <3>1
    <3> HIDE DEF ii, jj
    <3>3. ii \in 1..n /\ jj \in 1..n
      BY <1>1, <3>2
    <3> QED BY <1>0, <1>1, <3>2, <3>3
  <2> QED BY <1>2, <2>1, <2>2, <2>3
<1>4. ASSUME NEW r
      PROVE  (\E i \in 1..Len(new) : r = new[i]) <=>
                r \in (l \ {list[i] : i \in a + 1..b}) \cup N
  <2>1. ASSUME NEW i \in 1..Len(new), r = new[i]
        PROVE  r \in (l \ {list[j] : j \in a + 1..b}) \cup N
    <3>1. ASSUME NEW k \in 1..n, k \notin a + 1..b
          PROVE  list[k] \in l \ {list[j] : j \in a + 1..b}
      <4> SUFFICES ASSUME NEW j \in a + 1..b, list[j] = list[k] PROVE FALSE
        BY <1>0, <1>1
      <4>1. j \in 1..n /\ (j < k \/ k < j)
        BY <1>0, <1>1, <3>1
      <4>2. End(list[k]) < list[k].start
        BY <1>0, <1>1, <4>1
      <4>3. list[k] \in Flock
        BY <1>0, <1>1
      <4> QED BY <4>2, <4>3 DEF Flock, End
    <3>2. CASE i \in 1..a
      <4>1. i \in 1..n /\ i \notin a + 1..b /\ new[i] = list[i]
        BY <1>0, <1>1, <3>2
      <4> QED BY <2>1, <3>1, <4>1
    <3>3. CASE i \in a + 1..a + m
      BY <1>0, <2>1, <3>3
    <3>4. CASE i - (a + m - b) \in b + 1..n /\ i = (i - (a + m - b)) + (a + m - b)
      <4> DEFINE ii == i - (a + m - b)
      <4>1. ii \in b + 1..n /\ new[i] = list[ii]
        BY <1>0, <3>4
      <4> HIDE DEF ii
      <4>2. ii \in 1..n /\ ii \notin a + 1..b
        BY <1>0, <1>1, <4>1
      <4> QED BY <2>1, <3>1, <4>1, <4>2
    <3> QED BY <1>2, <3>2, <3>3, <3>4
  <2>2. ASSUME NEW k \in 1..n, k \notin a + 1..b, r = list[k]
        PROVE  \E i \in 1..Len(new) : r = new[i]
    <3>1. CASE k <= a
      <4>1. k \in 1..a /\ k \in 1..Len(new)
        BY <1>0, <1>1, <3>1
      <4> QED BY <1>0, <2>2, <4>1
    <3>2. CASE b < k
      <4>1. k \in b + 1..n /\ k + (a + m - b) \in 1..Len(new)
        BY <1>0, <1>1, <3>2
      <4> QED BY <1>0, <2>2, <4>1
    <3> QED BY <1>0, <1>1, <2>2, <3>1, <3>2
  <2>3. ASSUME r \in N
        PROVE  \E i \in 1..Len(new) : r = new[i]
    <3>1. PICK i \in a + 1..a + m : r = new[i]
      BY <2>3
    <3>2. i \in 1..Len(new)
      BY <1>0, <1>1
    <3> QED BY <3>1, <3>2
  <2> QED BY <2>1, <2>2, <2>3 DEF IsArrayOf
<1> HIDE DEF N
<1>5. Renewed(l, new, list, a, b, m) = {new[i] : i \in 1..Len(new)}
  BY <1>4 DEF Renewed, N
<1> QED BY <1>3, <1>5 DEF IsArrayOf

LEMMA RemoveProperties ==
  ASSUME NEW S, NEW s \in Seq(S), NEW i \in 1..Len(s)
  PROVE  /\ RemoveAt(s, i) \in Seq(S)
         /\ Len(RemoveAt(s, i)) = Len(s) - 1
         /\ \A j \in 1..Len(s) - 1 :
               RemoveAt(s, i)[j] = IF j < i THEN s[j] ELSE s[j + 1]
<1> DEFINE a == SubSeq(s, 1, i - 1)
           z == SubSeq(s, i + 1, Len(s))
<1>0. Len(s) \in Nat /\ \A j \in 1..Len(s) : s[j] \in S
  BY LenProperties, ElementOfSeq
<1>1. a \in Seq(S) /\ Len(a) = i - 1 /\ \A j \in 1..i - 1 : a[j] = s[j]
  <2>1. \A j \in 1..i - 1 : s[j] \in S
    BY <1>0
  <2> QED BY <2>1, <1>0, SubSeqProperties
<1>2. /\ z \in Seq(S) /\ Len(z) = Len(s) - i
      /\ \A j \in 1..Len(s) - i : z[j] = s[i + j]
  <2>1. \A j \in i + 1..Len(s) : s[j] \in S
    BY <1>0
  <2>2. /\ z \in Seq(S) /\ Len(z) = IF i + 1 <= Len(s) THEN Len(s) - (i + 1) + 1 ELSE 0
        /\ \A j \in 1..Len(s) - (i + 1) + 1 : z[j] = s[(i + 1) + j - 1]
    BY <2>1, <1>0, SubSeqProperties
  <2> QED BY <2>2, <1>0
<1> HIDE DEF a, z
<1>3. /\ a \o z \in Seq(S) /\ Len(a \o z) = Len(a) + Len(z)
      /\ \A j \in 1..Len(a) + Len(z) : (a \o z)[j] = IF j <= Len(a) THEN a[j] ELSE z[j - Len(a)]
  BY <1>1, <1>2, ConcatProperties
<1>4. ASSUME NEW j \in 1..Len(s) - 1
      PROVE  (a \o z)[j] = IF j < i THEN s[j] ELSE s[j + 1]
  <2>1. j \in 1..Len(a) + Len(z)
    BY <1>0, <1>1, <1>2
  <2>2. CASE j < i
    BY <1>0, <1>1, <1>3, <2>1, <2>2
  <2>3. CASE ~(j < i)
    <3>1. j - Len(a) \in 1..Len(s) - i /\ ~(j <= Len(a)) /\ i + (j - Len(a)) = j + 1
      BY <1>0, <1>1, <2>3
    <3> QED BY <1>2, <1>3, <2>1, <2>3, <3>1
  <2> QED BY <2>2, <2>3
<1>5. Len(a \o z) = Len(s) - 1
  BY <1>0, <1>1, <1>2, <1>3
<1>6. RemoveAt(s, i) = a \o z
  BY DEF RemoveAt, a, z
<1> QED BY <1>3, <1>4, <1>5, <1>6

LEMMA InsertProperties ==
  ASSUME NEW S, NEW s \in Seq(S), NEW i \in 1..Len(s) + 1, NEW e \in S
  PROVE  /\ InsertAt(s, i, e) \in Seq(S)
         /\ Len(InsertAt(s, i, e)) = Len(s) + 1
         /\ \A j \in 1..Len(s) + 1 :
               InsertAt(s, i, e)[j] = IF j < i THEN s[j] ELSE IF j = i THEN e ELSE s[j - 1]
<1> DEFINE a == SubSeq(s, 1, i - 1)
           z == SubSeq(s, i, Len(s))
           ae == a \o <<e>>
<1>0. Len(s) \in Nat /\ \A j \in 1..Len(s) : s[j] \in S
  BY LenProperties, ElementOfSeq
<1>1. a \in Seq(S) /\ Len(a) = i - 1 /\ \A j \in 1..i - 1 : a[j] = s[j]
  <2>1. \A j \in 1..i - 1 : s[j] \in S
    BY <1>0
  <2> QED BY <2>1, <1>0, SubSeqProperties
<1>2. /\ z \in Seq(S) /\ Len(z) = Len(s) - i + 1
      /\ \A j \in 1..Len(s) - i + 1 : z[j] = s[i + j - 1]
  <2>1. \A j \in i..Len(s) : s[j] \in S
    BY <1>0
  <2>2. /\ z \in Seq(S) /\ Len(z) = IF i <= Len(s) THEN Len(s) - i + 1 ELSE 0
        /\ \A j \in 1..Len(s) - i + 1 : z[j] = s[i + j - 1]
    BY <2>1, <1>0, SubSeqProperties
  <2> QED BY <2>2, <1>0
<1> HIDE DEF a, z
<1>3. /\ ae \in Seq(S) /\ Len(ae) = i
      /\ \A j \in 1..i : ae[j] = IF j < i THEN s[j] ELSE e
  <2>1. <<e>> \in Seq(S) /\ Len(<<e>>) = 1 /\ <<e>>[1] = e
    OBVIOUS
  <2>2. /\ ae \in Seq(S) /\ Len(ae) = Len(a) + Len(<<e>>)
        /\ \A j \in 1..Len(a) + Len(<<e>>) :
              ae[j] = IF j <= Len(a) THEN a[j] ELSE <<e>>[j - Len(a)]
    BY <1>1, <2>1, ConcatProperties
  <2> HIDE DEF ae
  <2> QED BY <1>1, <2>1, <2>2
<1> HIDE DEF ae
<1>4. /\ ae \o z \in Seq(S) /\ Len(ae \o z) = Len(ae) + Len(z)
      /\ \A j \in 1..Len(ae) + Len(z) :
            (ae \o z)[j] = IF j <= Len(ae) THEN ae[j] ELSE z[j - Len(ae)]
  BY <1>2, <1>3, ConcatProperties
<1>5. ASSUME NEW j \in 1..Len(s) + 1
      PROVE  (ae \o z)[j] = IF j < i THEN s[j] ELSE IF j = i THEN e ELSE s[j - 1]
  <2>1. j \in 1..Len(ae) + Len(z)
    BY <1>0, <1>2, <1>3
  <2>2. CASE j <= i
    BY <1>3, <1>4, <2>1, <2>2
  <2>3. CASE ~(j <= i)
    <3>1. j - i \in 1..Len(s) - i + 1 /\ i + (j - i) - 1 = j - 1
      BY <1>0, <2>3
    <3>2. z[j - i] = s[j - 1]
      BY <1>2, <3>1
    <3>3. (ae \o z)[j] = z[j - i]
      BY <1>3, <1>4, <2>1, <2>3
    <3> QED BY <2>3, <3>2, <3>3
  <2> QED BY <2>2, <2>3
<1>6. Len(ae \o z) = Len(s) + 1
  BY <1>0, <1>2, <1>3, <1>4
<1>7. InsertAt(s, i, e) = ae \o z
  BY DEF InsertAt, a, z, ae
<1> QED BY <1>4, <1>5, <1>6, <1>7

\* Where a range is or would be.
LEMMA Position ==
  ASSUME NEW l, NEW list, IsArrayOf(list, l), NEW r \in Flock
  PROVE  LET k == FindOffset(list, r.start) IN
         /\ Len(list) \in Nat /\ k \in 0..Len(list)
         /\ \A i \in 1..Len(list) : /\ list[i] \in Flock /\ list[i] \in l
                                    /\ list[i].start \in Nat /\ End(list[i]) \in Nat
                                    /\ list[i].start < End(list[i])
                                    /\ End(list[i]) <= r.start <=> i <= k
         /\ r.start \in Nat /\ End(r) \in Nat /\ r.start < End(r)
<1>1. Len(list) \in Nat
  BY LenProperties DEF IsArrayOf
<1>2. \A i \in 1..Len(list) : list[i] \in Flock /\ list[i] \in l
  BY ElementOfSeq DEF IsArrayOf
<1>3. \A s \in Flock : s.start \in Nat /\ End(s) \in Nat /\ s.start < End(s)
  BY DEF Flock, End
<1>4. r.start \in Int
  BY DEF Flock
<1> QED BY <1>1, <1>2, <1>3, <1>4, FindOffsetFinds

LEMMA TestLockAgrees ==
  ASSUME NEW l, NEW list, IsArrayOf(list, l), NEW r \in Flock
  PROVE  TestLock(list, r) <=> Conflict(l, r)
<1> DEFINE k == FindOffset(list, r.start)
           n == Len(list)
<1>1. /\ n \in Nat /\ k \in 0..n
      /\ \A i \in 1..n : /\ list[i] \in Flock /\ list[i] \in l
                         /\ list[i].start \in Nat /\ End(list[i]) \in Nat
                         /\ list[i].start < End(list[i])
                         /\ End(list[i]) <= r.start <=> i <= k
      /\ r.start \in Nat /\ End(r) \in Nat /\ r.start < End(r)
  BY Position
<1>2. TestLock(list, r) <=> k < n /\ End(r) > list[k + 1].start
  BY DEF TestLock
<1> HIDE DEF k
<1>3. ASSUME k < n, End(r) > list[k + 1].start
      PROVE  Conflict(l, r)
  <2>1. k + 1 \in 1..n /\ ~(k + 1 <= k)
    BY <1>1, <1>3
  <2> QED BY <1>1, <1>3, <2>1 DEF Conflict, Overlap
<1>4. ASSUME Conflict(l, r)
      PROVE  k < n /\ End(r) > list[k + 1].start
  <2>1. PICK i \in 1..n : Overlap(r, list[i])
    BY <1>4 DEF Conflict, IsArrayOf
  <2>2. k < i /\ k + 1 \in 1..n /\ k < n
    BY <1>1, <2>1 DEF Overlap
  <2>3. CASE i = k + 1
    BY <1>1, <2>1, <2>2, <2>3 DEF Overlap
  <2>4. CASE k + 1 < i
    <3>1. End(list[k + 1]) < list[i].start
      BY <2>2, <2>4 DEF IsArrayOf
    <3> QED BY <1>1, <2>1, <2>2, <3>1 DEF Overlap
  <2> QED BY <1>1, <2>2, <2>3, <2>4
<1> QED BY <1>2, <1>3, <1>4

LEMMA IsLockedAgrees ==
  ASSUME NEW l, NEW list, IsArrayOf(list, l), NEW r \in Flock
  PROVE  LET k == FindOffset(list, r.start) IN
         /\ IsLocked(list, r) <=> InOne(l, r)
         /\ InOne(l, r) => k < Len(list) /\ Around(l, r) = list[k + 1]
<1> DEFINE k == FindOffset(list, r.start)
           n == Len(list)
<1>1. /\ n \in Nat /\ k \in 0..n
      /\ \A i \in 1..n : /\ list[i] \in Flock /\ list[i] \in l
                         /\ list[i].start \in Nat /\ End(list[i]) \in Nat
                         /\ list[i].start < End(list[i])
                         /\ End(list[i]) <= r.start <=> i <= k
      /\ r.start \in Nat /\ End(r) \in Nat /\ r.start < End(r)
  BY Position
<1>2. IsLocked(list, r) <=> k < n /\ Within(r, list[k + 1])
  BY DEF IsLocked
<1> HIDE DEF k
<1>3. ASSUME k < n, Within(r, list[k + 1])
      PROVE  InOne(l, r)
  <2>1. k + 1 \in 1..n
    BY <1>1, <1>3
  <2> QED BY <1>1, <1>3, <2>1 DEF InOne
<1>4. ASSUME NEW s \in l, Within(r, s)
      PROVE  k < n /\ s = list[k + 1]
  <2>1. PICK i \in 1..n : s = list[i]
    BY DEF IsArrayOf
  <2>2. k < i /\ k + 1 \in 1..n /\ k < n
    BY <1>1, <1>4, <2>1 DEF Within
  <2>3. CASE k + 1 < i
    <3>1. End(list[k + 1]) < list[i].start
      BY <2>2, <2>3 DEF IsArrayOf
    <3>2. End(list[k + 1]) <= r.start
      BY <1>1, <1>4, <2>1, <2>2, <3>1 DEF Within
    <3> QED BY <1>1, <2>2, <3>2
  <2>4. CASE i = k + 1
    BY <2>1, <2>2, <2>4
  <2> QED BY <1>1, <2>2, <2>3, <2>4
<1>5. ASSUME InOne(l, r)
      PROVE  k < n /\ Around(l, r) = list[k + 1]
  <2>1. Around(l, r) \in l /\ Within(r, Around(l, r))
    BY <1>5 DEF InOne, Around
  <2> QED BY <1>4, <2>1
<1>6. IsLocked(list, r) <=> InOne(l, r)
  BY <1>2, <1>3, <1>4 DEF InOne
<1> QED BY <1>5, <1>6 DEF k

\* The neighbours that a new range touches.
LEMMA Neighbours ==
  ASSUME NEW l, NEW list, IsArrayOf(list, l), Separated(l), NEW r \in Flock, ~Conflict(l, r)
  PROVE  LET k == FindOffset(list, r.start)
             left == k > 0 /\ End(list[k]) = r.start
             right == k < Len(list) /\ list[k + 1].start = End(r)
         IN  /\ Left(l, r) = IF left THEN {list[k]} ELSE {}
             /\ Right(l, r) = IF right THEN {list[k + 1]} ELSE {}
             /\ NewStart(l, r) = IF left THEN list[k].start ELSE r.start
             /\ NewEnd(l, r) = IF right THEN End(list[k + 1]) ELSE End(r)
             /\ ~left => \A i \in 1..k : End(list[i]) < r.start
             /\ ~right => \A i \in k + 1..Len(list) : End(r) < list[i].start
<1> DEFINE k == FindOffset(list, r.start)
           n == Len(list)
           left == k > 0 /\ End(list[k]) = r.start
           right == k < n /\ list[k + 1].start = End(r)
<1>1. /\ n \in Nat /\ k \in 0..n
      /\ \A i \in 1..n : /\ list[i] \in Flock /\ list[i] \in l
                         /\ list[i].start \in Nat /\ End(list[i]) \in Nat
                         /\ list[i].start < End(list[i])
                         /\ End(list[i]) <= r.start <=> i <= k
      /\ r.start \in Nat /\ End(r) \in Nat /\ r.start < End(r)
  BY Position
<1> HIDE DEF k
<1>2. /\ \A i, j \in 1..n : i < j => End(list[i]) < list[j].start
      /\ l = {list[i] : i \in 1..n}
  BY DEF IsArrayOf
<1>3. \A i \in 1..n : k < i => End(r) <= list[i].start
  BY <1>1 DEF Conflict, Overlap
<1>4. \A i \in 1..n : i < k => End(list[i]) < r.start
  <2> TAKE i \in 1..n
  <2> SUFFICES ASSUME i < k PROVE End(list[i]) < r.start
    OBVIOUS
  <2>1. k \in 1..n /\ End(list[k]) <= r.start
    BY <1>1
  <2>2. End(list[i]) < list[k].start
    BY <1>2, <2>1
  <2> QED BY <1>1, <2>1, <2>2
<1>5. \A i \in 1..n : k + 1 < i => End(r) < list[i].start
  <2> TAKE i \in 1..n
  <2> SUFFICES ASSUME k + 1 < i PROVE End(r) < list[i].start
    OBVIOUS
  <2>1. k + 1 \in 1..n /\ End(r) <= list[k + 1].start
    BY <1>1, <1>3
  <2>2. End(list[k + 1]) < list[i].start
    BY <1>2, <2>1
  <2> QED BY <1>1, <2>1, <2>2
<1>6. \A i \in 1..n : End(list[i]) = r.start <=> left /\ i = k
  <2> TAKE i \in 1..n
  <2>1. i < k \/ i = k \/ k < i
    BY <1>1
  <2>2. k < i => ~(End(list[i]) <= r.start)
    BY <1>1
  <2> QED BY <1>1, <1>4, <2>1, <2>2
<1>7. \A i \in 1..n : list[i].start = End(r) <=> right /\ i = k + 1
  <2> TAKE i \in 1..n
  <2>1. i <= k \/ i = k + 1 \/ k + 1 < i
    BY <1>1
  <2>2. i <= k => list[i].start < End(r)
    BY <1>1
  <2> QED BY <1>1, <1>5, <2>1, <2>2
<1>8. left => k \in 1..n
  BY <1>1
<1>9. right => k + 1 \in 1..n
  BY <1>1
<1> HIDE DEF left, right
<1>10. Left(l, r) = IF left THEN {list[k]} ELSE {}
  BY <1>2, <1>6, <1>8 DEF Left
<1>11. Right(l, r) = IF right THEN {list[k + 1]} ELSE {}
  BY <1>2, <1>7, <1>9 DEF Right
<1>12. NewStart(l, r) = IF left THEN list[k].start ELSE r.start
  <2>1. left => (CHOOSE s \in {list[k]} : TRUE) = list[k]
    OBVIOUS
  <2> QED BY <1>10, <2>1 DEF NewStart
<1>13. NewEnd(l, r) = IF right THEN End(list[k + 1]) ELSE End(r)
  <2>1. right => (CHOOSE s \in {list[k + 1]} : TRUE) = list[k + 1]
    OBVIOUS
  <2> QED BY <1>11, <2>1 DEF NewEnd
<1>14. ~left => \A i \in 1..k : End(list[i]) < r.start
  BY <1>1, <1>4, <1>6
<1>15. ~right => \A i \in k + 1..n : End(r) < list[i].start
  <2> SUFFICES ASSUME ~right, NEW i \in k + 1..n PROVE End(r) < list[i].start
    OBVIOUS
  <2>1. i \in 1..n /\ k < i
    BY <1>1
  <2> QED BY <1>1, <1>3, <1>7, <2>1
<1> QED BY <1>10, <1>11, <1>12, <1>13, <1>14, <1>15 DEF k, left, right

LEMMA SetLockAgrees ==
  ASSUME NEW l \in SUBSET Flock, NEW list, IsArrayOf(list, l), Separated(l),
         NEW r \in Flock, ~Conflict(l, r)
  PROVE  IsArrayOf(SetLock(list, r), Added(l, r))
<1> DEFINE k == FindOffset(list, r.start)
           n == Len(list)
           left == k > 0 /\ End(list[k]) = r.start
           right == k < n /\ list[k + 1].start = End(r)
           a == IF left THEN k - 1 ELSE k
           b == IF right THEN k + 1 ELSE k
           joined == Between(NewStart(l, r), NewEnd(l, r))
           new == SetLock(list, r)
<1>1. /\ n \in Nat /\ k \in 0..n
      /\ \A i \in 1..n : /\ list[i] \in Flock /\ list[i] \in l
                         /\ list[i].start \in Nat /\ End(list[i]) \in Nat
                         /\ list[i].start < End(list[i])
                         /\ End(list[i]) <= r.start <=> i <= k
      /\ r.start \in Nat /\ End(r) \in Nat /\ r.start < End(r)
  BY Position
<1>2. /\ Left(l, r) = IF left THEN {list[k]} ELSE {}
      /\ Right(l, r) = IF right THEN {list[k + 1]} ELSE {}
      /\ NewStart(l, r) = IF left THEN list[k].start ELSE r.start
      /\ NewEnd(l, r) = IF right THEN End(list[k + 1]) ELSE End(r)
      /\ ~left => \A i \in 1..k : End(list[i]) < r.start
      /\ ~right => \A i \in k + 1..n : End(r) < list[i].start
  BY Neighbours
<1>3. /\ new = CASE left /\ right ->
                      RemoveAt([list EXCEPT ![k].len = @ + r.len + list[k + 1].len], k + 1)
                 [] left /\ ~right -> [list EXCEPT ![k].len = @ + r.len]
                 [] ~left /\ right -> [list EXCEPT ![k + 1] = Between(r.start, End(@))]
                 [] OTHER -> InsertAt(list, k + 1, r)
  BY DEF SetLock
<1>4. list \in Seq(Flock) /\ \A i, j \in 1..n : i < j => End(list[i]) < list[j].start
  BY DEF IsArrayOf
<1>5. r = Between(r.start, End(r))
  BY DEF Flock, Between, End
<1>6. left => k \in 1..n
  BY <1>1
<1>7. right => k + 1 \in 1..n
  BY <1>1
<1> HIDE DEF k, left, right, new
<1>8. joined \in Flock /\ joined.start = NewStart(l, r) /\ End(joined) = NewEnd(l, r)
  <2>1. /\ NewStart(l, r) \in Nat /\ NewStart(l, r) <= r.start
        /\ NewEnd(l, r) \in Nat /\ End(r) <= NewEnd(l, r)
    <3>1. CASE left
      <4>1. list[k].start \in Nat /\ list[k].start <= r.start
        BY <1>1, <1>6, <3>1
      <4>2. CASE right
        BY <1>1, <1>2, <1>7, <3>1, <4>1, <4>2 DEF right
      <4>3. CASE ~right
        BY <1>1, <1>2, <3>1, <4>1, <4>3
      <4> QED BY <4>2, <4>3
    <3>2. CASE ~left
      <4>2. CASE right
        BY <1>1, <1>2, <1>7, <3>2, <4>2 DEF right
      <4>3. CASE ~right
        BY <1>1, <1>2, <3>2, <4>3
      <4> QED BY <4>2, <4>3
    <3> QED BY <3>1, <3>2
  <2> QED BY <1>1, <2>1 DEF Between, Flock, End
<1>9. /\ \A i \in 1..a : End(list[i]) < joined.start
      /\ \A i \in b + 1..n : End(joined) < list[i].start
  <2>1. ASSUME NEW i \in 1..a PROVE End(list[i]) < joined.start
    <3>1. CASE left
      BY <1>1, <1>2, <1>4, <1>6, <1>8, <3>1
    <3>2. CASE ~left
      BY <1>2, <1>8, <3>2
    <3> QED BY <3>1, <3>2
  <2>2. ASSUME NEW i \in b + 1..n PROVE End(joined) < list[i].start
    <3>1. CASE right
      BY <1>1, <1>2, <1>4, <1>7, <1>8, <3>1
    <3>2. CASE ~right
      BY <1>2, <1>8, <3>2
    <3> QED BY <3>1, <3>2
  <2> QED BY <2>1, <2>2
<1>10. Added(l, r) = (l \ {list[i] : i \in a + 1..b}) \cup {joined}
  <2>1. /\ left => a + 1 = k
        /\ ~left => a + 1 = k + 1
    BY <1>1
  <2>2. {list[i] : i \in a + 1..b} = Left(l, r) \cup Right(l, r)
    <3>1. CASE left /\ right
      <4>1. a + 1..b = {k, k + 1}
        BY <1>1, <3>1
      <4> QED BY <1>2, <3>1, <4>1
    <3>2. CASE left /\ ~right
      <4>1. a + 1..b = {k}
        BY <1>1, <3>2
      <4> QED BY <1>2, <3>2, <4>1
    <3>3. CASE ~left /\ right
      <4>1. a + 1..b = {k + 1}
        BY <1>1, <3>3
      <4> QED BY <1>2, <3>3, <4>1
    <3>4. CASE ~left /\ ~right
      <4>1. a + 1..b = {}
        BY <1>1, <3>4
      <4> QED BY <1>2, <3>4, <4>1
    <3> QED BY <3>1, <3>2, <3>3, <3>4
  <2> QED BY <2>2 DEF Added
<1>11. /\ new \in Seq(Flock)
       /\ Len(new) = a + 1 + (n - b)
       /\ \A i \in 1..a : new[i] = list[i]
       /\ \A i \in b + 1..n : new[i + (a + 1 - b)] = list[i]
       /\ new[a + 1] = joined
  <2>1. \A s \in Flock, x \in Nat \ {0} :
           [s EXCEPT !.len = x] = [start |-> s.start, len |-> x]
    BY DEF Flock
  <2>2. CASE left /\ right
    <3> DEFINE w == [list EXCEPT ![k].len = @ + r.len + list[k + 1].len]
    <3>1. w = [list EXCEPT ![k] = joined]
      <4>1. list[k].len + r.len + list[k + 1].len = joined.len
        <5>1. /\ list[k] \in Flock /\ list[k + 1] \in Flock
              /\ End(list[k]) = r.start /\ list[k + 1].start = End(r)
          BY <1>1, <1>6, <1>7, <2>2 DEF left, right
        <5>2. joined.len = End(list[k + 1]) - list[k].start
          BY <1>2, <2>2 DEF Between
        <5> QED BY <5>1, <5>2 DEF Flock, End
      <4>2. joined = [list[k] EXCEPT !.len = list[k].len + r.len + list[k + 1].len]
        BY <1>1, <1>2, <1>6, <1>8, <2>2, <4>1 DEF Flock
      <4> QED BY <4>2
    <3>2. /\ w \in Seq(Flock) /\ Len(w) = n
          /\ \A i \in 1..n : w[i] = IF i = k THEN joined ELSE list[i]
      BY <1>4, <1>6, <1>8, <2>2, <3>1, ExceptSeq
    <3> HIDE DEF w, joined
    <3>3. /\ new \in Seq(Flock) /\ Len(new) = n - 1
          /\ \A i \in 1..n - 1 : new[i] = IF i < k + 1 THEN w[i] ELSE w[i + 1]
      <4>1. new = RemoveAt(w, k + 1)
        BY <1>3, <2>2 DEF w
      <4>2. k + 1 \in 1..Len(w)
        BY <1>7, <2>2, <3>2
      <4> QED BY <3>2, <4>1, <4>2, RemoveProperties
    <3> QED BY <1>1, <1>6, <1>7, <2>2, <3>2, <3>3, SMTT(30)
  <2>3. CASE left /\ ~right
    <3>1. new = [list EXCEPT ![k] = joined]
      <4>1. list[k].len + r.len = joined.len
        BY <1>1, <1>2, <1>6, <2>3 DEF Between, Flock, End, left
      <4>2. joined = [list[k] EXCEPT !.len = list[k].len + r.len]
        BY <1>1, <1>2, <1>6, <1>8, <2>3, <4>1 DEF Flock
      <4> QED BY <1>3, <2>3, <4>2
    <3>2. /\ new \in Seq(Flock) /\ Len(new) = n
          /\ \A i \in 1..n : new[i] = IF i = k THEN joined ELSE list[i]
      BY <1>4, <1>6, <1>8, <2>3, <3>1, ExceptSeq
    <3> HIDE DEF joined
    <3> QED BY <1>1, <1>6, <2>3, <3>2
  <2>4. CASE ~left /\ right
    <3>1. new = [list EXCEPT ![k + 1] = joined]
      BY <1>2, <1>3, <2>4
    <3>2. /\ new \in Seq(Flock) /\ Len(new) = n
          /\ \A i \in 1..n : new[i] = IF i = k + 1 THEN joined ELSE list[i]
      BY <1>4, <1>7, <1>8, <2>4, <3>1, ExceptSeq
    <3> HIDE DEF joined
    <3> QED BY <1>1, <1>7, <2>4, <3>2
  <2>5. CASE ~left /\ ~right
    <3>1. new = InsertAt(list, k + 1, joined)
      BY <1>2, <1>3, <1>5, <2>5
    <3> HIDE DEF joined
    <3>2. /\ new \in Seq(Flock) /\ Len(new) = n + 1
          /\ \A i \in 1..n + 1 : new[i] = IF i < k + 1 THEN list[i]
                                          ELSE IF i = k + 1 THEN joined ELSE list[i - 1]
      BY <1>1, <1>4, <1>8, <3>1, InsertProperties
    <3> QED BY <1>1, <2>5, <3>2
  <2> QED BY <2>2, <2>3, <2>4, <2>5
<1>12. a \in 0..n /\ b \in a..n
  BY <1>1, <1>6, <1>7
<1>13. a \in Nat /\ a + 1..a + 1 = {a + 1}
  BY <1>1, <1>12
<1> HIDE DEF a, b, joined
<1>14. Replaces(new, list, a, b, 1)
  BY <1>9, <1>11, <1>13 DEF Replaces
<1>15. {new[i] : i \in a + 1..a + 1} = {joined}
  BY <1>11, <1>13
<1>16. IsArrayOf(new, Renewed(l, new, list, a, b, 1))
  BY <1>11, <1>12, <1>14, Spliced
<1> QED BY <1>10, <1>15, <1>16 DEF new, Renewed

LEMMA UnlockedAgrees ==
  ASSUME NEW l \in SUBSET Flock, NEW list, IsArrayOf(list, l), Separated(l),
         NEW r \in Flock, InOne(l, r)
  PROVE  IsArrayOf(Unlocked(list, r), Cut(l, r))
<1> DEFINE k == FindOffset(list, r.start)
           n == Len(list)
           s == list[k + 1]
           lower == Between(s.start, r.start)
           upper == Between(End(r), End(s))
           fFirst == r.start = s.start
           fLast == End(r) = End(s)
           new == Unlocked(list, r)
<1>1. /\ n \in Nat /\ k \in 0..n
      /\ \A i \in 1..n : /\ list[i] \in Flock /\ list[i] \in l
                         /\ list[i].start \in Nat /\ End(list[i]) \in Nat
                         /\ list[i].start < End(list[i])
                         /\ End(list[i]) <= r.start <=> i <= k
      /\ r.start \in Nat /\ End(r) \in Nat /\ r.start < End(r)
  BY Position
<1>2. k < n /\ Around(l, r) = s
  BY IsLockedAgrees
<1>3. new = CASE fFirst /\ fLast -> RemoveAt(list, k + 1)
              [] fFirst /\ ~fLast -> [list EXCEPT ![k + 1] = upper]
              [] ~fFirst /\ fLast -> [list EXCEPT ![k + 1] = lower]
              [] OTHER -> InsertAt([list EXCEPT ![k + 1] = lower], k + 2, upper)
  BY DEF Unlocked
<1>4. list \in Seq(Flock) /\ \A i, j \in 1..n : i < j => End(list[i]) < list[j].start
  BY DEF IsArrayOf
<1> HIDE DEF k, new
<1>5. k + 1 \in 1..n
  BY <1>1, <1>2
<1>6. Within(r, s)
  BY <1>2 DEF InOne, Around
<1>7. /\ s.start <= r.start /\ End(r) <= End(s)
      /\ s.start \in Nat /\ End(s) \in Nat /\ s \in Flock
  BY <1>1, <1>5, <1>6 DEF Within
<1>8. lower.len = r.start - s.start /\ lower.start = s.start /\ End(lower) = r.start
  BY <1>1, <1>7 DEF Between, End
<1>9. upper.len = End(s) - End(r) /\ upper.start = End(r) /\ End(upper) = End(s)
  BY <1>1, <1>7 DEF Between, End
<1>10. Cut(l, r) = (l \ {list[i] : i \in k + 1..k + 1}) \cup Rest(s, r)
  <2>1. k + 1..k + 1 = {k + 1}
    BY <1>1
  <2> QED BY <1>2, <2>1 DEF Cut
<1>11. Rest(s, r) = {u \in {lower, upper} : u.len > 0}
  BY DEF Rest
<1>12. /\ ~fFirst => lower \in Flock /\ lower.len > 0
       /\ ~fLast => upper \in Flock /\ upper.len > 0
       /\ fFirst => ~(lower.len > 0)
       /\ fLast => ~(upper.len > 0)
  <2>1. /\ ~fFirst => r.start - s.start \in Nat \ {0}
        /\ ~fLast => End(s) - End(r) \in Nat \ {0}
        /\ fFirst => r.start - s.start = 0
        /\ fLast => End(s) - End(r) = 0
    BY <1>1, <1>7
  <2> QED BY <1>1, <1>7, <1>8, <1>9, <2>1 DEF Flock, Between
<1>13. /\ \A i \in 1..k : End(list[i]) < s.start
       /\ \A i \in k + 2..n : End(s) < list[i].start
  BY <1>1, <1>4, <1>5
<1> HIDE DEF s, lower, upper
<1>14. CASE fFirst /\ fLast
  <2>1. new = RemoveAt(list, k + 1)
    BY <1>3, <1>14
  <2>2. /\ new \in Seq(Flock) /\ Len(new) = n - 1
        /\ \A j \in 1..n - 1 : new[j] = IF j < k + 1 THEN list[j] ELSE list[j + 1]
    BY <1>4, <1>5, <2>1, RemoveProperties
  <2>3. Rest(s, r) = {}
    BY <1>11, <1>12, <1>14
  <2>4. k + 1 \in k..n /\ Len(new) = k + 0 + (n - (k + 1)) /\ k + 1..k + 0 = {}
    BY <1>1, <1>5, <2>2
  <2>5. \A i \in 1..k : new[i] = list[i]
    BY <1>1, <1>5, <2>2
  <2>6. \A i \in (k + 1) + 1..n : new[i + (k + 0 - (k + 1))] = list[i]
    BY <1>1, <1>5, <2>2
  <2>7. Rest(s, r) = {new[i] : i \in k + 1..k + 0}
    BY <2>3, <2>4
  <2>8. 0 \in Nat
    OBVIOUS
  <2>9. Replaces(new, list, k, k + 1, 0)
    BY <2>4, <2>5, <2>6 DEF Replaces
  <2>10. IsArrayOf(new, Renewed(l, new, list, k, k + 1, 0))
    BY <1>1, <2>2, <2>4, <2>8, <2>9, Spliced
  <2> QED BY <1>10, <2>7, <2>10 DEF new, Renewed
<1>15. ASSUME NEW u, u \in Flock, s.start <= u.start, End(u) <= End(s),
              Rest(s, r) = {u}, new = [list EXCEPT ![k + 1] = u]
       PROVE  IsArrayOf(new, Cut(l, r))
  <2>1. /\ new \in Seq(Flock) /\ Len(new) = n
        /\ \A i \in 1..n : new[i] = IF i = k + 1 THEN u ELSE list[i]
    BY <1>4, <1>5, <1>15, ExceptSeq
  <2>2. k + 1 \in k..n /\ Len(new) = k + 1 + (n - (k + 1)) /\ new[k + 1] = u
    BY <1>1, <1>5, <2>1
  <2>3. \A i \in 1..k : new[i] = list[i]
    BY <1>1, <1>5, <2>1
  <2>4. \A i \in (k + 1) + 1..n : new[i + (k + 1 - (k + 1))] = list[i]
    BY <1>1, <1>5, <2>1
  <2>5. u.start \in Nat /\ End(u) \in Nat
    BY <1>15 DEF Flock, End
  <2>6. /\ \A i \in 1..k : End(list[i]) < u.start
        /\ \A i \in (k + 1) + 1..n : End(u) < list[i].start
    <3>1. ASSUME NEW i \in 1..k PROVE End(list[i]) < u.start
      <4>1. End(list[i]) \in Nat /\ End(list[i]) < s.start
        BY <1>1, <1>13
      <4> QED BY <1>7, <1>15, <2>5, <4>1
    <3>2. ASSUME NEW i \in (k + 1) + 1..n PROVE End(u) < list[i].start
      <4>1. i \in 1..n /\ i \in k + 2..n
        BY <1>1
      <4> QED BY <1>1, <1>7, <1>13, <1>15, <2>5, <4>1
    <3> QED BY <3>1, <3>2
  <2>7. k + 1..k + 1 = {k + 1} /\ 1 \in Nat
    BY <1>1
  <2>8. Replaces(new, list, k, k + 1, 1)
    BY <2>2, <2>3, <2>4, <2>6, <2>7 DEF Replaces
  <2>9. {new[i] : i \in k + 1..k + 1} = {u}
    BY <2>2, <2>7
  <2>10. IsArrayOf(new, Renewed(l, new, list, k, k + 1, 1))
    BY <1>1, <2>1, <2>2, <2>7, <2>8, Spliced
  <2> QED BY <1>10, <1>15, <2>9, <2>10 DEF Renewed
<1>16. CASE fFirst /\ ~fLast
  <2>1. Rest(s, r) = {upper} /\ new = [list EXCEPT ![k + 1] = upper]
    BY <1>3, <1>11, <1>12, <1>16
  <2>2. s.start <= upper.start /\ End(upper) <= End(s) /\ upper \in Flock
    BY <1>1, <1>7, <1>9, <1>12, <1>16
  <2> QED BY <1>15, <2>1, <2>2 DEF new
<1>17. CASE ~fFirst /\ fLast
  <2>1. Rest(s, r) = {lower} /\ new = [list EXCEPT ![k + 1] = lower]
    BY <1>3, <1>11, <1>12, <1>17
  <2>2. s.start <= lower.start /\ End(lower) <= End(s) /\ lower \in Flock
    BY <1>1, <1>7, <1>8, <1>12, <1>17
  <2> QED BY <1>15, <2>1, <2>2 DEF new
<1>18. CASE ~fFirst /\ ~fLast
  <2> DEFINE w == [list EXCEPT ![k + 1] = lower]
  <2>1. /\ w \in Seq(Flock) /\ Len(w) = n
        /\ \A i \in 1..n : w[i] = IF i = k + 1 THEN lower ELSE list[i]
    BY <1>4, <1>5, <1>12, <1>18, ExceptSeq
  <2>2. new = InsertAt(w, k + 2, upper)
    BY <1>3, <1>18
  <2> HIDE DEF w
  <2>3. /\ new \in Seq(Flock) /\ Len(new) = n + 1
        /\ \A j \in 1..n + 1 : new[j] = IF j < k + 2 THEN w[j]
                                        ELSE IF j = k + 2 THEN upper ELSE w[j - 1]
    <3>1. k + 2 \in 1..Len(w) + 1
      BY <1>1, <1>5, <2>1
    <3> QED BY <1>12, <1>18, <2>1, <2>2, <3>1, InsertProperties
  <2>4. Rest(s, r) = {lower, upper}
    BY <1>11, <1>12, <1>18
  <2>5. k + 1 \in k..n /\ Len(new) = k + 2 + (n - (k + 1)) /\ k + 1..k + 2 = {k + 1, k + 2}
    BY <1>1, <1>5, <2>3
  <2>6. new[k + 1] = lower /\ new[k + 2] = upper
    BY <1>1, <1>5, <2>1, <2>3
  <2>7. \A i \in 1..k : new[i] = list[i]
    <3> TAKE i \in 1..k
    <3>1. i \in 1..n + 1 /\ i < k + 2 /\ i \in 1..n /\ i # k + 1
      BY <1>1, <1>5
    <3> QED BY <2>1, <2>3, <3>1
  <2>8. \A i \in (k + 1) + 1..n : new[i + (k + 2 - (k + 1))] = list[i]
    <3> TAKE i \in (k + 1) + 1..n
    <3>1. i + (k + 2 - (k + 1)) = i + 1 /\ i + 1 \in 1..n + 1 /\ ~(i + 1 < k + 2) /\ i + 1 # k + 2
          /\ (i + 1) - 1 = i /\ i \in 1..n /\ i # k + 1
      BY <1>1
    <3>2. new[i + 1] = w[i]
      BY <2>3, <3>1
    <3> QED BY <2>1, <3>1, <3>2
  <2>9. Rest(s, r) = {new[i] : i \in k + 1..k + 2}
    BY <2>4, <2>5, <2>6
  <2>10. \A i, j \in k + 1..k + 2 : i < j => End(new[i]) < new[j].start
    <3> SUFFICES ASSUME NEW i \in k + 1..k + 2, NEW j \in k + 1..k + 2, i < j
                 PROVE  End(new[i]) < new[j].start
      OBVIOUS
    <3>1. i = k + 1 /\ j = k + 2
      BY <1>1, <2>5
    <3> QED BY <1>1, <1>8, <1>9, <2>6, <3>1
  <2>11. /\ \A u \in Rest(s, r), i \in 1..k : End(list[i]) < u.start
         /\ \A u \in Rest(s, r), i \in (k + 1) + 1..n : End(u) < list[i].start
    <3>1. /\ s.start <= lower.start /\ End(lower) <= End(s)
          /\ s.start <= upper.start /\ End(upper) <= End(s)
          /\ lower.start \in Nat /\ upper.start \in Nat /\ End(lower) \in Nat /\ End(upper) \in Nat
      BY <1>1, <1>7, <1>8, <1>9
    <3>2. ASSUME NEW i \in 1..k PROVE End(list[i]) < lower.start /\ End(list[i]) < upper.start
      <4>1. End(list[i]) \in Nat /\ End(list[i]) < s.start
        BY <1>1, <1>13
      <4> QED BY <1>7, <3>1, <4>1
    <3>3. ASSUME NEW i \in (k + 1) + 1..n PROVE End(lower) < list[i].start /\ End(upper) < list[i].start
      <4>1. i \in 1..n /\ i \in k + 2..n
        BY <1>1
      <4> QED BY <1>1, <1>7, <1>13, <3>1, <4>1
    <3> QED BY <2>4, <3>2, <3>3
  <2>12. Replaces(new, list, k, k + 1, 2)
    <3>1. \A i \in k + 1..k + 2 : new[i] \in Rest(s, r)
      BY <2>9
    <3> QED BY <2>5, <2>7, <2>8, <2>10, <2>11, <3>1 DEF Replaces
  <2>13. IsArrayOf(new, Renewed(l, new, list, k, k + 1, 2))
    <3>1. 2 \in Nat
      OBVIOUS
    <3> QED BY <1>1, <2>3, <2>5, <2>12, <3>1, Spliced
  <2> QED BY <1>10, <2>9, <2>13 DEF new, Renewed
<1> QED BY <1>14, <1>16, <1>17, <1>18

LEMMA ArrayAgrees ==
  ASSUME NEW l \in SUBSET Flock, Separated(l), IsFiniteSet(l), NEW r \in Flock
  PROVE  Agrees(l, r)
<1> DEFINE list == Sorted(l)
<1>1. IsArrayOf(list, l)
  BY SortedIsArray
<1> HIDE DEF list
<1>2. TestLock(list, r) <=> Conflict(l, r)
  BY <1>1, TestLockAgrees
<1>3. IsLocked(list, r) <=> InOne(l, r)
  BY <1>1, IsLockedAgrees
<1>4. ASSUME ~Conflict(l, r)
      PROVE  SetLock(list, r) = Sorted(Added(l, r))
  <2>1. IsArrayOf(SetLock(list, r), Added(l, r)) /\ Separated(Added(l, r))
    BY <1>1, <1>4, SetLockAgrees, AddedCovers
  <2> QED BY <2>1, ArrayIsSorted
<1>5. ASSUME InOne(l, r)
      PROVE  Unlocked(list, r) = Sorted(Cut(l, r))
  <2>1. IsArrayOf(Unlocked(list, r), Cut(l, r)) /\ Separated(Cut(l, r))
    BY <1>1, <1>5, UnlockedAgrees, CutCovers
  <2> QED BY <2>1, ArrayIsSorted
<1> QED BY <1>2, <1>3, <1>4, <1>5 DEF Agrees, list

LEMMA RangesToFinite ==
  ASSUME NEW n \in Nat
  PROVE  IsFiniteSet(RangesTo(n)) /\ RangesTo(n) \subseteq Flock
<1> DEFINE P == (0..n - 1) \X (1..n)
           B == {Between(x[1], x[2]) : x \in P}
           f == [x \in P |-> Between(x[1], x[2])]
<1>1. IsFiniteSet(P)
  <2>1. IsFiniteSet(0..n - 1) /\ IsFiniteSet(1..n)
    BY FS_Interval
  <2> QED BY <2>1, FS_Product
<1>2. f \in Surjection(P, B)
  BY DEF Surjection
<1>3. IsFiniteSet(B)
  <2> HIDE DEF f, P, B
  <2> QED BY <1>1, <1>2, FS_Surjection
<1>4. RangesTo(n) \subseteq B
  <2> SUFFICES ASSUME NEW r \in RangesTo(n) PROVE r \in B
    OBVIOUS
  <2>1. PICK a \in 0..n - 1, b \in 1..n : r = Between(a, b)
    BY DEF RangesTo
  <2>2. <<a, b>> \in P /\ r = Between(<<a, b>>[1], <<a, b>>[2])
    BY <2>1
  <2> QED BY <2>2
<1>5. RangesTo(n) \subseteq Flock
  <2> SUFFICES ASSUME NEW r \in RangesTo(n) PROVE r \in Flock
    OBVIOUS
  <2>1. PICK a \in 0..n - 1, b \in 1..n : r = Between(a, b) /\ r.len > 0
    BY DEF RangesTo
  <2>2. r = [start |-> a, len |-> b - a] /\ b - a > 0
    BY <2>1 DEF Between
  <2>3. a \in Nat /\ b - a \in Nat \ {0}
    BY <2>2
  <2> QED BY <2>2, <2>3 DEF Flock
<1> HIDE DEF B
<1> QED BY <1>3, <1>4, <1>5, FS_Subset

LEMMA ListOfSeparated ==
  ASSUME NEW S
  PROVE  ListOf(S) \in SUBSET Flock /\ Separated(ListOf(S)) /\ IsFiniteSet(ListOf(S))
<1>1. ListOf(S) \subseteq RangesTo(MaxEnd)
  BY DEF ListOf
<1>2. ListOf(S) \in SUBSET Flock /\ IsFiniteSet(ListOf(S))
  BY <1>1, RangesToFinite, FS_Subset, EndAssumption
<1>3. ASSUME NEW r \in ListOf(S), NEW s \in ListOf(S), r.start < s.start
      PROVE  End(r) < s.start
  <2>1. r \in Flock /\ s \in Flock /\ Bytes(r) \subseteq S /\ s.start - 1 \notin S
    BY <1>2 DEF ListOf
  <2>2. s.start - 1 \notin Bytes(r) /\ End(r) \notin Bytes(s)
    BY <2>1 DEF ListOf
  <2>3. End(r) < s.start \/ End(r) = s.start
    BY <1>3, <2>1, <2>2, InBytes DEF Flock, End
  <2>4. s.start \in Bytes(s)
    BY <2>1, InBytes DEF Flock, End
  <2>5. End(r) \notin S /\ Bytes(s) \subseteq S
    BY DEF ListOf
  <2> QED BY <2>3, <2>4, <2>5
<1>4. ASSUME NEW r \in ListOf(S), NEW s \in ListOf(S), r.start = s.start
      PROVE  r = s
  <2>1. r \in Flock /\ s \in Flock
    BY <1>2
  <2>2. /\ End(r) \notin S /\ Bytes(s) \subseteq S
        /\ End(s) \notin S /\ Bytes(r) \subseteq S
    BY DEF ListOf
  <2>3. ~(End(r) < End(s))
    BY <1>4, <2>1, <2>2, InBytes DEF Flock, End
  <2>4. ~(End(s) < End(r))
    BY <1>4, <2>1, <2>2, InBytes DEF Flock, End
  <2>5. End(r) = End(s)
    BY <2>1, <2>3, <2>4 DEF Flock, End
  <2> QED BY <1>4, <2>1, <2>5 DEF Flock, End
<1>5. Separated(ListOf(S))
  BY <1>2, <1>3, <1>4 DEF Separated, Flock
<1> QED BY <1>2, <1>5

\* What keeps the lists of the processes so.
Arrays ==
    /\ pLocks \in [Process -> SUBSET Flock]
    /\ pc \in [Thread -> {"run", "replaced", "closing"} \cup Calls]
    /\ arg \in [Thread -> Ranges \cup {NoRange}]
    /\ \A p \in Process : Separated(pLocks[p]) /\ IsFiniteSet(pLocks[p])
    /\ \A t \in Thread : pc[t] \in Calls => arg[t] \in Ranges

LEMMA AddedFinite ==
  ASSUME NEW l, NEW r, IsFiniteSet(l)
  PROVE  IsFiniteSet(Added(l, r))
<1>1. IsFiniteSet(l \ (Left(l, r) \cup Right(l, r)))
  BY FS_Subset
<1> QED BY <1>1, FS_AddElement DEF Added

LEMMA CutFinite ==
  ASSUME NEW l, NEW r, IsFiniteSet(l)
  PROVE  IsFiniteSet(Cut(l, r))
<1> DEFINE s == Around(l, r)
           both == {Between(s.start, r.start), Between(End(r), End(s))}
<1>1. IsFiniteSet(both)
  <2>1. both = {Between(s.start, r.start)} \cup {Between(End(r), End(s))}
    OBVIOUS
  <2> HIDE DEF both
  <2> QED BY <2>1, FS_Singleton, FS_AddElement
<1>2. Rest(s, r) \in SUBSET both
  BY DEF Rest
<1> HIDE DEF both
<1>3. IsFiniteSet(l \ {s}) /\ IsFiniteSet(Rest(s, r))
  BY <1>1, <1>2, FS_Subset
<1>4. IsFiniteSet((l \ {s}) \cup Rest(s, r))
  BY <1>3, FS_Union
<1> QED BY <1>4 DEF Cut

LEMMA ArraysKept ==
  ASSUME Arrays, [Next]_vars
  PROVE  Arrays'
<1> USE DEF Calls
<1>1. CASE UNCHANGED vars
  BY <1>1 DEF Arrays, vars, locks
<1>2. ASSUME NEW p \in Process, Die(p)
      PROVE  Arrays'
  <2>1. Separated({}) /\ IsFiniteSet({})
    BY FS_EmptySet DEF Separated
  <2> QED BY <1>2, <2>1 DEF Arrays, Die, Listed
<1>3. ASSUME NEW t \in Thread, Step(t)
      PROVE  Arrays'
  <2> DEFINE p == home[t]
  <2>1. p \in Process
    BY ThreadAssumption
  <2> HIDE DEF p
  <2>2. ASSUME NEW l \in SUBSET Flock, Separated(l), IsFiniteSet(l), Listed(p, l)
        PROVE  /\ pLocks' \in [Process -> SUBSET Flock]
               /\ \A q \in Process : Separated(pLocks'[q]) /\ IsFiniteSet(pLocks'[q])
    BY <2>1, <2>2 DEF Listed, Arrays
  <2>3. CASE UNCHANGED pLocks
    <3>1. /\ pc' \in [Thread -> {"run", "replaced", "closing"} \cup Calls]
          /\ arg' \in [Thread -> Ranges \cup {NoRange}]
          /\ \A u \in Thread : pc'[u] \in Calls => arg'[u] \in Ranges
      BY <1>3 DEF Step, Open, Look, CloseReplaced, Close, Lock, Unlock, LockInOS, Refuse, UnlockInOS, Unlist, Goto, With, Return, Arrays, locks
    <3> QED BY <2>3, <3>1 DEF Arrays
  <2>4. CASE Close(t)
    <3>1. CASE Listed(p, {})
      <4>1. Separated({}) /\ IsFiniteSet({})
        BY FS_EmptySet DEF Separated
      <4> QED BY <2>2, <2>4, <3>1, <4>1 DEF Close, Arrays
    <3> QED BY <2>3, <2>4, <3>1 DEF Close, p
  <2>5. ASSUME NEW r \in Ranges, Lock(t, r)
        PROVE  Arrays'
    <3>1. /\ Separated(pLocks[p]) /\ IsFiniteSet(pLocks[p]) /\ pLocks[p] \in SUBSET Flock
          /\ ~Conflict(pLocks[p], r) /\ r \in Flock /\ Listed(p, Added(pLocks[p], r))
      BY <2>1, <2>5, RangeAssumption DEF Arrays, Lock, Flock, p
    <3>2. /\ pLocks' \in [Process -> SUBSET Flock]
          /\ \A q \in Process : Separated(pLocks'[q]) /\ IsFiniteSet(pLocks'[q])
      BY <2>2, <3>1, AddedCovers, AddedFinite
    <3> QED BY <2>5, <3>2 DEF Lock, With, Goto, Arrays
  <2>6. ASSUME NEW r \in Ranges, Listed(p, Cut(pLocks[p], r))
        PROVE  /\ pLocks' \in [Process -> SUBSET Flock]
               /\ \A q \in Process : Separated(pLocks'[q]) /\ IsFiniteSet(pLocks'[q])
    <3>1. /\ Separated(pLocks[p]) /\ IsFiniteSet(pLocks[p]) /\ pLocks[p] \in SUBSET Flock
          /\ r \in Flock
      BY <2>1, RangeAssumption DEF Arrays, Flock
    <3>2. CASE InOne(pLocks[p], r)
      BY <2>2, <2>6, <3>1, <3>2, CutCovers, CutFinite
    <3>3. CASE ~InOne(pLocks[p], r)
      BY <2>2, <2>6, <3>1, <3>3 DEF Cut
    <3> QED BY <3>2, <3>3
  <2>7. ASSUME NEW r \in Ranges, Unlock(t, r), Listed(p, Cut(pLocks[p], r))
        PROVE  Arrays'
    BY <2>6, <2>7 DEF Unlock, With, Goto, Arrays
  <2>8. CASE Unlist(t)
    BY <2>6, <2>8 DEF Unlist, Return, With, Goto, Arrays, p
  <2> QED BY <1>3, <2>3, <2>4, <2>5, <2>7, <2>8
       DEF Step, Open, Look, CloseReplaced, LockInOS, Refuse, Unlock, UnlockInOS, locks, p
<1> QED BY <1>1, <1>2, <1>3 DEF Next

(* In every reachable state, and for every other list of ranges that do not
   touch, the array that hb_fileSetLock and hb_fileUnlock keep is in order,
   and looking up, adding and cutting a range in it do what FileLocks says of
   the set, for any processes, threads, ranges and modes of access. *)
THEOREM ListAlwaysInOrder == Spec => []ListInOrder
<1>1. Init => Arrays
  BY FS_EmptySet DEF Init, Arrays, Separated, Calls
<1>2. Arrays => ListInOrder
  <2> SUFFICES ASSUME Arrays PROVE ListInOrder
    OBVIOUS
  <2>1. \A p \in Process, r \in Ranges : Agrees(pLocks[p], r)
    BY ArrayAgrees, RangeAssumption DEF Arrays, Flock
  <2>2. LongListsAgree
    BY ArrayAgrees, ListOfSeparated, RangesToFinite, EndAssumption DEF LongListsAgree
  <2> QED BY <2>1, <2>2 DEF ListInOrder
<1>3. Arrays /\ [Next]_vars => Arrays'
  BY ArraysKept
<1> QED BY <1>1, <1>2, <1>3, PTL DEF Spec
=============================================================================
