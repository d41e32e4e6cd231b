--------------------------- MODULE DbfLocks_proof ---------------------------
(***************************************************************************)
(* Proofs about DbfLocks, for all sets of work areas, all ways of writing  *)
(* the header and all bounds.                                              *)
(***************************************************************************)
EXTENDS DbfLocks, TLAPS

-----------------------------------------------------------------------------
(* The invariant.  The first part is about control and locks and holds     *)
(* even after a record could not be written.                               *)

\* Calls that begin with SELF_GOCOLD.
Begun == {"goto", "bottom", "commit", "append", "unlockone",
          "rlock", "flock", "unlock", "close"}

Calls == Begun \cup {"none", "appended", "committed", "shut"}
Steps == {"closed", "idle", "write", "headerlock", "recount", "header", "eol",
          "headerunlock", "commit", "move", "reclock", "filelock", "release",
          "releaseone", "releasefile", "appendlock", "reserve", "blank", "autoinc",
          "appendunlock", "shut", "closing"}

\* In which calls each step is made.
Where(a) ==
    /\ pc[a] \in {"closed", "idle"} => op[a] = "none"
    /\ pc[a] = "write" => op[a] \in Begun \cup {"appended"}
    /\ pc[a] \in {"headerlock", "headerunlock"} => op[a] \in Begun \cup {"committed", "shut"}
    /\ pc[a] \in {"recount", "header", "eol"} =>
          op[a] \in Begun \cup {"appended", "committed", "shut"}
    /\ pc[a] = "commit" => op[a] = "commit"
    /\ pc[a] = "move" => op[a] \in {"goto", "bottom", "rlock", "flock", "append"}
    /\ pc[a] = "reclock" => op[a] \in {"rlock", "append"}
    /\ pc[a] = "filelock" => op[a] = "flock"
    /\ pc[a] = "release" => op[a] \in {"rlock", "flock", "unlock", "close", "append"}
    /\ pc[a] = "releaseone" => op[a] = "unlockone"
    /\ pc[a] \in {"releasefile", "shut"} => op[a] \in {"rlock", "flock", "unlock", "close"}
    /\ pc[a] \in {"appendlock", "reserve", "blank", "autoinc"} => op[a] = "append"
    /\ pc[a] = "appendunlock" => op[a] \in {"append", "appended"}
    /\ pc[a] = "closing" => op[a] = "shut"

\* Where an area has locked the header.
HasHeader(a) ==
    \/ pc[a] \in {"reserve", "blank", "autoinc", "appendunlock",
                  "recount", "header", "eol", "headerunlock"}
    \/ op[a] = "appended"
    \/ op[a] = "append" /\ pc[a] \in {"release", "reclock", "move"}

\* The bytes of an area are those of the locks that it knows of.
Locks(a) ==
    /\ fHeaderLocked(a) <=> HasHeader(a)
    /\ \A r \in Records : owner[r] = a <=> Locked(a, r)
    /\ fFLocked[a] => pLocksPos[a] = {}
    /\ op[a] = "rlock" /\ pc[a] # "move" => arg[a] \in Records
    /\ op[a] = "append" /\ pc[a] \in {"release", "reclock"} => arg[a] \in Records
    /\ op[a] = "unlockone" => arg[a] \in pLocksPos[a]
    /\ pc[a] = "releasefile" => fFLocked[a]
    /\ pc[a] \in {"closed", "shut", "closing"} \/ op[a] = "shut" =>
          pLocksPos[a] = {} /\ ~fFLocked[a]
    /\ pc[a] \in {"header", "eol"} => ulRecCount[a] <= Len(rows)

Types ==
    /\ TypeOK
    /\ pc \in [Area -> Steps] /\ op \in [Area -> Calls]

Control == Types /\ \A a \in Area : Where(a) /\ Locks(a)

(* The second part is about data.  A buffer is hot only if its record is    *)
(* locked, and stale only if it is not.                                    *)
Buffer(a) ==
    /\ fRecordChanged[a] =>
          /\ fValidBuffer[a] /\ fPositioned[a] /\ Locked(a, ulRecNo[a])
          /\ pc[a] \in {"idle", "write"} \/ (pc[a] = "reclock" /\ op[a] = "rlock")
    /\ pc[a] = "write" => fRecordChanged[a]
    /\ a \in stale => fPositioned[a] /\ ~Locked(a, ulRecNo[a])
    /\ fValidBuffer[a] \/ fPositioned[a]

\* The record that is being appended has not been written yet.
New(a) == op[a] = "appended" /\ pc[a] = "write"
\* The area is about to append one.
Adding(a) ==
    \/ pc[a] \in {"blank", "autoinc"}
    \/ op[a] = "append" /\ pc[a] \in {"release", "reclock", "move"}

Position(a) ==
    /\ New(a) => /\ ulRecNo[a] = Len(rows) + 1 /\ ulRecCount[a] = Len(rows) + 1
                 /\ fPositioned[a] /\ fUpdateHeader[a]
    /\ ~New(a) => /\ ulRecCount[a] <= Len(rows)
                  /\ fPositioned[a] => ulRecNo[a] <= Len(rows)
    /\ New(a) \/ Adding(a) => Len(rows) < MaxRec
    /\ Adding(a) \/ pc[a] \in {"header", "eol"} => ulRecCount[a] = Len(rows)
    /\ op[a] = "append" /\ pc[a] \in {"release", "reclock"} => arg[a] = Len(rows) + 1
    /\ pc[a] \in {"blank", "autoinc"} \/ (op[a] = "append" /\ pc[a] = "move") =>
          Locked(a, Len(rows) + 1)
    /\ pc[a] = "eol" => header = Len(rows)
    /\ pc[a] \in {"headerunlock", "closing"} => ~fUpdateHeader[a]

Keys(a) ==
    /\ fPositioned[a] /\ fValidBuffer[a] /\ ~New(a) /\ pc[a] # "autoinc" =>
          key[a] = rows[ulRecNo[a]]
    /\ pc[a] = "autoinc" => key[a] = counter
    /\ New(a) => key[a] < counter /\ \A i \in 1..Len(rows) : rows[i] < key[a]

Table ==
    /\ Len(rows) <= MaxRec
    /\ \A i \in 1..Len(rows) : rows[i] < counter
    /\ Unique(rows)
    /\ HeaderKnown

Data == Table /\ \A a \in Area : Buffer(a) /\ Position(a) /\ Keys(a)

Safe == Control /\ (failed \/ Data)
-----------------------------------------------------------------------------
(* Control                                                                 *)

LEMMA Bytes ==
  /\ 0 \in Byte /\ Records \subseteq Byte /\ 0 \notin Records
  /\ \A b \in Byte : b = 0 \/ b \in Records
  /\ \A r \in Records : r \in Nat /\ r > 0 /\ r <= MaxRec
  /\ \A r \in Nat : r > 0 /\ r <= MaxRec => r \in Records
BY BoundAssumption DEF Byte, HeaderByte, Records

\* Locking and unlocking change nothing but the bytes asked for.
LEMMA Acquired ==
  ASSUME Types, NEW a \in Area, NEW S, File!Acquire(a, S)
  PROVE  /\ owner' \in [Byte -> Area \cup {NoArea}]
         /\ \A b \in S : owner[b] = NoArea
         /\ \A b \in Byte : owner'[b] = IF b \in S THEN a ELSE owner[b]
BY DEF Types, TypeOK, File!Acquire, File!Free, File!Given

LEMMA Released ==
  ASSUME Types, NEW a \in Area, NEW S, File!Release(a, S)
  PROVE  /\ owner' \in [Byte -> Area \cup {NoArea}]
         /\ \A b \in S : b \in Byte /\ owner[b] = a
         /\ \A b \in Byte : owner'[b] = IF b \in S THEN NoArea ELSE owner[b]
BY DEF Types, TypeOK, File!Release, File!Owned, File!Given

LEMMA Died ==
  ASSUME Types, NEW a \in Area, File!Die({a})
  PROVE  /\ owner' \in [Byte -> Area \cup {NoArea}]
         /\ \A b \in Byte : owner'[b] = IF owner[b] = a THEN NoArea ELSE owner[b]
BY DEF Types, TypeOK, File!Die, File!Owned, File!Given

\* The cases of After.
LEMMA AfterEach ==
  ASSUME NEW a \in Area, NEW o
  PROVE  /\ o \in {"goto", "bottom"} => After(a, o) = "move"
         /\ o = "commit" => After(a, o) = "commit"
         /\ o = "append" => After(a, o) = "appendlock"
         /\ o = "appended" => After(a, o) = "appendunlock"
         /\ o = "unlockone" => After(a, o) = "releaseone"
         /\ o = "shut" => After(a, o) = "closing"
         /\ o \in {"rlock", "flock", "unlock", "close"} =>
              /\ fFLocked[a] => After(a, o) = "releasefile"
              /\ ~fFLocked[a] /\ pLocksPos[a] # {} => After(a, o) = "release"
              /\ ~fFLocked[a] /\ pLocksPos[a] = {} => After(a, o) = "shut"
BY DEF After

LEMMA ControlAtFirst == Init => Control
<1> SUFFICES ASSUME Init PROVE Control
  OBVIOUS
<1>1. rows \in Seq(Nat)
  BY BoundAssumption DEF Init
<1>2. owner \in [Byte -> Area \cup {NoArea}] /\ \A b \in Byte : owner[b] = NoArea
  BY DEF Init, File!Init
<1>n. Existing \in Nat
  BY BoundAssumption
<1>3. TypeOK
  <2>1. header \in Nat /\ counter \in Nat
    BY <1>n DEF Init
  <2>2. /\ pLocksPos \in [Area -> SUBSET Records] /\ fFLocked \in [Area -> BOOLEAN]
        /\ ulRecNo \in [Area -> Nat \ {0}] /\ ulRecCount \in [Area -> Nat]
        /\ fPositioned \in [Area -> BOOLEAN]
    BY DEF Init
  <2>3. /\ fValidBuffer \in [Area -> BOOLEAN] /\ fRecordChanged \in [Area -> BOOLEAN]
        /\ fUpdateHeader \in [Area -> BOOLEAN]
        /\ key \in [Area -> Nat] /\ arg \in [Area -> Nat]
    BY DEF Init
  <2>4. stale \subseteq Area /\ orphan \in BOOLEAN
    BY DEF Init
  <2> QED BY <1>1, <1>2, <2>1, <2>2, <2>3, <2>4 DEF TypeOK
<1>6. pc \in [Area -> Steps] /\ op \in [Area -> Calls]
  BY DEF Init, Calls, Steps
<1>4. ASSUME NEW a \in Area PROVE Where(a)
  BY DEF Init, Where
<1>5. ASSUME NEW a \in Area PROVE Locks(a)
  <2>1. pc[a] = "closed" /\ op[a] = "none" /\ pLocksPos[a] = {} /\ fFLocked[a] = FALSE
    BY DEF Init
  <2>2. owner[0] # a /\ \A r \in Records : owner[r] # a
    BY <1>2, Bytes, AreaAssumption
  <2> QED BY <2>1, <2>2 DEF Locks, HasHeader, Locked, fHeaderLocked
<1> QED BY <1>3, <1>4, <1>5, <1>6 DEF Control, Types

\* Moving keeps the types.
LEMMA MovedTypes ==
  ASSUME Types, NEW a \in Area, NEW r \in Nat, NEW n \in Nat, Moved(a, r, n)
  PROVE  /\ ulRecNo' \in [Area -> Nat \ {0}] /\ ulRecCount' \in [Area -> Nat]
         /\ fPositioned' \in [Area -> BOOLEAN] /\ fValidBuffer' \in [Area -> BOOLEAN]
         /\ key' \in [Area -> Nat] /\ stale' \subseteq Area
<1>1. n + 1 \in Nat \ {0} /\ (r \in 1..n => r \in Nat \ {0})
  OBVIOUS
<1> QED BY <1>1 DEF Types, TypeOK, Moved, Set

LEMMA GoTypes ==
  ASSUME Types, NEW a \in Area, NEW o, NEW r \in Nat, Go(a, o, r)
  PROVE  /\ ulRecNo' \in [Area -> Nat \ {0}] /\ ulRecCount' \in [Area -> Nat]
         /\ fPositioned' \in [Area -> BOOLEAN] /\ fValidBuffer' \in [Area -> BOOLEAN]
         /\ key' \in [Area -> Nat] /\ stale' \subseteq Area
<1>1. Len(rows) \in Nat /\ ulRecCount[a] \in Nat
  BY DEF Types, TypeOK
<1>2. CASE Moved(a, Len(rows), Len(rows))
  BY <1>1, <1>2 DEF Types, TypeOK, Moved, Set
<1>3. CASE Moved(a, r, Len(rows))
  BY <1>1, <1>3 DEF Types, TypeOK, Moved, Set
<1>4. CASE Moved(a, r, ulRecCount[a])
  BY <1>1, <1>4 DEF Types, TypeOK, Moved, Set
<1> QED BY <1>2, <1>3, <1>4 DEF Go

LEMMA ColdTypes ==
  ASSUME Types, NEW a \in Area, NEW o \in Begun, GoCold(a, o)
  PROVE  pc' \in [Area -> Steps] /\ op' \in [Area -> Calls]
<1>1. After(a, o) \in Steps
  BY AfterEach DEF Begun, Steps
<1> QED BY <1>1 DEF Types, TypeOK, GoCold, Goto, Set, Steps, Calls

LEMMA DoneTypes ==
  ASSUME Types, NEW a \in Area, Done(a)
  PROVE  /\ pc' \in [Area -> Steps] /\ op' \in [Area -> Calls]
         /\ arg' \in [Area -> Nat]
<1>1. CASE Step(a, "blank")
  BY <1>1 DEF Types, TypeOK, Step, Goto, Set, Steps, call
<1>2. CASE Return(a)
  BY <1>2 DEF Types, TypeOK, Return, Goto, Calling, Set, Steps, Calls
<1> QED BY <1>1, <1>2 DEF Done

LEMMA RefreshTypes ==
  ASSUME Types, NEW a \in Area, Refresh(a)
  PROVE  /\ pc' \in [Area -> Steps] /\ op' \in [Area -> Calls]
         /\ arg' \in [Area -> Nat]
         /\ fValidBuffer' \in [Area -> BOOLEAN] /\ key' \in [Area -> Nat]
         /\ stale' \subseteq Area
<1> USE DEF Types, TypeOK
<1>1. CASE /\ Goto(a, "move") /\ Set(arg, a, ulRecNo[a])
           /\ UNCHANGED <<op, fValidBuffer, key, stale>>
  BY <1>1 DEF Goto, Set, Steps
<1>2. CASE /\ Set(fValidBuffer, a, FALSE) /\ Set(key, a, 0)
           /\ stale' = stale \ {a} /\ Done(a)
  BY <1>2, DoneTypes DEF Set
<1>3. CASE Done(a) /\ UNCHANGED <<fValidBuffer, key, stale>>
  BY <1>3, DoneTypes
<1> QED BY <1>1, <1>2, <1>3 DEF Refresh

LEMMA ReplacedSeq ==
  ASSUME NEW s \in Seq(Nat), NEW i \in 1..Len(s), NEW n \in Nat
  PROVE  [s EXCEPT ![i] = n] \in Seq(Nat)
OBVIOUS

LEMMA StoredTypes ==
  ASSUME Types, NEW r \in Nat PROVE Stored(r) \in Nat
<1>1. rows \in [1..Len(rows) -> Nat]
  BY DEF Types, TypeOK
<1> QED BY <1>1 DEF Stored

\* Where a call that is under way goes on.
LEMMA CallTypes ==
  ASSUME Types, NEW a \in Area, Where(a),
         \/ Move(a) \/ FailToWrite(a) \/ HeaderUnlock(a) \/ Commit(a)
         \/ Release(a) \/ ReleaseFile(a)
  PROVE  /\ pc' \in [Area -> Steps] /\ op' \in [Area -> Calls]
         /\ arg' \in [Area -> Nat]
<1> DEFINE Typed == /\ pc' \in [Area -> Steps] /\ op' \in [Area -> Calls]
                    /\ arg' \in [Area -> Nat]
<1>a. ASSUME NEW s \in Steps, Step(a, s) PROVE Typed
  BY <1>a DEF Types, TypeOK, Step, Goto, Set, call
<1>b. ASSUME Return(a) PROVE Typed
  BY <1>b DEF Types, TypeOK, Return, Goto, Calling, Set, Steps, Calls
<1>c. ASSUME Goto(a, "headerlock"), Calling(a, "committed", 0) PROVE Typed
  BY <1>c DEF Types, TypeOK, Goto, Calling, Set, Steps, Calls
<1> HIDE DEF Typed
<1>1. CASE Move(a)
  <2>1. Step(a, "blank") \/ Return(a)
    BY <1>1 DEF Move, Done
  <2> QED BY <2>1, <1>a, <1>b DEF Typed, Steps
<1>2. CASE FailToWrite(a)
  <2>1. op[a] \in Begun \cup {"appended"}
    BY <1>2 DEF FailToWrite, Where
  <2>2. Step(a, After(a, op[a])) \/ Return(a)
    BY <1>2 DEF FailToWrite
  <2>3. After(a, op[a]) \in Steps
    BY <2>1, AfterEach DEF Begun, Steps
  <2> QED BY <2>2, <2>3, <1>a, <1>b DEF Typed
<1>3. CASE HeaderUnlock(a)
  <2>1. op[a] \in Begun \cup {"committed", "shut"}
    BY <1>3 DEF HeaderUnlock, Where
  <2>2. (op[a] # "committed" /\ Step(a, After(a, op[a]))) \/ Return(a)
    BY <1>3 DEF HeaderUnlock
  <2>3. op[a] # "committed" => After(a, op[a]) \in Steps
    BY <2>1, AfterEach DEF Begun, Steps
  <2> QED BY <2>2, <2>3, <1>a, <1>b DEF Typed
<1>4. CASE Commit(a)
  BY <1>4, <1>b, <1>c DEF Commit, Typed
<1>5. CASE Release(a)
  <2>1. (\E s \in Steps : Step(a, s)) \/ Return(a)
    BY <1>5 DEF Release, Steps
  <2> QED BY <2>1, <1>a, <1>b DEF Typed
<1>6. CASE ReleaseFile(a)
  <2>1. Step(a, "shut") \/ Return(a)
    BY <1>6 DEF ReleaseFile
  <2> QED BY <2>1, <1>a, <1>b DEF Typed, Steps
<1> QED BY <1>1, <1>2, <1>3, <1>4, <1>5, <1>6 DEF Typed

LEMMA TypesKept ==
  ASSUME Control, NEW a \in Area, Call(a) \/ Progress(a) \/ Die(a)
  PROVE  Types'
<1> USE DEF Types, TypeOK, Calls, Begun, Steps, Set, Goto, Step, Calling, Return,
            disk, lock, place, buffer, head, call
<1>0. Types
  BY DEF Control
<1>a. op[a] \in Begun \cup {"appended", "shut"} => After(a, op[a]) \in Steps
  BY <1>0, AfterEach
<1>b. \A o \in Begun : GoCold(a, o) => pc' \in [Area -> Steps] /\ op' \in [Area -> Calls]
  BY <1>0, ColdTypes
<1>w. Where(a)
  BY DEF Control
<1>1. ASSUME Open(a) PROVE Types'
  <2>1. Moved(a, 1, Len(rows)) /\ Len(rows) \in Nat /\ 1 \in Nat
    BY <1>1, <1>0 DEF Open
  <2>2. /\ ulRecNo' \in [Area -> Nat \ {0}] /\ ulRecCount' \in [Area -> Nat]
        /\ fPositioned' \in [Area -> BOOLEAN] /\ fValidBuffer' \in [Area -> BOOLEAN]
        /\ key' \in [Area -> Nat] /\ stale' \subseteq Area
    BY <2>1, <1>0, MovedTypes
  <2> QED BY <1>1, <2>2, <1>0 DEF Open
<1>2. ASSUME GoTo(a, "bottom", 0) PROVE Types'
  <2>1. CASE Go(a, "bottom", 0) /\ UNCHANGED <<pc, call>>
    <3>2. /\ ulRecNo' \in [Area -> Nat \ {0}] /\ ulRecCount' \in [Area -> Nat]
          /\ fPositioned' \in [Area -> BOOLEAN] /\ fValidBuffer' \in [Area -> BOOLEAN]
          /\ key' \in [Area -> Nat] /\ stale' \subseteq Area
        BY <2>1, <1>0, GoTypes
    <3> QED BY <1>2, <2>1, <3>2, <1>0 DEF GoTo
  <2>3. CASE GoCold(a, "bottom") /\ UNCHANGED <<place, ulRecCount, fValidBuffer, key, stale>>
    <3>1. pc' \in [Area -> Steps] /\ op' \in [Area -> Calls]
      BY <2>3, <1>0, ColdTypes
    <3> QED BY <1>2, <2>3, <3>1, <1>0 DEF GoTo
  <2> QED BY <1>2, <2>1, <2>3 DEF GoTo
<1>3. ASSUME NEW r \in Records, GoTo(a, "goto", r) PROVE Types'
  <2>1. CASE Go(a, "goto", r) /\ UNCHANGED <<pc, call>>
    <3>2. /\ ulRecNo' \in [Area -> Nat \ {0}] /\ ulRecCount' \in [Area -> Nat]
          /\ fPositioned' \in [Area -> BOOLEAN] /\ fValidBuffer' \in [Area -> BOOLEAN]
          /\ key' \in [Area -> Nat] /\ stale' \subseteq Area
        BY <2>1, <1>0, GoTypes, Bytes
    <3> QED BY <1>3, <2>1, <3>2, <1>0 DEF GoTo
  <2>3. CASE GoCold(a, "goto") /\ UNCHANGED <<place, ulRecCount, fValidBuffer, key, stale>>
    <3>1. pc' \in [Area -> Steps] /\ op' \in [Area -> Calls]
      BY <2>3, <1>0, ColdTypes
    <3> QED BY <1>3, <2>3, <3>1, <1>0, Bytes DEF GoTo
  <2> QED BY <1>3, <2>1, <2>3 DEF GoTo
<1>4. ASSUME Read(a) PROVE Types'
  BY <1>4, <1>0, StoredTypes DEF Read
<1>5. ASSUME PutValue(a) PROVE Types'
  <2>1. Stored(ulRecNo[a]) \in Nat
    BY <1>0, StoredTypes
  <2>2. CASE fValidBuffer[a]
    <3>1. UNCHANGED <<fValidBuffer, key, stale>>
      BY <1>5, <2>2 DEF PutValue
    <3> QED BY <1>5, <3>1, <1>0 DEF PutValue
  <2>3. CASE ~fValidBuffer[a]
    <3>1. /\ fValidBuffer' = [fValidBuffer EXCEPT ![a] = TRUE]
          /\ key' = [key EXCEPT ![a] = Stored(ulRecNo[a])]
          /\ stale' = stale \ {a}
      BY <1>5, <2>3 DEF PutValue
    <3> QED BY <1>5, <2>1, <3>1, <1>0 DEF PutValue
  <2> QED BY <2>2, <2>3
<1>6. ASSUME LockRecord(a) PROVE Types'
  BY <1>6, <1>0, <1>b, Bytes DEF LockRecord
<1>7. ASSUME NEW r \in Records, LockMore(a, r) PROVE Types'
  BY <1>7, <1>0, Bytes DEF LockMore
<1>8. ASSUME LockFile(a) PROVE Types'
  BY <1>8, <1>0, <1>b DEF LockFile
<1>9. ASSUME UnLock(a) PROVE Types'
  BY <1>9, <1>0, <1>b DEF UnLock
<1>10. ASSUME NEW r \in Records, UnLockOne(a, r) PROVE Types'
  BY <1>10, <1>0, <1>b, Bytes DEF UnLockOne
<1>11. ASSUME AppendRec(a) PROVE Types'
  BY <1>11, <1>0, <1>b DEF AppendRec
<1>12. ASSUME Flush(a) PROVE Types'
  BY <1>12, <1>0, <1>b DEF Flush
<1>13. ASSUME Close(a) PROVE Types'
  BY <1>13, <1>0, <1>b DEF Close
<1>14. ASSUME Move(a) PROVE Types'
  <2>1. Go(a, op[a], arg[a]) /\ arg[a] \in Nat
    BY <1>14, <1>0 DEF Move
  <2>2. /\ ulRecNo' \in [Area -> Nat \ {0}] /\ ulRecCount' \in [Area -> Nat]
        /\ fPositioned' \in [Area -> BOOLEAN] /\ fValidBuffer' \in [Area -> BOOLEAN]
        /\ key' \in [Area -> Nat] /\ stale' \subseteq Area
    BY <2>1, <1>0, GoTypes
  <2>3. /\ pc' \in [Area -> Steps] /\ op' \in [Area -> Calls]
        /\ arg' \in [Area -> Nat]
    BY <1>14, <1>0, <1>w, CallTypes
  <2> QED BY <1>14, <2>2, <2>3, <1>0 DEF Move
<1>15. ASSUME Write(a) PROVE Types'
  <2>1. rows' \in Seq(Nat)
    <3>1. key[a] \in Nat /\ ulRecNo[a] \in 1..Len(rows) \cup {r \in Nat : r > Len(rows)}
      BY <1>0
    <3>2. CASE ulRecNo[a] <= Len(rows)
      <4>1. rows' = [rows EXCEPT ![ulRecNo[a]] = key[a]]
        BY <1>15, <3>2 DEF Write
      <4>2. rows \in Seq(Nat) /\ ulRecNo[a] \in 1..Len(rows) /\ key[a] \in Nat
        BY <3>1, <3>2, <1>0
      <4> QED BY <4>1, <4>2, ReplacedSeq
    <3>3. CASE ulRecNo[a] > Len(rows)
      <4>1. rows' = Append(rows, key[a])
        BY <1>15, <3>1, <3>3 DEF Write
      <4> QED BY <3>1, <4>1, <1>0
    <3> QED BY <3>1, <3>2, <3>3
  <2>2. stale' \subseteq Area
    BY <1>15, <1>0 DEF Write, Others
  <2>3. pc' \in [Area -> Steps]
    BY <1>15, <1>0, <1>a, <1>w DEF Write, Where
  <2>4. fRecordChanged' \in [Area -> BOOLEAN]
    BY <1>15, <1>0 DEF Write
  <2>5. fUpdateHeader' \in [Area -> BOOLEAN]
    BY <1>15, <1>0 DEF Write
  <2> QED BY <1>15, <2>1, <2>2, <2>3, <2>4, <2>5, <1>0 DEF Write
<1>16. ASSUME FailToWrite(a) PROVE Types'
  <2>1. op[a] \in Begun \cup {"appended"}
    BY <1>16, <1>w DEF FailToWrite, Where
  <2>2. /\ pc' \in [Area -> Steps] /\ op' \in [Area -> Calls]
        /\ arg' \in [Area -> Nat]
    BY <1>16, <1>0, <1>w, CallTypes
  <2> QED BY <1>16, <2>2, <1>0 DEF FailToWrite
<1>17. ASSUME HeaderLock(a) PROVE Types'
  BY <1>17, <1>0, Acquired DEF HeaderLock
<1>18. ASSUME Recount(a) PROVE Types'
  BY <1>18, <1>0 DEF Recount
<1>19. ASSUME WriteHeader(a) PROVE Types'
  BY <1>19, <1>0 DEF WriteHeader, Written
<1>20. ASSUME WriteEol(a) PROVE Types'
  <2>1. rows' \in Seq(Nat)
    <3>1. rows' = SubSeq(rows, 1, ulRecCount[a]) /\ ulRecCount[a] \in Nat
      BY <1>20, <1>0 DEF WriteEol
    <3>2. ulRecCount[a] <= Len(rows)
      BY <1>20 DEF WriteEol, Control, Locks
    <3> QED BY <3>1, <3>2, <1>0
  <2> QED BY <1>20, <2>1, <1>0 DEF WriteEol, Written
<1>21. ASSUME HeaderUnlock(a) PROVE Types'
  <2>1. owner' \in [Byte -> Area \cup {NoArea}]
    BY <1>21, <1>0, Released DEF HeaderUnlock
  <2>2. op[a] = "committed" \/ After(a, op[a]) \in Steps
    BY <1>21, <1>w, <1>a DEF HeaderUnlock, Where
  <2>3. /\ pc' \in [Area -> Steps] /\ op' \in [Area -> Calls]
        /\ arg' \in [Area -> Nat]
    BY <1>21, <1>0, <1>w, CallTypes
  <2> QED BY <1>21, <2>1, <2>3, <1>0 DEF HeaderUnlock
<1>22. ASSUME Commit(a) PROVE Types'
  <2>1. /\ pc' \in [Area -> Steps] /\ op' \in [Area -> Calls]
        /\ arg' \in [Area -> Nat]
    BY <1>22, <1>0, <1>w, CallTypes
  <2> QED BY <1>22, <2>1, <1>0 DEF Commit
<1>23. ASSUME RecLock(a) PROVE Types'
  <2>1. arg[a] \in Records
    BY <1>23, <1>w DEF RecLock, Control, Locks, Where
  <2>2. /\ owner' \in [Byte -> Area \cup {NoArea}]
        /\ pLocksPos' \in [Area -> SUBSET Records]
    <3>1. CASE RecLocked(a, arg[a])
      BY <3>1, <2>1, <1>0, Acquired DEF RecLocked
    <3>2. CASE RecRefused(a)
      BY <3>2, <1>0 DEF RecRefused
    <3> QED BY <1>23, <3>1, <3>2 DEF RecLock
  <2>3. /\ pc' \in [Area -> Steps] /\ op' \in [Area -> Calls] /\ arg' \in [Area -> Nat]
        /\ fValidBuffer' \in [Area -> BOOLEAN] /\ key' \in [Area -> Nat]
        /\ stale' \subseteq Area
    <3>1. CASE Refresh(a)
      BY <3>1, <1>0, RefreshTypes
    <3>2. CASE Elsewhere(a)
      BY <3>2, <1>0, DoneTypes DEF Elsewhere
    <3>3. CASE RecRefused(a)
      <4>1. CASE Step(a, "appendunlock")
        BY <3>3, <4>1, <1>0 DEF RecRefused
      <4>2. CASE Return(a)
        BY <3>3, <4>2, <1>0 DEF RecRefused
      <4> QED BY <3>3, <4>1, <4>2 DEF RecRefused
    <3> QED BY <1>23, <3>1, <3>2, <3>3 DEF RecLock
  <2> QED BY <1>23, <2>2, <2>3, <1>0 DEF RecLock
<1>24. ASSUME FileLock(a) PROVE Types'
  <2>1. owner' \in [Byte -> Area \cup {NoArea}] /\ fFLocked' \in [Area -> BOOLEAN]
    BY <1>24, <1>0, Acquired DEF FileLock
  <2>2. Refresh(a)
    BY <1>24 DEF FileLock
  <2>3. /\ pc' \in [Area -> Steps] /\ op' \in [Area -> Calls] /\ arg' \in [Area -> Nat]
        /\ fValidBuffer' \in [Area -> BOOLEAN] /\ key' \in [Area -> Nat]
        /\ stale' \subseteq Area
    BY <2>2, <1>0, RefreshTypes
  <2> QED BY <1>24, <2>1, <2>3, <1>0 DEF FileLock
<1>25. ASSUME Release(a) PROVE Types'
  <2>1. PICK r \in pLocksPos[a] :
            /\ File!Release(a, {r})
            /\ pLocksPos' = [pLocksPos EXCEPT ![a] = pLocksPos[a] \ {r}]
    BY <1>25 DEF Release
  <2>2. /\ owner' \in [Byte -> Area \cup {NoArea}]
        /\ pLocksPos' \in [Area -> SUBSET Records]
    BY <2>1, <1>0, Released
  <2>3. /\ pc' \in [Area -> Steps] /\ op' \in [Area -> Calls]
        /\ arg' \in [Area -> Nat]
    BY <1>25, <1>0, <1>w, CallTypes
  <2> QED BY <1>25, <2>2, <2>3, <1>0 DEF Release
<1>26. ASSUME ReleaseOne(a) PROVE Types'
  BY <1>26, <1>0, Released DEF ReleaseOne
<1>27. ASSUME ReleaseFile(a) PROVE Types'
  <2>1. owner' \in [Byte -> Area \cup {NoArea}]
    BY <1>27, <1>0, Released DEF ReleaseFile
  <2>2. /\ pc' \in [Area -> Steps] /\ op' \in [Area -> Calls]
        /\ arg' \in [Area -> Nat]
    BY <1>27, <1>0, <1>w, CallTypes
  <2> QED BY <1>27, <2>1, <2>2, <1>0 DEF ReleaseFile
<1>28. ASSUME AppendLock(a) PROVE Types'
  BY <1>28, <1>0, Acquired DEF AppendLock
<1>29. ASSUME Reserve(a) PROVE Types'
  <2>1. Len(rows) \in Nat /\ Len(rows) + 1 \in Nat
    BY <1>0
  <2>2. pc' \in [Area -> Steps]
    BY <1>29, <1>0 DEF Reserve
  <2> QED BY <1>29, <2>1, <2>2, <1>0 DEF Reserve
<1>30. ASSUME Blank(a) PROVE Types'
  BY <1>30, <1>0 DEF Blank
<1>31. ASSUME AutoInc(a) PROVE Types'
  BY <1>31, <1>0 DEF AutoInc
<1>32. ASSUME AppendUnlock(a) PROVE Types'
  BY <1>32, <1>0, Released DEF AppendUnlock
<1>33. ASSUME Shut(a) PROVE Types'
  BY <1>33, <1>0 DEF Shut
<1>34. ASSUME CloseFile(a) PROVE Types'
  BY <1>34, <1>0 DEF CloseFile, Gone
<1>35. ASSUME Die(a) PROVE Types'
  BY <1>35, <1>0, Died DEF Die, Gone
<1> QED BY <1>1, <1>2, <1>3, <1>4, <1>5, <1>6, <1>7, <1>8, <1>9, <1>10,
          <1>11, <1>12, <1>13, <1>14, <1>15, <1>16, <1>17, <1>18, <1>19,
          <1>20, <1>21, <1>22, <1>23, <1>24, <1>25, <1>26, <1>27, <1>28,
          <1>29, <1>30, <1>31, <1>32, <1>33, <1>34, <1>35 DEF Call, Progress

\* A step of one area leaves what the others know as it is, and their bytes.
Alone(b) ==
    /\ pc'[b] = pc[b] /\ op'[b] = op[b] /\ arg'[b] = arg[b]
    /\ pLocksPos'[b] = pLocksPos[b] /\ fFLocked'[b] = fFLocked[b]
    /\ ulRecNo'[b] = ulRecNo[b] /\ ulRecCount'[b] = ulRecCount[b]
    /\ fPositioned'[b] = fPositioned[b] /\ fValidBuffer'[b] = fValidBuffer[b]
    /\ fRecordChanged'[b] = fRecordChanged[b] /\ fUpdateHeader'[b] = fUpdateHeader[b]
    /\ key'[b] = key[b]
    /\ \A x \in Byte : owner'[x] = b <=> owner[x] = b

LEMMA OthersStay ==
  ASSUME Types, NEW a \in Area, NEW b \in Area \ {a}, Call(a) \/ Progress(a) \/ Die(a)
  PROVE  Alone(b)
<1> USE AreaAssumption DEF Alone, Types, TypeOK, Set, Goto, Step, Calling, Return,
                  disk, lock, place, buffer, head, call
<1>1. ASSUME Open(a) PROVE Alone(b)
  BY <1>1 DEF Open, Moved
<1>2. ASSUME GoTo(a, "bottom", 0) PROVE Alone(b)
  BY <1>2 DEF GoTo, Go, Moved, GoCold
<1>3. ASSUME NEW r \in Records, GoTo(a, "goto", r) PROVE Alone(b)
  BY <1>3 DEF GoTo, Go, Moved, GoCold
<1>4. ASSUME Read(a) PROVE Alone(b)
  BY <1>4 DEF Read
<1>5. ASSUME PutValue(a) PROVE Alone(b)
  BY <1>5 DEF PutValue
<1>6. ASSUME LockRecord(a) PROVE Alone(b)
  BY <1>6 DEF LockRecord, GoCold
<1>7. ASSUME NEW r \in Records, LockMore(a, r) PROVE Alone(b)
  BY <1>7 DEF LockMore
<1>8. ASSUME LockFile(a) PROVE Alone(b)
  BY <1>8 DEF LockFile, GoCold
<1>9. ASSUME UnLock(a) PROVE Alone(b)
  BY <1>9 DEF UnLock, GoCold
<1>10. ASSUME NEW r \in Records, UnLockOne(a, r) PROVE Alone(b)
  BY <1>10 DEF UnLockOne, GoCold
<1>11. ASSUME AppendRec(a) PROVE Alone(b)
  BY <1>11 DEF AppendRec, GoCold
<1>12. ASSUME Flush(a) PROVE Alone(b)
  BY <1>12 DEF Flush, GoCold
<1>13. ASSUME Close(a) PROVE Alone(b)
  BY <1>13 DEF Close, GoCold
<1>14. ASSUME Move(a) PROVE Alone(b)
  BY <1>14 DEF Move, Go, Moved, Done
<1>15. ASSUME Write(a) PROVE Alone(b)
  BY <1>15 DEF Write
<1>16. ASSUME FailToWrite(a) PROVE Alone(b)
  BY <1>16 DEF FailToWrite
<1>17. ASSUME HeaderLock(a) PROVE Alone(b)
  BY <1>17, Acquired DEF HeaderLock
<1>18. ASSUME Recount(a) PROVE Alone(b)
  BY <1>18 DEF Recount
<1>19. ASSUME WriteHeader(a) PROVE Alone(b)
  BY <1>19 DEF WriteHeader, Written
<1>20. ASSUME WriteEol(a) PROVE Alone(b)
  BY <1>20 DEF WriteEol, Written
<1>21. ASSUME HeaderUnlock(a) PROVE Alone(b)
  BY <1>21, Released DEF HeaderUnlock
<1>22. ASSUME Commit(a) PROVE Alone(b)
  BY <1>22 DEF Commit
<1>23. ASSUME RecLock(a) PROVE Alone(b)
  BY <1>23, Acquired, SMTT(30) DEF RecLock, RecLocked, RecRefused, Elsewhere, Refresh, Done
<1>24. ASSUME FileLock(a) PROVE Alone(b)
  BY <1>24, Acquired DEF FileLock, Refresh, Done
<1>25. ASSUME Release(a) PROVE Alone(b)
  BY <1>25, Released DEF Release
<1>26. ASSUME ReleaseOne(a) PROVE Alone(b)
  BY <1>26, Released DEF ReleaseOne
<1>27. ASSUME ReleaseFile(a) PROVE Alone(b)
  BY <1>27, Released DEF ReleaseFile
<1>28. ASSUME AppendLock(a) PROVE Alone(b)
  BY <1>28, Acquired DEF AppendLock
<1>29. ASSUME Reserve(a) PROVE Alone(b)
  BY <1>29 DEF Reserve
<1>30. ASSUME Blank(a) PROVE Alone(b)
  BY <1>30 DEF Blank
<1>31. ASSUME AutoInc(a) PROVE Alone(b)
  BY <1>31 DEF AutoInc
<1>32. ASSUME AppendUnlock(a) PROVE Alone(b)
  BY <1>32, Released DEF AppendUnlock
<1>33. ASSUME Shut(a) PROVE Alone(b)
  BY <1>33 DEF Shut
<1>34. ASSUME CloseFile(a) PROVE Alone(b)
  BY <1>34 DEF CloseFile, Gone
<1>35. ASSUME Die(a) PROVE Alone(b)
  <2>1. \A x \in Byte : owner'[x] = IF owner[x] = a THEN NoArea ELSE owner[x]
    BY <1>35, Died DEF Die
  <2>2. b # a /\ b # NoArea
    OBVIOUS
  <2>3. \A x \in Byte : owner'[x] = b <=> owner[x] = b
    BY <2>1, <2>2
  <2> QED BY <1>35, <2>3 DEF Die, Gone
<1> QED BY <1>1, <1>2, <1>3, <1>4, <1>5, <1>6, <1>7, <1>8, <1>9, <1>10,
          <1>11, <1>12, <1>13, <1>14, <1>15, <1>16, <1>17, <1>18, <1>19,
          <1>20, <1>21, <1>22, <1>23, <1>24, <1>25, <1>26, <1>27, <1>28,
          <1>29, <1>30, <1>31, <1>32, <1>33, <1>34, <1>35 DEF Call, Progress

\* Where locking goes on.
LEMMA DoneCases ==
  ASSUME Types, NEW a \in Area, Done(a)
  PROVE  \/ op[a] = "append" /\ pc'[a] = "blank" /\ op'[a] = op[a] /\ arg'[a] = arg[a]
         \/ op[a] # "append" /\ pc'[a] = "idle" /\ op'[a] = "none"
<1>1. CASE op[a] = "append"
  BY <1>1 DEF Types, TypeOK, Done, Step, Goto, Set, call
<1>2. CASE op[a] # "append"
  BY <1>2 DEF Types, TypeOK, Done, Return, Goto, Calling, Set
<1> QED BY <1>1, <1>2

LEMMA RefreshCases ==
  ASSUME Types, NEW a \in Area, Refresh(a)
  PROVE  \/ op[a] = "append" /\ pc'[a] = "blank" /\ op'[a] = op[a] /\ arg'[a] = arg[a]
         \/ op[a] # "append" /\ pc'[a] = "idle" /\ op'[a] = "none"
         \/ pc'[a] = "move" /\ op'[a] = op[a] /\ arg'[a] = ulRecNo[a]
<1>1. CASE Done(a)
  BY <1>1, DoneCases
<1>2. CASE Goto(a, "move") /\ Set(arg, a, ulRecNo[a]) /\ op' = op
  BY <1>2 DEF Types, TypeOK, Goto, Set
<1> QED BY <1>1, <1>2 DEF Refresh

\* So do calls that begin with SELF_GOCOLD.
LEMMA ColdControl ==
  ASSUME Types, NEW a \in Area, Where(a), Locks(a), pc[a] = "idle",
         NEW o \in Begun, GoCold(a, o), UNCHANGED <<rows, ulRecCount, lock>>,
         o = "rlock" => arg'[a] \in Records,
         o = "unlockone" => arg'[a] \in pLocksPos[a]
  PROVE  Where(a)' /\ Locks(a)'
<1>1. op'[a] = o
  BY DEF Types, TypeOK, GoCold, Set
<1>2. pc'[a] = "write" \/ pc'[a] = After(a, o)
  BY DEF Types, TypeOK, GoCold, Goto, Set
<1>3. ~HasHeader(a)
  BY DEF Where, HasHeader
<1>4. Where(a)'
  BY <1>1, <1>2, AfterEach DEF Where, Begun
<1>5. ~HasHeader(a)'
  BY <1>1, <1>2, AfterEach DEF HasHeader, Begun
<1>6. /\ pc'[a] = "releasefile" => fFLocked[a]
      /\ pc'[a] \notin {"closed", "closing", "header", "eol", "reclock"}
      /\ o = "append" => pc'[a] # "release"
      /\ pc'[a] = "shut" => pLocksPos[a] = {} /\ ~fFLocked[a]
      /\ o # "shut"
  BY <1>1, <1>2, AfterEach DEF Begun
<1>7. UNCHANGED <<owner, pLocksPos, fFLocked>>
  BY DEF lock
<1>8. (fHeaderLocked(a) <=> HasHeader(a))'
  BY <1>3, <1>5, <1>7 DEF Locks, fHeaderLocked
<1>9. (\A r \in Records : owner[r] = a <=> Locked(a, r))'
  BY <1>7 DEF Locks, Locked
<1>10. (op[a] = "rlock" /\ pc[a] # "move" => arg[a] \in Records)'
  BY <1>1
<1>11. (op[a] = "append" /\ pc[a] \in {"release", "reclock"} => arg[a] \in Records)'
  BY <1>1, <1>6
<1>12. (op[a] = "unlockone" => arg[a] \in pLocksPos[a])'
  BY <1>1, <1>7
<1>13. /\ (fFLocked[a] => pLocksPos[a] = {})' /\ (pc[a] = "releasefile" => fFLocked[a])'
       /\ (pc[a] \in {"closed", "shut", "closing"} \/ op[a] = "shut" =>
             pLocksPos[a] = {} /\ ~fFLocked[a])'
       /\ (pc[a] \in {"header", "eol"} => ulRecCount[a] <= Len(rows))'
  BY <1>1, <1>6, <1>7 DEF Locks
<1> QED BY <1>4, <1>8, <1>9, <1>10, <1>11, <1>12, <1>13 DEF Locks

\* The step itself keeps the area's control.
LEMMA OwnControl ==
  ASSUME Control, NEW a \in Area, Call(a) \/ Progress(a) \/ Die(a)
  PROVE  Where(a)' /\ Locks(a)'
<1> USE DEF Set, Goto, Step, Calling, Return, disk, lock, place, buffer, head, call
<1>0. Types /\ Where(a) /\ Locks(a)
  BY DEF Control
<1>t. Types'
  BY TypesKept
<1> USE DEF Types, TypeOK
<1>1. ASSUME Open(a) PROVE Where(a)' /\ Locks(a)'
  BY <1>1, <1>0, <1>t DEF Open, Moved, Begun, Where, Locks, HasHeader, Locked, fHeaderLocked
<1>2. ASSUME GoTo(a, "bottom", 0) PROVE Where(a)' /\ Locks(a)'
  <2>0. pc[a] = "idle" /\ UNCHANGED <<rows, lock>>
    BY <1>2 DEF GoTo, Idle
  <2>1. CASE GoCold(a, "bottom") /\ UNCHANGED ulRecCount
    BY <2>0, <2>1, <1>0, ColdControl DEF Begun
  <2>2. CASE UNCHANGED <<pc, call>>
    BY <2>0, <2>2, <1>0 DEF Where, Locks, HasHeader, Locked, fHeaderLocked
  <2> QED BY <1>2, <2>1, <2>2 DEF GoTo
<1>3. ASSUME NEW r \in Records, GoTo(a, "goto", r) PROVE Where(a)' /\ Locks(a)'
  <2>0. pc[a] = "idle" /\ UNCHANGED <<rows, lock>>
    BY <1>3 DEF GoTo, Idle
  <2>1. CASE GoCold(a, "goto") /\ UNCHANGED ulRecCount
    BY <2>0, <2>1, <1>0, ColdControl DEF Begun
  <2>2. CASE UNCHANGED <<pc, call>>
    BY <2>0, <2>2, <1>0 DEF Where, Locks, HasHeader, Locked, fHeaderLocked
  <2> QED BY <1>3, <2>1, <2>2 DEF GoTo
<1>4. ASSUME Read(a) PROVE Where(a)' /\ Locks(a)'
  BY <1>4, <1>0, <1>t DEF Read, Begun, Where, Locks, HasHeader, Locked, fHeaderLocked
<1>5. ASSUME PutValue(a) PROVE Where(a)' /\ Locks(a)'
  BY <1>5, <1>0, <1>t DEF PutValue, Begun, Where, Locks, HasHeader, Locked, fHeaderLocked
<1>6. ASSUME LockRecord(a) PROVE Where(a)' /\ Locks(a)'
  <2>0. /\ pc[a] = "idle" /\ UNCHANGED <<rows, ulRecCount, lock>>
        /\ arg'[a] \in Records
    BY <1>6, <1>0 DEF LockRecord, Idle
  <2>1. CASE GoCold(a, "rlock")
    BY <2>0, <2>1, <1>0, ColdControl DEF Begun
  <2>2. CASE Set(op, a, "rlock") /\ Goto(a, "reclock")
    <3>1. op'[a] = "rlock" /\ pc'[a] = "reclock"
      BY <2>2, <1>0
    <3>2. Where(a)'
      BY <3>1 DEF Where
    <3> QED BY <3>1, <3>2, <2>0, <1>0 DEF Where, Locks, HasHeader, Locked, fHeaderLocked
  <2> QED BY <1>6, <2>1, <2>2 DEF LockRecord
<1>7. ASSUME NEW r \in Records, LockMore(a, r) PROVE Where(a)' /\ Locks(a)'
  <2>1. /\ op'[a] = "rlock" /\ pc'[a] = "reclock" /\ arg'[a] \in Records
        /\ pc[a] = "idle" /\ UNCHANGED lock
    BY <1>7, <1>0 DEF LockMore, Idle
  <2>2. Where(a)'
    BY <2>1 DEF Where
  <2> QED BY <2>1, <2>2, <1>0 DEF Where, Locks, HasHeader, Locked, fHeaderLocked
<1>8. ASSUME LockFile(a) PROVE Where(a)' /\ Locks(a)'
  <2>0. pc[a] = "idle" /\ UNCHANGED <<rows, ulRecCount, lock>>
    BY <1>8 DEF LockFile, Idle
  <2>1. CASE GoCold(a, "flock")
    BY <2>0, <2>1, <1>0, ColdControl DEF Begun
  <2>2. CASE Set(op, a, "flock") /\ Goto(a, "filelock")
    <3>1. op'[a] = "flock" /\ pc'[a] = "filelock"
      BY <2>2, <1>0
    <3>2. Where(a)'
      BY <3>1 DEF Where
    <3> QED BY <3>1, <3>2, <2>0, <1>0 DEF Where, Locks, HasHeader, Locked, fHeaderLocked
  <2> QED BY <1>8, <2>1, <2>2 DEF LockFile
<1>9. ASSUME UnLock(a) PROVE Where(a)' /\ Locks(a)'
  <2>1. pc[a] = "idle" /\ GoCold(a, "unlock") /\ UNCHANGED <<rows, ulRecCount, lock>>
    BY <1>9 DEF UnLock, Idle
  <2> QED BY <2>1, <1>0, ColdControl DEF Begun
<1>10. ASSUME NEW r \in Records, UnLockOne(a, r) PROVE Where(a)' /\ Locks(a)'
  <2>1. pc[a] = "idle" /\ GoCold(a, "unlockone") /\ UNCHANGED <<rows, ulRecCount, lock>>
    BY <1>10 DEF UnLockOne, Idle
  <2>2. arg'[a] \in pLocksPos[a]
    BY <1>10, <1>0 DEF UnLockOne
  <2> QED BY <2>1, <2>2, <1>0, ColdControl DEF Begun
<1>11. ASSUME AppendRec(a) PROVE Where(a)' /\ Locks(a)'
  <2>1. pc[a] = "idle" /\ GoCold(a, "append") /\ UNCHANGED <<rows, ulRecCount, lock>>
    BY <1>11 DEF AppendRec, Idle
  <2> QED BY <2>1, <1>0, ColdControl DEF Begun
<1>12. ASSUME Flush(a) PROVE Where(a)' /\ Locks(a)'
  <2>1. pc[a] = "idle" /\ GoCold(a, "commit") /\ UNCHANGED <<rows, ulRecCount, lock>>
    BY <1>12 DEF Flush, Idle
  <2> QED BY <2>1, <1>0, ColdControl DEF Begun
<1>13. ASSUME Close(a) PROVE Where(a)' /\ Locks(a)'
  <2>1. pc[a] = "idle" /\ GoCold(a, "close") /\ UNCHANGED <<rows, ulRecCount, lock>>
    BY <1>13 DEF Close, Idle
  <2> QED BY <2>1, <1>0, ColdControl DEF Begun
<1>14. ASSUME Move(a) PROVE Where(a)' /\ Locks(a)'
  BY <1>14, <1>0, <1>t DEF Move, Go, Moved, Done, Begun, Where, Locks, HasHeader, Locked, fHeaderLocked
<1>15. ASSUME Write(a) PROVE Where(a)' /\ Locks(a)'
  BY <1>15, <1>0, <1>t, AfterEach DEF Write, Begun, Where, Locks, HasHeader, Locked, fHeaderLocked
<1>16. ASSUME FailToWrite(a) PROVE Where(a)' /\ Locks(a)'
  <2>1. /\ op[a] \in Begun \cup {"appended"} /\ pc[a] = "write"
        /\ UNCHANGED lock
    BY <1>16, <1>0 DEF FailToWrite, Where
  <2>2. CASE op[a] \in Goes
    <3>1. pc'[a] = After(a, op[a]) /\ UNCHANGED <<op, arg>>
      BY <1>16, <2>2, <1>0 DEF FailToWrite
    <3>2. Where(a)'
      BY <3>1, <2>1, <2>2, AfterEach DEF Where, Goes
    <3>3. /\ HasHeader(a)' <=> HasHeader(a)
          /\ pc'[a] \notin {"closed", "closing", "header", "eol", "reclock"}
          /\ pc'[a] = "releasefile" => fFLocked[a]
          /\ pc'[a] = "shut" => pLocksPos[a] = {} /\ ~fFLocked[a]
          /\ pc'[a] = "release" => op[a] # "append"
      BY <3>1, <2>1, <2>2, AfterEach DEF HasHeader, Goes
    <3> QED BY <3>1, <3>2, <3>3, <2>1, <1>0 DEF Locks, Locked, fHeaderLocked
  <2>3. CASE op[a] \notin Goes
    <3>1. pc'[a] = "idle" /\ op'[a] = "none" /\ op[a] # "appended"
      BY <1>16, <2>3, <1>0 DEF FailToWrite, Goes
    <3>2. Where(a)'
      BY <3>1 DEF Where
    <3> QED BY <3>1, <3>2, <2>1, <1>0 DEF Locks, Locked, fHeaderLocked, HasHeader
  <2> QED BY <2>2, <2>3
<1>17. ASSUME HeaderLock(a) PROVE Where(a)' /\ Locks(a)'
  <2>1. /\ pc[a] = "headerlock" /\ pc'[a] = "recount"
        /\ UNCHANGED <<pLocksPos, fFLocked, op, arg>>
        /\ owner'[0] = a /\ \A x \in Records : owner'[x] = owner[x]
    BY <1>17, <1>0, Acquired, Bytes DEF HeaderLock, HeaderByte
  <2>8. Where(a)'
    BY <2>1, <1>0 DEF Where, Begun
  <2> QED BY <2>1, <2>8, <1>0, Bytes, AreaAssumption DEF Where, Locks, HasHeader, Locked, fHeaderLocked
<1>18. ASSUME Recount(a) PROVE Where(a)' /\ Locks(a)'
  BY <1>18, <1>0, <1>t DEF Recount, Begun, Where, Locks, HasHeader, Locked, fHeaderLocked
<1>19. ASSUME WriteHeader(a) PROVE Where(a)' /\ Locks(a)'
  BY <1>19, <1>0, <1>t DEF WriteHeader, Written, Begun, Where, Locks, HasHeader, Locked, fHeaderLocked
<1>20. ASSUME WriteEol(a) PROVE Where(a)' /\ Locks(a)'
  BY <1>20, <1>0, <1>t DEF WriteEol, Written, Begun, Where, Locks, HasHeader, Locked, fHeaderLocked
<1>21. ASSUME HeaderUnlock(a) PROVE Where(a)' /\ Locks(a)'
  <2>1. /\ op[a] \in Begun \cup {"committed", "shut"} /\ pc[a] = "headerunlock"
        /\ UNCHANGED <<pLocksPos, fFLocked>>
        /\ owner'[0] = NoArea /\ \A x \in Records : owner'[x] = owner[x]
    BY <1>21, <1>0, Released, Bytes DEF HeaderUnlock, Where, HeaderByte
  <2>2. CASE op[a] = "committed"
    <3>1. pc'[a] = "idle" /\ op'[a] = "none"
      BY <1>21, <2>2, <1>0 DEF HeaderUnlock
    <3>2. Where(a)'
      BY <3>1 DEF Where
    <3> QED BY <3>1, <3>2, <2>1, <1>0, AreaAssumption DEF Locks, Locked, fHeaderLocked, HasHeader
  <2>3. CASE op[a] # "committed"
    <3>1. pc'[a] = After(a, op[a]) /\ UNCHANGED <<op, arg>>
      BY <1>21, <2>3, <1>0 DEF HeaderUnlock
    <3>2. Where(a)'
      BY <3>1, <2>1, <2>3, AfterEach DEF Where, Begun
    <3>3. /\ ~HasHeader(a)'
          /\ pc'[a] \notin {"closed", "header", "eol", "reclock"}
          /\ pc'[a] = "releasefile" => fFLocked[a]
          /\ pc'[a] = "shut" => pLocksPos[a] = {} /\ ~fFLocked[a]
          /\ pc'[a] = "release" => op[a] # "append"
          /\ pc'[a] = "closing" => op[a] = "shut"
      BY <3>1, <2>1, <2>3, AfterEach DEF HasHeader, Begun
    <3> QED BY <3>1, <3>2, <3>3, <2>1, <1>0, AreaAssumption DEF Locks, Locked, fHeaderLocked
  <2> QED BY <2>2, <2>3
<1>22. ASSUME Commit(a) PROVE Where(a)' /\ Locks(a)'
  BY <1>22, <1>0, <1>t DEF Commit, Begun, Where, Locks, HasHeader, Locked, fHeaderLocked
<1>23. ASSUME RecLock(a) PROVE Where(a)' /\ Locks(a)'
  <2>1. pc[a] = "reclock" /\ op[a] \in {"rlock", "append"} /\ arg[a] \in Records
    BY <1>23, <1>0 DEF RecLock, Where, Locks
  <2>2. CASE RecLocked(a, arg[a])
    <3>1. /\ owner[arg[a]] = NoArea /\ owner'[arg[a]] = a /\ owner'[0] = owner[0]
          /\ \A x \in Records : x # arg[a] => owner'[x] = owner[x]
          /\ pLocksPos'[a] = pLocksPos[a] \cup {arg[a]} /\ fFLocked' = fFLocked
      BY <1>23, <2>1, <2>2, <1>0, Acquired, Bytes DEF RecLock, RecLocked
    <3>2. \/ op[a] = "append" /\ pc'[a] = "blank" /\ op'[a] = op[a] /\ arg'[a] = arg[a]
          \/ op[a] # "append" /\ pc'[a] = "idle" /\ op'[a] = "none"
          \/ pc'[a] = "move" /\ op'[a] = op[a] /\ arg'[a] = ulRecNo[a]
      <4>1. CASE Refresh(a)
        BY <4>1, <1>0, RefreshCases
      <4>2. CASE Elsewhere(a)
        BY <4>2, <1>0, DoneCases DEF Elsewhere
      <4>3. CASE RecRefused(a)
        BY <4>3, <3>1, <2>1, <1>0, AreaAssumption, Bytes DEF RecRefused
      <4> QED BY <1>23, <4>1, <4>2, <4>3 DEF RecLock
    <3>3. Where(a)'
      BY <3>2, <2>1 DEF Where
    <3>4. ~fFLocked[a]
      BY <3>1, <2>1, <1>0, AreaAssumption DEF Locks, Locked
    <3>5. (\A r \in Records : owner[r] = a <=> Locked(a, r))'
      BY <3>1, <1>0 DEF Locks, Locked
    <3> QED BY <3>1, <3>2, <3>3, <3>4, <3>5, <2>1, <1>0 DEF Locks, HasHeader, fHeaderLocked
  <2>3. CASE RecRefused(a)
    <3>1. UNCHANGED <<owner, pLocksPos, fFLocked>>
      BY <1>23, <2>3 DEF RecLock, RecRefused
    <3>2. \/ op[a] = "append" /\ pc'[a] = "appendunlock" /\ op'[a] = op[a]
          \/ op[a] # "append" /\ pc'[a] = "idle" /\ op'[a] = "none"
      <4>1. CASE op[a] = "append"
        BY <4>1, <2>3, <1>0 DEF RecRefused
      <4>2. CASE op[a] # "append"
        BY <4>2, <2>3, <1>0 DEF RecRefused
      <4> QED BY <4>1, <4>2
    <3>3. Where(a)'
      BY <3>2 DEF Where
    <3> QED BY <3>1, <3>2, <3>3, <2>1, <1>0 DEF Locks, Locked, HasHeader, fHeaderLocked
  <2> QED BY <1>23, <2>2, <2>3 DEF RecLock
<1>24. ASSUME FileLock(a) PROVE Where(a)' /\ Locks(a)'
  <2>1. pc[a] = "filelock" /\ op[a] = "flock" /\ pLocksPos' = pLocksPos
    BY <1>24, <1>0 DEF FileLock, Where
  <2>2. \/ pc'[a] = "idle" /\ op'[a] = "none"
        \/ pc'[a] = "move" /\ op'[a] = "flock"
    BY <1>24, <2>1, <1>0, RefreshCases DEF FileLock
  <2>3. Where(a)'
    BY <2>2 DEF Where
  <2>4. CASE File!Acquire(a, Records) /\ Set(fFLocked, a, TRUE)
    <3>1. /\ \A r \in Records : owner[r] = NoArea /\ owner'[r] = a
          /\ owner'[0] = owner[0] /\ fFLocked'[a] = TRUE
      BY <2>4, <1>0, Acquired, Bytes
    <3>2. pLocksPos[a] = {}
      <4>1. \A r \in Records : r \notin pLocksPos[a]
        BY <3>1, <1>0, AreaAssumption DEF Locks, Locked
      <4>2. pLocksPos[a] \subseteq Records
        BY <1>0
      <4> QED BY <4>1, <4>2
    <3> QED BY <3>1, <3>2, <2>1, <2>2, <2>3, <1>0 DEF Locks, Locked, HasHeader, fHeaderLocked
  <2>5. CASE UNCHANGED <<owner, fFLocked>>
    BY <2>5, <2>1, <2>2, <2>3, <1>0 DEF Locks, Locked, HasHeader, fHeaderLocked
  <2> QED BY <1>24, <2>4, <2>5 DEF FileLock
<1>25. ASSUME Release(a) PROVE Where(a)' /\ Locks(a)'
  <2>1. PICK r \in pLocksPos[a] :
          /\ File!Release(a, {r}) /\ Set(pLocksPos, a, pLocksPos[a] \ {r})
          /\ \/ pLocksPos[a] # {r} /\ Step(a, "release")
             \/ pLocksPos[a] = {r} /\ op[a] = "flock" /\ Step(a, "filelock")
             \/ pLocksPos[a] = {r} /\ op[a] \in {"rlock", "append"} /\ Step(a, "reclock")
             \/ pLocksPos[a] = {r} /\ op[a] = "close" /\ Step(a, "shut")
             \/ pLocksPos[a] = {r} /\ op[a] = "unlock" /\ Return(a)
    BY <1>25 DEF Release
  <2>2. /\ r \in Records /\ ~fFLocked[a] /\ fFLocked' = fFLocked
        /\ pLocksPos'[a] = pLocksPos[a] \ {r}
        /\ owner'[0] = owner[0] /\ owner'[r] = NoArea
        /\ \A x \in Records : x # r => owner'[x] = owner[x]
    BY <1>25, <2>1, <1>0, Released, Bytes DEF Release, Locks
  <2>3. /\ pc[a] = "release" /\ op[a] \in {"rlock", "flock", "unlock", "close", "append"}
        /\ \/ /\ op'[a] = op[a] /\ arg'[a] = arg[a]
              /\ \/ pc'[a] = "release"
                 \/ pc'[a] = "filelock" /\ op[a] = "flock"
                 \/ pc'[a] = "reclock" /\ op[a] \in {"rlock", "append"}
                 \/ pc'[a] = "shut" /\ op[a] = "close" /\ pLocksPos'[a] = {}
           \/ op[a] = "unlock" /\ pc'[a] = "idle" /\ op'[a] = "none"
    <3>1. pc[a] = "release" /\ op[a] \in {"rlock", "flock", "unlock", "close", "append"}
      BY <1>25, <1>0 DEF Release, Where
    <3>2. CASE \E t \in {"release", "filelock", "reclock", "shut"} : Step(a, t)
      BY <3>1, <3>2, <2>1, <2>2, <1>0
    <3>3. CASE op[a] = "unlock" /\ Return(a)
      BY <3>1, <3>3, <1>0
    <3> QED BY <2>1, <3>2, <3>3
  <2>4. Where(a)'
    BY <2>3 DEF Where
  <2>5. (\A x \in Records : owner[x] = a <=> Locked(a, x))'
    BY <2>2, <1>0, AreaAssumption DEF Locks, Locked
  <2> QED BY <2>2, <2>3, <2>4, <2>5, <1>0 DEF Locks, HasHeader, fHeaderLocked
<1>26. ASSUME ReleaseOne(a) PROVE Where(a)' /\ Locks(a)'
  <2>1. /\ pc[a] = "releaseone" /\ pc'[a] = "idle" /\ op'[a] = "none"
        /\ op[a] = "unlockone" /\ arg[a] \in Records /\ ~fFLocked[a]
        /\ pLocksPos'[a] = pLocksPos[a] \ {arg[a]} /\ fFLocked'[a] = fFLocked[a]
        /\ owner'[0] = owner[0] /\ owner'[arg[a]] = NoArea
        /\ \A x \in Records : x # arg[a] => owner'[x] = owner[x]
    <3>1. op[a] = "unlockone" /\ arg[a] \in pLocksPos[a] /\ arg[a] \in Records
      BY <1>26, <1>0 DEF ReleaseOne, Where, Locks
    <3> QED BY <1>26, <3>1, <1>0, Released, Bytes DEF ReleaseOne, Locks
  <2>8. Where(a)'
    BY <2>1, <1>0 DEF Where, Begun
  <2> QED BY <2>1, <2>8, <1>0, Bytes, AreaAssumption DEF Where, Locks, HasHeader, Locked, fHeaderLocked
<1>27. ASSUME ReleaseFile(a) PROVE Where(a)' /\ Locks(a)'
  <2>1. /\ pc[a] = "releasefile" /\ fFLocked[a] /\ pLocksPos[a] = {}
        /\ pLocksPos'[a] = {} /\ fFLocked'[a] = FALSE
        /\ op[a] \in {"rlock", "flock", "unlock", "close"}
        /\ owner'[0] = owner[0] /\ \A x \in Records : owner'[x] = NoArea
    BY <1>27, <1>0, Released, Bytes DEF ReleaseFile, Locks, Where
  <2>2. \/ pc'[a] = "idle" /\ op'[a] = "none"
        \/ pc'[a] = "shut" /\ op'[a] = "close"
    <3>1. CASE op[a] = "close"
      BY <1>27, <3>1, <1>0 DEF ReleaseFile
    <3>2. CASE op[a] # "close"
      BY <1>27, <3>2, <1>0 DEF ReleaseFile
    <3> QED BY <3>1, <3>2
  <2>3. Where(a)'
    BY <2>1, <2>2 DEF Where
  <2> QED BY <2>1, <2>2, <2>3, <1>0, AreaAssumption DEF Locks, Locked, fHeaderLocked, HasHeader
<1>28. ASSUME AppendLock(a) PROVE Where(a)' /\ Locks(a)'
  <2>1. /\ pc[a] = "appendlock" /\ pc'[a] = "reserve" /\ op[a] = "append"
        /\ UNCHANGED <<pLocksPos, fFLocked, op, arg>>
        /\ owner'[0] = a /\ \A x \in Records : owner'[x] = owner[x]
    BY <1>28, <1>0, Acquired, Bytes DEF AppendLock, HeaderByte, Where
  <2>8. Where(a)'
    BY <2>1, <1>0 DEF Where, Begun
  <2> QED BY <2>1, <2>8, <1>0, Bytes, AreaAssumption DEF Where, Locks, HasHeader, Locked, fHeaderLocked
<1>29. ASSUME Reserve(a) PROVE Where(a)' /\ Locks(a)'
  BY <1>29, <1>0, <1>t, Bytes DEF Reserve, Begun, Where, Locks, HasHeader, Locked, fHeaderLocked
<1>30. ASSUME Blank(a) PROVE Where(a)' /\ Locks(a)'
  BY <1>30, <1>0, <1>t DEF Blank, Begun, Where, Locks, HasHeader, Locked, fHeaderLocked
<1>31. ASSUME AutoInc(a) PROVE Where(a)' /\ Locks(a)'
  BY <1>31, <1>0, <1>t DEF AutoInc, Begun, Where, Locks, HasHeader, Locked, fHeaderLocked
<1>32. ASSUME AppendUnlock(a) PROVE Where(a)' /\ Locks(a)'
  <2>1. /\ pc[a] = "appendunlock" /\ pc'[a] = "idle" /\ op'[a] = "none"
        /\ UNCHANGED <<pLocksPos, fFLocked>>
        /\ owner'[0] = NoArea /\ \A x \in Records : owner'[x] = owner[x]
    BY <1>32, <1>0, Released, Bytes DEF AppendUnlock, HeaderByte
  <2>8. Where(a)'
    BY <2>1, <1>0 DEF Where, Begun
  <2> QED BY <2>1, <2>8, <1>0, Bytes, AreaAssumption DEF Where, Locks, HasHeader, Locked, fHeaderLocked
<1>33. ASSUME Shut(a) PROVE Where(a)' /\ Locks(a)'
  BY <1>33, <1>0, <1>t DEF Shut, Begun, Where, Locks, HasHeader, Locked, fHeaderLocked
<1>34. ASSUME CloseFile(a) PROVE Where(a)' /\ Locks(a)'
  BY <1>34, <1>0, <1>t DEF CloseFile, Gone, Begun, Where, Locks, HasHeader, Locked, fHeaderLocked
<1>35. ASSUME Die(a) PROVE Where(a)' /\ Locks(a)'
  <2>1. /\ pc'[a] = "closed" /\ op'[a] = "none"
        /\ pLocksPos'[a] = {} /\ fFLocked'[a] = FALSE
    BY <1>35, <1>0 DEF Die, Gone
  <2>2. \A x \in Byte : owner'[x] # a
    BY <1>35, <1>0, Died, AreaAssumption DEF Die
  <2>3. Where(a)'
    BY <2>1 DEF Where
  <2> QED BY <2>1, <2>2, <2>3, Bytes DEF Locks, Locked, HasHeader, fHeaderLocked
<1> QED BY <1>1, <1>2, <1>3, <1>4, <1>5, <1>6, <1>7, <1>8, <1>9, <1>10,
          <1>11, <1>12, <1>13, <1>14, <1>15, <1>16, <1>17, <1>18, <1>19,
          <1>20, <1>21, <1>22, <1>23, <1>24, <1>25, <1>26, <1>27, <1>28,
          <1>29, <1>30, <1>31, <1>32, <1>33, <1>34, <1>35 DEF Call, Progress

\* Which steps change what others see.
FileChange(a) ==
    /\ rows' = rows \/ Write(a) \/ WriteEol(a)
    /\ header' = header \/ WriteHeader(a)
    /\ counter' = counter \/ AutoInc(a)
    /\ stale' \subseteq stale \/ Write(a)
    /\ failed' = failed \/ FailToWrite(a)
    /\ \/ fUpdateHeader' = fUpdateHeader /\ orphan' = orphan
       \/ Write(a) \/ WriteHeader(a) \/ WriteEol(a) \/ AutoInc(a) \/ CloseFile(a) \/ Die(a)

LEMMA FileChanges ==
  ASSUME NEW a \in Area, Call(a) \/ Progress(a) \/ Die(a)
  PROVE  FileChange(a)
<1> USE DEF FileChange, disk, lock, place, buffer, head, call
<1>1. ASSUME Open(a) PROVE FileChange(a)
  BY <1>1 DEF Open, Moved
<1>2. ASSUME GoTo(a, "bottom", 0) PROVE FileChange(a)
  BY <1>2 DEF GoTo, Go, Moved
<1>3. ASSUME NEW r \in Records, GoTo(a, "goto", r) PROVE FileChange(a)
  BY <1>3 DEF GoTo, Go, Moved
<1>4. ASSUME Read(a) PROVE FileChange(a)
  BY <1>4 DEF Read
<1>5. ASSUME PutValue(a) PROVE FileChange(a)
  BY <1>5 DEF PutValue
<1>6. ASSUME LockRecord(a) PROVE FileChange(a)
  BY <1>6 DEF LockRecord
<1>7. ASSUME NEW r \in Records, LockMore(a, r) PROVE FileChange(a)
  BY <1>7 DEF LockMore
<1>8. ASSUME LockFile(a) PROVE FileChange(a)
  BY <1>8 DEF LockFile
<1>9. ASSUME UnLock(a) PROVE FileChange(a)
  BY <1>9 DEF UnLock
<1>10. ASSUME NEW r \in Records, UnLockOne(a, r) PROVE FileChange(a)
  BY <1>10 DEF UnLockOne
<1>11. ASSUME AppendRec(a) PROVE FileChange(a)
  BY <1>11 DEF AppendRec
<1>12. ASSUME Flush(a) PROVE FileChange(a)
  BY <1>12 DEF Flush
<1>13. ASSUME Close(a) PROVE FileChange(a)
  BY <1>13 DEF Close
<1>14. ASSUME Move(a) PROVE FileChange(a)
  BY <1>14 DEF Move, Go, Moved
<1>15. ASSUME Write(a) PROVE FileChange(a)
  BY <1>15 DEF Write
<1>16. ASSUME FailToWrite(a) PROVE FileChange(a)
  BY <1>16 DEF FailToWrite
<1>17. ASSUME HeaderLock(a) PROVE FileChange(a)
  BY <1>17 DEF HeaderLock
<1>18. ASSUME Recount(a) PROVE FileChange(a)
  BY <1>18 DEF Recount
<1>19. ASSUME WriteHeader(a) PROVE FileChange(a)
  BY <1>19 DEF WriteHeader
<1>20. ASSUME WriteEol(a) PROVE FileChange(a)
  BY <1>20 DEF WriteEol
<1>21. ASSUME HeaderUnlock(a) PROVE FileChange(a)
  BY <1>21 DEF HeaderUnlock
<1>22. ASSUME Commit(a) PROVE FileChange(a)
  BY <1>22 DEF Commit
<1>23. ASSUME RecLock(a) PROVE FileChange(a)
  BY <1>23 DEF RecLock, Refresh, Elsewhere, RecRefused
<1>24. ASSUME FileLock(a) PROVE FileChange(a)
  BY <1>24 DEF FileLock, Refresh
<1>25. ASSUME Release(a) PROVE FileChange(a)
  BY <1>25 DEF Release
<1>26. ASSUME ReleaseOne(a) PROVE FileChange(a)
  BY <1>26 DEF ReleaseOne
<1>27. ASSUME ReleaseFile(a) PROVE FileChange(a)
  BY <1>27 DEF ReleaseFile
<1>28. ASSUME AppendLock(a) PROVE FileChange(a)
  BY <1>28 DEF AppendLock
<1>29. ASSUME Reserve(a) PROVE FileChange(a)
  BY <1>29 DEF Reserve
<1>30. ASSUME Blank(a) PROVE FileChange(a)
  BY <1>30 DEF Blank
<1>31. ASSUME AutoInc(a) PROVE FileChange(a)
  BY <1>31 DEF AutoInc
<1>32. ASSUME AppendUnlock(a) PROVE FileChange(a)
  BY <1>32 DEF AppendUnlock
<1>33. ASSUME Shut(a) PROVE FileChange(a)
  BY <1>33 DEF Shut
<1>34. ASSUME CloseFile(a) PROVE FileChange(a)
  BY <1>34 DEF CloseFile, Gone
<1>35. ASSUME Die(a) PROVE FileChange(a)
  BY <1>35 DEF Die, Gone
<1> QED BY <1>1, <1>2, <1>3, <1>4, <1>5, <1>6, <1>7, <1>8, <1>9, <1>10,
          <1>11, <1>12, <1>13, <1>14, <1>15, <1>16, <1>17, <1>18, <1>19,
          <1>20, <1>21, <1>22, <1>23, <1>24, <1>25, <1>26, <1>27, <1>28,
          <1>29, <1>30, <1>31, <1>32, <1>33, <1>34, <1>35 DEF Call, Progress

LEMMA WriteGrows ==
  ASSUME Types, NEW a \in Area, Write(a)
  PROVE  Len(rows') \in Nat /\ Len(rows) <= Len(rows')
<1>1. key[a] \in Nat /\ rows \in Seq(Nat)
  BY DEF Types, TypeOK
<1>2. CASE rows' = [rows EXCEPT ![ulRecNo[a]] = key[a]]
  BY <1>1, <1>2
<1>3. CASE rows' = Append(rows, key[a])
  BY <1>1, <1>3
<1> QED BY <1>2, <1>3 DEF Write

LEMMA ControlKept ==
  ASSUME Control, [Next]_vars
  PROVE  Control'
<1>1. CASE UNCHANGED vars
  BY <1>1 DEF Control, Types, TypeOK, Where, Locks, HasHeader, Locked, fHeaderLocked,
              vars, disk, lock, place, buffer, head, call
<1>2. ASSUME NEW a \in Area, Call(a) \/ Progress(a) \/ Die(a) PROVE Control'
  <2>1. Types'
    BY <1>2, TypesKept
  <2>2. Where(a)' /\ Locks(a)'
    BY <1>2, OwnControl
  <2>3. ASSUME NEW b \in Area \ {a} PROVE Where(b)' /\ Locks(b)'
    <3>0. Types /\ Where(b) /\ Locks(b) /\ Locks(a)
      BY DEF Control
    <3>1. Alone(b)
      BY <1>2, <3>0, OthersStay
    <3>2. Where(b)'
      BY <3>0, <3>1 DEF Where, Alone
    <3>3. HasHeader(b)' <=> HasHeader(b)
      BY <3>1 DEF HasHeader, Alone
    <3>4. (fHeaderLocked(b) <=> HasHeader(b))'
      BY <3>0, <3>1, <3>3, Bytes DEF Alone, Locks, fHeaderLocked
    <3>5. (\A r \in Records : owner[r] = b <=> Locked(b, r))'
      BY <3>0, <3>1, Bytes DEF Alone, Locks, Locked
    <3>6. pc[b] \in {"header", "eol"} => Len(rows) <= Len(rows')
      <4>1. CASE rows' = rows
        BY <4>1, <3>0 DEF Types, TypeOK
      <4>2. CASE Write(a)
        BY <4>2, <3>0, WriteGrows
      <4>3. CASE WriteEol(a)
        <5>1. HasHeader(a)
          BY <4>3 DEF WriteEol, HasHeader
        <5>2. ~HasHeader(b)
          BY <5>1, <3>0 DEF Locks, fHeaderLocked
        <5> QED BY <5>2 DEF HasHeader
      <4> QED BY <1>2, <4>1, <4>2, <4>3, FileChanges DEF FileChange
    <3>7. (pc[b] \in {"header", "eol"} => ulRecCount[b] <= Len(rows))'
      <4>1. Len(rows) \in Nat /\ Len(rows') \in Nat /\ ulRecCount[b] \in Nat
        <5>1. rows' \in Seq(Nat)
          BY <2>1 DEF Types, TypeOK
        <5> QED BY <5>1, <3>0 DEF Types, TypeOK
      <4> QED BY <4>1, <3>0, <3>1, <3>6 DEF Alone, Locks
    <3> QED BY <3>0, <3>1, <3>2, <3>4, <3>5, <3>7 DEF Alone, Locks
  <2> QED BY <2>1, <2>2, <2>3 DEF Control
<1> QED BY <1>1, <1>2 DEF Next

THEOREM ControlAlways == Spec => []Control
<1> QED BY ControlAtFirst, ControlKept, PTL DEF Spec

\* The variables have their types, whatever fails.
THEOREM TypeCorrect == Spec => []TypeOK
<1>1. Control => TypeOK
  BY DEF Control, Types
<1> QED BY <1>1, ControlAlways, PTL

\* An area that has locked the header is neither idle nor closed nor waits for
\* the header, whether it gets its other lock, and writes its record, or not.
THEOREM NeverKeptWaiting == Spec => []HeaderHeldBriefly
<1>1. Control => HeaderHeldBriefly
  <2> SUFFICES ASSUME Control, NEW a \in Area, fHeaderLocked(a)
               PROVE  pc[a] \notin {"closed", "idle", "headerlock", "appendlock"}
    BY DEF HeaderHeldBriefly
  <2>1. HasHeader(a) /\ Where(a)
    BY DEF Control, Locks
  <2> QED BY <2>1 DEF HasHeader, Where, Begun
<1> QED BY <1>1, ControlAlways, PTL

-----------------------------------------------------------------------------
(* Data                                                                    *)

LEMMA DataAtFirst == Init => Data
<1> SUFFICES ASSUME Init PROVE Data
  OBVIOUS
<1>1. /\ Existing \in Nat /\ Existing <= MaxRec
      /\ rows \in Seq(Nat) /\ Len(rows) = Existing
      /\ \A i \in 1..Existing : rows[i] = i
      /\ header = Existing /\ counter = Existing + 1
  BY BoundAssumption DEF Init
<1>2. Table
  BY <1>1 DEF Table, Unique, HeaderKnown
<1>3. ASSUME NEW a \in Area PROVE Buffer(a) /\ Position(a) /\ Keys(a)
  <2>1. /\ pc[a] = "closed" /\ op[a] = "none" /\ ~fPositioned[a] /\ fValidBuffer[a]
        /\ ~fRecordChanged[a] /\ a \notin stale /\ ~fUpdateHeader[a]
        /\ ulRecCount[a] = 0
    BY DEF Init
  <2> QED BY <1>1, <2>1 DEF Buffer, Position, Keys, New, Adding
<1> QED BY <1>2, <1>3 DEF Data

LEMMA SameSeq ==
  ASSUME NEW s \in Seq(Nat), NEW i \in 1..Len(s)
  PROVE  [s EXCEPT ![i] = s[i]] = s
OBVIOUS

LEMMA WholeSeq ==
  ASSUME NEW s \in Seq(Nat)
  PROVE  SubSeq(s, 1, Len(s)) = s
OBVIOUS

\* Records are only added, each by an area that has locked the header.
LEMMA RowsGrow ==
  ASSUME Control, Data, NEW a \in Area, Call(a) \/ Progress(a) \/ Die(a)
  PROVE  rows' = rows \/ (Write(a) /\ New(a) /\ rows' = Append(rows, key[a]))
<1>0. Types /\ Buffer(a) /\ Position(a) /\ Keys(a)
  BY DEF Control, Data
<1>1. CASE Write(a)
  <2>0. /\ rows \in Seq(Nat) /\ Len(rows) \in Nat /\ ulRecNo[a] \in Nat \ {0}
        /\ pc[a] = "write" /\ fPositioned[a] /\ fValidBuffer[a]
    BY <1>0, <1>1 DEF Types, TypeOK, Write, Buffer
  <2>1. CASE New(a)
    <3>1. ulRecNo[a] > Len(rows)
      BY <1>0, <2>0, <2>1 DEF Position
    <3>2. ~(ulRecNo[a] <= Len(rows))
      BY <2>0, <3>1
    <3>3. rows' = Append(rows, key[a])
      BY <1>1, <3>2 DEF Write
    <3> QED BY <1>1, <2>1, <3>3
  <2>2. CASE ~New(a)
    <3>1. ulRecNo[a] \in 1..Len(rows) /\ key[a] = rows[ulRecNo[a]]
      BY <1>0, <2>0, <2>2 DEF Position, Keys
    <3>2. rows' = [rows EXCEPT ![ulRecNo[a]] = rows[ulRecNo[a]]]
      BY <1>1, <2>0, <3>1 DEF Write
    <3> QED BY <2>0, <3>1, <3>2, SameSeq
  <2> QED BY <2>1, <2>2
<1>2. CASE WriteEol(a)
  <2>1. rows \in Seq(Nat) /\ rows' = SubSeq(rows, 1, Len(rows))
    BY <1>0, <1>2 DEF Types, TypeOK, WriteEol, Position
  <2> QED BY <2>1, WholeSeq
<1> QED BY <1>1, <1>2, FileChanges DEF FileChange

\* What a record was it still is.
LEMMA RowsStay ==
  ASSUME Control, Data, NEW a \in Area, Call(a) \/ Progress(a) \/ Die(a)
  PROVE  /\ Len(rows) \in Nat /\ Len(rows') \in Nat /\ Len(rows) <= Len(rows')
         /\ \A i \in 1..Len(rows) : rows'[i] = rows[i]
<1>1. rows \in Seq(Nat) /\ key[a] \in Nat
  BY DEF Control, Types, TypeOK
<1>2. CASE rows' = rows
  BY <1>1, <1>2
<1>3. CASE rows' = Append(rows, key[a])
  BY <1>1, <1>3
<1> QED BY <1>2, <1>3, RowsGrow

\* Nobody else changes the file for an area that has locked the header.
LEMMA FileStays ==
  ASSUME Control, Data, NEW a \in Area, Call(a) \/ Progress(a) \/ Die(a),
         ~HasHeader(a)
  PROVE  rows' = rows /\ header' = header /\ counter' = counter
<1>1. ~New(a) /\ ~WriteHeader(a) /\ ~AutoInc(a)
  BY DEF New, WriteHeader, AutoInc, HasHeader
<1> QED BY <1>1, RowsGrow, FileChanges DEF FileChange

LEMMA DataOfOthers ==
  ASSUME Control, Data, NEW a \in Area, NEW b \in Area \ {a},
         Call(a) \/ Progress(a) \/ Die(a)
  PROVE  Buffer(b)' /\ Position(b)' /\ Keys(b)'
<1>0. /\ Types /\ Locks(a) /\ Locks(b) /\ Table
      /\ Buffer(a) /\ Position(a) /\ Buffer(b) /\ Position(b) /\ Keys(b)
  BY DEF Control, Data
<1>1. Alone(b)
  BY <1>0, OthersStay
<1>2. /\ Len(rows) \in Nat /\ Len(rows') \in Nat /\ Len(rows) <= Len(rows')
      /\ \A i \in 1..Len(rows) : rows'[i] = rows[i]
  BY RowsStay
<1>3. HasHeader(b) => rows' = rows /\ header' = header /\ counter' = counter
  <2>1. HasHeader(b) => ~HasHeader(a)
    BY <1>0 DEF Locks, fHeaderLocked
  <2> QED BY <2>1, FileStays
<1>4. /\ New(b)' <=> New(b)
      /\ Adding(b)' <=> Adding(b)
      /\ New(b) => HasHeader(b)
      /\ Adding(b) => HasHeader(b)
  BY <1>1 DEF Alone, New, Adding, HasHeader
<1>5. b \in stale' => fPositioned[b] /\ ~Locked(b, ulRecNo[b])
  <2>1. CASE b \in stale
    BY <2>1, <1>0 DEF Buffer
  <2>2. CASE Write(a) /\ b \in Others(a)
    <3>1. fPositioned[b] /\ ulRecNo[b] = ulRecNo[a]
      BY <2>2 DEF Others
    <3>2. fPositioned[a] /\ Locked(a, ulRecNo[a])
      BY <2>2, <1>0 DEF Write, Buffer
    <3>3. ulRecNo[a] \in Records
      <4>1. ulRecNo[a] \in Nat /\ ulRecNo[a] > 0 /\ MaxRec \in Nat
        BY <1>0, BoundAssumption DEF Types, TypeOK
      <4>2. ulRecNo[a] <= MaxRec
        BY <4>1, <3>2, <1>0, <1>2, BoundAssumption DEF Position, Table
      <4> QED BY <4>1, <4>2, Bytes
    <3>4. owner[ulRecNo[a]] = a
      BY <3>2, <3>3, <1>0 DEF Locks
    <3> QED BY <3>1, <3>3, <3>4, <1>0 DEF Locks
  <2>3. stale' \subseteq stale \/ (Write(a) /\ stale' = (stale \cup Others(a)) \ {a})
    BY FileChanges DEF FileChange, Write
  <2> QED BY <2>1, <2>2, <2>3
<1>6. Buffer(b)'
  <2>1. \A r : Locked(b, r)' <=> Locked(b, r)
    BY <1>1 DEF Alone, Locked
  <2> QED BY <1>0, <1>1, <1>5, <2>1 DEF Alone, Buffer, Locked
<1>7. Position(b)'
  <2>1. ulRecCount[b] \in Nat /\ ulRecNo[b] \in Nat
    BY <1>0 DEF Types, TypeOK
  <2>2. \A r : Locked(b, r)' <=> Locked(b, r)
    BY <1>1 DEF Alone, Locked
  <2>3. CASE HasHeader(b)
    BY <2>2, <2>3, <1>0, <1>1, <1>3, <1>4 DEF Alone, Position, Locked
  <2>4. CASE ~HasHeader(b)
    <3>1. pc[b] \notin {"header", "eol", "blank", "autoinc"}
      BY <2>4 DEF HasHeader
    <3>2. op[b] = "append" => pc[b] \notin {"release", "reclock", "move"}
      BY <2>4 DEF HasHeader
    <3> QED BY <2>1, <2>4, <3>1, <3>2, <1>0, <1>1, <1>2, <1>4 DEF Alone, Position
  <2> QED BY <2>3, <2>4
<1>8. Keys(b)'
  <2>1. ulRecNo[b] \in Nat /\ ulRecNo[b] > 0
    BY <1>0 DEF Types, TypeOK
  <2>2. fPositioned[b] /\ ~New(b) => rows'[ulRecNo[b]] = rows[ulRecNo[b]]
    BY <2>1, <1>0, <1>2 DEF Position
  <2>3. New(b) \/ pc[b] = "autoinc" => rows' = rows /\ counter' = counter
    BY <1>3, <1>4 DEF HasHeader
  <2> QED BY <2>2, <2>3, <1>0, <1>1, <1>4 DEF Alone, Keys
<1> QED BY <1>6, <1>7, <1>8

\* The header is written after all, whatever becomes of who was to write it.
LEMMA HeaderKept ==
  ASSUME Control, Data, NEW a \in Area, Call(a) \/ Progress(a) \/ Die(a)
  PROVE  HeaderKnown'
<1>0. Types /\ Table /\ Position(a)
  BY DEF Control, Data
<1> USE DEF Types, TypeOK
<1>e. rows' # rows => Write(a) /\ New(a)
  BY RowsGrow
<1>1. CASE fUpdateHeader' = fUpdateHeader /\ orphan' = orphan /\ rows' = rows /\ header' = header
  BY <1>1, <1>0 DEF Table, HeaderKnown
<1>2. CASE Write(a)
  <2>1. header' = header /\ orphan' = orphan /\ \A b \in Area : fUpdateHeader[b] => fUpdateHeader'[b]
    BY <1>2, <1>0 DEF Write, Set
  <2>2. CASE New(a)
    BY <2>1, <2>2, <1>0 DEF HeaderKnown, Position
  <2>3. CASE ~New(a)
    BY <2>1, <2>3, <1>0, <1>e DEF HeaderKnown, Table
  <2> QED BY <2>2, <2>3
<1>3. CASE WriteHeader(a)
  <2>1. header' = ulRecCount[a] /\ rows' = rows /\ pc[a] = "header"
    BY <1>3 DEF WriteHeader
  <2> QED BY <2>1, <1>0 DEF Position, HeaderKnown
<1>4. CASE WriteEol(a)
  <2>1. header' = header /\ rows' = rows /\ pc[a] = "eol"
    BY <1>4, <1>e DEF WriteEol, Write
  <2> QED BY <2>1, <1>0 DEF Position, HeaderKnown
<1>5. CASE AutoInc(a)
  <2>1. fUpdateHeader'[a]
    BY <1>5, <1>0 DEF AutoInc, Set
  <2> QED BY <2>1 DEF HeaderKnown
<1>6. CASE CloseFile(a)
  <2>1. /\ header' = header /\ rows' = rows /\ orphan' = orphan /\ ~fUpdateHeader[a]
        /\ \A b \in Area \ {a} : fUpdateHeader'[b] = fUpdateHeader[b]
    BY <1>6, <1>0 DEF CloseFile, Gone, Set, disk, Position
  <2> QED BY <2>1, <1>0 DEF HeaderKnown, Table
<1>7. CASE Die(a)
  <2>1. /\ header' = header /\ rows' = rows /\ orphan' = (orphan \/ fUpdateHeader[a])
        /\ \A b \in Area \ {a} : fUpdateHeader'[b] = fUpdateHeader[b]
    BY <1>7, <1>0 DEF Die, Gone, Set, disk
  <2> QED BY <2>1, <1>0 DEF HeaderKnown, Table
<1>8. \/ fUpdateHeader' = fUpdateHeader /\ orphan' = orphan /\ rows' = rows /\ header' = header
      \/ Write(a) \/ WriteHeader(a) \/ WriteEol(a) \/ AutoInc(a) \/ CloseFile(a) \/ Die(a)
  BY <1>e, FileChanges DEF FileChange
<1> QED BY <1>1, <1>2, <1>3, <1>4, <1>5, <1>6, <1>7, <1>8

\* No key is given out twice.
LEMMA TableKept ==
  ASSUME Control, Data, NEW a \in Area, Call(a) \/ Progress(a) \/ Die(a)
  PROVE  Table'
<1>0. Types /\ Table /\ Position(a) /\ Keys(a)
  BY DEF Control, Data
<1>1. rows \in Seq(Nat) /\ key[a] \in Nat /\ counter \in Nat /\ MaxRec \in Nat
  BY <1>0, BoundAssumption DEF Types, TypeOK
<1>2. counter' \in Nat /\ counter <= counter'
  <2>1. CASE AutoInc(a)
    <3>1. key[a] = counter /\ counter' = key[a] + 1
      BY <2>1, <1>0 DEF AutoInc, Keys
    <3> QED BY <3>1, <1>1
  <2> QED BY <2>1, <1>1, FileChanges DEF FileChange
<1>3. CASE rows' = rows
  BY <1>0, <1>1, <1>2, <1>3, HeaderKept DEF Table, Unique
<1>4. CASE New(a) /\ rows' = Append(rows, key[a])
  <2>1. Len(rows) < MaxRec /\ key[a] < counter /\ \A i \in 1..Len(rows) : rows[i] < key[a]
    BY <1>0, <1>4 DEF Position, Keys
  <2>2. /\ Len(rows') = Len(rows) + 1 /\ rows'[Len(rows) + 1] = key[a]
        /\ \A i \in 1..Len(rows) : rows'[i] = rows[i] /\ rows[i] \in Nat
    BY <1>1, <1>4
  <2>3. Len(rows') <= MaxRec
    BY <1>1, <2>1, <2>2
  <2>4. ASSUME NEW i \in 1..Len(rows') PROVE i \in 1..Len(rows) \/ i = Len(rows) + 1
    BY <1>1, <2>2
  <2>5. ASSUME NEW i \in 1..Len(rows') PROVE rows'[i] < counter'
    <3>1. CASE i \in 1..Len(rows)
      <4>1. rows'[i] = rows[i] /\ rows[i] \in Nat /\ rows[i] < counter
        BY <3>1, <2>2, <1>0 DEF Table
      <4> QED BY <4>1, <1>1, <1>2
    <3>2. CASE i = Len(rows) + 1
      BY <3>2, <2>1, <2>2, <1>1, <1>2
    <3> QED BY <2>4, <3>1, <3>2
  <2>6. ASSUME NEW i \in 1..Len(rows'), NEW j \in 1..Len(rows'), rows'[i] = rows'[j]
        PROVE  i = j
    <3>1. CASE i \in 1..Len(rows) /\ j \in 1..Len(rows)
      BY <3>1, <2>2, <2>6, <1>0 DEF Table, Unique
    <3>2. CASE i = Len(rows) + 1 /\ j \in 1..Len(rows)
      BY <3>2, <2>1, <2>2, <2>6, <1>1
    <3>3. CASE j = Len(rows) + 1 /\ i \in 1..Len(rows)
      BY <3>3, <2>1, <2>2, <2>6, <1>1
    <3> QED BY <2>4, <3>1, <3>2, <3>3
  <2> QED BY <2>3, <2>5, <2>6, HeaderKept DEF Table, Unique
<1> QED BY <1>3, <1>4, RowsGrow

\* What a step does to its own area's data.
Own(a) == Buffer(a) /\ Position(a) /\ Keys(a)

\* Steps that change neither what the area knows nor what the file holds, and lock
\* nothing.
Quiet(a) ==
    /\ rows' = rows /\ counter' = counter /\ header' = header /\ stale' = stale
    /\ ulRecNo'[a] = ulRecNo[a] /\ fPositioned'[a] = fPositioned[a]
    /\ ulRecCount'[a] = ulRecCount[a] /\ fValidBuffer'[a] = fValidBuffer[a]
    /\ fRecordChanged'[a] = fRecordChanged[a] /\ key'[a] = key[a]
    /\ fUpdateHeader'[a] = fUpdateHeader[a]
    /\ \A r : Locked(a, r)' => Locked(a, r)

LEMMA QuietOwn ==
  ASSUME NEW a \in Area, Own(a), Quiet(a), ~New(a), ~New(a)',
         fRecordChanged[a] =>
            /\ Locked(a, ulRecNo[a])'
            /\ pc'[a] \in {"idle", "write"} \/ (pc'[a] = "reclock" /\ op'[a] = "rlock"),
         pc'[a] = "write" => fRecordChanged[a],
         Adding(a)' => /\ op[a] = "append" /\ pc[a] = "release" /\ arg'[a] = arg[a]
                       /\ pc'[a] \in {"release", "reclock"},
         pc'[a] \notin {"header", "eol", "autoinc", "blank"},
         pc'[a] \in {"headerunlock", "closing"} => ~fUpdateHeader[a],
         pc[a] # "autoinc"
  PROVE  Own(a)'
<1>1. Buffer(a)'
  BY DEF Own, Buffer, Quiet
<1>2. Position(a)'
  <2>1. Adding(a)' => Adding(a)
    BY DEF Adding
  <2>2. (op[a] = "append" /\ pc[a] \in {"release", "reclock", "move"})' => Adding(a)'
    BY DEF Adding
  <2>3. /\ rows' = rows /\ header' = header
        /\ ulRecNo'[a] = ulRecNo[a] /\ fPositioned'[a] = fPositioned[a]
        /\ ulRecCount'[a] = ulRecCount[a] /\ fUpdateHeader'[a] = fUpdateHeader[a]
    BY DEF Quiet
  <2>4. (~New(a) => /\ ulRecCount[a] <= Len(rows)
                    /\ fPositioned[a] => ulRecNo[a] <= Len(rows))'
    BY <2>3 DEF Own, Position
  <2>5. (New(a) \/ Adding(a) => Len(rows) < MaxRec)'
    BY <2>1, <2>3 DEF Own, Position
  <2>6. (Adding(a) \/ pc[a] \in {"header", "eol"} => ulRecCount[a] = Len(rows))'
    BY <2>1, <2>3 DEF Own, Position
  <2>7. (op[a] = "append" /\ pc[a] \in {"release", "reclock"} => arg[a] = Len(rows) + 1)'
    BY <2>2, <2>3 DEF Own, Position
  <2>8. (pc[a] \in {"blank", "autoinc"} \/ (op[a] = "append" /\ pc[a] = "move") =>
            Locked(a, Len(rows) + 1))'
    BY <2>2
  <2> QED BY <2>3, <2>4, <2>5, <2>6, <2>7, <2>8 DEF Position
<1>3. Keys(a)'
  BY DEF Own, Keys, Quiet
<1> QED BY <1>1, <1>2, <1>3 DEF Own

LEMMA ColdOwn ==
  ASSUME Types, NEW a \in Area, Own(a), Quiet(a), pc[a] = "idle", op[a] = "none",
         NEW o \in Begun, GoCold(a, o), \A r : Locked(a, r)' <=> Locked(a, r)
  PROVE  Own(a)'
<1>1. op'[a] = o
  BY DEF Types, TypeOK, GoCold, Set
<1>2. /\ fRecordChanged[a] => pc'[a] = "write"
      /\ ~fRecordChanged[a] => pc'[a] = After(a, o)
  BY DEF Types, TypeOK, GoCold, Goto, Set
<1>3. /\ pc'[a] \notin {"header", "eol", "autoinc", "blank", "headerunlock", "closing"}
      /\ ~fRecordChanged[a] => pc'[a] # "write"
      /\ o = "append" => pc'[a] \in {"write", "appendlock"}
  BY <1>2, AfterEach DEF Begun
<1>4. ~New(a) /\ ~New(a)' /\ ~Adding(a)'
  BY <1>1, <1>3 DEF New, Adding, Begun
<1>5. fRecordChanged[a] => Locked(a, ulRecNo[a])'
  BY DEF Own, Buffer, Quiet
<1> QED BY <1>1, <1>2, <1>3, <1>4, <1>5, QuietOwn

\* Moving, with or without a look at the file.
LEMMA GoOwn ==
  ASSUME Types, Types', NEW a \in Area, ~New(a), Position(a),
         Open(a) \/ \E o \in Calls, r \in Nat : Go(a, o, r)
  PROVE  /\ ulRecCount'[a] \in {Len(rows), ulRecCount[a]} /\ ulRecCount'[a] <= Len(rows)
         /\ a \notin stale' /\ (fValidBuffer'[a] <=> ~fPositioned'[a])
         /\ fPositioned'[a] => ulRecNo'[a] <= Len(rows)
<1>b. fPositioned'[a] \in BOOLEAN /\ fValidBuffer'[a] \in BOOLEAN
  BY DEF Types, TypeOK
<1>1. /\ Len(rows) \in Nat /\ ulRecCount[a] \in Nat /\ ulRecCount[a] <= Len(rows)
  BY DEF Types, TypeOK, Position
<1>2. PICK r \in Nat : \/ Moved(a, Len(rows), Len(rows))
                      \/ Moved(a, r, Len(rows))
                      \/ Moved(a, r, ulRecCount[a])
  BY DEF Go, Open
<1>3. CASE Moved(a, Len(rows), Len(rows))
  <2>1. /\ ulRecCount'[a] = Len(rows) /\ a \notin stale'
        /\ ulRecNo'[a] = IF Len(rows) \in 1..Len(rows) THEN Len(rows) ELSE Len(rows) + 1
    BY <1>3, <1>1 DEF Types, TypeOK, Moved, Set
  <2>2. (fPositioned'[a] <=> Len(rows) \in 1..Len(rows)) /\ (fValidBuffer'[a] <=> Len(rows) \notin 1..Len(rows))
    BY <1>3, <1>1 DEF Types, TypeOK, Moved, Set
  <2> QED BY <1>b, <1>1, <2>1, <2>2
<1>4. CASE Moved(a, r, Len(rows))
  <2>1. /\ ulRecCount'[a] = Len(rows) /\ a \notin stale'
        /\ ulRecNo'[a] = IF r \in 1..Len(rows) THEN r ELSE Len(rows) + 1
    BY <1>4, <1>1 DEF Types, TypeOK, Moved, Set
  <2>2. (fPositioned'[a] <=> r \in 1..Len(rows)) /\ (fValidBuffer'[a] <=> r \notin 1..Len(rows))
    BY <1>4, <1>1 DEF Types, TypeOK, Moved, Set
  <2> QED BY <1>b, <1>1, <2>1, <2>2
<1>5. CASE Moved(a, r, ulRecCount[a])
  <2>1. /\ ulRecCount'[a] = ulRecCount[a] /\ a \notin stale'
        /\ ulRecNo'[a] = IF r \in 1..ulRecCount[a] THEN r ELSE ulRecCount[a] + 1
    BY <1>5, <1>1 DEF Types, TypeOK, Moved, Set
  <2>2. (fPositioned'[a] <=> r \in 1..ulRecCount[a]) /\ (fValidBuffer'[a] <=> r \notin 1..ulRecCount[a])
    BY <1>5, <1>1 DEF Types, TypeOK, Moved, Set
  <2> QED BY <1>b, <1>1, <2>1, <2>2
<1> QED BY <1>2, <1>3, <1>4, <1>5

\* The step itself keeps what the area knows true.
LEMMA OwnKept ==
  ASSUME Control, Data, NEW a \in Area, Call(a) \/ Progress(a) \/ Die(a), ~failed'
  PROVE  Own(a)'
<1> USE DEF Set, Goto, Step, Calling, Return, disk, lock, place, buffer, head, call
<1>0. Types /\ Where(a) /\ Locks(a) /\ Own(a) /\ Table
  BY DEF Control, Data, Own
<1>t. Types' /\ Where(a)' /\ Locks(a)'
  BY TypesKept, OwnControl
<1>i. pc[a] = "idle" => op[a] = "none" /\ ~New(a) /\ ~Adding(a)
  BY <1>0 DEF Where, New, Adding
<1>r. Len(rows) \in Nat /\ Len(rows') \in Nat
  BY <1>0, <1>t DEF Types, TypeOK
<1>m. ASSUME ~New(a), rows' = rows, ~fRecordChanged'[a],
             Open(a) \/ \E o \in Calls, r \in Nat : Go(a, o, r),
             \/ pc'[a] = "idle" /\ op'[a] = "none"
             \/ pc'[a] = "blank" /\ op'[a] = "append" /\ Adding(a) /\ Locked(a, Len(rows) + 1)'
      PROVE  Own(a)'
  <2>1. /\ ulRecCount'[a] \in {Len(rows), ulRecCount[a]} /\ ulRecCount'[a] <= Len(rows)
        /\ a \notin stale' /\ (fValidBuffer'[a] <=> ~fPositioned'[a])
        /\ fPositioned'[a] => ulRecNo'[a] <= Len(rows)
    BY <1>0, <1>t, <1>m, GoOwn DEF Own
  <2>2. Buffer(a)'
    BY <1>m, <2>1 DEF Buffer
  <2>3. ~New(a)'
    BY <1>m DEF New
  <2>4. Position(a)'
    BY <1>0, <1>m, <2>1, <2>3 DEF Own, Position, Adding
  <2>5. Keys(a)'
    BY <1>m, <2>1, <2>3 DEF Keys
  <2> QED BY <2>2, <2>4, <2>5 DEF Own
<1>g. ASSUME pc[a] \in {"reclock", "filelock"},
             UNCHANGED <<disk, place, ulRecCount, fRecordChanged, fUpdateHeader>>,
             fRecordChanged[a] => /\ pc'[a] = "idle" /\ Locked(a, ulRecNo[a])'
                                  /\ fValidBuffer'[a],
             a \in stale' => fPositioned[a] /\ ~Locked(a, ulRecNo[a])',
             fValidBuffer'[a] \/ fPositioned[a],
             fValidBuffer'[a] => fValidBuffer[a] /\ key'[a] = key[a],
             \/ op[a] = "append" /\ op'[a] = op[a] /\ pc'[a] \in {"move", "blank"}
                /\ Locked(a, Len(rows) + 1)'
             \/ op[a] # "append" /\ op'[a] \in {"none", op[a]} /\ pc'[a] \in {"idle", "move"}
      PROVE  Own(a)'
  <2>1. ~New(a) /\ ~New(a)' /\ (Adding(a)' => Adding(a))
    BY <1>g, <1>0 DEF New, Adding, Where
  <2>2. Buffer(a)'
    BY <1>g, <1>0 DEF Own, Buffer
  <2>3. Position(a)'
    <3>1. CASE op[a] = "append"
      BY <1>g, <2>1, <3>1, <1>0 DEF Own, Position
    <3>2. CASE op[a] # "append"
      BY <1>g, <2>1, <3>2, <1>0 DEF Own, Position
    <3> QED BY <3>1, <3>2
  <2>4. Keys(a)'
    BY <1>g, <2>1, <1>0 DEF Own, Keys
  <2> QED BY <2>2, <2>3, <2>4 DEF Own
<1> USE DEF Types, TypeOK
<1>1. ASSUME Open(a) PROVE Own(a)'
  <2>1. /\ pc[a] = "closed" /\ pc'[a] = "idle" /\ op'[a] = "none" /\ rows' = rows
        /\ fRecordChanged'[a] = fRecordChanged[a]
    BY <1>1, <1>0 DEF Open
  <2>2. ~New(a) /\ ~fRecordChanged[a]
    BY <2>1, <1>0 DEF New, Own, Buffer
  <2> QED BY <1>1, <2>1, <2>2, <1>m
<1>2. ASSUME GoTo(a, "bottom", 0) PROVE Own(a)'
  <2>1. /\ pc[a] = "idle" /\ rows' = rows /\ fRecordChanged'[a] = fRecordChanged[a]
    BY <1>2 DEF GoTo, Idle
  <2>2. CASE ~fRecordChanged[a]
    <3>1. /\ pc'[a] = "idle" /\ op'[a] = op[a] /\ Go(a, "bottom", 0)
      BY <1>2, <2>1, <2>2 DEF GoTo
    <3>2. \E o \in Calls, m \in Nat : Go(a, o, m)
      BY <3>1, Bytes DEF Calls, Begun, Go
    <3> QED BY <2>1, <2>2, <3>1, <3>2, <1>i, <1>m
  <2>3. CASE fRecordChanged[a]
    <3>1. Quiet(a) /\ \A m : Locked(a, m)' <=> Locked(a, m)
      BY <1>2, <2>3, <1>0 DEF GoTo, Quiet, Locked
    <3>2. GoCold(a, "bottom")
      BY <1>2, <2>3 DEF GoTo
    <3> QED BY <2>1, <3>1, <3>2, <1>0, <1>i, ColdOwn DEF Begun
  <2> QED BY <2>2, <2>3
<1>3. ASSUME NEW r \in Records, GoTo(a, "goto", r) PROVE Own(a)'
  <2>1. /\ pc[a] = "idle" /\ rows' = rows /\ fRecordChanged'[a] = fRecordChanged[a]
    BY <1>3 DEF GoTo, Idle
  <2>2. CASE ~fRecordChanged[a]
    <3>1. /\ pc'[a] = "idle" /\ op'[a] = op[a] /\ Go(a, "goto", r)
      BY <1>3, <2>1, <2>2 DEF GoTo
    <3>2. \E o \in Calls, m \in Nat : Go(a, o, m)
      BY <3>1, Bytes DEF Calls, Begun, Go
    <3> QED BY <2>1, <2>2, <3>1, <3>2, <1>i, <1>m
  <2>3. CASE fRecordChanged[a]
    <3>1. Quiet(a) /\ \A m : Locked(a, m)' <=> Locked(a, m)
      BY <1>3, <2>3, <1>0 DEF GoTo, Quiet, Locked
    <3>2. GoCold(a, "goto")
      BY <1>3, <2>3 DEF GoTo
    <3> QED BY <2>1, <3>1, <3>2, <1>0, <1>i, ColdOwn DEF Begun
  <2> QED BY <2>2, <2>3
<1>4. ASSUME Read(a) PROVE Own(a)'
  <2>1. /\ pc[a] = "idle" /\ ~fValidBuffer[a] /\ pc' = pc /\ op' = op /\ arg' = arg
        /\ rows' = rows /\ header' = header /\ UNCHANGED <<lock, place, ulRecCount, fUpdateHeader>>
        /\ fRecordChanged' = fRecordChanged
        /\ fValidBuffer'[a] /\ key'[a] = Stored(ulRecNo[a]) /\ a \notin stale'
    BY <1>4, <1>0 DEF Read, Idle
  <2>2. ~fRecordChanged[a] /\ fPositioned[a] /\ ulRecNo[a] <= Len(rows)
    BY <2>1, <1>0, <1>i DEF Own, Buffer, Position
  <2>3. Stored(ulRecNo[a]) = rows[ulRecNo[a]]
    BY <2>2, <1>0 DEF Stored
  <2>4. Buffer(a)'
    BY <2>1, <2>2, <1>0 DEF Buffer, Own
  <2>5. Position(a)' /\ ~New(a)'
    BY <2>1, <1>0, <1>i DEF Own, Position, New, Adding, Locked
  <2>6. Keys(a)'
    BY <2>1, <2>3, <2>5 DEF Keys
  <2> QED BY <2>4, <2>5, <2>6 DEF Own
<1>5. ASSUME PutValue(a) PROVE Own(a)'
  <2>1. /\ pc[a] = "idle" /\ pc' = pc /\ op' = op /\ arg' = arg
        /\ rows' = rows /\ header' = header /\ UNCHANGED <<lock, place, ulRecCount, fUpdateHeader>>
        /\ fPositioned[a] /\ Locked(a, ulRecNo[a])
    BY <1>5, <1>0 DEF PutValue, Idle
  <2>2. fValidBuffer'[a] /\ a \notin stale'
    BY <1>5, <2>1, <1>0 DEF PutValue, Own, Buffer
  <2>3. ulRecNo[a] <= Len(rows)
    BY <2>1, <1>0, <1>i DEF Own, Position
  <2>4. Stored(ulRecNo[a]) = rows[ulRecNo[a]]
    BY <2>3, <1>0 DEF Stored
  <2>5. key'[a] = rows[ulRecNo[a]]
    <3>1. CASE fValidBuffer[a] /\ key' = key
      BY <3>1, <2>1, <1>0, <1>i DEF Own, Keys
    <3>2. CASE key' = [key EXCEPT ![a] = Stored(ulRecNo[a])]
      BY <3>2, <2>4, <1>0
    <3> QED BY <1>5, <3>1, <3>2 DEF PutValue
  <2>6. Buffer(a)'
    BY <2>1, <2>2 DEF Buffer, Locked
  <2>7. Position(a)' /\ ~New(a)'
    BY <2>1, <1>0, <1>i DEF Own, Position, New, Adding, Locked
  <2>8. Keys(a)'
    BY <2>1, <2>5, <2>7 DEF Keys
  <2> QED BY <2>6, <2>7, <2>8 DEF Own
<1>6. ASSUME LockRecord(a) PROVE Own(a)'
  <2>0. /\ pc[a] = "idle" /\ Quiet(a) /\ \A r : Locked(a, r)' <=> Locked(a, r)
    BY <1>6, <1>0 DEF LockRecord, Idle, Quiet, Locked
  <2>1. CASE GoCold(a, "rlock")
    BY <2>0, <2>1, <1>0, <1>i, ColdOwn DEF Begun
  <2>2. CASE pLocksPos[a] = {} /\ Set(op, a, "rlock") /\ Goto(a, "reclock")
    <3>1. /\ op'[a] = "rlock" /\ pc'[a] = "reclock" /\ ~Locked(a, ulRecNo[a])
      BY <1>6, <2>2, <1>0 DEF Locked, LockRecord
    <3>2. ~fRecordChanged[a] /\ ~New(a)' /\ ~Adding(a)'
      BY <3>1, <1>0 DEF Own, Buffer, New, Adding
    <3> QED BY <2>0, <3>1, <3>2, <1>0, <1>i, QuietOwn
  <2> QED BY <1>6, <2>1, <2>2 DEF LockRecord
<1>7. ASSUME NEW r \in Records, LockMore(a, r) PROVE Own(a)'
  <2>1. /\ pc[a] = "idle" /\ Quiet(a) /\ \A m : Locked(a, m)' <=> Locked(a, m)
        /\ op'[a] = "rlock" /\ pc'[a] = "reclock"
    BY <1>7, <1>0 DEF LockMore, Idle, Quiet, Locked
  <2>2. ~New(a)' /\ ~Adding(a)'
    BY <2>1 DEF New, Adding
  <2>3. fRecordChanged[a] => Locked(a, ulRecNo[a])'
    BY <2>1, <1>0 DEF Own, Buffer, Quiet
  <2> QED BY <2>1, <2>2, <2>3, <1>0, <1>i, QuietOwn
<1>8. ASSUME LockFile(a) PROVE Own(a)'
  <2>0. /\ pc[a] = "idle" /\ Quiet(a) /\ \A r : Locked(a, r)' <=> Locked(a, r)
    BY <1>8, <1>0 DEF LockFile, Idle, Quiet, Locked
  <2>1. CASE GoCold(a, "flock")
    BY <2>0, <2>1, <1>0, <1>i, ColdOwn DEF Begun
  <2>2. CASE pLocksPos[a] = {} /\ Set(op, a, "flock") /\ Goto(a, "filelock")
    <3>1. /\ op'[a] = "flock" /\ pc'[a] = "filelock" /\ ~Locked(a, ulRecNo[a])
      BY <1>8, <2>2, <1>0 DEF Locked, LockFile
    <3>2. ~fRecordChanged[a] /\ ~New(a)' /\ ~Adding(a)'
      BY <3>1, <1>0 DEF Own, Buffer, New, Adding
    <3> QED BY <2>0, <3>1, <3>2, <1>0, <1>i, QuietOwn
  <2> QED BY <1>8, <2>1, <2>2 DEF LockFile
<1>9. ASSUME UnLock(a) PROVE Own(a)'
  <2>0. /\ pc[a] = "idle" /\ Quiet(a) /\ \A r : Locked(a, r)' <=> Locked(a, r)
    BY <1>9, <1>0 DEF UnLock, Idle, Quiet, Locked
  <2> QED BY <1>9, <2>0, <1>0, <1>i, ColdOwn DEF UnLock, Begun
<1>10. ASSUME NEW r \in Records, UnLockOne(a, r) PROVE Own(a)'
  <2>0. /\ pc[a] = "idle" /\ Quiet(a) /\ \A m : Locked(a, m)' <=> Locked(a, m)
    BY <1>10, <1>0 DEF UnLockOne, Idle, Quiet, Locked
  <2> QED BY <1>10, <2>0, <1>0, <1>i, ColdOwn DEF UnLockOne, Begun
<1>11. ASSUME AppendRec(a) PROVE Own(a)'
  <2>0. /\ pc[a] = "idle" /\ Quiet(a) /\ \A r : Locked(a, r)' <=> Locked(a, r)
    BY <1>11, <1>0 DEF AppendRec, Idle, Quiet, Locked
  <2> QED BY <1>11, <2>0, <1>0, <1>i, ColdOwn DEF AppendRec, Begun
<1>12. ASSUME Flush(a) PROVE Own(a)'
  <2>0. /\ pc[a] = "idle" /\ Quiet(a) /\ \A r : Locked(a, r)' <=> Locked(a, r)
    BY <1>12, <1>0 DEF Flush, Idle, Quiet, Locked
  <2> QED BY <1>12, <2>0, <1>0, <1>i, ColdOwn DEF Flush, Begun
<1>13. ASSUME Close(a) PROVE Own(a)'
  <2>0. /\ pc[a] = "idle" /\ Quiet(a) /\ \A r : Locked(a, r)' <=> Locked(a, r)
    BY <1>13, <1>0 DEF Close, Idle, Quiet, Locked
  <2> QED BY <1>13, <2>0, <1>0, <1>i, ColdOwn DEF Close, Begun
<1>14. ASSUME Move(a) PROVE Own(a)'
  <2>1. /\ pc[a] = "move" /\ rows' = rows /\ fRecordChanged'[a] = fRecordChanged[a]
        /\ Go(a, op[a], arg[a]) /\ op[a] \in Calls /\ arg[a] \in Nat
        /\ \A m : Locked(a, m)' <=> Locked(a, m)
    BY <1>14, <1>0 DEF Move, Locked
  <2>2. ~New(a) /\ ~fRecordChanged[a]
    BY <2>1, <1>0 DEF New, Own, Buffer
  <2>3. \E o \in Calls, m \in Nat : Go(a, o, m)
    BY <2>1 DEF Go
  <2>4. \/ op[a] = "append" /\ pc'[a] = "blank" /\ op'[a] = op[a]
        \/ op[a] # "append" /\ pc'[a] = "idle" /\ op'[a] = "none"
    BY <1>14, <1>0, DoneCases DEF Move
  <2>5. op[a] = "append" => Adding(a) /\ Locked(a, Len(rows) + 1)'
    BY <2>1, <1>0 DEF Own, Position, Adding
  <2> QED BY <2>1, <2>2, <2>3, <2>4, <2>5, <1>m
<1>15. ASSUME Write(a) PROVE Own(a)'
  <2>1. /\ pc[a] = "write" /\ UNCHANGED <<header, lock, place, ulRecCount, fValidBuffer, key>>
        /\ op' = op /\ arg' = arg /\ ~fRecordChanged'[a] /\ a \notin stale'
        /\ fValidBuffer[a] /\ fPositioned[a]
    BY <1>15, <1>0 DEF Write, Own, Buffer
  <2>2. pc'[a] \in {After(a, op[a]), "recount", "headerlock"}
    BY <1>15, <1>0 DEF Write
  <2>3. op[a] \in Begun \cup {"appended"}
    BY <2>1, <1>0 DEF Where
  <2>4. /\ pc'[a] \notin {"write", "header", "eol", "autoinc", "blank", "headerunlock", "closing"}
        /\ op'[a] = "append" => pc'[a] \notin {"release", "reclock", "move"}
    BY <2>1, <2>2, <2>3, AfterEach DEF Begun
  <2>5. ~New(a)' /\ ~Adding(a)'
    BY <2>4 DEF New, Adding
  <2>6. Buffer(a)'
    BY <2>1, <2>4 DEF Buffer
  <2>7. /\ ulRecCount[a] <= Len(rows') /\ ulRecNo[a] <= Len(rows')
        /\ key[a] = rows'[ulRecNo[a]]
    <3>1. CASE New(a)
      <4>1. ulRecNo[a] = Len(rows) + 1 /\ ulRecCount[a] = Len(rows) + 1
        BY <3>1, <1>0 DEF Own, Position
      <4>2. ~(ulRecNo[a] <= Len(rows))
        BY <4>1, <1>r
      <4>3. rows' = Append(rows, key[a])
        BY <1>15, <4>2 DEF Write
      <4>4. Len(rows') = Len(rows) + 1 /\ rows'[Len(rows) + 1] = key[a]
        BY <4>3, <1>0
      <4> QED BY <4>1, <4>4, <1>r
    <3>2. CASE ~New(a)
      <4>1. rows' = rows
        BY <3>2, RowsGrow
      <4> QED BY <3>2, <4>1, <2>1, <1>0 DEF Own, Position, Keys
    <3> QED BY <3>1, <3>2
  <2>8. Position(a)'
    BY <2>1, <2>4, <2>5, <2>7 DEF Position, Adding
  <2>9. Keys(a)'
    BY <2>1, <2>4, <2>5, <2>7 DEF Keys
  <2> QED BY <2>6, <2>8, <2>9 DEF Own
<1>16. ASSUME FailToWrite(a) PROVE Own(a)'
  BY <1>16 DEF FailToWrite
<1>17. ASSUME HeaderLock(a) PROVE Own(a)'
  <2>1. /\ Quiet(a) /\ pc[a] = "headerlock" /\ pc'[a] = "recount" /\ op'[a] = op[a]
    BY <1>17, <1>0 DEF HeaderLock, Quiet, Locked
  <2>2. ~New(a) /\ ~New(a)' /\ ~Adding(a)'
    BY <2>1 DEF New, Adding
  <2>3. ~fRecordChanged[a]
    BY <2>1, <1>0 DEF Own, Buffer
  <2> QED BY <2>1, <2>2, <2>3, <1>0, QuietOwn
<1>18. ASSUME Recount(a) PROVE Own(a)'
  <2>1. /\ pc[a] = "recount" /\ pc'[a] = "header" /\ op' = op /\ arg' = arg
        /\ UNCHANGED <<disk, lock, place, fValidBuffer, fRecordChanged, key, stale, fUpdateHeader>>
        /\ ulRecCount'[a] = Len(rows)
    BY <1>18, <1>0 DEF Recount
  <2>2. ~New(a) /\ ~New(a)' /\ ~Adding(a)' /\ ~fRecordChanged[a]
    BY <2>1, <1>0 DEF New, Adding, Own, Buffer
  <2>3. Buffer(a)'
    BY <2>1, <2>2, <1>0 DEF Own, Buffer, Locked
  <2>4. Position(a)'
    BY <2>1, <2>2, <1>0, <1>r DEF Own, Position, Adding
  <2>5. Keys(a)'
    BY <2>1, <2>2, <1>0 DEF Own, Keys
  <2> QED BY <2>3, <2>4, <2>5 DEF Own
<1>19. ASSUME WriteHeader(a) PROVE Own(a)'
  <2>1. /\ pc[a] = "header" /\ op' = op /\ arg' = arg
        /\ UNCHANGED <<rows, counter, lock, place, ulRecCount, fValidBuffer, fRecordChanged, key, stale>>
        /\ header' = ulRecCount[a]
        /\ pc'[a] = "eol" \/ (pc'[a] \in {"appendunlock", "headerunlock"} /\ ~fUpdateHeader'[a])
    BY <1>19, <1>0 DEF WriteHeader, Written
  <2>2. ~New(a) /\ ~New(a)' /\ ~Adding(a)' /\ ~fRecordChanged[a]
    BY <2>1, <1>0 DEF New, Adding, Own, Buffer
  <2>3. Buffer(a)'
    BY <2>1, <2>2, <1>0 DEF Own, Buffer, Locked
  <2>4. ulRecCount[a] = Len(rows)
    BY <2>1, <1>0 DEF Own, Position
  <2>5. Position(a)'
    BY <2>1, <2>2, <2>4, <1>0 DEF Own, Position, Adding
  <2>6. Keys(a)'
    BY <2>1, <2>2, <1>0 DEF Own, Keys
  <2> QED BY <2>3, <2>5, <2>6 DEF Own
<1>20. ASSUME WriteEol(a) PROVE Own(a)'
  <2>1. /\ pc[a] = "eol" /\ op' = op /\ arg' = arg
        /\ UNCHANGED <<header, counter, lock, place, ulRecCount, fValidBuffer, fRecordChanged, key, stale>>
        /\ pc'[a] \in {"appendunlock", "headerunlock"} /\ ~fUpdateHeader'[a]
    BY <1>20, <1>0 DEF WriteEol, Written
  <2>2. ~New(a) /\ ~New(a)' /\ ~Adding(a)' /\ ~fRecordChanged[a]
    BY <2>1, <1>0 DEF New, Adding, Own, Buffer
  <2>3. rows' = rows
    BY <2>2, RowsGrow
  <2>4. Buffer(a)'
    BY <2>1, <2>2, <1>0 DEF Own, Buffer, Locked
  <2>5. Position(a)'
    BY <2>1, <2>2, <2>3, <1>0 DEF Own, Position, Adding
  <2>6. Keys(a)'
    BY <2>1, <2>2, <2>3, <1>0 DEF Own, Keys
  <2> QED BY <2>4, <2>5, <2>6 DEF Own
<1>21. ASSUME HeaderUnlock(a) PROVE Own(a)'
  <2>1. /\ Quiet(a) /\ pc[a] = "headerunlock" /\ op[a] \in Begun \cup {"committed", "shut"}
    BY <1>21, <1>0 DEF HeaderUnlock, Quiet, Locked, Where
  <2>2. \/ pc'[a] = "idle" /\ op'[a] = "none"
        \/ op[a] # "committed" /\ pc'[a] = After(a, op[a]) /\ op'[a] = op[a]
    BY <1>21, <1>0 DEF HeaderUnlock
  <2>3. ~fRecordChanged[a] /\ ~fUpdateHeader[a] /\ ~New(a)
    BY <2>1, <1>0 DEF Own, Buffer, Position, New
  <2>4. /\ pc'[a] \notin {"write", "header", "eol", "autoinc", "blank"}
        /\ op'[a] = "append" => pc'[a] = "appendlock"
    BY <2>1, <2>2, AfterEach DEF Begun
  <2>5. ~New(a)' /\ ~Adding(a)'
    BY <2>4 DEF New, Adding
  <2> QED BY <2>1, <2>3, <2>4, <2>5, <1>0, QuietOwn
<1>22. ASSUME Commit(a) PROVE Own(a)'
  <2>1. /\ Quiet(a) /\ pc[a] = "commit" /\ op'[a] \in {"committed", "none"}
        /\ pc'[a] \in {"headerlock", "idle"}
    BY <1>22, <1>0 DEF Commit, Quiet, Locked
  <2>2. ~New(a) /\ ~New(a)' /\ ~Adding(a)'
    BY <2>1 DEF New, Adding
  <2>3. ~fRecordChanged[a]
    BY <2>1, <1>0 DEF Own, Buffer
  <2> QED BY <2>1, <2>2, <2>3, <1>0, QuietOwn
<1>23. ASSUME RecLock(a) PROVE Own(a)'
  <2>1. /\ pc[a] = "reclock" /\ op[a] \in {"rlock", "append"}
        /\ UNCHANGED <<disk, fFLocked, place, ulRecCount, fRecordChanged, fUpdateHeader>>
    BY <1>23, <1>0 DEF RecLock, Where
  <2>2. /\ op[a] = "append" => ~fRecordChanged[a] /\ arg[a] = Len(rows) + 1
        /\ fRecordChanged[a] => fValidBuffer[a] /\ fPositioned[a] /\ Locked(a, ulRecNo[a])
        /\ a \in stale => fPositioned[a] /\ ~Locked(a, ulRecNo[a])
        /\ fValidBuffer[a] \/ fPositioned[a]
    BY <2>1, <1>0 DEF Own, Buffer, Position
  <2>3. fPositioned[a] => ulRecNo[a] <= Len(rows)
    BY <2>1, <1>0 DEF Own, Position, New
  <2>4. op[a] = "append" /\ arg[a] = ulRecNo[a] => ~fPositioned[a]
    BY <2>2, <2>3, <1>r
  <2>5. CASE RecRefused(a)
    <3>1. /\ UNCHANGED <<pLocksPos, fValidBuffer, key, stale>>
          /\ \/ op[a] = "append" /\ pc'[a] = "appendunlock" /\ op'[a] = op[a]
             \/ op[a] # "append" /\ pc'[a] = "idle" /\ op'[a] = "none"
      BY <2>5, <1>0 DEF RecRefused
    <3>2. Quiet(a)
      BY <2>1, <3>1 DEF Quiet, Locked
    <3>3. ~New(a) /\ ~New(a)' /\ ~Adding(a)'
      BY <2>1, <3>1 DEF New, Adding
    <3> QED BY <2>1, <2>2, <3>1, <3>2, <3>3, <1>0, QuietOwn DEF Quiet, Locked
  <2>6. RecLocked(a, arg[a]) => /\ fFLocked'[a] = fFLocked[a]
                               /\ pLocksPos'[a] = pLocksPos[a] \cup {arg[a]}
    BY <2>1, <1>0 DEF RecLocked
  <2>7. CASE RecLocked(a, arg[a]) /\ arg[a] # ulRecNo[a] /\ Elsewhere(a)
    <3>1. /\ UNCHANGED <<fValidBuffer, key, stale>>
          /\ \/ op[a] = "append" /\ pc'[a] = "blank" /\ op'[a] = op[a]
             \/ op[a] # "append" /\ pc'[a] = "idle" /\ op'[a] = "none"
      BY <2>7, <1>0, DoneCases DEF Elsewhere
    <3>2. a \in stale' => fPositioned[a] /\ ~Locked(a, ulRecNo[a])'
      BY <2>1, <2>2, <2>6, <2>7, <3>1 DEF Locked
    <3>3. fRecordChanged[a] => Locked(a, ulRecNo[a])'
      BY <2>1, <2>2, <2>6, <2>7 DEF Locked
    <3>4. op[a] = "append" => Locked(a, Len(rows) + 1)'
      BY <2>1, <2>2, <2>6, <2>7 DEF Locked
    <3> QED BY <2>1, <2>2, <3>1, <3>2, <3>3, <3>4, <1>g
  <2>8. CASE RecLocked(a, arg[a]) /\ arg[a] = ulRecNo[a] /\ Refresh(a)
    <3>1. Locked(a, ulRecNo[a])' /\ (op[a] = "append" => Locked(a, Len(rows) + 1)')
      BY <2>1, <2>2, <2>6, <2>8 DEF Locked
    <3>2. CASE ~fPositioned[a]
      <4>1. /\ pc'[a] = "move" /\ op'[a] = op[a] /\ UNCHANGED <<fValidBuffer, key, stale>>
        BY <2>8, <3>2, <1>0 DEF Refresh
      <4> QED BY <2>1, <2>2, <3>1, <3>2, <4>1, <1>g
    <3>3. CASE fPositioned[a] /\ ~fRecordChanged[a]
      <4>1. /\ pc'[a] = "idle" /\ op'[a] = "none" /\ ~fValidBuffer'[a] /\ a \notin stale'
        BY <2>4, <2>8, <3>3, <1>0 DEF Refresh, Done
      <4> QED BY <2>1, <2>2, <2>4, <2>8, <3>1, <3>3, <4>1, <1>g
    <3>4. CASE fPositioned[a] /\ fRecordChanged[a]
      <4>1. /\ pc'[a] = "idle" /\ op'[a] = "none" /\ UNCHANGED <<fValidBuffer, key, stale>>
        BY <2>4, <2>8, <3>4, <1>0 DEF Refresh, Done
      <4> QED BY <2>1, <2>2, <2>4, <2>8, <3>1, <3>4, <4>1, <1>g
    <3> QED BY <3>2, <3>3, <3>4
  <2> QED BY <1>23, <2>5, <2>7, <2>8 DEF RecLock
<1>24. ASSUME FileLock(a) PROVE Own(a)'
  <2>1. /\ pc[a] = "filelock" /\ op[a] = "flock" /\ UNCHANGED <<disk, place, ulRecCount, fUpdateHeader>>
        /\ fRecordChanged' = fRecordChanged /\ ~fRecordChanged[a]
    BY <1>24, <1>0 DEF FileLock, Where, Own, Buffer
  <2>2. /\ \/ pc'[a] = "idle" /\ op'[a] = "none"
           \/ pc'[a] = "move" /\ op'[a] = op[a]
        /\ fValidBuffer'[a] => fValidBuffer[a] /\ key'[a] = key[a]
        /\ fValidBuffer'[a] \/ fPositioned[a]
        /\ a \notin stale'
    <3>1. CASE fPositioned[a]
      BY <1>24, <2>1, <3>1, <1>0 DEF FileLock, Refresh, Done
    <3>2. CASE ~fPositioned[a]
      BY <1>24, <2>1, <3>2, <1>0 DEF FileLock, Refresh, Own, Buffer
    <3> QED BY <3>1, <3>2
  <2> QED BY <2>1, <2>2, <1>g
<1>25. ASSUME Release(a) PROVE Own(a)'
  <2>1. Quiet(a) /\ pc[a] = "release"
    BY <1>25, <1>0 DEF Release, Quiet, Locked
  <2>2. \/ pc'[a] = "idle" /\ op'[a] = "none"
        \/ pc'[a] \in {"release", "filelock", "reclock", "shut"} /\ op'[a] = op[a] /\ arg'[a] = arg[a]
    BY <1>25, <1>0 DEF Release
  <2>3. ~fRecordChanged[a] /\ ~New(a) /\ ~New(a)'
    BY <2>1, <2>2, <1>0 DEF Own, Buffer, New
  <2>4. Adding(a)' => /\ op[a] = "append" /\ arg'[a] = arg[a] /\ pc'[a] \in {"release", "reclock"}
    BY <2>2 DEF Adding
  <2> QED BY <2>1, <2>2, <2>3, <2>4, <1>0, QuietOwn
<1>26. ASSUME ReleaseOne(a) PROVE Own(a)'
  <2>1. Quiet(a) /\ pc[a] = "releaseone" /\ pc'[a] = "idle" /\ op'[a] = "none"
    BY <1>26, <1>0 DEF ReleaseOne, Quiet, Locked
  <2>2. ~New(a) /\ ~New(a)' /\ ~Adding(a)'
    BY <2>1 DEF New, Adding
  <2>3. ~fRecordChanged[a]
    BY <2>1, <1>0 DEF Own, Buffer
  <2> QED BY <2>1, <2>2, <2>3, <1>0, QuietOwn
<1>27. ASSUME ReleaseFile(a) PROVE Own(a)'
  <2>1. /\ Quiet(a) /\ pc[a] = "releasefile" /\ op[a] # "append"
        /\ \/ pc'[a] = "idle" /\ op'[a] = "none"
           \/ pc'[a] = "shut" /\ op'[a] = "close"
    BY <1>27, <1>0 DEF ReleaseFile, Quiet, Locked, Where
  <2>2. ~New(a) /\ ~New(a)' /\ ~Adding(a)'
    BY <2>1 DEF New, Adding
  <2>3. ~fRecordChanged[a]
    BY <2>1, <1>0 DEF Own, Buffer
  <2> QED BY <2>1, <2>2, <2>3, <1>0, QuietOwn
<1>28. ASSUME AppendLock(a) PROVE Own(a)'
  <2>1. /\ Quiet(a) /\ pc[a] = "appendlock" /\ pc'[a] = "reserve" /\ op'[a] = op[a]
    BY <1>28, <1>0 DEF AppendLock, Quiet, Locked
  <2>2. ~New(a) /\ ~New(a)' /\ ~Adding(a)'
    BY <2>1 DEF New, Adding
  <2>3. ~fRecordChanged[a]
    BY <2>1, <1>0 DEF Own, Buffer
  <2> QED BY <2>1, <2>2, <2>3, <1>0, QuietOwn
<1>29. ASSUME Reserve(a) PROVE Own(a)'
  <2>1. /\ pc[a] = "reserve" /\ op[a] = "append" /\ op' = op /\ arg'[a] = Len(rows) + 1
        /\ UNCHANGED <<disk, lock, place, fValidBuffer, fRecordChanged, key, stale, fUpdateHeader>>
        /\ ulRecCount'[a] = Len(rows)
    BY <1>29, <1>0 DEF Reserve, Where
  <2>2. \/ pc'[a] = "appendunlock"
        \/ pc'[a] = "blank" /\ Locked(a, Len(rows) + 1) /\ Len(rows) + 1 <= MaxRec
        \/ pc'[a] \in {"release", "reclock"} /\ Len(rows) + 1 <= MaxRec
    BY <1>29, <1>0 DEF Reserve
  <2>3. ~New(a) /\ ~New(a)' /\ ~fRecordChanged[a]
    BY <2>1, <1>0 DEF New, Own, Buffer
  <2>4. Len(rows) + 1 <= MaxRec => Len(rows) < MaxRec
    BY <1>r, BoundAssumption
  <2>5. Buffer(a)'
    BY <2>1, <2>2, <2>3, <1>0 DEF Own, Buffer, Locked
  <2>6. /\ ulRecCount'[a] <= Len(rows') /\ (fPositioned'[a] => ulRecNo'[a] <= Len(rows'))
        /\ Adding(a)' => Len(rows') < MaxRec
    BY <2>1, <2>2, <2>3, <2>4, <1>0, <1>r DEF Own, Position, Adding
  <2>7. pc'[a] = "blank" => Locked(a, Len(rows) + 1)'
    BY <2>1, <2>2 DEF Locked
  <2>8. Position(a)'
    BY <2>1, <2>2, <2>3, <2>6, <2>7 DEF Position
  <2>9. Keys(a)'
    BY <2>1, <2>2, <2>3, <1>0 DEF Own, Keys
  <2> QED BY <2>5, <2>8, <2>9 DEF Own
<1>30. ASSUME Blank(a) PROVE Own(a)'
  <2>1. /\ pc[a] = "blank" /\ op[a] = "append" /\ op' = op /\ arg' = arg /\ pc'[a] = "autoinc"
        /\ UNCHANGED <<disk, lock, place, ulRecCount, fValidBuffer, fRecordChanged, stale, fUpdateHeader>>
        /\ key'[a] = counter
    BY <1>30, <1>0 DEF Blank, Where
  <2>2. ~New(a) /\ ~New(a)' /\ Adding(a) /\ ~fRecordChanged[a]
    BY <2>1, <1>0 DEF New, Adding, Own, Buffer
  <2>3. Buffer(a)'
    BY <2>1, <2>2, <1>0 DEF Own, Buffer, Locked
  <2>4. Position(a)'
    BY <2>1, <2>2, <1>0 DEF Own, Position, Locked
  <2>5. Keys(a)'
    BY <2>1, <2>2 DEF Keys
  <2> QED BY <2>3, <2>4, <2>5 DEF Own
<1>31. ASSUME AutoInc(a) PROVE Own(a)'
  <2>1. /\ pc[a] = "autoinc" /\ pc'[a] = "write" /\ op'[a] = "appended"
        /\ UNCHANGED <<rows, header, lock, key>> /\ a \notin stale'
        /\ fValidBuffer'[a] /\ fRecordChanged'[a] /\ fUpdateHeader'[a] /\ fPositioned'[a]
        /\ ulRecCount'[a] = ulRecCount[a] + 1 /\ ulRecNo'[a] = ulRecCount[a] + 1
        /\ counter' = key[a] + 1 /\ key[a] \in Nat
    BY <1>31, <1>0 DEF AutoInc
  <2>2. /\ Adding(a) /\ ulRecCount[a] = Len(rows) /\ Len(rows) < MaxRec
        /\ Locked(a, Len(rows) + 1) /\ key[a] = counter
    BY <2>1, <1>0 DEF Own, Position, Adding, Keys
  <2>3. New(a)' /\ ~Adding(a)' /\ Locked(a, Len(rows) + 1)'
    BY <2>1, <2>2 DEF New, Adding, Locked
  <2>4. Buffer(a)'
    BY <2>1, <2>2, <2>3 DEF Buffer
  <2>5. Position(a)'
    BY <2>1, <2>2, <2>3 DEF Position
  <2>6. key'[a] < counter' /\ \A i \in 1..Len(rows) : rows[i] < key[a]
    BY <2>1, <2>2, <1>0 DEF Table
  <2>7. Keys(a)'
    BY <2>1, <2>3, <2>6 DEF Keys
  <2> QED BY <2>4, <2>5, <2>7 DEF Own
<1>32. ASSUME AppendUnlock(a) PROVE Own(a)'
  <2>1. /\ Quiet(a) /\ pc[a] = "appendunlock" /\ pc'[a] = "idle" /\ op'[a] = "none"
    BY <1>32, <1>0 DEF AppendUnlock, Quiet, Locked
  <2>2. ~New(a) /\ ~New(a)' /\ ~Adding(a)'
    BY <2>1 DEF New, Adding
  <2>3. ~fRecordChanged[a]
    BY <2>1, <1>0 DEF Own, Buffer
  <2> QED BY <2>1, <2>2, <2>3, <1>0, QuietOwn
<1>33. ASSUME Shut(a) PROVE Own(a)'
  <2>1. /\ Quiet(a) /\ pc[a] = "shut" /\ pc'[a] = "headerlock" /\ op'[a] = "shut"
    BY <1>33, <1>0 DEF Shut, Quiet, Locked
  <2>2. ~New(a) /\ ~New(a)' /\ ~Adding(a)'
    BY <2>1 DEF New, Adding
  <2>3. ~fRecordChanged[a]
    BY <2>1, <1>0 DEF Own, Buffer
  <2> QED BY <2>1, <2>2, <2>3, <1>0, QuietOwn
<1>34. ASSUME CloseFile(a) \/ Die(a) PROVE Own(a)'
  <2>1. /\ pc'[a] = "closed" /\ op'[a] = "none" /\ UNCHANGED disk
        /\ ~fPositioned'[a] /\ ulRecCount'[a] = 0 /\ fValidBuffer'[a]
        /\ ~fRecordChanged'[a] /\ ~fUpdateHeader'[a] /\ a \notin stale'
    BY <1>34, <1>0 DEF CloseFile, Die, Gone
  <2>2. ~New(a)' /\ ~Adding(a)'
    BY <2>1 DEF New, Adding
  <2> QED BY <2>1, <2>2, <1>r DEF Own, Buffer, Position, Keys
<1> QED BY <1>1, <1>2, <1>3, <1>4, <1>5, <1>6, <1>7, <1>8, <1>9, <1>10,
          <1>11, <1>12, <1>13, <1>14, <1>15, <1>16, <1>17, <1>18, <1>19,
          <1>20, <1>21, <1>22, <1>23, <1>24, <1>25, <1>26, <1>27, <1>28,
          <1>29, <1>30, <1>31, <1>32, <1>33, <1>34 DEF Call, Progress

-----------------------------------------------------------------------------
(* Together                                                                *)

LEMMA DataKept ==
  ASSUME Control, Data, NEW a \in Area, Call(a) \/ Progress(a) \/ Die(a), ~failed'
  PROVE  Data'
<1>1. Table'
  BY TableKept
<1>2. ASSUME NEW b \in Area PROVE Buffer(b)' /\ Position(b)' /\ Keys(b)'
  <2>1. CASE b = a
    BY <2>1, OwnKept DEF Own
  <2>2. CASE b # a
    BY <2>2, DataOfOthers
  <2> QED BY <2>1, <2>2
<1> QED BY <1>1, <1>2 DEF Data

LEMMA SafeKept ==
  ASSUME Safe, [Next]_vars
  PROVE  Safe'
<1>0. Control /\ Control'
  BY ControlKept DEF Safe
<1>1. CASE UNCHANGED vars
  <2>1. Data => Data'
    BY <1>1 DEF Data, Table, Unique, HeaderKnown, Buffer, Position, Keys, New, Adding,
                Locked, vars, disk, lock, place, buffer, head, call
  <2> QED BY <1>0, <1>1, <2>1 DEF Safe, vars, head
<1>2. ASSUME NEW a \in Area, Call(a) \/ Progress(a) \/ Die(a) PROVE Safe'
  <2>1. failed => failed'
    BY <1>2, FileChanges DEF FileChange, FailToWrite
  <2> QED BY <1>0, <1>2, <2>1, DataKept DEF Safe
<1> QED BY <1>1, <1>2 DEF Next

THEOREM SafeAlways == Spec => []Safe
<1>1. Init => Safe
  BY ControlAtFirst, DataAtFirst DEF Safe
<1> QED BY <1>1, SafeKept, PTL DEF Spec

\* As long as every record has been written, a buffer that is going to be written
\* holds what the file does but for its own changes: it is hot only where the record
\* is locked, and stale only where it is not.
THEOREM UpdatesNotLost == Spec => []NoLostUpdate
<1>1. Safe => NoLostUpdate
  BY DEF Safe, Data, Buffer, NoLostUpdate, UpdatesKept
<1> QED BY <1>1, SafeAlways, PTL

\* The header has the number of records or is going to be written.
THEOREM HeaderAlwaysAgrees == Spec => []HeaderAgrees
<1>1. Safe => HeaderAgrees
  BY DEF Safe, Data, Table, HeaderAgrees
<1> QED BY <1>1, SafeAlways, PTL

\* No record is cut off or replaced by another, and no key is given out twice.
THEOREM RecordsAlwaysKept == Spec => RecordsKept
<1>1. Safe /\ [Next]_vars =>
         [~failed => /\ Len(rows) <= Len(rows') /\ \A r \in 1..Len(rows) : rows'[r] = rows[r]
                     /\ Unique(rows')]_vars
  <2> SUFFICES ASSUME Safe, Next, ~failed
               PROVE  /\ Len(rows) <= Len(rows') /\ \A r \in 1..Len(rows) : rows'[r] = rows[r]
                      /\ Unique(rows')
    OBVIOUS
  <2>1. PICK a \in Area : Call(a) \/ Progress(a) \/ Die(a)
    BY DEF Next
  <2>2. Control /\ Data
    BY DEF Safe
  <2> QED BY <2>1, <2>2, RowsStay, TableKept DEF Table
<1> QED BY <1>1, SafeAlways, PTL DEF Spec, RecordsKept
=============================================================================
