------------------------------ MODULE DbfLocks ------------------------------
(***************************************************************************)
(* A table shared by several work areas: records, header and locks of the  *)
(* DBF driver (src/rdd/dbf1.c).                                            *)
(*                                                                         *)
(* A work area has a buffer for one record, knows how many records the     *)
(* file had when it last looked, and locks bytes far behind the data: one  *)
(* for the header and for appending, one for each record, and the range of *)
(* the latter for the whole file.  The bytes are those of ByteLocks, which *)
(* FileLocks implements.                                                   *)
(*                                                                         *)
(* Granularity: one action for each call of the hb_file*() functions, with *)
(* what the driver does up to the next.  A record is its key, which is the *)
(* value of an auto-increment field; what other fields hold is left out,   *)
(* but `stale' tells whose buffer differs from the file.  Left out: memo   *)
(* fields, encryption, triggers, relations, filters, exclusive use and the *)
(* operations that need it, and reading that fails.                        *)
(***************************************************************************)
EXTENDS Integers, Sequences, FiniteSets

CONSTANTS
    Area,       \* work areas, of any threads and processes
    NoArea,     \* nobody
    uiSetHeader, \* when each area writes the header (DBI_SETHEADER)
    WritesFail, \* areas of which one may fail to write a record, once
    Existing,   \* number of records that the file has at first
    MaxRec,     \* bound on the number of records
    MaxLocks,   \* bound on the locks of an area before it locks one more
    MaxKey      \* bound on the keys that are given out

Flags == {"commit", "write", "replace", "eol"}
ASSUME AreaAssumption == NoArea \notin Area
ASSUME HeaderAssumption == uiSetHeader \in [Area -> SUBSET Flags]
ASSUME BoundAssumption ==
    WritesFail \subseteq Area /\ MaxRec \in Nat /\ MaxKey \in Nat /\ Existing \in 0..MaxRec

VARIABLES
    rows,        \* the file: the key of each record
    header,      \* number of records by its header
    counter,     \* next value of the auto-increment field
    owner,       \* of each byte
    pLocksPos,   \* records that each area has locked
    fFLocked,    \* has it locked the file?
    ulRecNo,     \* its position,
    fPositioned, \* and whether there is a record
    ulRecCount,  \* number of records when it last looked
    fValidBuffer, \* does its buffer hold the record?
    fRecordChanged, \* is it to be written?
    fUpdateHeader,  \* and the header?
    key,         \* key of the record in the buffer
    pc, op, arg, \* where it stands, in which call, about which record
    failed,      \* has a record not been written?
    stale,       \* areas with a buffer that is not what the file holds
    orphan       \* did an area die that had the header to write?

disk == <<rows, header, counter>>
lock == <<owner, pLocksPos, fFLocked>>
place == <<ulRecNo, fPositioned>>
buffer == <<fValidBuffer, fRecordChanged, key>>
head == <<fUpdateHeader, orphan, failed>>
call == <<op, arg>>
vars == <<disk, lock, place, ulRecCount, buffer, head, pc, call, stale>>

HeaderByte == {0}
Records == 1 .. MaxRec
Byte == HeaderByte \cup Records
File == INSTANCE ByteLocks WITH Thread <- Area, NoThread <- NoArea

fHeaderLocked(a) == owner[0] = a
Locked(a, r) == fFLocked[a] \/ r \in pLocksPos[a]

Init ==
    /\ rows = [i \in 1..Existing |-> i]
    /\ header = Existing /\ counter = Existing + 1
    /\ File!Init
    /\ pLocksPos = [a \in Area |-> {}]
    /\ fFLocked = [a \in Area |-> FALSE]
    /\ ulRecNo = [a \in Area |-> 1]
    /\ fPositioned = [a \in Area |-> FALSE]
    /\ ulRecCount = [a \in Area |-> 0]
    /\ fValidBuffer = [a \in Area |-> TRUE]
    /\ fRecordChanged = [a \in Area |-> FALSE]
    /\ fUpdateHeader = [a \in Area |-> FALSE]
    /\ key = [a \in Area |-> 0]
    /\ pc = [a \in Area |-> "closed"]
    /\ op = [a \in Area |-> "none"]
    /\ arg = [a \in Area |-> 0]
    /\ stale = {} /\ orphan = FALSE /\ failed = FALSE

-----------------------------------------------------------------------------
Set(f, a, v) == f' = [f EXCEPT ![a] = v]
Goto(a, s) == Set(pc, a, s)
Calling(a, o, r) == Set(op, a, o) /\ Set(arg, a, r)
Return(a) == Goto(a, "idle") /\ Calling(a, "none", 0)
Step(a, s) == Goto(a, s) /\ UNCHANGED call

\* The record is locked: hb_dbfAppend, which locks its own, goes on.
Done(a) == IF op[a] = "append" THEN Step(a, "blank") ELSE Return(a)

\* Where a call goes on when the record, and the header after it, are written.
After(a, o) ==
    CASE o \in {"goto", "bottom"} -> "move"
      [] o = "commit" -> "commit"
      [] o = "append" -> "appendlock"
      [] o = "appended" -> "appendunlock"
      [] o = "unlockone" -> "releaseone"
      [] o = "shut" -> "closing"
      [] o \in {"rlock", "flock", "unlock", "close"} ->
            IF fFLocked[a] THEN "releasefile"
            ELSE IF pLocksPos[a] # {} THEN "release" ELSE "shut"

\* A call that begins with SELF_GOCOLD, which does nothing if the buffer is clean.
GoCold(a, o) ==
    /\ Set(op, a, o)
    /\ Goto(a, IF fRecordChanged[a] THEN "write" ELSE After(a, o))

\* What hb_dbfGoTo does when it knows that there are n records.  The key in a
\* buffer that is not valid, or is blank, is 0.
Moved(a, r, n) ==
    LET there == r \in 1..n IN
    /\ Set(ulRecCount, a, n)
    /\ Set(ulRecNo, a, IF there THEN r ELSE n + 1)
    /\ Set(fPositioned, a, there)
    /\ Set(fValidBuffer, a, ~there)
    /\ Set(key, a, 0)
    /\ stale' = stale \ {a}

-----------------------------------------------------------------------------
(* Calls of the program                                                    *)
Idle(a) == pc[a] = "idle"

\* hb_dbfOpen ends with SELF_GOTOP.
Open(a) ==
    /\ pc[a] = "closed"
    /\ Moved(a, 1, Len(rows))
    /\ Return(a)
    /\ UNCHANGED <<disk, lock, fRecordChanged, head>>

\* hb_dbfGoTo, which looks at the file only if it knows of no such record, and
\* hb_dbfGoBottom, which always does.
Go(a, o, r) ==
    \/ o = "bottom" /\ Moved(a, Len(rows), Len(rows))
    \/ o # "bottom" /\ r > ulRecCount[a] /\ Moved(a, r, Len(rows))
    \/ o # "bottom" /\ r <= ulRecCount[a] /\ Moved(a, r, ulRecCount[a])

GoTo(a, o, r) ==
    /\ Idle(a)
    /\ \/ /\ ~fRecordChanged[a]
          /\ Go(a, o, r)
          /\ UNCHANGED <<pc, call>>
       \/ /\ fRecordChanged[a]
          /\ GoCold(a, o) /\ Set(arg, a, r)
          /\ UNCHANGED <<place, ulRecCount, fValidBuffer, key, stale>>
    /\ UNCHANGED <<disk, lock, fRecordChanged, head>>

\* hb_dbfReadRecord, called when a field is asked for.  There is nothing to read
\* where a record was not written or has been cut off.
Stored(r) == IF r \in DOMAIN rows THEN rows[r] ELSE 0
Read(a) ==
    /\ Idle(a) /\ ~fValidBuffer[a]
    /\ Set(fValidBuffer, a, TRUE)
    /\ Set(key, a, Stored(ulRecNo[a]))
    /\ stale' = stale \ {a}
    /\ UNCHANGED <<disk, lock, place, ulRecCount, fRecordChanged, head, pc, call>>

\* hb_dbfPutValue, hb_dbfDeleteRec, hb_dbfRecall: the record is read, and the
\* buffer becomes hot (hb_dbfGoHot).
PutValue(a) ==
    /\ Idle(a) /\ fPositioned[a]
    /\ Locked(a, ulRecNo[a])
    /\ Set(fRecordChanged, a, TRUE)
    /\ \/ fValidBuffer[a] /\ UNCHANGED <<fValidBuffer, key, stale>>
       \/ /\ ~fValidBuffer[a]
          /\ Set(fValidBuffer, a, TRUE)
          /\ Set(key, a, Stored(ulRecNo[a]))
          /\ stale' = stale \ {a}
    /\ UNCHANGED <<disk, lock, place, ulRecCount, head, pc, call>>

\* hb_dbfLockRecord: the current record instead of all others, or one more.
LockRecord(a) ==
    /\ Idle(a) /\ ~fFLocked[a] /\ ulRecNo[a] \in Records
    /\ Set(arg, a, ulRecNo[a])
    /\ \/ pLocksPos[a] # {} /\ GoCold(a, "rlock")
       \/ pLocksPos[a] = {} /\ Set(op, a, "rlock") /\ Goto(a, "reclock")
    /\ UNCHANGED <<disk, lock, place, ulRecCount, buffer, head, stale>>

LockMore(a, r) ==
    /\ Idle(a) /\ ~Locked(a, r) /\ Cardinality(pLocksPos[a]) < MaxLocks
    /\ Set(arg, a, r) /\ Set(op, a, "rlock") /\ Goto(a, "reclock")
    /\ UNCHANGED <<disk, lock, place, ulRecCount, buffer, head, stale>>

LockFile(a) ==
    /\ Idle(a) /\ ~fFLocked[a]
    /\ \/ pLocksPos[a] # {} /\ GoCold(a, "flock")
       \/ pLocksPos[a] = {} /\ Set(op, a, "flock") /\ Goto(a, "filelock")
    /\ UNCHANGED <<disk, lock, place, ulRecCount, buffer, head, arg, stale>>

\* hb_dbfUnLock: everything, or one record.
UnLock(a) ==
    /\ Idle(a) /\ (pLocksPos[a] # {} \/ fFLocked[a])
    /\ GoCold(a, "unlock")
    /\ UNCHANGED <<disk, lock, place, ulRecCount, buffer, head, arg, stale>>

UnLockOne(a, r) ==
    /\ Idle(a) /\ r \in pLocksPos[a]
    /\ GoCold(a, "unlockone") /\ Set(arg, a, r)
    /\ UNCHANGED <<disk, lock, place, ulRecCount, buffer, head, stale>>

AppendRec(a) ==
    /\ Idle(a)
    /\ GoCold(a, "append")
    /\ UNCHANGED <<disk, lock, place, ulRecCount, buffer, head, arg, stale>>

Flush(a) ==
    /\ Idle(a) /\ (fRecordChanged[a] \/ fUpdateHeader[a])
    /\ GoCold(a, "commit")
    /\ UNCHANGED <<disk, lock, place, ulRecCount, buffer, head, arg, stale>>

Close(a) ==
    /\ Idle(a)
    /\ GoCold(a, "close")
    /\ UNCHANGED <<disk, lock, place, ulRecCount, buffer, head, arg, stale>>

Move(a) ==
    /\ pc[a] = "move"
    /\ Go(a, op[a], arg[a])
    /\ Done(a)
    /\ UNCHANGED <<disk, lock, fRecordChanged, head>>

-----------------------------------------------------------------------------
(* Writing the record (hb_dbfGoCold) and the header (hb_dbfWriteDBHeader)  *)

\* Areas whose buffers hold what the record was before.
Others(a) == {b \in Area \ {a} : fPositioned[b] /\ fValidBuffer[b] /\ ulRecNo[b] = ulRecNo[a]}

Write(a) ==
    LET r == ulRecNo[a]
        update == fUpdateHeader[a] \/ "replace" \in uiSetHeader[a] IN
    /\ pc[a] = "write"
    /\ rows' = IF r <= Len(rows) THEN [rows EXCEPT ![r] = key[a]] ELSE Append(rows, key[a])
    /\ Set(fRecordChanged, a, FALSE)
    /\ Set(fUpdateHeader, a, update)
    /\ stale' = (stale \cup Others(a)) \ {a}
    /\ Goto(a, IF ~(update /\ "write" \in uiSetHeader[a]) THEN After(a, op[a])
               ELSE IF fHeaderLocked(a) THEN "recount" ELSE "headerlock")
    /\ UNCHANGED <<header, counter, lock, place, ulRecCount, fValidBuffer, key,
                   orphan, failed, call>>

\* Locks are released even so, and files closed; other calls end here.
Goes == {"rlock", "flock", "unlock", "unlockone", "appended", "close"}
FailToWrite(a) ==
    /\ a \in WritesFail /\ pc[a] = "write" /\ ~failed
    /\ failed' = TRUE
    /\ IF op[a] \in Goes THEN Step(a, After(a, op[a])) ELSE Return(a)
    /\ UNCHANGED <<disk, lock, place, ulRecCount, buffer, fUpdateHeader, orphan, stale>>

HeaderLock(a) ==
    /\ pc[a] = "headerlock"
    /\ File!Acquire(a, HeaderByte)
    /\ Goto(a, "recount")
    /\ UNCHANGED <<disk, pLocksPos, fFLocked, place, ulRecCount, buffer, head, call, stale>>

RecountBefore(a) ==                      \* faulty: what was counted before the lock
    /\ pc[a] = "recount"
    /\ UNCHANGED ulRecCount
    /\ Goto(a, "header")
    /\ UNCHANGED <<disk, lock, place, buffer, head, call, stale>>
Recount(a) ==
    /\ pc[a] = "recount"
    /\ Set(ulRecCount, a, Len(rows))
    /\ Goto(a, "header")
    /\ UNCHANGED <<disk, lock, place, buffer, head, call, stale>>

Written(a) ==
    /\ Set(fUpdateHeader, a, FALSE)
    /\ Goto(a, IF op[a] = "appended" THEN "appendunlock" ELSE "headerunlock")

WriteHeader(a) ==
    /\ pc[a] = "header"
    /\ header' = ulRecCount[a]
    /\ orphan' = FALSE
    /\ IF "eol" \in uiSetHeader[a] \/ op[a] = "shut"
       THEN Goto(a, "eol") /\ UNCHANGED fUpdateHeader
       ELSE Written(a)
    /\ UNCHANGED <<rows, counter, lock, place, ulRecCount, buffer, failed, call, stale>>

\* The end-of-file mark; what is behind it is cut off.
WriteEol(a) ==
    /\ pc[a] = "eol"
    /\ rows' = SubSeq(rows, 1, ulRecCount[a])
    /\ Written(a)
    /\ UNCHANGED <<header, counter, lock, place, ulRecCount, buffer, orphan, failed,
                   call, stale>>

HeaderUnlock(a) ==
    /\ pc[a] = "headerunlock"
    /\ File!Release(a, HeaderByte)
    /\ IF op[a] = "committed" THEN Return(a) ELSE Step(a, After(a, op[a]))
    /\ UNCHANGED <<disk, pLocksPos, fFLocked, place, ulRecCount, buffer, head, stale>>

Commit(a) ==
    /\ pc[a] = "commit"
    /\ IF fUpdateHeader[a] /\ "commit" \in uiSetHeader[a]
       THEN Goto(a, "headerlock") /\ Calling(a, "committed", 0)
       ELSE Return(a)
    /\ UNCHANGED <<disk, lock, place, ulRecCount, buffer, head, stale>>

-----------------------------------------------------------------------------
(* Locking and unlocking (hb_dbfRawLock); a lock may be refused at any time *)

\* The current record is read again, unless it is to be written.
Refresh(a) ==
    \/ /\ ~fPositioned[a]
       /\ Goto(a, "move") /\ Set(arg, a, ulRecNo[a])
       /\ UNCHANGED <<op, fValidBuffer, key, stale>>
    \/ /\ fPositioned[a] /\ ~fRecordChanged[a]
       /\ Set(fValidBuffer, a, FALSE) /\ Set(key, a, 0)
       /\ stale' = stale \ {a}
       /\ Done(a)
    \/ /\ fPositioned[a] /\ fRecordChanged[a]
       /\ Done(a)
       /\ UNCHANGED <<fValidBuffer, key, stale>>

RecRefusedAt(a) ==                       \* faulty: hb_dbfAppend returns at once
    /\ Return(a)
    /\ UNCHANGED <<owner, pLocksPos, fValidBuffer, key, stale>>
RecLocked(a, r) ==
    /\ File!Acquire(a, {r})
    /\ Set(pLocksPos, a, pLocksPos[a] \cup {r})
RecRefused(a) ==
    /\ IF op[a] = "append" THEN Step(a, "appendunlock") ELSE Return(a)
    /\ UNCHANGED <<owner, pLocksPos, fValidBuffer, key, stale>>
Elsewhere(a) == Done(a) /\ UNCHANGED <<fValidBuffer, key, stale>>

RecLockKeep(a) ==                        \* faulty: the buffer is kept
    /\ pc[a] = "reclock"
    /\ \/ RecLocked(a, arg[a]) /\ Elsewhere(a)
       \/ RecRefused(a)
    /\ UNCHANGED <<disk, fFLocked, place, ulRecCount, fRecordChanged, head>>
RecLock(a) ==
    /\ pc[a] = "reclock"
    /\ \/ /\ RecLocked(a, arg[a])
          /\ IF arg[a] = ulRecNo[a] THEN Refresh(a) ELSE Elsewhere(a)
       \/ RecRefused(a)
    /\ UNCHANGED <<disk, fFLocked, place, ulRecCount, fRecordChanged, head>>

FileLock(a) ==
    /\ pc[a] = "filelock"
    /\ \/ File!Acquire(a, Records) /\ Set(fFLocked, a, TRUE)
       \/ UNCHANGED <<owner, fFLocked>>
    /\ Refresh(a)
    /\ UNCHANGED <<disk, pLocksPos, place, ulRecCount, fRecordChanged, head>>

\* hb_dbfUnlockAllRecords, one record at a time.
Release(a) ==
    /\ pc[a] = "release"
    /\ \E r \in pLocksPos[a] :
          /\ File!Release(a, {r})
          /\ Set(pLocksPos, a, pLocksPos[a] \ {r})
          /\ \/ pLocksPos[a] # {r} /\ Step(a, "release")
             \/ pLocksPos[a] = {r} /\ op[a] = "flock" /\ Step(a, "filelock")
             \/ pLocksPos[a] = {r} /\ op[a] \in {"rlock", "append"} /\ Step(a, "reclock")
             \/ pLocksPos[a] = {r} /\ op[a] = "close" /\ Step(a, "shut")
             \/ pLocksPos[a] = {r} /\ op[a] = "unlock" /\ Return(a)
    /\ UNCHANGED <<disk, fFLocked, place, ulRecCount, buffer, head, stale>>

ReleaseOne(a) ==
    /\ pc[a] = "releaseone"
    /\ File!Release(a, {arg[a]})
    /\ Set(pLocksPos, a, pLocksPos[a] \ {arg[a]})
    /\ Return(a)
    /\ UNCHANGED <<disk, fFLocked, place, ulRecCount, buffer, head, stale>>

ReleaseFile(a) ==
    /\ pc[a] = "releasefile"
    /\ File!Release(a, Records) /\ Set(fFLocked, a, FALSE)
    /\ IF op[a] = "close" THEN Step(a, "shut") ELSE Return(a)
    /\ UNCHANGED <<disk, pLocksPos, place, ulRecCount, buffer, head, stale>>

-----------------------------------------------------------------------------
(* Appending (hb_dbfAppend)                                                *)

AppendLock(a) ==
    /\ pc[a] = "appendlock"
    /\ File!Acquire(a, HeaderByte)
    /\ Goto(a, "reserve")
    /\ UNCHANGED <<disk, pLocksPos, fFLocked, place, ulRecCount, buffer, head, call, stale>>

\* The next record is locked, instead of all others (bUnLockAll) or as one more,
\* unless a bound has been reached.
Reserve(a) ==
    LET new == Len(rows) + 1 IN
    /\ pc[a] = "reserve"
    /\ Set(ulRecCount, a, Len(rows)) /\ Set(arg, a, new)
    /\ \/ (new > MaxRec \/ counter > MaxKey) /\ Goto(a, "appendunlock")
       \/ new <= MaxRec /\ counter <= MaxKey /\ Locked(a, new) /\ Goto(a, "blank")
       \/ /\ new <= MaxRec /\ counter <= MaxKey /\ ~Locked(a, new)
          /\ \E bUnLockAll \in BOOLEAN :
                Goto(a, IF bUnLockAll /\ pLocksPos[a] # {} THEN "release" ELSE "reclock")
    /\ UNCHANGED <<disk, lock, place, buffer, head, op, stale>>

\* The key is read and the counter written by hb_dbfNextValueGet.
Blank(a) ==
    /\ pc[a] = "blank"
    /\ Set(key, a, counter)
    /\ Goto(a, "autoinc")
    /\ UNCHANGED <<disk, lock, place, ulRecCount, fValidBuffer, fRecordChanged, head, call, stale>>

AutoInc(a) ==
    /\ pc[a] = "autoinc"
    /\ counter' = key[a] + 1
    /\ Set(fValidBuffer, a, TRUE) /\ Set(fRecordChanged, a, TRUE)
    /\ Set(fUpdateHeader, a, TRUE) /\ Set(fPositioned, a, TRUE)
    /\ Set(ulRecCount, a, ulRecCount[a] + 1)
    /\ Set(ulRecNo, a, ulRecCount[a] + 1)
    /\ Calling(a, "appended", 0) /\ Goto(a, "write")
    /\ stale' = stale \ {a}
    /\ UNCHANGED <<rows, header, lock, key, orphan, failed>>

AppendUnlock(a) ==
    /\ pc[a] = "appendunlock"
    /\ File!Release(a, HeaderByte)
    /\ Return(a)
    /\ UNCHANGED <<disk, pLocksPos, fFLocked, place, ulRecCount, buffer, head, stale>>

-----------------------------------------------------------------------------
(* Closing, and dying                                                      *)

Shut(a) ==
    /\ pc[a] = "shut" /\ fUpdateHeader[a]
    /\ Goto(a, "headerlock") /\ Set(op, a, "shut")
    /\ UNCHANGED <<disk, lock, place, ulRecCount, buffer, head, arg, stale>>

\* Nothing of the area is left.
Gone(a) ==
    /\ Goto(a, "closed") /\ Set(op, a, "none") /\ Set(arg, a, 0)
    /\ Set(pLocksPos, a, {}) /\ Set(fFLocked, a, FALSE)
    /\ Set(ulRecNo, a, 1) /\ Set(fPositioned, a, FALSE) /\ Set(ulRecCount, a, 0)
    /\ Set(fValidBuffer, a, TRUE) /\ Set(fRecordChanged, a, FALSE) /\ Set(key, a, 0)
    /\ Set(fUpdateHeader, a, FALSE)
    /\ stale' = stale \ {a}
    /\ UNCHANGED <<disk, failed>>

CloseFile(a) ==
    /\ pc[a] = "closing" \/ (pc[a] = "shut" /\ ~fUpdateHeader[a])
    /\ Gone(a)
    /\ UNCHANGED <<owner, orphan>>

Die(a) ==
    /\ pc[a] # "closed"
    /\ Gone(a)
    /\ File!Die({a})
    /\ orphan' = (orphan \/ fUpdateHeader[a])

-----------------------------------------------------------------------------
Call(a) ==
    \/ Open(a) \/ GoTo(a, "bottom", 0) \/ Read(a) \/ PutValue(a)
    \/ LockRecord(a) \/ LockFile(a) \/ UnLock(a)
    \/ AppendRec(a) \/ Flush(a) \/ Close(a)
    \/ \E r \in Records : GoTo(a, "goto", r) \/ LockMore(a, r) \/ UnLockOne(a, r)

Progress(a) ==
    \/ Move(a) \/ Write(a) \/ FailToWrite(a)
    \/ HeaderLock(a) \/ Recount(a) \/ WriteHeader(a) \/ WriteEol(a) \/ HeaderUnlock(a)
    \/ Commit(a) \/ RecLock(a) \/ FileLock(a)
    \/ Release(a) \/ ReleaseOne(a) \/ ReleaseFile(a)
    \/ AppendLock(a) \/ Reserve(a) \/ Blank(a) \/ AutoInc(a) \/ AppendUnlock(a)
    \/ Shut(a) \/ CloseFile(a)

Next == \E a \in Area : Call(a) \/ Progress(a) \/ Die(a)

Spec == Init /\ [][Next]_vars

-----------------------------------------------------------------------------
\* Type invariant.
TypeOK ==
    /\ rows \in Seq(Nat) /\ header \in Nat /\ counter \in Nat
    /\ owner \in [Byte -> Area \cup {NoArea}]
    /\ pLocksPos \in [Area -> SUBSET Records]
    /\ fFLocked \in [Area -> BOOLEAN]
    /\ ulRecNo \in [Area -> Nat \ {0}] /\ ulRecCount \in [Area -> Nat]
    /\ fPositioned \in [Area -> BOOLEAN]
    /\ fValidBuffer \in [Area -> BOOLEAN] /\ fRecordChanged \in [Area -> BOOLEAN]
    /\ fUpdateHeader \in [Area -> BOOLEAN]
    /\ key \in [Area -> Nat]
    /\ arg \in [Area -> Nat]
    /\ stale \subseteq Area /\ orphan \in BOOLEAN

(* What an area is going to write is what the file holds but for its own
   changes: nobody else has written the record since it was read, although
   buffers stay filled while records are not locked (hb_dbfLockRecord,
   hb_dbfGoHot, hb_dbfGoCold). *)
UpdatesKept == \A a \in Area : fRecordChanged[a] => a \notin stale
NoLostUpdate == ~failed => UpdatesKept

(* Records are never cut off or replaced by others, and no two get the same
   key, whoever appends at the same time or dies doing so (hb_dbfAppend,
   hb_dbfNextValueGet, hb_dbfWriteDBHeader). *)
Unique(s) == \A i, j \in 1..Len(s) : s[i] = s[j] => i = j
RecordsKept ==
    [][~failed =>
       /\ Len(rows) <= Len(rows') /\ \A r \in 1..Len(rows) : rows'[r] = rows[r]
       /\ Unique(rows')]_vars

(* As long as every record is written, the header has the number of records,
   or somebody is going to write it, who may have died meanwhile
   (fUpdateHeader, hb_dbfWriteDBHeader). *)
HeaderKnown == header # Len(rows) => orphan \/ \E a \in Area : fUpdateHeader[a]
HeaderAgrees == ~failed => HeaderKnown

(* Whoever has locked the header, which others wait for without a time-out,
   waits for nothing itself and never returns with it, whether it gets its
   other lock and its record is written or not (hb_dbfAppend, hb_dbfRawLock). *)
HeaderHeldBriefly ==
    \A a \in Area : fHeaderLocked(a) =>
        pc[a] \notin {"closed", "idle", "headerlock", "appendlock"}
=============================================================================
