------------------------------ MODULE LockList ------------------------------
(***************************************************************************)
(* The list of locked ranges as src/rtl/filebuf.c keeps it: an array in    *)
(* the order of the ranges, in which a position is found by binary search  *)
(* and where neighbours are joined and ranges split in place.  FileLocks   *)
(* has a set of ranges instead; here both are compared for every list and  *)
(* every range that the threads of FileLocks come to, and for longer ones. *)
(*                                                                         *)
(* Left out: the size of the array, and ranges past the last offset of the *)
(* type of offsets.                                                        *)
(***************************************************************************)
EXTENDS FileLocks, SequencesExt

CONSTANT MaxEnd   \* end of the ranges in the lists that are compared besides

ASSUME EndAssumption == MaxEnd \in Nat

\* hb_fileFindOffset, a binary search: uiFirst and uiLast enclose the answer.
Window(list) == [first : 0..Len(list), last : 0..Len(list)]

\* How many ranges end at nOffset or before, which is the position from 0 of the
\* range that nOffset is in or before.
FindOffsetPast(list, nOffset) ==      \* faulty: < for <= at the end of a range
    LET find[ui \in Window(list)] ==
            LET uiMiddle == (ui.first + ui.last) \div 2 IN
            IF ui.first < ui.last
            THEN IF End(list[uiMiddle + 1]) < nOffset
                 THEN find[[first |-> uiMiddle + 1, last |-> ui.last]]
                 ELSE find[[first |-> ui.first, last |-> uiMiddle]]
            ELSE uiMiddle
    IN  find[[first |-> 0, last |-> Len(list)]]
FindOffset(list, nOffset) ==
    LET find[ui \in Window(list)] ==
            LET uiMiddle == (ui.first + ui.last) \div 2 IN
            IF ui.first < ui.last
            THEN IF End(list[uiMiddle + 1]) <= nOffset
                 THEN find[[first |-> uiMiddle + 1, last |-> ui.last]]
                 ELSE find[[first |-> ui.first, last |-> uiMiddle]]
            ELSE uiMiddle
    IN  find[[first |-> 0, last |-> Len(list)]]

\* hb_fileTestLock, which is also what hb_fileSetLock begins with.
TestLock(list, r) ==
    LET uiPos == FindOffset(list, r.start) IN
    uiPos < Len(list) /\ End(r) > list[uiPos + 1].start

\* hb_fileSetLock, for a range that meets no other.
SetLock(list, r) ==
    LET uiPos == FindOffset(list, r.start)
        fRJoin == uiPos < Len(list) /\ list[uiPos + 1].start = End(r)
        fLJoin == uiPos > 0 /\ End(list[uiPos]) = r.start
    IN  CASE fLJoin /\ fRJoin ->
               RemoveAt([list EXCEPT ![uiPos].len = @ + r.len + list[uiPos + 1].len],
                        uiPos + 1)
          [] fLJoin /\ ~fRJoin -> [list EXCEPT ![uiPos].len = @ + r.len]
          [] ~fLJoin /\ fRJoin -> [list EXCEPT ![uiPos + 1] = Between(r.start, End(@))]
          [] OTHER -> InsertAt(list, uiPos + 1, r)

\* hb_fileUnlock: whether the range is locked as a whole, and the list without it.
IsLocked(list, r) ==
    LET uiPos == FindOffset(list, r.start) IN
    uiPos < Len(list) /\ Within(r, list[uiPos + 1])
Unlocked(list, r) ==
    LET uiPos == FindOffset(list, r.start)
        l == list[uiPos + 1]
        fFirst == r.start = l.start
        fLast == End(r) = End(l)
    IN  CASE fFirst /\ fLast -> RemoveAt(list, uiPos + 1)
          [] fFirst /\ ~fLast -> [list EXCEPT ![uiPos + 1] = Between(End(r), End(l))]
          [] ~fFirst /\ fLast -> [list EXCEPT ![uiPos + 1] = Between(l.start, r.start)]
          [] OTHER -> InsertAt([list EXCEPT ![uiPos + 1] = Between(l.start, r.start)],
                               uiPos + 2, Between(End(r), End(l)))

-----------------------------------------------------------------------------
\* The array that stands for a set of ranges.
Sorted(l) ==
    CHOOSE list \in [1..Cardinality(l) -> l] :
        \A i, j \in 1..Cardinality(l) : i < j => list[i].start < list[j].start

Agrees(l, r) ==
    LET list == Sorted(l) IN
    /\ TestLock(list, r) <=> Conflict(l, r)
    /\ ~Conflict(l, r) => SetLock(list, r) = Sorted(Added(l, r))
    /\ IsLocked(list, r) <=> InOne(l, r)
    /\ InOne(l, r) => Unlocked(list, r) = Sorted(Cut(l, r))

\* Lists longer than those that the threads come to: the ranges that the bytes
\* of S make.
RangesTo(n) == {r \in {Between(a, b) : a \in 0..n - 1, b \in 1..n} : r.len > 0}
ListOf(S) == {r \in RangesTo(MaxEnd) :
                 Bytes(r) \subseteq S /\ r.start - 1 \notin S /\ End(r) \notin S}
LongListsAgree ==
    \A S \in SUBSET (0..MaxEnd - 1) : \A r \in RangesTo(MaxEnd) : Agrees(ListOf(S), r)

(* Binary search, joining and splitting in the array do what FileLocks says
   of the set of ranges, and keep the array in order, for every list that the
   threads come to and every other (hb_fileFindOffset, hb_fileTestLock,
   hb_fileSetLock, hb_fileUnlock). *)
ListInOrder == LongListsAgree /\ \A p \in Process, r \in Ranges : Agrees(pLocks[p], r)
=============================================================================
