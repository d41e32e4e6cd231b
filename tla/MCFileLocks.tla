---------------------------- MODULE MCFileLocks ----------------------------
EXTENDS LockList
CONSTANTS p1, p2, t1, t2, t3
Homes == (t1 :> p1) @@ (t2 :> p1) @@ (t3 :> p2)
AllRanges == RangesTo(4)
Symmetry == Permutations({t1, t2})
=============================================================================
