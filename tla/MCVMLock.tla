------------------------------ MODULE MCVMLock ------------------------------
(* Instances of VMLock for TLC; the constants are given in the .cfg files. *)
EXTENDS VMLock, TLC

\* The threads other than Main that play the same part are interchangeable.
Symmetry == Permutations(Thread \ ({Main} \cup Foreign \cup Straight))
=============================================================================
