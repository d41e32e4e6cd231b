----------------------------- MODULE MCDbfLocks -----------------------------
(* Instances of DbfLocks for TLC: two work areas that write the header at   *)
(* different times.                                                         *)
EXTENDS DbfLocks, TLC
CONSTANTS a1, a2

\* DB_SETHEADER_APPENDSYNC, the default, and DB_SETHEADER_CLIPPER.
SetHeaders == a1 :> {"write"} @@ a2 :> {"commit", "replace"}

\* A call in which writing has failed goes on; what comes after it is left out.
FailedCall == failed => pc[a1] \notin {"closed", "idle"}
=============================================================================
