-------------------------- MODULE MCDetachedAreas --------------------------
(* Instances of DetachedAreas for TLC; constants are given in the .cfg      *)
(* files.                                                                   *)
EXTENDS DetachedAreas, TLC

CONSTANTS m, t1, t2

Program(main, first, second) == (m :> main) @@ (t1 :> first) @@ (t2 :> second)

\* Main gives areas away that the others take, one of them giving them back, the
\* other collecting meanwhile; and a giver that is asked to quit.
Relay == Program({"open", "detach"}, {"forever", "detach"}, {"timed", "collect"})
Quitting == Program({"quit"}, {"open", "detach", "close"}, {"forever", "now"})
All == {Relay, Quitting}
=============================================================================
