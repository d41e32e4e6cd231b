------------------------ MODULE DetachedAreas_proof ------------------------
(***************************************************************************)
(* Proofs about DetachedAreas, for all sets of threads and areas and all   *)
(* programs.                                                               *)
(***************************************************************************)
EXTENDS DetachedAreas, TLAPS

-----------------------------------------------------------------------------
(* Types, and who holds s_waMtx.                                           *)

LEMMA CallTypes ==
  /\ NoCall \in Call
  /\ NoCall.area = NoArea
  /\ \A a \in Area : /\ [NoCall EXCEPT !.area = a] \in Call
                     /\ [NoCall EXCEPT !.area = a].area = a
  /\ \A n \in Alias \cup {NoAlias}, w \in {"forever", "timed", "now"} :
        [NoCall EXCEPT !.alias = n, !.wait = w].area = NoArea
  /\ \A call \in Call : /\ call.area \in Area \cup {NoArea}
                        /\ [call EXCEPT !.wait = "now"] \in Call
                        /\ [call EXCEPT !.wait = "now"].area = call.area
                        /\ [call EXCEPT !.wait = "now"].alias = call.alias
BY DEF NoCall, Call

\* A call of hb_dbRequest().
LEMMA RequestTypes ==
  \A n \in Alias \cup {NoAlias}, w \in {"forever", "timed", "now"} :
     [NoCall EXCEPT !.alias = n, !.wait = w] \in Call
BY DEF NoCall, Call

LEMMA WithoutTypes ==
  ASSUME TypeOK, NEW t \in Thread, NEW a \in Area \cup {NoArea}
  PROVE  /\ AreasWithout(t, a) \in SUBSET Area
         /\ HandlesWithout(t, a) \in [Alias -> Area \cup {NoArea}]
BY DEF TypeOK, AreasWithout, HandlesWithout

LEMMA CloseAllTypes ==
  ASSUME TypeOK, NEW t \in Thread, CloseAll(t)
  PROVE  /\ wa' \in [Thread -> SUBSET Area]
         /\ handle' \in [Thread -> [Alias -> Area \cup {NoArea}]]
<1>1. handle[t] \in [Alias -> Area \cup {NoArea}]
  BY DEF TypeOK
<1>2. [n \in Alias |-> IF \E a \in wa[t] : atomAlias[a] = n
                        THEN NoArea ELSE handle[t][n]]
        \in [Alias -> Area \cup {NoArea}]
  BY <1>1
<1> QED BY <1>2 DEF TypeOK, CloseAll

\* Every step keeps the types.
LEMMA TypeKept ==
  ASSUME TypeOK, [Next]_vars
  PROVE  TypeOK'
<1> USE CallTypes DEF TypeOK, Goto, With, PCs, Counted, Holding,
            Runs, Calls, areas, requests
<1>1. ASSUME NEW t \in Thread, NEW a \in Area, Close(t, a)
      PROVE  TypeOK'
  BY <1>1, WithoutTypes DEF Close
<1>2. ASSUME NEW t \in Thread, NEW a \in Area, Detach(t, a)
      PROVE  TypeOK'
  BY <1>2, WithoutTypes DEF Detach
<1>3. ASSUME NEW t \in Thread, NEW old \in Current(t), NEW a \in Area,
             NEW name \in Alias \cup {NoAlias},
             Open(t, old, a, name)
      PROVE  TypeOK'
  <2>1. old \in Area \cup {NoArea}
    BY <1>3 DEF Open, Current
  <2>4. /\ AreasWithout(t, old) \in SUBSET Area
        /\ HandlesWithout(t, old) \in [Alias -> Area \cup {NoArea}]
    BY <2>1, WithoutTypes
  <2>2. CASE name = NoAlias \/ HandlesWithout(t, old)[name] = NoArea
    <3>1. [n \in Alias |-> IF n = name THEN a ELSE HandlesWithout(t, old)[n]]
            \in [Alias -> Area \cup {NoArea}]
      BY <2>4
    <3>2. /\ opened' = opened \cup {a}
          /\ atomAlias' = [atomAlias EXCEPT ![a] = name]
          /\ wa' = [wa EXCEPT ![t] = AreasWithout(t, old) \cup {a}]
          /\ handle' = [handle EXCEPT ![t] =
                 [n \in Alias |-> IF n = name THEN a ELSE HandlesWithout(t, old)[n]]]
      BY <1>3, <2>2 DEF Open
    <3>3. handle' \in [Thread -> [Alias -> Area \cup {NoArea}]]
      BY <3>1, <3>2
    <3>4. /\ opened' \subseteq Area
          /\ atomAlias' \in [Area -> Alias \cup {NoAlias}]
          /\ wa' \in [Thread -> SUBSET Area]
      BY <2>4, <3>2
    <3> QED BY <1>3, <2>1, <3>3, <3>4 DEF Open
  <2>3. CASE ~(name = NoAlias \/ HandlesWithout(t, old)[name] = NoArea)
    <3>1. /\ wa' = [wa EXCEPT ![t] = AreasWithout(t, old)]
          /\ handle' = [handle EXCEPT ![t] = HandlesWithout(t, old)]
          /\ opened' = opened /\ atomAlias' = atomAlias
      BY <1>3, <2>3 DEF Open
    <3>2. /\ wa' \in [Thread -> SUBSET Area]
          /\ handle' \in [Thread -> [Alias -> Area \cup {NoArea}]]
      BY <2>4, <3>1
    <3> QED BY <1>3, <2>1, <3>1, <3>2 DEF Open
  <2> QED BY <2>2, <2>3
<1>4. ASSUME NEW t \in Thread, NEW old \in Current(t), NEW name \in Alias \cup {NoAlias},
             NEW wait \in {"forever", "timed", "now"},
             Request(t, old, name, wait)
      PROVE  TypeOK'
  <2>1. old \in Area \cup {NoArea}
    BY <1>4 DEF Request, Current
  <2>2. /\ wa' \in [Thread -> SUBSET Area]
        /\ handle' \in [Thread -> [Alias -> Area \cup {NoArea}]]
        /\ closed' \subseteq Area
    BY <1>4, <2>1, WithoutTypes DEF Request
  <2>3. pc' \in [Thread -> PCs] /\ arg' \in [Thread -> Call]
    <3>1. CASE UNCHANGED <<pc, arg>>
      BY <3>1
    <3>2. CASE With(t, "entering", [NoCall EXCEPT !.alias = name, !.wait = wait])
      BY <3>2, RequestTypes
    <3> QED BY <1>4, <3>1, <3>2 DEF Request
  <2> QED BY <1>4, <2>2, <2>3 DEF Request
<1>5. ASSUME NEW t \in Thread, NEW c \in Thread, QuitRequest(t, c)
      PROVE  TypeOK'
  BY <1>5 DEF QuitRequest
<1>6. ASSUME NEW t \in Thread, Quit(t)
      PROVE  TypeOK'
  <2>1. /\ wa' \in [Thread -> SUBSET Area]
        /\ handle' \in [Thread -> [Alias -> Area \cup {NoArea}]]
    BY <1>6, ThreadAssumption, CloseAllTypes DEF Quit
  <2> QED BY <1>6, <2>1, ThreadAssumption DEF Quit
<1>7. ASSUME NEW t \in Thread, Suspend(t)
      PROVE  TypeOK'
  BY <1>7 DEF Suspend
<1>8. ASSUME NEW t \in Thread, EnterSection(t)
      PROVE  TypeOK'
  BY <1>8 DEF EnterSection
<1>9. ASSUME NEW t \in Thread, LockForce(t)
      PROVE  TypeOK'
  BY <1>9 DEF LockForce, Notice
<1>10. ASSUME NEW t \in Thread, Relock(t)
      PROVE  TypeOK'
  BY <1>10 DEF Relock
<1>11. ASSUME NEW t \in Thread, Reenter(t)
      PROVE  TypeOK'
  BY <1>11 DEF Reenter, Return, Notice
<1>12. ASSUME NEW t \in Thread, VMLock(t)
      PROVE  TypeOK'
  BY <1>12 DEF VMLock, Notice
<1>13. ASSUME NEW t \in Thread, Add(t)
      PROVE  TypeOK'
  BY <1>13 DEF Add
<1>14. ASSUME NEW t \in Thread, NEW a \in Area, Take(t, a)
      PROVE  TypeOK'
  BY <1>14, SMTT(30) DEF Take, Return
<1>15. ASSUME NEW t \in Thread, Miss(t)
      PROVE  TypeOK'
  BY <1>15 DEF Miss, Return
<1>16. ASSUME NEW t \in Thread, Sleep(t)
      PROVE  TypeOK'
  BY <1>16 DEF Sleep
<1>17. ASSUME NEW t \in Thread, TimeOut(t)
      PROVE  TypeOK'
  BY <1>17 DEF TimeOut
<1>18. ASSUME NEW t \in Thread, Granted(t)
      PROVE  TypeOK'
  BY <1>18 DEF Granted
<1>19. ASSUME NEW t \in Thread, Withdraw(t)
      PROVE  TypeOK'
  BY <1>19 DEF Withdraw
<1>20. ASSUME NEW t \in Thread, Resume(t)
      PROVE  TypeOK'
  BY <1>20 DEF Resume
<1>21. ASSUME NEW t \in Thread, WakeUp(t)
      PROVE  TypeOK'
  BY <1>21 DEF WakeUp
<1>22. ASSUME NEW t \in Thread, Pause(t)
      PROVE  TypeOK'
  BY <1>22 DEF Pause, Notice
<1>23. ASSUME Terminate
      PROVE  TypeOK'
  BY <1>23, ThreadAssumption DEF Terminate
<1>24. ASSUME Joined
      PROVE  TypeOK'
  BY <1>24, ThreadAssumption DEF Joined
<1>25. ASSUME ShutDown
      PROVE  TypeOK'
  <2>1. /\ wa' \in [Thread -> SUBSET Area]
        /\ handle' \in [Thread -> [Alias -> Area \cup {NoArea}]]
    BY <1>25, ThreadAssumption, CloseAllTypes DEF ShutDown
  <2> QED BY <1>25, <2>1, ThreadAssumption DEF ShutDown
<1>26. CASE UNCHANGED vars
  BY <1>26 DEF vars
<1> HIDE DEF TypeOK
<1> QED
  BY <1>1, <1>2, <1>3, <1>4, <1>5, <1>6, <1>7, <1>8, <1>9, <1>10, <1>11,
     <1>12, <1>13, <1>14, <1>15, <1>16, <1>17, <1>18, <1>19, <1>20, <1>21,
     <1>22, <1>23, <1>24, <1>25, <1>26
     DEF Next, Step, Working, Going, Locking, Ending

\* s_waMtx is held where the code says so, and only a call of hb_dbDetach
\* carries an area.
MutexHeld == \A t \in Thread : pc[t] \in Holding <=> s_waMtx = t
Carrying ==
    \A t \in Thread : arg[t].area # NoArea
        => pc[t] \in {"entering", "forcing", "listing"}
Section == MutexHeld /\ Carrying

\* Every step keeps to that.
LEMMA SectionKept ==
  ASSUME TypeOK, Section, [Next]_vars
  PROVE  Section'
<1> USE CallTypes DEF TypeOK, Section, MutexHeld, Carrying,
            Goto, With, PCs, Counted, Holding,
            Runs, Calls, areas, requests
<1>1. ASSUME NEW t \in Thread, NEW a \in Area, Close(t, a)
      PROVE  Section'
  BY <1>1 DEF Close
<1>2. ASSUME NEW t \in Thread, NEW a \in Area, Detach(t, a)
      PROVE  Section'
  BY <1>2 DEF Detach
<1>3. ASSUME NEW t \in Thread, NEW old \in Current(t), NEW a \in Area,
             NEW name \in Alias \cup {NoAlias},
             Open(t, old, a, name)
      PROVE  Section'
  BY <1>3 DEF Open
<1>4. ASSUME NEW t \in Thread, NEW old \in Current(t), NEW name \in Alias \cup {NoAlias},
             NEW wait \in {"forever", "timed", "now"},
             Request(t, old, name, wait)
      PROVE  Section'
  BY <1>4 DEF Request
<1>5. ASSUME NEW t \in Thread, NEW c \in Thread, QuitRequest(t, c)
      PROVE  Section'
  BY <1>5 DEF QuitRequest
<1>6. ASSUME NEW t \in Thread, Quit(t)
      PROVE  Section'
  BY <1>6 DEF Quit
<1>7. ASSUME NEW t \in Thread, Suspend(t)
      PROVE  Section'
  BY <1>7 DEF Suspend
<1>8. ASSUME NEW t \in Thread, EnterSection(t)
      PROVE  Section'
  BY <1>8, ThreadAssumption DEF EnterSection
<1>9. ASSUME NEW t \in Thread, LockForce(t)
      PROVE  Section'
  BY <1>9 DEF LockForce
<1>10. ASSUME NEW t \in Thread, Relock(t)
      PROVE  Section'
  BY <1>10, ThreadAssumption DEF Relock
<1>11. ASSUME NEW t \in Thread, Reenter(t)
      PROVE  Section'
  <2>1. CASE Return(t)
    BY <1>11, <2>1, ThreadAssumption DEF Reenter, Return
  <2>2. CASE Goto(t, "listing") /\ UNCHANGED <<arg, s_waMtx>>
    BY <1>11, <2>2, ThreadAssumption DEF Reenter
  <2> QED BY <1>11, <2>1, <2>2 DEF Reenter
<1>12. ASSUME NEW t \in Thread, VMLock(t)
      PROVE  Section'
  BY <1>12 DEF VMLock
<1>13. ASSUME NEW t \in Thread, Add(t)
      PROVE  Section'
  BY <1>13, ThreadAssumption DEF Add
<1>14. ASSUME NEW t \in Thread, NEW a \in Area, Take(t, a)
      PROVE  Section'
  BY <1>14, ThreadAssumption DEF Take, Return
<1>15. ASSUME NEW t \in Thread, Miss(t)
      PROVE  Section'
  <2>1. CASE Return(t)
    BY <1>15, <2>1, ThreadAssumption DEF Miss, Return
  <2>2. CASE Goto(t, "committed") /\ UNCHANGED <<arg, s_waMtx>>
    BY <1>15, <2>2, ThreadAssumption DEF Miss
  <2> QED BY <1>15, <2>1, <2>2 DEF Miss
<1>16. ASSUME NEW t \in Thread, Sleep(t)
      PROVE  Section'
  BY <1>16, ThreadAssumption DEF Sleep
<1>17. ASSUME NEW t \in Thread, TimeOut(t)
      PROVE  Section'
  BY <1>17 DEF TimeOut
<1>18. ASSUME NEW t \in Thread, Granted(t)
      PROVE  Section'
  BY <1>18 DEF Granted
<1>19. ASSUME NEW t \in Thread, Withdraw(t)
      PROVE  Section'
  BY <1>19 DEF Withdraw
<1>20. ASSUME NEW t \in Thread, Resume(t)
      PROVE  Section'
  BY <1>20 DEF Resume
<1>21. ASSUME NEW t \in Thread, WakeUp(t)
      PROVE  Section'
  BY <1>21 DEF WakeUp
<1>22. ASSUME NEW t \in Thread, Pause(t)
      PROVE  Section'
  BY <1>22 DEF Pause
<1>23. ASSUME Terminate
      PROVE  Section'
  BY <1>23, ThreadAssumption DEF Terminate
<1>24. ASSUME Joined
      PROVE  Section'
  BY <1>24, ThreadAssumption DEF Joined
<1>25. ASSUME ShutDown
      PROVE  Section'
  BY <1>25, ThreadAssumption DEF ShutDown
<1>26. CASE UNCHANGED vars
  BY <1>26 DEF vars
<1> HIDE DEF TypeOK, Section, Goto, With, PCs, Counted, Holding, Runs, Calls,
             areas, requests
<1> QED
  BY <1>1, <1>2, <1>3, <1>4, <1>5, <1>6, <1>7, <1>8, <1>9, <1>10, <1>11,
     <1>12, <1>13, <1>14, <1>15, <1>16, <1>17, <1>18, <1>19, <1>20, <1>21,
     <1>22, <1>23, <1>24, <1>25, <1>26
     DEF Next, Step, Working, Going, Locking, Ending

-----------------------------------------------------------------------------
(* Every area is in one place.                                             *)

\* What that says of one area, ...
At(a) ==
    /\ a \in opened \ closed <=> Somewhere(a)
    /\ a \in closed => a \in opened
    /\ \A t, u \in Thread :
          /\ a \in wa[t] \/ arg[t].area = a => a \notin s_pDetachedAreas
          /\ a \in wa[t] => arg[u].area # a
          /\ a \in wa[t] \cap wa[u] => t = u
          /\ arg[t].area = a /\ arg[u].area = a => t = u
Kept == \A a \in Area : At(a)

\* ... which is all that OnePlace says.
LEMMA KeptIsOnePlace ==
  ASSUME Kept
  PROVE  OnePlace
BY DEF Kept, At, OnePlace

\* An area that a step does not touch.
LEMMA Unmoved ==
  ASSUME NEW a, At(a),
         a \in opened' <=> a \in opened,
         a \in closed' <=> a \in closed,
         a \in s_pDetachedAreas' <=> a \in s_pDetachedAreas,
         \A t \in Thread : /\ a \in wa'[t] <=> a \in wa[t]
                           /\ arg'[t].area = a <=> arg[t].area = a
  PROVE  At(a)'
BY DEF At, Somewhere

\* An area that a step leaves in no place.
LEMMA Closes ==
  ASSUME NEW a, a \in opened', a \in closed', a \notin s_pDetachedAreas',
         \A t \in Thread : a \notin wa'[t] /\ arg'[t].area # a
  PROVE  At(a)'
BY DEF At, Somewhere

\* Steps that move no area.
LEMMA NothingMoves ==
  ASSUME Kept,
         UNCHANGED <<opened, closed, wa, s_pDetachedAreas>>,
         \A t \in Thread : arg'[t].area = arg[t].area
  PROVE  Kept'
BY Unmoved DEF Kept

\* Steps of one thread that close one of its areas, or none.
LEMMA OneCloses ==
  ASSUME Kept, NEW t \in Thread, NEW old \in wa[t] \cup {NoArea},
         wa'[t] = wa[t] \ {old}, \A u \in Thread \ {t} : wa'[u] = wa[u],
         closed' = closed \cup ({old} \ {NoArea}),
         UNCHANGED <<opened, s_pDetachedAreas>>,
         \A u \in Thread : arg'[u].area = arg[u].area
  PROVE  Kept'
<1> SUFFICES ASSUME NEW a \in Area PROVE At(a)'
  BY DEF Kept
<1>1. At(a)
  BY DEF Kept
<1>2. CASE a = old
  <2>1. a # NoArea /\ a \in wa[t]
    BY <1>2, AreaAssumption
  <2>2. /\ a \in opened /\ a \notin s_pDetachedAreas
        /\ \A u \in Thread \ {t} : a \notin wa[u]
        /\ \A u \in Thread : arg[u].area # a
    BY <1>1, <2>1 DEF At, Somewhere
  <2>3. \A u \in Thread : a \notin wa'[u] /\ arg'[u].area # a
    BY <1>2, <2>2
  <2> QED BY <1>2, <2>1, <2>2, <2>3, Closes
<1>3. CASE a # old
  <2>1. \A u \in Thread : /\ a \in wa'[u] <=> a \in wa[u]
                          /\ arg'[u].area = a <=> arg[u].area = a
    BY <1>3
  <2> QED BY <1>1, <1>3, <2>1, Unmoved
<1> QED BY <1>2, <1>3

\* Steps that close all areas of a thread, and perhaps those of the list.
LEMMA AllClose ==
  ASSUME Kept, NEW t \in Thread, NEW list \in {{}, s_pDetachedAreas},
         wa'[t] = {}, \A u \in Thread \ {t} : wa'[u] = wa[u],
         closed' = closed \cup wa[t] \cup list,
         s_pDetachedAreas' = s_pDetachedAreas \ list,
         UNCHANGED <<opened, arg>>
  PROVE  Kept'
<1> SUFFICES ASSUME NEW a \in Area PROVE At(a)'
  BY DEF Kept
<1>1. At(a)
  BY DEF Kept
<1>2. CASE a \in wa[t] \cup list
  <2>1. /\ a \in opened
        /\ a \in wa[t] => a \notin s_pDetachedAreas
        /\ \A u \in Thread \ {t} : a \notin wa[u]
        /\ \A u \in Thread : arg[u].area # a
    BY <1>1, <1>2 DEF At, Somewhere
  <2>2. \A u \in Thread : a \notin wa'[u] /\ arg'[u].area # a
    BY <2>1
  <2>3. a \in closed' /\ a \notin s_pDetachedAreas' /\ a \in opened'
    BY <1>2, <2>1
  <2> QED BY <2>2, <2>3, Closes
<1>3. CASE a \notin wa[t] \cup list
  <2>1. \A u \in Thread : /\ a \in wa'[u] <=> a \in wa[u]
                          /\ arg'[u].area = a <=> arg[u].area = a
    BY <1>3
  <2>2. /\ a \in closed' <=> a \in closed
        /\ a \in s_pDetachedAreas' <=> a \in s_pDetachedAreas
    BY <1>3
  <2> QED BY <1>1, <2>1, <2>2, Unmoved
<1> QED BY <1>2, <1>3


\* Every step keeps to that.
LEMMA KeptKept ==
  ASSUME TypeOK, Section, Kept, [Next]_vars
  PROVE  Kept'
<1> USE CallTypes DEF TypeOK, Goto, With, Runs, Calls, areas, requests
<1>1. ASSUME NEW t \in Thread, NEW a \in Area, Close(t, a)
      PROVE  Kept'
  <2>1. a \in wa[t] \cup {NoArea} /\ {a} \ {NoArea} = {a}
    BY <1>1, AreaAssumption DEF Close
  <2>2. wa'[t] = wa[t] \ {a} /\ \A u \in Thread \ {t} : wa'[u] = wa[u]
    BY <1>1 DEF Close, AreasWithout
  <2> QED BY <1>1, <2>1, <2>2, OneCloses DEF Close
<1>2. ASSUME NEW t \in Thread, NEW a \in Area, Detach(t, a)
      PROVE  Kept'
  <2>1. /\ a \in wa[t] /\ wa'[t] = wa[t] \ {a}
        /\ \A u \in Thread \ {t} : wa'[u] = wa[u] /\ arg'[u] = arg[u]
        /\ arg'[t].area = a /\ arg[t].area = NoArea
        /\ UNCHANGED <<opened, closed, s_pDetachedAreas>>
    BY <1>2 DEF Detach, AreasWithout, Section, Carrying
  <2> HIDE CallTypes DEF TypeOK, Goto, With, Runs, Calls, areas, requests
  <2>3. ASSUME NEW b \in Area PROVE At(b)'
    <3>1. At(b)
      BY DEF Kept
    <3>2. CASE b = a
      <4>1. /\ b \in opened \ closed /\ b \notin s_pDetachedAreas
            /\ \A u \in Thread \ {t} : b \notin wa[u]
            /\ \A u \in Thread : arg[u].area # b
        BY <2>1, <3>1, <3>2 DEF At, Somewhere
      <4>2. \A u \in Thread : /\ b \notin wa'[u]
                              /\ arg'[u].area = b <=> u = t
        BY <2>1, <3>2, <4>1, AreaAssumption
      <4> QED BY <2>1, <3>2, <4>1, <4>2 DEF At, Somewhere
    <3>3. CASE b # a
      <4>1. \A u \in Thread : /\ b \in wa'[u] <=> b \in wa[u]
                              /\ arg'[u].area = b <=> arg[u].area = b
        BY <2>1, <3>3, AreaAssumption
      <4> QED BY <2>1, <3>1, <3>3, <4>1, Unmoved
    <3> QED BY <3>2, <3>3
  <2> QED BY <2>3 DEF Kept
<1>3. ASSUME NEW t \in Thread, NEW old \in Current(t), NEW a \in Area,
             NEW name \in Alias \cup {NoAlias},
             Open(t, old, a, name)
      PROVE  Kept'
  <2>1. old \in wa[t] \cup {NoArea}
    BY DEF Current
  <2>2. CASE name = NoAlias \/ HandlesWithout(t, old)[name] = NoArea
    <3>1. /\ a \notin opened
          /\ opened' = opened \cup {a}
          /\ wa'[t] = (wa[t] \ {old}) \cup {a}
          /\ \A u \in Thread \ {t} : wa'[u] = wa[u]
          /\ closed' = closed \cup ({old} \ {NoArea})
          /\ arg' = arg /\ s_pDetachedAreas' = s_pDetachedAreas
      BY <1>3, <2>2 DEF Open, AreasWithout
    <3> HIDE CallTypes DEF TypeOK, Goto, With, Runs, Calls, areas, requests
    <3>2. ASSUME NEW b \in Area PROVE At(b)'
      <4>1. At(b) /\ At(a)
        BY DEF Kept
      <4>2. a \notin s_pDetachedAreas /\ a \notin closed
            /\ \A u \in Thread : a \notin wa[u] /\ arg[u].area # a
        BY <3>1, <4>1 DEF At, Somewhere
      <4>3. CASE b = a
        <5>1. a # NoArea /\ a # old
          BY <2>1, <4>2, AreaAssumption
        <5>2. /\ a \in opened' \ closed' /\ a \notin s_pDetachedAreas'
              /\ \A u \in Thread : a \in wa'[u] <=> u = t
              /\ \A u \in Thread : arg'[u].area # a
          BY <3>1, <4>2, <5>1
        <5> QED BY <4>3, <5>2 DEF At, Somewhere
      <4>4. CASE b # a /\ b = old
        <5>1. b # NoArea /\ b \in wa[t]
          BY <2>1, <4>4, AreaAssumption
        <5>2. /\ b \in opened /\ b \notin s_pDetachedAreas
              /\ \A u \in Thread \ {t} : b \notin wa[u]
              /\ \A u \in Thread : arg[u].area # b
          BY <4>1, <5>1 DEF At, Somewhere
        <5>3. \A u \in Thread : b \notin wa'[u] /\ arg'[u].area # b
          BY <3>1, <4>4, <5>2
        <5>4. b \in opened' /\ b \in closed' /\ b \notin s_pDetachedAreas'
          BY <3>1, <4>4, <5>1, <5>2
        <5> QED BY <5>3, <5>4, Closes
      <4>5. CASE b # a /\ b # old
        <5>1. \A u \in Thread : /\ b \in wa'[u] <=> b \in wa[u]
                                /\ arg'[u].area = b <=> arg[u].area = b
          BY <3>1, <4>5
        <5>2. /\ b \in opened' <=> b \in opened
              /\ b \in closed' <=> b \in closed
          BY <3>1, <4>5
        <5> QED BY <3>1, <4>1, <5>1, <5>2, Unmoved
      <4> QED BY <4>3, <4>4, <4>5
    <3> QED BY <3>2 DEF Kept
  <2>3. CASE ~(name = NoAlias \/ HandlesWithout(t, old)[name] = NoArea)
    <3>1. /\ wa'[t] = wa[t] \ {old} /\ \A u \in Thread \ {t} : wa'[u] = wa[u]
          /\ closed' = closed \cup ({old} \ {NoArea}) /\ opened' = opened
          /\ arg' = arg /\ s_pDetachedAreas' = s_pDetachedAreas
      BY <1>3, <2>3 DEF Open, AreasWithout
    <3> HIDE CallTypes DEF TypeOK, Goto, With, Runs, Calls, areas, requests
    <3> QED BY <2>1, <3>1, OneCloses
  <2> QED BY <2>2, <2>3
<1>4. ASSUME NEW t \in Thread, NEW old \in Current(t),
             NEW name \in Alias \cup {NoAlias},
             NEW wait \in {"forever", "timed", "now"},
             Request(t, old, name, wait)
      PROVE  Kept'
  <2>1. old \in wa[t] \cup {NoArea}
    BY DEF Current
  <2>2. \A u \in Thread : arg'[u].area = arg[u].area
    <3>1. CASE UNCHANGED <<pc, arg>>
      BY <3>1
    <3>2. CASE With(t, "entering", [NoCall EXCEPT !.alias = name, !.wait = wait])
      <4>1. arg[t].area = NoArea
        BY <1>4, SMTT(30) DEF Request, Section, Carrying
      <4>2. /\ arg'[t] = [NoCall EXCEPT !.alias = name, !.wait = wait]
            /\ \A u \in Thread \ {t} : arg'[u] = arg[u]
        BY <3>2
      <4>3. arg'[t].area = NoArea
        BY <4>2 DEF NoCall
      <4> QED BY <4>1, <4>2, <4>3
    <3> QED BY <1>4, <3>1, <3>2 DEF Request
  <2>3. wa'[t] = wa[t] \ {old} /\ \A u \in Thread \ {t} : wa'[u] = wa[u]
    BY <1>4 DEF Request, AreasWithout
  <2>4. /\ closed' = closed \cup ({old} \ {NoArea})
        /\ UNCHANGED <<opened, s_pDetachedAreas>>
    BY <1>4 DEF Request
  <2> HIDE CallTypes DEF TypeOK, Goto, With, Runs, Calls, areas, requests
  <2> QED BY <2>1, <2>2, <2>3, <2>4, OneCloses
<1>5. ASSUME NEW t \in Thread, NEW c \in Thread, QuitRequest(t, c)
      PROVE  Kept'
  <2>1. \A u \in Thread : arg'[u].area = arg[u].area
    BY <1>5 DEF QuitRequest
  <2> QED BY <1>5, <2>1, NothingMoves DEF QuitRequest
<1>6. ASSUME NEW t \in Thread, Quit(t)
      PROVE  Kept'
  <2>1. /\ wa'[t] = {} /\ closed' = closed \cup wa[t] \cup {}
        /\ \A u \in Thread \ {t} : wa'[u] = wa[u]
        /\ s_pDetachedAreas' = s_pDetachedAreas \ {} /\ UNCHANGED <<arg, opened>>
    BY <1>6 DEF Quit, CloseAll
  <2> HIDE CallTypes DEF TypeOK, Goto, With, Runs, Calls, areas, requests
  <2> QED BY <2>1, AllClose
<1>7. ASSUME NEW t \in Thread, Suspend(t)
      PROVE  Kept'
  <2>1. \A u \in Thread : arg'[u].area = arg[u].area
    BY <1>7 DEF Suspend
  <2> QED BY <1>7, <2>1, NothingMoves DEF Suspend
<1>8. ASSUME NEW t \in Thread, EnterSection(t)
      PROVE  Kept'
  <2>1. \A u \in Thread : arg'[u].area = arg[u].area
    BY <1>8 DEF EnterSection
  <2> QED BY <1>8, <2>1, NothingMoves DEF EnterSection
<1>9. ASSUME NEW t \in Thread, LockForce(t)
      PROVE  Kept'
  <2>1. \A u \in Thread : arg'[u].area = arg[u].area
    BY <1>9 DEF LockForce
  <2> QED BY <1>9, <2>1, NothingMoves DEF LockForce
<1>10. ASSUME NEW t \in Thread, Relock(t)
      PROVE  Kept'
  <2>1. \A u \in Thread : arg'[u].area = arg[u].area
    BY <1>10 DEF Relock
  <2> QED BY <1>10, <2>1, NothingMoves DEF Relock
<1>11. ASSUME NEW t \in Thread, Reenter(t)
      PROVE  Kept'
  <2>1. \A u \in Thread : arg'[u].area = arg[u].area
    BY <1>11 DEF Reenter, Return, Section, Carrying
  <2> QED BY <1>11, <2>1, NothingMoves DEF Reenter
<1>12. ASSUME NEW t \in Thread, VMLock(t)
      PROVE  Kept'
  <2>1. \A u \in Thread : arg'[u].area = arg[u].area
    BY <1>12 DEF VMLock
  <2> QED BY <1>12, <2>1, NothingMoves DEF VMLock
<1>13. ASSUME NEW t \in Thread, Add(t)
      PROVE  Kept'
  <2>0. PICK a \in Area : arg[t].area = a
    BY <1>13 DEF Add
  <2>1. /\ arg[t].area = a
        /\ s_pDetachedAreas' = s_pDetachedAreas \cup {a}
        /\ arg'[t].area = NoArea
        /\ \A u \in Thread \ {t} : arg'[u] = arg[u]
        /\ UNCHANGED <<opened, closed, wa>>
    BY <1>13, <2>0 DEF Add
  <2> HIDE CallTypes DEF TypeOK, Goto, With, Runs, Calls, areas, requests
  <2>3. ASSUME NEW b \in Area PROVE At(b)'
    <3>1. At(b)
      BY DEF Kept
    <3>2. CASE b = a
      <4>1. /\ b \in opened \ closed
            /\ \A u \in Thread : b \notin wa[u]
            /\ \A u \in Thread \ {t} : arg[u].area # b
        BY <2>1, <3>1, <3>2 DEF At, Somewhere
      <4>2. \A u \in Thread : b \notin wa'[u] /\ arg'[u].area # b
        BY <2>1, <3>2, <4>1, AreaAssumption
      <4> QED BY <2>1, <3>2, <4>1, <4>2 DEF At, Somewhere
    <3>3. CASE b # a
      <4>1. \A u \in Thread : /\ b \in wa'[u] <=> b \in wa[u]
                              /\ arg'[u].area = b <=> arg[u].area = b
        BY <2>1, <3>3, AreaAssumption
      <4> QED BY <2>1, <3>1, <3>3, <4>1, Unmoved
    <3> QED BY <3>2, <3>3
  <2> QED BY <2>3 DEF Kept
<1>14. ASSUME NEW t \in Thread, NEW a \in Area, Take(t, a)
      PROVE  Kept'
  <2>1. /\ a \in s_pDetachedAreas /\ s_pDetachedAreas' = s_pDetachedAreas \ {a}
        /\ wa'[t] = wa[t] \cup {a}
        /\ \A u \in Thread \ {t} : wa'[u] = wa[u]
        /\ \A u \in Thread : arg'[u].area = arg[u].area
        /\ UNCHANGED <<opened, closed>>
    BY <1>14 DEF Take, Fitting, Return
  <2> HIDE CallTypes DEF TypeOK, Goto, With, Runs, Calls, areas, requests
  <2>3. ASSUME NEW b \in Area PROVE At(b)'
    <3>1. At(b)
      BY DEF Kept
    <3>2. CASE b = a
      <4>1. /\ b \in opened \ closed
            /\ \A u \in Thread : b \notin wa[u] /\ arg[u].area # b
        BY <2>1, <3>1, <3>2 DEF At, Somewhere
      <4>2. \A u \in Thread : /\ b \in wa'[u] <=> u = t
                              /\ arg'[u].area # b
        BY <2>1, <3>2, <4>1, AreaAssumption
      <4> QED BY <2>1, <3>2, <4>1, <4>2 DEF At, Somewhere
    <3>3. CASE b # a
      <4>1. \A u \in Thread : /\ b \in wa'[u] <=> b \in wa[u]
                              /\ arg'[u].area = b <=> arg[u].area = b
        BY <2>1, <3>3, AreaAssumption
      <4> QED BY <2>1, <3>1, <3>3, <4>1, Unmoved
    <3> QED BY <3>2, <3>3
  <2> QED BY <2>3 DEF Kept
<1>15. ASSUME NEW t \in Thread, Miss(t)
      PROVE  Kept'
  <2>1. \A u \in Thread : arg'[u].area = arg[u].area
    BY <1>15 DEF Miss, Return, Section, Carrying
  <2> QED BY <1>15, <2>1, NothingMoves DEF Miss
<1>16. ASSUME NEW t \in Thread, Sleep(t)
      PROVE  Kept'
  <2>1. \A u \in Thread : arg'[u].area = arg[u].area
    BY <1>16 DEF Sleep
  <2> QED BY <1>16, <2>1, NothingMoves DEF Sleep
<1>17. ASSUME NEW t \in Thread, TimeOut(t)
      PROVE  Kept'
  <2>1. \A u \in Thread : arg'[u].area = arg[u].area
    BY <1>17 DEF TimeOut
  <2> QED BY <1>17, <2>1, NothingMoves DEF TimeOut
<1>18. ASSUME NEW t \in Thread, Granted(t)
      PROVE  Kept'
  <2>1. \A u \in Thread : arg'[u].area = arg[u].area
    BY <1>18 DEF Granted
  <2> QED BY <1>18, <2>1, NothingMoves DEF Granted
<1>19. ASSUME NEW t \in Thread, Withdraw(t)
      PROVE  Kept'
  <2>1. \A u \in Thread : arg'[u].area = arg[u].area
    BY <1>19 DEF Withdraw
  <2> QED BY <1>19, <2>1, NothingMoves DEF Withdraw
<1>20. ASSUME NEW t \in Thread, Resume(t)
      PROVE  Kept'
  <2>1. \A u \in Thread : arg'[u].area = arg[u].area
    BY <1>20 DEF Resume
  <2> QED BY <1>20, <2>1, NothingMoves DEF Resume
<1>21. ASSUME NEW t \in Thread, WakeUp(t)
      PROVE  Kept'
  <2>1. \A u \in Thread : arg'[u].area = arg[u].area
    BY <1>21 DEF WakeUp
  <2> QED BY <1>21, <2>1, NothingMoves DEF WakeUp
<1>22. ASSUME NEW t \in Thread, Pause(t)
      PROVE  Kept'
  <2>1. \A u \in Thread : arg'[u].area = arg[u].area
    BY <1>22 DEF Pause
  <2> QED BY <1>22, <2>1, NothingMoves DEF Pause
<1>23. ASSUME Terminate
      PROVE  Kept'
  <2>1. \A u \in Thread : arg'[u].area = arg[u].area
    BY <1>23 DEF Terminate
  <2> QED BY <1>23, <2>1, NothingMoves DEF Terminate
<1>24. ASSUME Joined
      PROVE  Kept'
  <2>1. \A u \in Thread : arg'[u].area = arg[u].area
    BY <1>24 DEF Joined
  <2> QED BY <1>24, <2>1, NothingMoves DEF Joined
<1>25. ASSUME ShutDown
      PROVE  Kept'
  <2>1. /\ wa'[Main] = {} /\ closed' = closed \cup wa[Main] \cup s_pDetachedAreas
        /\ \A u \in Thread \ {Main} : wa'[u] = wa[u]
        /\ s_pDetachedAreas' = s_pDetachedAreas \ s_pDetachedAreas
        /\ UNCHANGED <<arg, opened>>
    BY <1>25, ThreadAssumption DEF ShutDown, CloseAll
  <2> HIDE CallTypes DEF TypeOK, Goto, With, Runs, Calls, areas, requests
  <2> QED BY <2>1, ThreadAssumption, AllClose
<1>26. CASE UNCHANGED vars
  <2>1. \A u \in Thread : arg'[u].area = arg[u].area
    BY <1>26 DEF vars
  <2> QED BY <1>26, <2>1, NothingMoves DEF vars
<1> HIDE DEF TypeOK, Goto, With, Runs, Calls, areas, requests
<1> QED
  BY <1>1, <1>2, <1>3, <1>4, <1>5, <1>6, <1>7, <1>8, <1>9, <1>10, <1>11,
     <1>12, <1>13, <1>14, <1>15, <1>16, <1>17, <1>18, <1>19, <1>20, <1>21,
     <1>22, <1>23, <1>24, <1>25, <1>26
     DEF Next, Step, Working, Going, Locking, Ending

-----------------------------------------------------------------------------
(* Nobody sleeps while an area fits.                                       *)

\* Steps after which no area and nobody else is waited for.
LEMMA StillInVain ==
  ASSUME NoLostArea, s_pDetachedAreas' \subseteq s_pDetachedAreas,
         \A a \in s_pDetachedAreas : atomAlias'[a] = atomAlias[a],
         \A u \in Thread : pc'[u] \in {"committed", "sleeping"}
             => /\ pc[u] \in {"committed", "sleeping"}
                /\ arg'[u].alias = arg[u].alias
  PROVE  NoLostArea'
<1> SUFFICES ASSUME NEW u \in Thread, pc'[u] \in {"committed", "sleeping"},
                    NEW a \in s_pDetachedAreas', Fits(u, a)'
             PROVE  FALSE
  BY DEF NoLostArea, Fitting
<1>1. a \in Fitting(u)
  BY DEF Fitting, Fits
<1> QED BY <1>1 DEF NoLostArea

\* Every step keeps to that.
LEMMA LookedInVain ==
  ASSUME TypeOK, Section, Kept, NoLostArea, [Next]_vars
  PROVE  NoLostArea'
<1> USE CallTypes DEF TypeOK, Goto, With, Runs, Calls, areas, requests
<1>1. ASSUME NEW t \in Thread, NEW a \in Area, Close(t, a)
      PROVE  NoLostArea'
  <2>1. \A u \in Thread : pc'[u] \in {"committed", "sleeping"}
            => /\ pc[u] \in {"committed", "sleeping"}
               /\ arg'[u].alias = arg[u].alias
    BY <1>1 DEF Close
  <2> QED BY <1>1, <2>1, StillInVain DEF Close
<1>2. ASSUME NEW t \in Thread, NEW a \in Area, Detach(t, a)
      PROVE  NoLostArea'
  <2>1. \A u \in Thread : pc'[u] \in {"committed", "sleeping"}
            => /\ pc[u] \in {"committed", "sleeping"}
               /\ arg'[u].alias = arg[u].alias
    BY <1>2 DEF Detach
  <2> QED BY <1>2, <2>1, StillInVain DEF Detach
<1>3. ASSUME NEW t \in Thread, NEW old \in Current(t), NEW a \in Area,
             NEW name \in Alias \cup {NoAlias},
             Open(t, old, a, name)
      PROVE  NoLostArea'
  <2>1. \A b \in s_pDetachedAreas : atomAlias'[b] = atomAlias[b]
    <3>1. CASE UNCHANGED <<opened, atomAlias>>
      BY <3>1
    <3>2. CASE a \notin opened /\ atomAlias' = [atomAlias EXCEPT ![a] = name]
      <4>1. a \notin s_pDetachedAreas
        BY <3>2 DEF Kept, At, Somewhere
      <4> QED BY <3>2, <4>1
    <3> QED BY <1>3, <3>1, <3>2 DEF Open
  <2>2. UNCHANGED <<pc, arg, s_pDetachedAreas>>
    BY <1>3 DEF Open
  <2> HIDE CallTypes DEF TypeOK
  <2> QED BY <2>1, <2>2, StillInVain
<1>4. ASSUME NEW t \in Thread, NEW old \in Current(t),
             NEW name \in Alias \cup {NoAlias},
             NEW wait \in {"forever", "timed", "now"},
             Request(t, old, name, wait)
      PROVE  NoLostArea'
  <2>1. \A u \in Thread : pc'[u] \in {"committed", "sleeping"}
            => /\ pc[u] \in {"committed", "sleeping"}
               /\ arg'[u].alias = arg[u].alias
    <3>1. CASE UNCHANGED <<pc, arg>>
      BY <3>1
    <3>2. CASE With(t, "entering", [NoCall EXCEPT !.alias = name, !.wait = wait])
      BY <3>2
    <3> QED BY <1>4, <3>1, <3>2 DEF Request
  <2> QED BY <1>4, <2>1, StillInVain DEF Request
<1>5. ASSUME NEW t \in Thread, NEW c \in Thread, QuitRequest(t, c)
      PROVE  NoLostArea'
  <2>1. \A u \in Thread : pc'[u] \in {"committed", "sleeping"}
            => /\ pc[u] \in {"committed", "sleeping"}
               /\ arg'[u].alias = arg[u].alias
    BY <1>5 DEF QuitRequest
  <2> QED BY <1>5, <2>1, StillInVain DEF QuitRequest
<1>6. ASSUME NEW t \in Thread, Quit(t)
      PROVE  NoLostArea'
  <2>1. \A u \in Thread : pc'[u] \in {"committed", "sleeping"}
            => /\ pc[u] \in {"committed", "sleeping"}
               /\ arg'[u].alias = arg[u].alias
    BY <1>6 DEF Quit
  <2> QED BY <1>6, <2>1, StillInVain DEF Quit
<1>7. ASSUME NEW t \in Thread, Suspend(t)
      PROVE  NoLostArea'
  <2>1. \A u \in Thread : pc'[u] \in {"committed", "sleeping"}
            => /\ pc[u] \in {"committed", "sleeping"}
               /\ arg'[u].alias = arg[u].alias
    BY <1>7 DEF Suspend
  <2> QED BY <1>7, <2>1, StillInVain DEF Suspend
<1>8. ASSUME NEW t \in Thread, EnterSection(t)
      PROVE  NoLostArea'
  <2>1. \A u \in Thread : pc'[u] \in {"committed", "sleeping"}
            => /\ pc[u] \in {"committed", "sleeping"}
               /\ arg'[u].alias = arg[u].alias
    BY <1>8 DEF EnterSection
  <2> QED BY <1>8, <2>1, StillInVain DEF EnterSection
<1>9. ASSUME NEW t \in Thread, LockForce(t)
      PROVE  NoLostArea'
  <2>1. \A u \in Thread : pc'[u] \in {"committed", "sleeping"}
            => /\ pc[u] \in {"committed", "sleeping"}
               /\ arg'[u].alias = arg[u].alias
    BY <1>9 DEF LockForce
  <2> QED BY <1>9, <2>1, StillInVain DEF LockForce
<1>10. ASSUME NEW t \in Thread, Relock(t)
      PROVE  NoLostArea'
  <2>1. \A u \in Thread : pc'[u] \in {"committed", "sleeping"}
            => /\ pc[u] \in {"committed", "sleeping"}
               /\ arg'[u].alias = arg[u].alias
    BY <1>10 DEF Relock
  <2> QED BY <1>10, <2>1, StillInVain DEF Relock
<1>11. ASSUME NEW t \in Thread, Reenter(t)
      PROVE  NoLostArea'
  <2>1. \A u \in Thread : pc'[u] \in {"committed", "sleeping"}
            => /\ pc[u] \in {"committed", "sleeping"}
               /\ arg'[u].alias = arg[u].alias
    BY <1>11 DEF Reenter, Return
  <2> QED BY <1>11, <2>1, StillInVain DEF Reenter, Return
<1>12. ASSUME NEW t \in Thread, VMLock(t)
      PROVE  NoLostArea'
  <2>1. \A u \in Thread : pc'[u] \in {"committed", "sleeping"}
            => /\ pc[u] \in {"committed", "sleeping"}
               /\ arg'[u].alias = arg[u].alias
    BY <1>12 DEF VMLock
  <2> QED BY <1>12, <2>1, StillInVain DEF VMLock
<1>13. ASSUME NEW t \in Thread, Add(t)
      PROVE  NoLostArea'
  <2>1. ASSUME NEW u \in Thread PROVE pc'[u] \notin {"committed", "sleeping"}
    <3>1. pc[u] # "committed" \/ u = t
      BY <1>13 DEF Add, Section, MutexHeld, Holding
    <3> QED BY <1>13, <3>1 DEF Add
  <2> QED BY <2>1 DEF NoLostArea
<1>14. ASSUME NEW t \in Thread, NEW a \in Area, Take(t, a)
      PROVE  NoLostArea'
  <2>1. \A u \in Thread : pc'[u] \in {"committed", "sleeping"}
            => /\ pc[u] \in {"committed", "sleeping"}
               /\ arg'[u].alias = arg[u].alias
    BY <1>14 DEF Take, Return
  <2> QED BY <1>14, <2>1, StillInVain DEF Take, Return
<1>15. ASSUME NEW t \in Thread, Miss(t)
      PROVE  NoLostArea'
  <2>1. CASE pc'[t] = "run"
    <3>1. \A u \in Thread : pc'[u] \in {"committed", "sleeping"}
              => /\ pc[u] \in {"committed", "sleeping"}
                 /\ arg'[u].alias = arg[u].alias
      BY <1>15, <2>1 DEF Miss, Return
    <3> QED BY <1>15, <3>1, StillInVain DEF Miss
  <2>2. CASE pc'[t] = "committed"
    <3>1. /\ pc' = [pc EXCEPT ![t] = "committed"] /\ Fitting(t) = {}
          /\ UNCHANGED <<arg, atomAlias, s_pDetachedAreas>>
      BY <1>15, <2>2 DEF Miss, Return
    <3>2. \A u \in Thread : Fitting(u)' = Fitting(u)
      BY <3>1 DEF Fitting, Fits
    <3>3. ASSUME NEW u \in Thread, pc'[u] \in {"committed", "sleeping"}
          PROVE  Fitting(u) = {}
      BY <3>1, <3>3 DEF NoLostArea
    <3> QED BY <3>2, <3>3 DEF NoLostArea
  <2> QED BY <1>15, <2>1, <2>2 DEF Miss, Return
<1>16. ASSUME NEW t \in Thread, Sleep(t)
      PROVE  NoLostArea'
  <2>1. \A u \in Thread : pc'[u] \in {"committed", "sleeping"}
            => /\ pc[u] \in {"committed", "sleeping"}
               /\ arg'[u].alias = arg[u].alias
    BY <1>16 DEF Sleep
  <2> QED BY <1>16, <2>1, StillInVain DEF Sleep
<1>17. ASSUME NEW t \in Thread, TimeOut(t)
      PROVE  NoLostArea'
  <2>1. \A u \in Thread : pc'[u] \in {"committed", "sleeping"}
            => /\ pc[u] \in {"committed", "sleeping"}
               /\ arg'[u].alias = arg[u].alias
    BY <1>17 DEF TimeOut
  <2> QED BY <1>17, <2>1, StillInVain DEF TimeOut
<1>18. ASSUME NEW t \in Thread, Granted(t)
      PROVE  NoLostArea'
  <2>1. \A u \in Thread : pc'[u] \in {"committed", "sleeping"}
            => /\ pc[u] \in {"committed", "sleeping"}
               /\ arg'[u].alias = arg[u].alias
    BY <1>18 DEF Granted
  <2> QED BY <1>18, <2>1, StillInVain DEF Granted
<1>19. ASSUME NEW t \in Thread, Withdraw(t)
      PROVE  NoLostArea'
  <2>1. \A u \in Thread : pc'[u] \in {"committed", "sleeping"}
            => /\ pc[u] \in {"committed", "sleeping"}
               /\ arg'[u].alias = arg[u].alias
    BY <1>19 DEF Withdraw
  <2> QED BY <1>19, <2>1, StillInVain DEF Withdraw
<1>20. ASSUME NEW t \in Thread, Resume(t)
      PROVE  NoLostArea'
  <2>1. \A u \in Thread : pc'[u] \in {"committed", "sleeping"}
            => /\ pc[u] \in {"committed", "sleeping"}
               /\ arg'[u].alias = arg[u].alias
    BY <1>20 DEF Resume
  <2> QED BY <1>20, <2>1, StillInVain DEF Resume
<1>21. ASSUME NEW t \in Thread, WakeUp(t)
      PROVE  NoLostArea'
  <2>1. \A u \in Thread : pc'[u] \in {"committed", "sleeping"}
            => /\ pc[u] \in {"committed", "sleeping"}
               /\ arg'[u].alias = arg[u].alias
    BY <1>21 DEF WakeUp
  <2> QED BY <1>21, <2>1, StillInVain DEF WakeUp
<1>22. ASSUME NEW t \in Thread, Pause(t)
      PROVE  NoLostArea'
  <2>1. \A u \in Thread : pc'[u] \in {"committed", "sleeping"}
            => /\ pc[u] \in {"committed", "sleeping"}
               /\ arg'[u].alias = arg[u].alias
    BY <1>22 DEF Pause
  <2> QED BY <1>22, <2>1, StillInVain DEF Pause
<1>23. ASSUME Terminate
      PROVE  NoLostArea'
  <2>1. \A u \in Thread : pc'[u] \in {"committed", "sleeping"}
            => /\ pc[u] \in {"committed", "sleeping"}
               /\ arg'[u].alias = arg[u].alias
    BY <1>23 DEF Terminate
  <2> QED BY <1>23, <2>1, StillInVain DEF Terminate
<1>24. ASSUME Joined
      PROVE  NoLostArea'
  <2>1. \A u \in Thread : pc'[u] \in {"committed", "sleeping"}
            => /\ pc[u] \in {"committed", "sleeping"}
               /\ arg'[u].alias = arg[u].alias
    BY <1>24 DEF Joined
  <2> QED BY <1>24, <2>1, StillInVain DEF Joined
<1>25. ASSUME ShutDown
      PROVE  NoLostArea'
  <2>1. \A u \in Thread : pc'[u] \in {"committed", "sleeping"}
            => /\ pc[u] \in {"committed", "sleeping"}
               /\ arg'[u].alias = arg[u].alias
    BY <1>25 DEF ShutDown
  <2> QED BY <1>25, <2>1, StillInVain DEF ShutDown
<1>26. CASE UNCHANGED vars
  <2>1. UNCHANGED <<pc, arg, atomAlias, s_pDetachedAreas>>
    BY <1>26 DEF vars
  <2> QED BY <2>1, StillInVain
<1> HIDE DEF TypeOK, Goto, With, Runs, Calls, areas, requests
<1> QED
  BY <1>1, <1>2, <1>3, <1>4, <1>5, <1>6, <1>7, <1>8, <1>9, <1>10, <1>11,
     <1>12, <1>13, <1>14, <1>15, <1>16, <1>17, <1>18, <1>19, <1>20, <1>21,
     <1>22, <1>23, <1>24, <1>25, <1>26
     DEF Next, Step, Working, Going, Locking, Ending

-----------------------------------------------------------------------------
(* The end: main asks the others to quit, waits for them, and is the last. *)

Ends ==
    /\ \A t \in Thread : pc[t] = "ended" => wa[t] = {}
    /\ pc[Main] = "terminating" => quit = "asked"
    /\ quit = "asked" => pc[Main] = "terminating"
    /\ quit = "done" => \A t \in Thread \ {Main} : pc[t] = "ended"
    /\ pc[Main] = "ended" => quit = "done" /\ s_pDetachedAreas = {}

\* Every step keeps to that.
LEMMA EndsKept ==
  ASSUME TypeOK, Ends, [Next]_vars
  PROVE  Ends'
<1> USE CallTypes, ThreadAssumption DEF TypeOK, Ends, Goto, With, Runs, Calls, areas, requests
<1>1. ASSUME NEW t \in Thread, NEW a \in Area, Close(t, a)
      PROVE  Ends'
  BY <1>1 DEF Close
<1>2. ASSUME NEW t \in Thread, NEW a \in Area, Detach(t, a)
      PROVE  Ends'
  BY <1>2 DEF Detach
<1>3. ASSUME NEW t \in Thread, NEW old \in Current(t), NEW a \in Area,
             NEW name \in Alias \cup {NoAlias},
             Open(t, old, a, name)
      PROVE  Ends'
  BY <1>3 DEF Open
<1>4. ASSUME NEW t \in Thread, NEW old \in Current(t),
             NEW name \in Alias \cup {NoAlias},
             NEW wait \in {"forever", "timed", "now"},
             Request(t, old, name, wait)
      PROVE  Ends'
  BY <1>4 DEF Request
<1>5. ASSUME NEW t \in Thread, NEW c \in Thread, QuitRequest(t, c)
      PROVE  Ends'
  BY <1>5 DEF QuitRequest
<1>6. ASSUME NEW t \in Thread, Quit(t)
      PROVE  Ends'
  BY <1>6 DEF Quit, CloseAll
<1>7. ASSUME NEW t \in Thread, Suspend(t)
      PROVE  Ends'
  BY <1>7 DEF Suspend
<1>8. ASSUME NEW t \in Thread, EnterSection(t)
      PROVE  Ends'
  BY <1>8 DEF EnterSection
<1>9. ASSUME NEW t \in Thread, LockForce(t)
      PROVE  Ends'
  BY <1>9 DEF LockForce
<1>10. ASSUME NEW t \in Thread, Relock(t)
      PROVE  Ends'
  BY <1>10 DEF Relock
<1>11. ASSUME NEW t \in Thread, Reenter(t)
      PROVE  Ends'
  BY <1>11 DEF Reenter, Return
<1>12. ASSUME NEW t \in Thread, VMLock(t)
      PROVE  Ends'
  BY <1>12 DEF VMLock
<1>13. ASSUME NEW t \in Thread, Add(t)
      PROVE  Ends'
  BY <1>13 DEF Add
<1>14. ASSUME NEW t \in Thread, NEW a \in Area, Take(t, a)
      PROVE  Ends'
  BY <1>14 DEF Take, Return
<1>15. ASSUME NEW t \in Thread, Miss(t)
      PROVE  Ends'
  BY <1>15 DEF Miss, Return
<1>16. ASSUME NEW t \in Thread, Sleep(t)
      PROVE  Ends'
  BY <1>16 DEF Sleep
<1>17. ASSUME NEW t \in Thread, TimeOut(t)
      PROVE  Ends'
  BY <1>17 DEF TimeOut
<1>18. ASSUME NEW t \in Thread, Granted(t)
      PROVE  Ends'
  BY <1>18 DEF Granted
<1>19. ASSUME NEW t \in Thread, Withdraw(t)
      PROVE  Ends'
  BY <1>19 DEF Withdraw
<1>20. ASSUME NEW t \in Thread, Resume(t)
      PROVE  Ends'
  BY <1>20 DEF Resume
<1>21. ASSUME NEW t \in Thread, WakeUp(t)
      PROVE  Ends'
  BY <1>21 DEF WakeUp
<1>22. ASSUME NEW t \in Thread, Pause(t)
      PROVE  Ends'
  BY <1>22 DEF Pause
<1>23. ASSUME Terminate
      PROVE  Ends'
  BY <1>23 DEF Terminate
<1>24. ASSUME Joined
      PROVE  Ends'
  BY <1>24 DEF Joined
<1>25. ASSUME ShutDown
      PROVE  Ends'
  BY <1>25 DEF ShutDown, CloseAll
<1>26. CASE UNCHANGED vars
  BY <1>26 DEF vars
<1> HIDE DEF TypeOK, Ends, Goto, With, Runs, Calls, areas, requests
<1> QED
  BY <1>1, <1>2, <1>3, <1>4, <1>5, <1>6, <1>7, <1>8, <1>9, <1>10, <1>11,
     <1>12, <1>13, <1>14, <1>15, <1>16, <1>17, <1>18, <1>19, <1>20, <1>21,
     <1>22, <1>23, <1>24, <1>25, <1>26
     DEF Next, Step, Working, Going, Locking, Ending

-----------------------------------------------------------------------------
(* One thread asks the others to stop, and what it is granted.             *)

Stopping == {"asking", "collecting"}
Stops ==
    /\ \A t, u \in Thread : pc[t] \in Stopping /\ pc[u] \in Stopping => t = u
    /\ \A t, u \in Thread : pc[t] = "collecting" /\ pc[u] \in Counted => t = u

\* Every step keeps to that.
LEMMA StopsKept ==
  ASSUME TypeOK, Stops, [Next]_vars
  PROVE  Stops'
<1> USE ThreadAssumption DEF TypeOK, Stops, Stopping, Goto, With, Counted, Stoppers, Inside,
           Runs, Calls, areas, requests
<1>1. ASSUME NEW t \in Thread, NEW a \in Area, Close(t, a)
      PROVE  Stops'
  BY <1>1 DEF Close
<1>2. ASSUME NEW t \in Thread, NEW a \in Area, Detach(t, a)
      PROVE  Stops'
  BY <1>2 DEF Detach
<1>3. ASSUME NEW t \in Thread, NEW old \in Current(t), NEW a \in Area,
             NEW name \in Alias \cup {NoAlias},
             Open(t, old, a, name)
      PROVE  Stops'
  BY <1>3 DEF Open
<1>4. ASSUME NEW t \in Thread, NEW old \in Current(t),
             NEW name \in Alias \cup {NoAlias},
             NEW wait \in {"forever", "timed", "now"},
             Request(t, old, name, wait)
      PROVE  Stops'
  BY <1>4 DEF Request
<1>5. ASSUME NEW t \in Thread, NEW c \in Thread, QuitRequest(t, c)
      PROVE  Stops'
  BY <1>5 DEF QuitRequest
<1>6. ASSUME NEW t \in Thread, Quit(t)
      PROVE  Stops'
  BY <1>6 DEF Quit
<1>7. ASSUME NEW t \in Thread, Suspend(t)
      PROVE  Stops'
  BY <1>7 DEF Suspend
<1>8. ASSUME NEW t \in Thread, EnterSection(t)
      PROVE  Stops'
  BY <1>8 DEF EnterSection
<1>9. ASSUME NEW t \in Thread, LockForce(t)
      PROVE  Stops'
  BY <1>9 DEF LockForce
<1>10. ASSUME NEW t \in Thread, Relock(t)
      PROVE  Stops'
  BY <1>10 DEF Relock
<1>11. ASSUME NEW t \in Thread, Reenter(t)
      PROVE  Stops'
  BY <1>11 DEF Reenter, Return
<1>12. ASSUME NEW t \in Thread, VMLock(t)
      PROVE  Stops'
  BY <1>12 DEF VMLock
<1>13. ASSUME NEW t \in Thread, Add(t)
      PROVE  Stops'
  BY <1>13 DEF Add
<1>14. ASSUME NEW t \in Thread, NEW a \in Area, Take(t, a)
      PROVE  Stops'
  BY <1>14 DEF Take, Return
<1>15. ASSUME NEW t \in Thread, Miss(t)
      PROVE  Stops'
  BY <1>15 DEF Miss, Return
<1>16. ASSUME NEW t \in Thread, Sleep(t)
      PROVE  Stops'
  BY <1>16 DEF Sleep
<1>17. ASSUME NEW t \in Thread, TimeOut(t)
      PROVE  Stops'
  BY <1>17 DEF TimeOut
<1>18. ASSUME NEW t \in Thread, Granted(t)
      PROVE  Stops'
  BY <1>18 DEF Granted
<1>19. ASSUME NEW t \in Thread, Withdraw(t)
      PROVE  Stops'
  BY <1>19 DEF Withdraw
<1>20. ASSUME NEW t \in Thread, Resume(t)
      PROVE  Stops'
  BY <1>20 DEF Resume
<1>21. ASSUME NEW t \in Thread, WakeUp(t)
      PROVE  Stops'
  BY <1>21 DEF WakeUp
<1>22. ASSUME NEW t \in Thread, Pause(t)
      PROVE  Stops'
  BY <1>22 DEF Pause
<1>23. ASSUME Terminate
      PROVE  Stops'
  BY <1>23 DEF Terminate
<1>24. ASSUME Joined
      PROVE  Stops'
  BY <1>24 DEF Joined
<1>25. ASSUME ShutDown
      PROVE  Stops'
  BY <1>25 DEF ShutDown
<1>26. CASE UNCHANGED vars
  BY <1>26 DEF vars
<1> HIDE DEF TypeOK, Stops, Stopping, Goto, With, Counted, Stoppers, Inside,
             Runs, Calls, areas, requests
<1> QED
  BY <1>1, <1>2, <1>3, <1>4, <1>5, <1>6, <1>7, <1>8, <1>9, <1>10, <1>11,
     <1>12, <1>13, <1>14, <1>15, <1>16, <1>17, <1>18, <1>19, <1>20, <1>21,
     <1>22, <1>23, <1>24, <1>25, <1>26
     DEF Next, Step, Working, Going, Locking, Ending

LEMMA StopperKnown ==
  ASSUME TypeOK, Stops
  PROVE  /\ \A t \in Thread : pc[t] \in Stopping => Stopper = t
         /\ Stoppers = {} => Stopper = NoThread
         /\ Stopper \in Inside <=> \E t \in Thread : pc[t] = "collecting"
<1>1. ASSUME NEW t \in Thread, pc[t] \in Stopping PROVE Stopper = t
  <2>1. Stoppers = {t}
    BY <1>1 DEF Stoppers, Stopping, Stops
  <2> QED BY <2>1 DEF Stopper
<1>2. Stoppers = {} => Stopper = NoThread
  BY DEF Stopper
<1>3. Stopper \in Inside => \E t \in Thread : pc[t] = "collecting"
  <2>1. Stopper \in Inside => Stoppers # {}
    BY <1>2, ThreadAssumption DEF Inside
  <2>2. Stoppers # {} => Stopper \in Stoppers
    BY DEF Stopper
  <2> QED BY <2>1, <2>2 DEF Inside, Stoppers, Counted
<1>4. (\E t \in Thread : pc[t] = "collecting") => Stopper \in Inside
  BY <1>1 DEF Inside, Counted, Stopping
<1> QED BY <1>1, <1>2, <1>3, <1>4

\* Steps that StopTheWorld does not see ...
LEMMA Unseen ==
  ASSUME \A u \in Thread : /\ pc'[u] \in Counted <=> pc[u] \in Counted
                           /\ pc'[u] \in Stopping <=> pc[u] \in Stopping,
         quit' = quit
  PROVE  [World!Next]_(World!world)
<1>1. Inside' = Inside
  BY DEF Inside
<1>2. Stoppers' = Stoppers
  BY DEF Stoppers, Stopping
<1> QED BY <1>1, <1>2 DEF World!world, Stopper

\* ... those with which a thread comes in, unless another collects ...
LEMMA ComesIn ==
  ASSUME TypeOK, Stops, NEW t \in Thread, quit' = quit,
         \A u \in Thread : pc[u] # "collecting",
         pc[t] \notin Stopping, pc'[t] \in Counted \ Stopping,
         \A u \in Thread \ {t} : pc'[u] = pc[u]
  PROVE  [World!Next]_(World!world)
<1>1. Inside' = Inside \cup {t}
  BY DEF Inside
<1>2. Stoppers' = Stoppers
  BY DEF Stoppers, Stopping
<1>3. Stopper' = Stopper
  BY <1>2 DEF Stopper
<1>4. ~World!Granted
  BY StopperKnown DEF World!Granted
<1>5. Stopper # t
  <2>1. Stoppers # {} => Stopper \in Stoppers
    BY DEF Stopper
  <2> QED BY <2>1, StopperKnown, ThreadAssumption DEF Stoppers, Stopping
<1> QED BY <1>1, <1>3, <1>4, <1>5 DEF World!Next, World!Enter

\* ... and those with which it goes.
LEMMA GoesOut ==
  ASSUME TypeOK, Stops, NEW t \in Thread, quit' = quit,
         pc[t] \in Counted \ Stopping, pc'[t] \notin Counted \cup Stopping,
         \A u \in Thread \ {t} : pc'[u] = pc[u]
  PROVE  [World!Next]_(World!world)
<1>1. Inside' = Inside \ {t} /\ t \in Inside
  BY DEF Inside
<1>2. Stoppers' = Stoppers
  BY DEF Stoppers, Stopping
<1>3. Stopper' = Stopper
  BY <1>2 DEF Stopper
<1>4. ~World!Granted
  BY StopperKnown DEF World!Granted, Stops, Stopping
<1> QED BY <1>1, <1>3, <1>4 DEF World!Next, World!Leave

\* Every step is one of StopTheWorld, or none.
LEMMA StepStopsTheWorld ==
  ASSUME TypeOK, Stops, Ends, TypeOK', Stops', [Next]_vars
  PROVE  [World!Next]_(World!world)
<1>0. /\ \A t \in Thread : pc'[t] \in Stopping => Stopper' = t
      /\ Stoppers' = {} => Stopper' = NoThread
  <2>1. (/\ \A t \in Thread : pc[t] \in Stopping => Stopper = t
         /\ Stoppers = {} => Stopper = NoThread)'
    BY StopperKnown, PTL
  <2> QED BY <2>1
<1> USE DEF TypeOK, Stopping, Goto, With, Counted, Runs, Calls, areas, requests
<1>1. ASSUME NEW t \in Thread, NEW a \in Area, Close(t, a)
      PROVE  [World!Next]_(World!world)
  <2>1. \A v \in Thread : /\ pc'[v] \in Counted <=> pc[v] \in Counted
                          /\ pc'[v] \in Stopping <=> pc[v] \in Stopping
    BY <1>1 DEF Close
  <2> QED BY <1>1, <2>1, Unseen DEF Close
<1>2. ASSUME NEW t \in Thread, NEW a \in Area, Detach(t, a)
      PROVE  [World!Next]_(World!world)
  <2>1. /\ pc[t] \in Counted \ Stopping /\ pc'[t] \notin Counted \cup Stopping
        /\ \A v \in Thread \ {t} : pc'[v] = pc[v]
    BY <1>2 DEF Detach
  <2> QED BY <1>2, <2>1, GoesOut DEF Detach
<1>3. ASSUME NEW t \in Thread, NEW old \in Current(t), NEW a \in Area,
             NEW name \in Alias \cup {NoAlias},
             Open(t, old, a, name)
      PROVE  [World!Next]_(World!world)
  <2>1. \A v \in Thread : /\ pc'[v] \in Counted <=> pc[v] \in Counted
                          /\ pc'[v] \in Stopping <=> pc[v] \in Stopping
    BY <1>3 DEF Open
  <2> QED BY <1>3, <2>1, Unseen DEF Open
<1>4. ASSUME NEW t \in Thread, NEW old \in Current(t),
             NEW name \in Alias \cup {NoAlias},
             NEW wait \in {"forever", "timed", "now"},
             Request(t, old, name, wait)
      PROVE  [World!Next]_(World!world)
  <2>1. CASE UNCHANGED <<pc, arg>>
    BY <1>4, <2>1, Unseen DEF Request
  <2>2. CASE With(t, "entering", [NoCall EXCEPT !.alias = name, !.wait = wait])
    <3>1. /\ pc[t] \in Counted \ Stopping /\ pc'[t] \notin Counted \cup Stopping
          /\ \A v \in Thread \ {t} : pc'[v] = pc[v]
      BY <1>4, <2>2 DEF Request
    <3> QED BY <1>4, <3>1, GoesOut DEF Request
  <2> QED BY <1>4, <2>1, <2>2 DEF Request
<1>5. ASSUME NEW t \in Thread, NEW c \in Thread, QuitRequest(t, c)
      PROVE  [World!Next]_(World!world)
  <2>1. \A v \in Thread : /\ pc'[v] \in Counted <=> pc[v] \in Counted
                          /\ pc'[v] \in Stopping <=> pc[v] \in Stopping
    BY <1>5 DEF QuitRequest
  <2> QED BY <1>5, <2>1, Unseen DEF QuitRequest
<1>6. ASSUME NEW t \in Thread, Quit(t)
      PROVE  [World!Next]_(World!world)
  <2>1. /\ pc[t] \in Counted \ Stopping /\ pc'[t] \notin Counted \cup Stopping
        /\ \A v \in Thread \ {t} : pc'[v] = pc[v]
    BY <1>6 DEF Quit
  <2> QED BY <1>6, <2>1, GoesOut DEF Quit
<1>7. ASSUME NEW t \in Thread, Suspend(t)
      PROVE  [World!Next]_(World!world)
  <2>1. /\ Stoppers = {} /\ t \in Inside /\ quit # "asked" /\ quit' = quit
        /\ pc' = [pc EXCEPT ![t] = IF Inside = {t} THEN "collecting" ELSE "asking"]
    BY <1>7 DEF Suspend, Inside
  <2>2. Stopper = NoThread
    BY <2>1 DEF Stopper
  <2>3. Stopper' = t
    BY <1>0, <2>1
  <2>4. Inside' = IF Inside = {t} THEN Inside ELSE Inside \ {t}
    BY <2>1 DEF Inside
  <2> QED BY <2>1, <2>2, <2>3, <2>4 DEF World!Next, World!Ask
<1>8. ASSUME NEW t \in Thread, EnterSection(t)
      PROVE  [World!Next]_(World!world)
  <2>1. \A v \in Thread : /\ pc'[v] \in Counted <=> pc[v] \in Counted
                          /\ pc'[v] \in Stopping <=> pc[v] \in Stopping
    BY <1>8 DEF EnterSection
  <2> QED BY <1>8, <2>1, Unseen DEF EnterSection
<1>9. ASSUME NEW t \in Thread, LockForce(t)
      PROVE  [World!Next]_(World!world)
  <2>1. /\ \A v \in Thread : pc[v] # "collecting"
        /\ pc[t] \notin Stopping /\ pc'[t] \in Counted \ Stopping
        /\ \A v \in Thread \ {t} : pc'[v] = pc[v]
    BY <1>9 DEF LockForce, Stoppers, Return
  <2> QED BY <1>9, <2>1, ComesIn DEF LockForce
<1>10. ASSUME NEW t \in Thread, Relock(t)
      PROVE  [World!Next]_(World!world)
  <2>1. \A v \in Thread : /\ pc'[v] \in Counted <=> pc[v] \in Counted
                          /\ pc'[v] \in Stopping <=> pc[v] \in Stopping
    BY <1>10 DEF Relock
  <2> QED BY <1>10, <2>1, Unseen DEF Relock
<1>11. ASSUME NEW t \in Thread, Reenter(t)
      PROVE  [World!Next]_(World!world)
  <2>1. /\ \A v \in Thread : pc[v] # "collecting"
        /\ pc[t] \notin Stopping /\ pc'[t] \in Counted \ Stopping
        /\ \A v \in Thread \ {t} : pc'[v] = pc[v]
    BY <1>11 DEF Reenter, Stoppers, Return
  <2> QED BY <1>11, <2>1, ComesIn DEF Reenter
<1>12. ASSUME NEW t \in Thread, VMLock(t)
      PROVE  [World!Next]_(World!world)
  <2>1. /\ \A v \in Thread : pc[v] # "collecting"
        /\ pc[t] \notin Stopping /\ pc'[t] \in Counted \ Stopping
        /\ \A v \in Thread \ {t} : pc'[v] = pc[v]
    BY <1>12 DEF VMLock, Stoppers, Return
  <2> QED BY <1>12, <2>1, ComesIn DEF VMLock
<1>13. ASSUME NEW t \in Thread, Add(t)
      PROVE  [World!Next]_(World!world)
  <2>1. \A v \in Thread : /\ pc'[v] \in Counted <=> pc[v] \in Counted
                          /\ pc'[v] \in Stopping <=> pc[v] \in Stopping
    BY <1>13 DEF Add
  <2> QED BY <1>13, <2>1, Unseen DEF Add
<1>14. ASSUME NEW t \in Thread, NEW a \in Area, Take(t, a)
      PROVE  [World!Next]_(World!world)
  <2>1. \A v \in Thread : /\ pc'[v] \in Counted <=> pc[v] \in Counted
                          /\ pc'[v] \in Stopping <=> pc[v] \in Stopping
    BY <1>14 DEF Take, Return
  <2> QED BY <1>14, <2>1, Unseen DEF Take
<1>15. ASSUME NEW t \in Thread, Miss(t)
      PROVE  [World!Next]_(World!world)
  <2>1. CASE Return(t)
    <3>1. \A v \in Thread : /\ pc'[v] \in Counted <=> pc[v] \in Counted
                            /\ pc'[v] \in Stopping <=> pc[v] \in Stopping
      BY <1>15, <2>1 DEF Miss, Return
    <3> QED BY <1>15, <3>1, Unseen DEF Miss
  <2>2. CASE Goto(t, "committed")
    <3>1. /\ pc[t] \in Counted \ Stopping /\ pc'[t] \notin Counted \cup Stopping
          /\ \A v \in Thread \ {t} : pc'[v] = pc[v]
      BY <1>15, <2>2 DEF Miss
    <3> QED BY <1>15, <3>1, GoesOut DEF Miss
  <2> QED BY <1>15, <2>1, <2>2 DEF Miss
<1>16. ASSUME NEW t \in Thread, Sleep(t)
      PROVE  [World!Next]_(World!world)
  <2>1. \A v \in Thread : /\ pc'[v] \in Counted <=> pc[v] \in Counted
                          /\ pc'[v] \in Stopping <=> pc[v] \in Stopping
    BY <1>16 DEF Sleep
  <2> QED BY <1>16, <2>1, Unseen DEF Sleep
<1>17. ASSUME NEW t \in Thread, TimeOut(t)
      PROVE  [World!Next]_(World!world)
  <2>1. \A v \in Thread : /\ pc'[v] \in Counted <=> pc[v] \in Counted
                          /\ pc'[v] \in Stopping <=> pc[v] \in Stopping
    BY <1>17 DEF TimeOut
  <2> QED BY <1>17, <2>1, Unseen DEF TimeOut
<1>18. ASSUME NEW t \in Thread, Granted(t)
      PROVE  [World!Next]_(World!world)
  <2>1. /\ Stopper = t /\ Inside = {} /\ quit # "asked" /\ quit' = quit
        /\ pc' = [pc EXCEPT ![t] = "collecting"]
    BY <1>18, StopperKnown DEF Granted
  <2>2. Stopper' = t
    BY <1>0, <2>1
  <2>3. Inside' = {t}
    BY <2>1 DEF Inside
  <2> QED BY <2>1, <2>2, <2>3 DEF World!Next, World!Grant
<1>19. ASSUME NEW t \in Thread, Withdraw(t)
      PROVE  [World!Next]_(World!world)
  <2>1. /\ Stopper = t /\ quit = "asked" /\ quit' = quit
        /\ pc[t] = "asking" /\ pc' = [pc EXCEPT ![t] = "run"]
    BY <1>19, StopperKnown DEF Withdraw
  <2>2. ~World!Granted
    BY <2>1, StopperKnown DEF World!Granted, Stops
  <2>3. Stoppers' = {}
    BY <2>1 DEF Stops, Stoppers
  <2>4. Inside' = Inside \cup {t}
    BY <2>1 DEF Inside
  <2> QED BY <2>1, <2>2, <2>3, <2>4 DEF World!Next, World!Withdraw, Stopper
<1>20. ASSUME NEW t \in Thread, Resume(t)
      PROVE  [World!Next]_(World!world)
  <2>1. /\ Stopper = t /\ t \in Inside /\ quit' = quit
        /\ pc[t] = "collecting" /\ pc' = [pc EXCEPT ![t] = "run"]
    BY <1>20, StopperKnown DEF Resume, Inside
  <2>2. Stoppers' = {}
    BY <2>1 DEF Stops, Stoppers
  <2>3. Inside' = Inside
    BY <2>1 DEF Inside
  <2> QED BY <2>1, <2>2, <2>3 DEF World!Next, World!Resume, World!Granted, Stopper
<1>21. ASSUME NEW t \in Thread, WakeUp(t)
      PROVE  [World!Next]_(World!world)
  <2>1. \A v \in Thread : /\ pc'[v] \in Counted <=> pc[v] \in Counted
                          /\ pc'[v] \in Stopping <=> pc[v] \in Stopping
    BY <1>21 DEF WakeUp
  <2> QED BY <1>21, <2>1, Unseen DEF WakeUp
<1>22. ASSUME NEW t \in Thread, Pause(t)
      PROVE  [World!Next]_(World!world)
  <2>1. /\ pc[t] \in Counted \ Stopping /\ pc'[t] \notin Counted \cup Stopping
        /\ \A v \in Thread \ {t} : pc'[v] = pc[v]
    BY <1>22 DEF Pause
  <2> QED BY <1>22, <2>1, GoesOut DEF Pause
<1>23. ASSUME Terminate
      PROVE  [World!Next]_(World!world)
  <2>1. /\ Main \in Thread /\ Main \in Inside /\ quit' = "asked"
        /\ pc[Main] = "run" /\ pc' = [pc EXCEPT ![Main] = "terminating"]
    BY <1>23, ThreadAssumption DEF Terminate, Inside
  <2>2. ~World!Granted
    BY <2>1, StopperKnown DEF World!Granted, Stops
  <2>3. Stoppers' = Stoppers
    BY <2>1 DEF Stoppers
  <2>4. Stopper' = Stopper
    BY <2>3 DEF Stopper
  <2>5. Inside' = Inside \ {Main}
    BY <2>1 DEF Inside
  <2> QED BY <2>1, <2>2, <2>4, <2>5 DEF World!Next, World!AskQuit
<1>24. ASSUME Joined
      PROVE  [World!Next]_(World!world)
  <2>1. /\ Main \in Thread /\ pc[Main] = "terminating"
        /\ pc' = [pc EXCEPT ![Main] = "run"] /\ quit' = "done"
        /\ \A t \in Thread \ {Main} : pc[t] = "ended"
    BY <1>24, ThreadAssumption DEF Joined
  <2>2. Stoppers = {} /\ Stoppers' = {}
    BY <2>1 DEF Stoppers
  <2>3. Stopper = NoThread /\ Stopper' = NoThread
    BY <2>2 DEF Stopper
  <2>4. Inside' = Inside \cup {Main}
    BY <2>1 DEF Inside
  <2> QED BY <2>1, <2>3, <2>4 DEF World!Next, World!DropQuit
<1>25. ASSUME ShutDown
      PROVE  [World!Next]_(World!world)
  <2>1. /\ pc[Main] \in Counted \ Stopping /\ pc'[Main] \notin Counted \cup Stopping
        /\ \A v \in Thread \ {Main} : pc'[v] = pc[v]
    BY <1>25, ThreadAssumption DEF ShutDown
  <2> QED BY <1>25, ThreadAssumption, <2>1, GoesOut DEF ShutDown
<1>26. CASE UNCHANGED vars
  <2>1. UNCHANGED <<pc, quit>>
    BY <1>26 DEF vars
  <2> QED BY <2>1, Unseen
<1> HIDE DEF TypeOK, Stopping, Goto, With, Counted, Runs, Calls, areas, requests
<1> QED
  BY <1>1, <1>2, <1>3, <1>4, <1>5, <1>6, <1>7, <1>8, <1>9, <1>10, <1>11,
     <1>12, <1>13, <1>14, <1>15, <1>16, <1>17, <1>18, <1>19, <1>20, <1>21,
     <1>22, <1>23, <1>24, <1>25, <1>26
     DEF Next, Step, Working, Going, Locking, Ending

-----------------------------------------------------------------------------
(* What holds in every behaviour.                                          *)

Safe == TypeOK /\ Section /\ Kept /\ NoLostArea /\ Ends /\ Stops

LEMMA SafeAtFirst == Init => Safe
<1> SUFFICES ASSUME Init PROVE Safe
  OBVIOUS
<1> USE ThreadAssumption, CallTypes DEF Init
<1>1. TypeOK
  BY DEF TypeOK, PCs, Counted
<1>2. \A t \in Thread : pc[t] = "run" /\ arg[t].area = NoArea /\ wa[t] = {}
  OBVIOUS
<1>3. Section
  BY <1>2 DEF Section, MutexHeld, Carrying, Holding
<1>4. Kept
  BY <1>2, AreaAssumption DEF Kept, At, Somewhere
<1>5. NoLostArea
  BY <1>2 DEF NoLostArea
<1>6. Ends
  BY <1>2 DEF Ends
<1>7. Stops
  BY <1>2 DEF Stops, Stopping
<1> QED BY <1>1, <1>3, <1>4, <1>5, <1>6, <1>7 DEF Safe

LEMMA SafeAlways == Spec => []Safe
<1>1. Safe /\ [Next]_vars => Safe'
  BY TypeKept, SectionKept, KeptKept, LookedInVain, EndsKept, StopsKept DEF Safe
<1> QED BY <1>1, SafeAtFirst, PTL DEF Spec

\* All variables keep their types.
THEOREM TypeCorrect == Spec => []TypeOK
<1>1. Safe => TypeOK
  BY DEF Safe
<1> QED BY <1>1, SafeAlways, PTL

\* hb_rddRequestArea() misses no area: whoever puts one on the list has s_waMtx
\* and wakes all that wait.
THEOREM AreaNotMissed == Spec => []NoLostArea
<1>1. Safe => NoLostArea
  BY DEF Safe
<1> QED BY <1>1, SafeAlways, PTL

\* hb_dbDetach() and hb_dbRequest() neither lose an area nor give it to two
\* threads, and when main has ended all are closed.
THEOREM AllKept == Spec => []AreasKept
<1>1. Safe => AreasKept
  <2> SUFFICES ASSUME Safe PROVE AreasKept
    OBVIOUS
  <2>1. OnePlace
    BY KeptIsOnePlace DEF Safe
  <2>2. ASSUME pc[Main] = "ended" PROVE opened = closed
    <3>1. ASSUME NEW t \in Thread
          PROVE  pc[t] = "ended" /\ wa[t] = {}
      BY <2>2 DEF Safe, Ends
    <3>2. s_pDetachedAreas = {}
      BY <2>2 DEF Safe, Ends
    <3>3. ASSUME NEW a \in Area PROVE ~Somewhere(a)
      <4>1. ASSUME NEW t \in Thread PROVE arg[t].area # a
        BY <3>1, AreaAssumption DEF Safe, Section, Carrying
      <4> QED BY <3>1, <3>2, <4>1 DEF Somewhere
    <3>4. ASSUME NEW a \in Area PROVE a \in opened <=> a \in closed
      BY <3>3 DEF Safe, Kept, At
    <3> QED BY <3>4 DEF Safe, TypeOK
  <2> QED BY <2>1, <2>2 DEF AreasKept
<1> QED BY <1>1, SafeAlways, PTL

\* hb_vmSuspendThreads() and hb_vmResumeThreads() do what StopTheWorld says,
\* also for threads that come in through hb_vmLockForce() and in the face of a
\* shutdown.
THEOREM ImplementsStopTheWorld == Spec => StopsTheWorldSpec
<1>1. Init => World!Init
  <2> SUFFICES ASSUME Init PROVE World!Init
    OBVIOUS
  <2>1. Stoppers = {} /\ quit # "asked"
    BY DEF Init, Stoppers
  <2> QED BY <2>1 DEF World!Init, Stopper, Inside
<1>2. Safe /\ Safe' /\ [Next]_vars => [World!Next]_(World!world)
  BY StepStopsTheWorld DEF Safe
<1> QED BY <1>1, <1>2, SafeAlways, PTL DEF Spec, World!Spec, StopsTheWorldSpec
=============================================================================
