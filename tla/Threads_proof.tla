--------------------------- MODULE Threads_proof ---------------------------
(***************************************************************************)
(* Proofs about Threads, for all sets of threads and all programs.  The    *)
(* inductive invariant is Safe, of five parts that are kept one after the  *)
(* other: Known (types, and who is about to start whom), Wakes (who holds  *)
(* s_thread_mtx, and whether sleepers are counted), NoMissedEnd itself,    *)
(* Stops (the owner of a STOP request) and Lives (who has the items that   *)
(* keep an object alive).  Handled, which holds as long as no two threads  *)
(* are after one handle, is proved on top of it.  Each lemma ...Kept has   *)
(* one step per action.                                                    *)
(***************************************************************************)
EXTENDS Threads, TLAPS

-----------------------------------------------------------------------------
(* Types.                                                                  *)

\* Arguments of calls, and what changes about them.
LEMMA CallTypes ==
  /\ NoCall \in Call
  /\ \A c \in Thread : On(c) \in Call /\ On(c).on = {c}
  /\ \A call \in Call : /\ call.on \subseteq Thread
                        /\ [call EXCEPT !.wait = "now"] \in Call
                        /\ [call EXCEPT !.wait = "now"].on = call.on
<1>1. NoCall \in Call
  BY DEF NoCall, Call
<1>2. \A c \in Thread : On(c) \in Call /\ On(c).on = {c}
  BY DEF On, NoCall, Call
<1>3. \A call \in Call : /\ call.on \subseteq Thread
                         /\ [call EXCEPT !.wait = "now"] \in Call
                         /\ [call EXCEPT !.wait = "now"].on = call.on
  BY DEF Call
<1> QED BY <1>1, <1>2, <1>3

\* Items that are copied or dropped.
LEMMA KeepTypes ==
  ASSUME TypeOK, NEW items \in SUBSET (Thread \X Thread),
         NEW selves \in SUBSET Thread, Keep(items, selves)
  PROVE  /\ holds' \subseteq Thread \X Thread
         /\ self' \subseteq Thread
         /\ destroyed' \subseteq Thread
         /\ th_h' \subseteq Thread
         /\ reclaimed' \in [Thread -> Nat]
BY DEF TypeOK, Keep

\* Every step keeps the types.
LEMMA TypeKept ==
  ASSUME TypeOK, [Next]_vars
  PROVE  TypeOK'
<1> USE DEF TypeOK, Goto, With, PCs, InWait, Counted, Runs, Calls, objects,
            waits
<1>1. ASSUME NEW t \in Thread, NEW u \in Thread, NEW c \in Thread, Share(t, u, c)
      PROVE  TypeOK'
  <2>1. /\ holds' \subseteq Thread \X Thread /\ self' \subseteq Thread
        /\ destroyed' \subseteq Thread /\ th_h' \subseteq Thread
        /\ reclaimed' \in [Thread -> Nat]
    <3>1. (holds \cup {<<u, c>>}) \in SUBSET (Thread \X Thread)
      OBVIOUS
    <3>2. (self) \in SUBSET Thread
      BY ThreadAssumption
    <3>3. Keep(holds \cup {<<u, c>>}, self)
      BY <1>1 DEF Share
    <3> QED BY <3>1, <3>2, <3>3, KeepTypes
  <2> QED BY <1>1, <2>1 DEF Share
<1>2. ASSUME NEW t \in Thread, NEW u \in Thread, NEW c \in Thread, Drop(t, u, c)
      PROVE  TypeOK'
  <2>1. /\ holds' \subseteq Thread \X Thread /\ self' \subseteq Thread
        /\ destroyed' \subseteq Thread /\ th_h' \subseteq Thread
        /\ reclaimed' \in [Thread -> Nat]
    <3>1. (holds \ {<<u, c>>}) \in SUBSET (Thread \X Thread)
      OBVIOUS
    <3>2. (self) \in SUBSET Thread
      BY ThreadAssumption
    <3>3. Keep(holds \ {<<u, c>>}, self)
      BY <1>2 DEF Drop
    <3> QED BY <3>1, <3>2, <3>3, KeepTypes
  <2> QED BY <1>2, <2>1 DEF Drop
<1>3. ASSUME NEW t \in Thread, NEW c \in Thread, Start(t, c)
      PROVE  TypeOK'
  BY <1>3, CallTypes DEF Start
<1>4. ASSUME NEW t \in Thread, NEW c \in Thread, Join(t, c)
      PROVE  TypeOK'
  BY <1>4, CallTypes DEF Join
<1>5. ASSUME NEW t \in Thread, NEW c \in Thread, Detach(t, c)
      PROVE  TypeOK'
  BY <1>5, CallTypes DEF Detach
<1>6. ASSUME NEW t \in Thread, NEW c \in Thread, QuitRequest(t, c)
      PROVE  TypeOK'
  BY <1>6, CallTypes DEF QuitRequest
<1>7. ASSUME NEW t \in Thread, NEW call \in Call, Wait(t, call)
      PROVE  TypeOK'
  BY <1>7, CallTypes DEF Wait
<1>8. ASSUME NEW t \in Thread, Quit(t)
      PROVE  TypeOK'
  <2>1. /\ holds' \subseteq Thread \X Thread /\ self' \subseteq Thread
        /\ destroyed' \subseteq Thread /\ th_h' \subseteq Thread
        /\ reclaimed' \in [Thread -> Nat]
    <3>1. ({i \in holds : i[1] # t}) \in SUBSET (Thread \X Thread)
      OBVIOUS
    <3>2. (self) \in SUBSET Thread
      BY ThreadAssumption
    <3>3. Keep({i \in holds : i[1] # t}, self)
      BY <1>8 DEF Quit
    <3> QED BY <3>1, <3>2, <3>3, KeepTypes
  <2> QED BY <1>8, <2>1 DEF Quit
<1>9. ASSUME NEW t \in Thread, Suspend(t)
      PROVE  TypeOK'
  BY <1>9, CallTypes DEF Suspend
<1>10. ASSUME NEW t \in Thread, WaitLock(t)
      PROVE  TypeOK'
  BY <1>10, CallTypes DEF WaitLock
<1>11. ASSUME NEW t \in Thread, Scan(t)
      PROVE  TypeOK'
  <2>1. CASE Return(t) /\ UNCHANGED waiting
    BY <1>11, <2>1, CallTypes DEF Scan, Return, With
  <2>2. CASE Goto(t, "committed") /\ waiting' = TRUE /\ UNCHANGED <<arg, s_thread_mtx>>
    BY <1>11, <2>2 DEF Scan
  <2> QED BY <1>11, <2>1, <2>2 DEF Scan
<1>12. ASSUME NEW t \in Thread, Sleep(t)
      PROVE  TypeOK'
  BY <1>12, CallTypes DEF Sleep
<1>13. ASSUME NEW t \in Thread, TimeOut(t)
      PROVE  TypeOK'
  BY <1>13, CallTypes DEF TimeOut
<1>14. ASSUME NEW t \in Thread, Relock(t)
      PROVE  TypeOK'
  BY <1>14, CallTypes DEF Relock
<1>15. ASSUME NEW t \in Thread, Reenter(t)
      PROVE  TypeOK'
  <2>1. CASE Return(t)
    BY <1>15, <2>1, CallTypes DEF Reenter, Return, With
  <2>2. CASE Goto(t, "scanning") /\ UNCHANGED <<arg, s_thread_mtx>>
    BY <1>15, <2>2 DEF Reenter
  <2> QED BY <1>15, <2>1, <2>2 DEF Reenter
<1>16. ASSUME NEW t \in Thread, Finish(t)
      PROVE  TypeOK'
  BY <1>16, CallTypes DEF Finish
<1>17. ASSUME NEW t \in Thread, ReleaseSelf(t)
      PROVE  TypeOK'
  <2>1. /\ holds' \subseteq Thread \X Thread /\ self' \subseteq Thread
        /\ destroyed' \subseteq Thread /\ th_h' \subseteq Thread
        /\ reclaimed' \in [Thread -> Nat]
    <3>1. (holds) \in SUBSET (Thread \X Thread)
      OBVIOUS
    <3>2. (self \ {t}) \in SUBSET Thread
      BY ThreadAssumption
    <3>3. Keep(holds, self \ {t})
      BY <1>17 DEF ReleaseSelf
    <3> QED BY <3>1, <3>2, <3>3, KeepTypes
  <2> QED BY <1>17, <2>1 DEF ReleaseSelf
<1>18. ASSUME NEW t \in Thread, Signal(t)
      PROVE  TypeOK'
  BY <1>18, CallTypes DEF Signal
<1>19. ASSUME NEW t \in Thread, Create(t)
      PROVE  TypeOK'
  BY <1>19, CallTypes DEF Create
<1>20. ASSUME NEW t \in Thread, CreateFails(t)
      PROVE  TypeOK'
  <2>1. PICK c \in arg[t].on : /\ pc' = [pc EXCEPT ![t] = "run", ![c] = "failed"]
                               /\ Keep(holds \ {<<t, c>>}, self \ {c})
    BY <1>20 DEF CreateFails
  <2>2. /\ holds' \subseteq Thread \X Thread /\ self' \subseteq Thread
        /\ destroyed' \subseteq Thread /\ th_h' \subseteq Thread
        /\ reclaimed' \in [Thread -> Nat]
    <3>1. holds \ {<<t, c>>} \in SUBSET (Thread \X Thread) /\ self \ {c} \in SUBSET Thread
      OBVIOUS
    <3> QED BY <2>1, <3>1, KeepTypes
  <2>3. arg' \in [Thread -> Call]
    BY <1>20, CallTypes DEF CreateFails
  <2> QED BY <1>20, <2>1, <2>2, <2>3 DEF CreateFails
<1>21. ASSUME NEW t \in Thread, Assign(t)
      PROVE  TypeOK'
  <2>1. arg[t].on \subseteq Thread
    BY CallTypes
  <2> QED BY <1>21, <2>1, CallTypes DEF Assign
<1>22. ASSUME NEW t \in Thread, Joined(t)
      PROVE  TypeOK'
  <2>1. arg[t].on \subseteq Thread
    BY CallTypes
  <2> QED BY <1>22, <2>1 DEF Joined
<1>23. ASSUME NEW t \in Thread, Granted(t)
      PROVE  TypeOK'
  BY <1>23, CallTypes DEF Granted
<1>24. ASSUME NEW t \in Thread, Resume(t)
      PROVE  TypeOK'
  BY <1>24, CallTypes DEF Resume
<1>25. ASSUME NEW t \in Thread, Pause(t)
      PROVE  TypeOK'
  BY <1>25, CallTypes DEF Pause
<1>26. ASSUME NEW t \in Thread, VMLock(t)
      PROVE  TypeOK'
  BY <1>26, CallTypes DEF VMLock
<1>27. ASSUME NEW t \in Thread, WakeUp(t)
      PROVE  TypeOK'
  BY <1>27, CallTypes DEF WakeUp
<1>28. CASE UNCHANGED vars
  BY <1>28, CallTypes DEF vars, objects, waits
<1> QED
  BY <1>1, <1>2, <1>3, <1>4, <1>5, <1>6, <1>7, <1>8, <1>9, <1>10, <1>11,
     <1>12, <1>13, <1>14, <1>15, <1>16, <1>17, <1>18, <1>19, <1>20, <1>21,
     <1>22, <1>23, <1>24, <1>25, <1>26, <1>27, <1>28
     DEF Next, Step, Working, Going, Waiting, Ending
-----------------------------------------------------------------------------
(* Who may hold an item.                                                   *)

\* Threads whose function does not run, and threads in hb_threadStart.
Unborn == {"none", "registered", "failed"}
Creating == {"creating", "assigning"}

\* Every thread that is being started has one creator, which knows it.
Creators ==
    /\ \A t \in Thread : pc[t] \in Creating \cup {"joining", "joined"} =>
                           \E c \in Thread : arg[t].on = {c}
    /\ \A t \in Thread, c \in Thread : pc[t] \in Creating /\ c \in arg[t].on =>
           IF pc[t] = "creating" THEN pc[c] = "registered" ELSE pc[c] \notin Unborn
    /\ \A t, u, c \in Thread :
           /\ pc[t] \in Creating /\ c \in arg[t].on
           /\ pc[u] \in Creating /\ c \in arg[u].on
           => t = u

\* Nobody else holds an item of a thread that pthread_create may refuse yet, and
\* hence nobody waits for it.
Holders ==
    /\ \A t, c \in Thread : <<t, c>> \in holds =>
           /\ pc[c] \notin {"none", "failed"}
           /\ pc[c] = "registered" => pc[t] = "creating" /\ c \in arg[t].on
    /\ \A t, c \in Thread : pc[t] \in InWait /\ c \in arg[t].on =>
           pc[c] \notin Unborn

Known == TypeOK /\ Creators /\ Holders

\* Every step keeps to that.
LEMMA KnownKept ==
  ASSUME Known, [Next]_vars
  PROVE  (Creators /\ Holders)'
<1> USE DEF TypeOK, Known, Creators, Holders, Goto, With, PCs, InWait,
            Counted, Unborn, Creating, Runs, Calls, objects, waits
<1>1. ASSUME NEW t \in Thread, NEW u \in Thread, NEW c \in Thread, Share(t, u, c)
      PROVE  (Creators /\ Holders)'
  BY <1>1, CallTypes DEF Share, Keep
<1>2. ASSUME NEW t \in Thread, NEW u \in Thread, NEW c \in Thread, Drop(t, u, c)
      PROVE  (Creators /\ Holders)'
  BY <1>2, CallTypes DEF Drop, Keep
<1>3. ASSUME NEW t \in Thread, NEW c \in Thread, Start(t, c)
      PROVE  (Creators /\ Holders)'
  BY <1>3, CallTypes, SMTT(30) DEF Start
<1>4. ASSUME NEW t \in Thread, NEW c \in Thread, Join(t, c)
      PROVE  (Creators /\ Holders)'
  BY <1>4, CallTypes DEF Join
<1>5. ASSUME NEW t \in Thread, NEW c \in Thread, Detach(t, c)
      PROVE  (Creators /\ Holders)'
  BY <1>5, CallTypes DEF Detach
<1>6. ASSUME NEW t \in Thread, NEW c \in Thread, QuitRequest(t, c)
      PROVE  (Creators /\ Holders)'
  BY <1>6, CallTypes DEF QuitRequest
<1>7. ASSUME NEW t \in Thread, NEW call \in Call, Wait(t, call)
      PROVE  (Creators /\ Holders)'
  <2>1. \A c \in call.on : pc[c] \notin Unborn
    BY <1>7, CallTypes DEF Wait
  <2>2. /\ pc' = [pc EXCEPT ![t] = "entering"]
        /\ arg' = [arg EXCEPT ![t] = call]
        /\ holds' = holds /\ pc[t] = "run"
    BY <1>7 DEF Wait
  <2>3. arg'[t] = call /\ \A u \in Thread \ {t} : arg'[u] = arg[u] /\ pc'[u] = pc[u]
    BY <2>2
  <2>4. pc'[t] = "entering"
    BY <2>2
  <2>5. Creators'
    BY <2>2, <2>3, <2>4
  <2>6. \A u, c \in Thread : <<u, c>> \in holds' =>
             /\ pc'[c] \notin {"none", "failed"}
             /\ pc'[c] = "registered" => pc'[u] = "creating" /\ c \in arg'[u].on
    BY <2>2, <2>3, <2>4
  <2>7. \A u, c \in Thread : pc'[u] \in InWait /\ c \in arg'[u].on =>
             pc'[c] \notin Unborn
    BY <2>1, <2>2, <2>3, <2>4
  <2> QED BY <2>5, <2>6, <2>7
<1>8. ASSUME NEW t \in Thread, Quit(t)
      PROVE  (Creators /\ Holders)'
  BY <1>8, CallTypes DEF Quit, Keep
<1>9. ASSUME NEW t \in Thread, Suspend(t)
      PROVE  (Creators /\ Holders)'
  BY <1>9, CallTypes DEF Suspend
<1>10. ASSUME NEW t \in Thread, WaitLock(t)
      PROVE  (Creators /\ Holders)'
  BY <1>10, CallTypes DEF WaitLock
<1>11. ASSUME NEW t \in Thread, Scan(t)
      PROVE  (Creators /\ Holders)'
  BY <1>11, CallTypes DEF Scan, Return
<1>12. ASSUME NEW t \in Thread, Sleep(t)
      PROVE  (Creators /\ Holders)'
  BY <1>12, CallTypes DEF Sleep
<1>13. ASSUME NEW t \in Thread, TimeOut(t)
      PROVE  (Creators /\ Holders)'
  BY <1>13, CallTypes DEF TimeOut
<1>14. ASSUME NEW t \in Thread, Relock(t)
      PROVE  (Creators /\ Holders)'
  BY <1>14, CallTypes DEF Relock
<1>15. ASSUME NEW t \in Thread, Reenter(t)
      PROVE  (Creators /\ Holders)'
  BY <1>15, CallTypes DEF Reenter, Return
<1>16. ASSUME NEW t \in Thread, Finish(t)
      PROVE  (Creators /\ Holders)'
  BY <1>16, CallTypes DEF Finish
<1>17. ASSUME NEW t \in Thread, ReleaseSelf(t)
      PROVE  (Creators /\ Holders)'
  BY <1>17, CallTypes DEF ReleaseSelf, Keep
<1>18. ASSUME NEW t \in Thread, Signal(t)
      PROVE  (Creators /\ Holders)'
  BY <1>18, CallTypes DEF Signal
<1>19. ASSUME NEW t \in Thread, Create(t)
      PROVE  (Creators /\ Holders)'
  <2>1. PICK c \in Thread : /\ c \in arg[t].on
                            /\ pc' = [pc EXCEPT ![t] = "assigning", ![c] = "created"]
    BY <1>19, CallTypes DEF Create
  <2>2. arg[t].on = {c} /\ pc[t] = "creating" /\ pc[c] = "registered"
    BY <1>19, <2>1 DEF Create
  <2>3. arg' = arg /\ holds' = holds /\ pc'[t] = "assigning" /\ pc'[c] = "created"
    BY <1>19, <2>1, <2>2 DEF Create
  <2>4. \A u \in Thread \ {t, c} : pc'[u] = pc[u]
    BY <2>1
  <2>5. \A u \in Thread : pc'[u] \in Creating <=> pc[u] \in Creating
    BY <2>2, <2>3, <2>4
  <2>6. Creators'
    BY <2>2, <2>3, <2>4, <2>5
  <2>7. Holders'
    BY <2>2, <2>3, <2>4
  <2> QED BY <2>6, <2>7
<1>20. ASSUME NEW t \in Thread, CreateFails(t)
      PROVE  (Creators /\ Holders)'
  <2>1. PICK c \in Thread :
             /\ c \in arg[t].on
             /\ pc' = [pc EXCEPT ![t] = "run", ![c] = "failed"]
             /\ holds' = holds \ {<<t, c>>}
    BY <1>20, CallTypes DEF CreateFails, Keep
  <2>2. arg[t].on = {c} /\ pc[t] = "creating" /\ pc[c] = "registered"
    BY <1>20, <2>1 DEF CreateFails
  <2>3. pc'[t] = "run" /\ pc'[c] = "failed" /\ arg' = [arg EXCEPT ![t] = NoCall]
    BY <1>20, <2>1, <2>2 DEF CreateFails
  <2>4. \A u \in Thread \ {t, c} : pc'[u] = pc[u] /\ arg'[u] = arg[u]
    BY <2>1, <2>3
  <2>5. \A u \in Thread : <<u, c>> \notin holds'
    BY <2>1, <2>2
  <2>6. Creators'
    BY <2>2, <2>3, <2>4
  <2>7. Holders'
    BY <2>1, <2>2, <2>3, <2>4, <2>5
  <2> QED BY <2>6, <2>7
<1>21. ASSUME NEW t \in Thread, Assign(t)
      PROVE  (Creators /\ Holders)'
  BY <1>21, CallTypes DEF Assign
<1>22. ASSUME NEW t \in Thread, Joined(t)
      PROVE  (Creators /\ Holders)'
  BY <1>22, CallTypes DEF Joined
<1>23. ASSUME NEW t \in Thread, Granted(t)
      PROVE  (Creators /\ Holders)'
  BY <1>23, CallTypes DEF Granted
<1>24. ASSUME NEW t \in Thread, Resume(t)
      PROVE  (Creators /\ Holders)'
  BY <1>24, CallTypes DEF Resume
<1>25. ASSUME NEW t \in Thread, Pause(t)
      PROVE  (Creators /\ Holders)'
  BY <1>25, CallTypes DEF Pause
<1>26. ASSUME NEW t \in Thread, VMLock(t)
      PROVE  (Creators /\ Holders)'
  BY <1>26, CallTypes DEF VMLock
<1>27. ASSUME NEW t \in Thread, WakeUp(t)
      PROVE  (Creators /\ Holders)'
  BY <1>27, CallTypes DEF WakeUp
<1>28. CASE UNCHANGED vars
  BY <1>28, CallTypes DEF vars, objects, waits
<1> QED
  BY <1>1, <1>2, <1>3, <1>4, <1>5, <1>6, <1>7, <1>8, <1>9, <1>10, <1>11,
     <1>12, <1>13, <1>14, <1>15, <1>16, <1>17, <1>18, <1>19, <1>20, <1>21,
     <1>22, <1>23, <1>24, <1>25, <1>26, <1>27, <1>28
     DEF Next, Step, Working, Going, Waiting, Ending
-----------------------------------------------------------------------------
(* hb_threadWait: fFinished is not set under s_thread_mtx, but the one who *)
(* set it has to take that mutex before the broadcast.                     *)

\* s_thread_mtx has the holder that the control points say, and whoever is
\* asleep has been counted.
MutexHeld ==
    \A t \in Thread : (pc[t] \in Holding) <=> (s_thread_mtx = t)
SleepersCounted ==
    \A t \in Thread : pc[t] \in {"committed", "sleeping"} => waiting
Wakes == MutexHeld /\ SleepersCounted

\* Every step keeps to that.
LEMMA WakesKept ==
  ASSUME Known, Wakes, [Next]_vars
  PROVE  Wakes'
<1> USE DEF TypeOK, Known, MutexHeld, SleepersCounted, Wakes, Goto, With, PCs,
            InWait, Counted, Holding, Unborn, Creating, Runs, Calls, objects,
            waits
<1>1. ASSUME NEW t \in Thread, NEW u \in Thread, NEW c \in Thread, Share(t, u, c)
      PROVE  Wakes'
  BY <1>1, ThreadAssumption DEF Share
<1>2. ASSUME NEW t \in Thread, NEW u \in Thread, NEW c \in Thread, Drop(t, u, c)
      PROVE  Wakes'
  BY <1>2, ThreadAssumption DEF Drop
<1>3. ASSUME NEW t \in Thread, NEW c \in Thread, Start(t, c)
      PROVE  Wakes'
  BY <1>3, ThreadAssumption DEF Start
<1>4. ASSUME NEW t \in Thread, NEW c \in Thread, Join(t, c)
      PROVE  Wakes'
  BY <1>4, ThreadAssumption DEF Join
<1>5. ASSUME NEW t \in Thread, NEW c \in Thread, Detach(t, c)
      PROVE  Wakes'
  BY <1>5, ThreadAssumption DEF Detach
<1>6. ASSUME NEW t \in Thread, NEW c \in Thread, QuitRequest(t, c)
      PROVE  Wakes'
  BY <1>6, ThreadAssumption DEF QuitRequest
<1>7. ASSUME NEW t \in Thread, NEW call \in Call, Wait(t, call)
      PROVE  Wakes'
  BY <1>7, ThreadAssumption DEF Wait
<1>8. ASSUME NEW t \in Thread, Quit(t)
      PROVE  Wakes'
  BY <1>8, ThreadAssumption DEF Quit
<1>9. ASSUME NEW t \in Thread, Suspend(t)
      PROVE  Wakes'
  BY <1>9, ThreadAssumption DEF Suspend
<1>10. ASSUME NEW t \in Thread, WaitLock(t)
      PROVE  Wakes'
  BY <1>10, ThreadAssumption DEF WaitLock
<1>11. ASSUME NEW t \in Thread, Scan(t)
      PROVE  Wakes'
  BY <1>11, ThreadAssumption DEF Scan, Return
<1>12. ASSUME NEW t \in Thread, Sleep(t)
      PROVE  Wakes'
  BY <1>12, ThreadAssumption DEF Sleep
<1>13. ASSUME NEW t \in Thread, TimeOut(t)
      PROVE  Wakes'
  BY <1>13, ThreadAssumption DEF TimeOut
<1>14. ASSUME NEW t \in Thread, Relock(t)
      PROVE  Wakes'
  BY <1>14, ThreadAssumption DEF Relock
<1>15. ASSUME NEW t \in Thread, Reenter(t)
      PROVE  Wakes'
  BY <1>15, ThreadAssumption DEF Reenter, Return
<1>16. ASSUME NEW t \in Thread, Finish(t)
      PROVE  Wakes'
  BY <1>16, ThreadAssumption DEF Finish
<1>17. ASSUME NEW t \in Thread, ReleaseSelf(t)
      PROVE  Wakes'
  BY <1>17, ThreadAssumption DEF ReleaseSelf
<1>18. ASSUME NEW t \in Thread, Signal(t)
      PROVE  Wakes'
  BY <1>18, ThreadAssumption DEF Signal
<1>19. ASSUME NEW t \in Thread, Create(t)
      PROVE  Wakes'
  <2>1. PICK c \in Thread :
             /\ arg[t].on = {c} /\ pc[c] = "registered"
             /\ pc' = [pc EXCEPT ![t] = "assigning", ![c] = "created"]
    BY <1>19, CallTypes DEF Create
  <2>2. /\ pc[t] = "creating" /\ pc'[t] = "assigning" /\ pc'[c] = "created"
        /\ \A u \in Thread \ {t, c} : pc'[u] = pc[u]
    BY <1>19, <2>1 DEF Create
  <2> QED BY <1>19, <2>1, <2>2, ThreadAssumption DEF Create
<1>20. ASSUME NEW t \in Thread, CreateFails(t)
      PROVE  Wakes'
  <2>1. PICK c \in Thread :
             /\ arg[t].on = {c} /\ pc[c] = "registered"
             /\ pc' = [pc EXCEPT ![t] = "run", ![c] = "failed"]
    BY <1>20, CallTypes DEF CreateFails
  <2>2. /\ pc[t] = "creating" /\ pc'[t] = "run" /\ pc'[c] = "failed"
        /\ \A u \in Thread \ {t, c} : pc'[u] = pc[u]
    BY <1>20, <2>1 DEF CreateFails
  <2> QED BY <1>20, <2>1, <2>2, ThreadAssumption DEF CreateFails
<1>21. ASSUME NEW t \in Thread, Assign(t)
      PROVE  Wakes'
  BY <1>21, ThreadAssumption DEF Assign
<1>22. ASSUME NEW t \in Thread, Joined(t)
      PROVE  Wakes'
  BY <1>22, ThreadAssumption DEF Joined
<1>23. ASSUME NEW t \in Thread, Granted(t)
      PROVE  Wakes'
  BY <1>23, ThreadAssumption DEF Granted
<1>24. ASSUME NEW t \in Thread, Resume(t)
      PROVE  Wakes'
  BY <1>24, ThreadAssumption DEF Resume
<1>25. ASSUME NEW t \in Thread, Pause(t)
      PROVE  Wakes'
  BY <1>25, ThreadAssumption DEF Pause
<1>26. ASSUME NEW t \in Thread, VMLock(t)
      PROVE  Wakes'
  BY <1>26, ThreadAssumption DEF VMLock
<1>27. ASSUME NEW t \in Thread, WakeUp(t)
      PROVE  Wakes'
  BY <1>27, ThreadAssumption DEF WakeUp
<1>28. CASE UNCHANGED vars
  BY <1>28, ThreadAssumption DEF vars, objects, waits
<1> QED
  BY <1>1, <1>2, <1>3, <1>4, <1>5, <1>6, <1>7, <1>8, <1>9, <1>10, <1>11,
     <1>12, <1>13, <1>14, <1>15, <1>16, <1>17, <1>18, <1>19, <1>20, <1>21,
     <1>22, <1>23, <1>24, <1>25, <1>26, <1>27, <1>28
     DEF Next, Step, Working, Going, Waiting, Ending
\* A thread in its wait, and a thread that has its broadcast to make.
Sleepy == {"committed", "sleeping"}
Silent == {"finished", "ending"}

\* What a thread waits for depends on fFinished of its threads only.
LEMMA SameEnds ==
  ASSUME TypeOK, NEW w \in Thread, arg'[w] = arg[w],
         \A c \in arg[w].on : fFinished(c)' = fFinished(c)
  PROVE  EnoughFinished(w)' = EnoughFinished(w)
<1>1. Finished(w)' = Finished(w)
  BY DEF Finished, fFinished
<1> QED BY <1>1 DEF EnoughFinished

\* A thread sleeps on while none of its threads finishes or broadcasts.
LEMMA SleepsOn ==
  ASSUME TypeOK, NoMissedEnd,
         \A w \in Thread : pc'[w] \in Sleepy =>
             /\ pc[w] \in Sleepy /\ arg'[w] = arg[w]
             /\ \A c \in arg[w].on : /\ fFinished(c)' = fFinished(c)
                                     /\ pc[c] \in Silent => pc'[c] \in Silent
  PROVE  NoMissedEnd'
<1> SUFFICES ASSUME NEW w \in Thread, pc'[w] \in Sleepy, EnoughFinished(w)'
             PROVE  \E c \in arg'[w].on : pc'[c] \in Silent
  BY DEF NoMissedEnd, Sleepy, Silent
<1>1. EnoughFinished(w)
  BY SameEnds DEF fFinished
<1>2. PICK c \in arg[w].on : pc[c] \in Silent
  BY <1>1 DEF NoMissedEnd, Sleepy, Silent
<1> QED BY <1>2

\* The one who finishes a thread has its broadcast before him, and a broadcast
\* reaches whoever sleeps.
LEMMA EndKept ==
  ASSUME Known, Wakes, NoMissedEnd, [Next]_vars
  PROVE  NoMissedEnd'
<1> USE DEF Known, Goto, With, PCs, InWait, Counted, Holding, Unborn,
            Creating, Runs, Calls, objects, waits
<1>0. TypeOK /\ \A w \in Thread : arg[w].on \subseteq Thread
  BY CallTypes DEF TypeOK
<1>1. ASSUME NEW t \in Thread, NEW u \in Thread, NEW c \in Thread, Share(t, u, c)
      PROVE  NoMissedEnd'
  <2>1. \A w \in Thread : pc'[w] \in Sleepy => pc[w] \in Sleepy /\ arg'[w] = arg[w]
    BY <1>1 DEF Share, TypeOK, Sleepy
  <2>2. \A f \in Thread : /\ fFinished(f)' = fFinished(f)
                          /\ pc[f] \in Silent => pc'[f] \in Silent
    BY <1>1 DEF Share, TypeOK, fFinished, Silent
  <2> QED BY <2>1, <2>2, <1>0, SleepsOn DEF fFinished
<1>2. ASSUME NEW t \in Thread, NEW u \in Thread, NEW c \in Thread, Drop(t, u, c)
      PROVE  NoMissedEnd'
  <2>1. \A w \in Thread : pc'[w] \in Sleepy => pc[w] \in Sleepy /\ arg'[w] = arg[w]
    BY <1>2 DEF Drop, TypeOK, Sleepy
  <2>2. \A f \in Thread : /\ fFinished(f)' = fFinished(f)
                          /\ pc[f] \in Silent => pc'[f] \in Silent
    BY <1>2 DEF Drop, TypeOK, fFinished, Silent
  <2> QED BY <2>1, <2>2, <1>0, SleepsOn DEF fFinished
<1>3. ASSUME NEW t \in Thread, NEW c \in Thread, Start(t, c)
      PROVE  NoMissedEnd'
  <2>1. \A w \in Thread : pc'[w] \in Sleepy => pc[w] \in Sleepy /\ arg'[w] = arg[w]
    BY <1>3 DEF Start, TypeOK, Sleepy
  <2>2. \A f \in Thread : /\ fFinished(f)' = fFinished(f)
                          /\ pc[f] \in Silent => pc'[f] \in Silent
    BY <1>3 DEF Start, TypeOK, fFinished, Silent
  <2> QED BY <2>1, <2>2, <1>0, SleepsOn DEF fFinished
<1>4. ASSUME NEW t \in Thread, NEW c \in Thread, Join(t, c)
      PROVE  NoMissedEnd'
  <2>1. \A w \in Thread : pc'[w] \in Sleepy => pc[w] \in Sleepy /\ arg'[w] = arg[w]
    BY <1>4 DEF Join, TypeOK, Sleepy
  <2>2. \A f \in Thread : /\ fFinished(f)' = fFinished(f)
                          /\ pc[f] \in Silent => pc'[f] \in Silent
    BY <1>4 DEF Join, TypeOK, fFinished, Silent
  <2> QED BY <2>1, <2>2, <1>0, SleepsOn DEF fFinished
<1>5. ASSUME NEW t \in Thread, NEW c \in Thread, Detach(t, c)
      PROVE  NoMissedEnd'
  <2>1. \A w \in Thread : pc'[w] \in Sleepy => pc[w] \in Sleepy /\ arg'[w] = arg[w]
    BY <1>5 DEF Detach, TypeOK, Sleepy
  <2>2. \A f \in Thread : /\ fFinished(f)' = fFinished(f)
                          /\ pc[f] \in Silent => pc'[f] \in Silent
    BY <1>5 DEF Detach, TypeOK, fFinished, Silent
  <2> QED BY <2>1, <2>2, <1>0, SleepsOn DEF fFinished
<1>6. ASSUME NEW t \in Thread, NEW c \in Thread, QuitRequest(t, c)
      PROVE  NoMissedEnd'
  <2>1. \A w \in Thread : pc'[w] \in Sleepy => pc[w] \in Sleepy /\ arg'[w] = arg[w]
    BY <1>6 DEF QuitRequest, TypeOK, Sleepy
  <2>2. \A f \in Thread : /\ fFinished(f)' = fFinished(f)
                          /\ pc[f] \in Silent => pc'[f] \in Silent
    BY <1>6 DEF QuitRequest, TypeOK, fFinished, Silent
  <2> QED BY <2>1, <2>2, <1>0, SleepsOn DEF fFinished
<1>7. ASSUME NEW t \in Thread, NEW call \in Call, Wait(t, call)
      PROVE  NoMissedEnd'
  <2>1. \A w \in Thread : pc'[w] \in Sleepy => pc[w] \in Sleepy /\ arg'[w] = arg[w]
    BY <1>7 DEF Wait, TypeOK, Sleepy
  <2>2. \A f \in Thread : /\ fFinished(f)' = fFinished(f)
                          /\ pc[f] \in Silent => pc'[f] \in Silent
    BY <1>7 DEF Wait, TypeOK, fFinished, Silent
  <2> QED BY <2>1, <2>2, <1>0, SleepsOn DEF fFinished
<1>8. ASSUME NEW t \in Thread, Quit(t)
      PROVE  NoMissedEnd'
  <2>1. \A w \in Thread : pc'[w] \in Sleepy => pc[w] \in Sleepy /\ arg'[w] = arg[w]
    BY <1>8 DEF Quit, TypeOK, Sleepy
  <2>2. \A f \in Thread : /\ fFinished(f)' = fFinished(f)
                          /\ pc[f] \in Silent => pc'[f] \in Silent
    BY <1>8 DEF Quit, TypeOK, fFinished, Silent
  <2> QED BY <2>1, <2>2, <1>0, SleepsOn DEF fFinished
<1>9. ASSUME NEW t \in Thread, Suspend(t)
      PROVE  NoMissedEnd'
  <2>1. \A w \in Thread : pc'[w] \in Sleepy => pc[w] \in Sleepy /\ arg'[w] = arg[w]
    BY <1>9 DEF Suspend, TypeOK, Sleepy
  <2>2. \A f \in Thread : /\ fFinished(f)' = fFinished(f)
                          /\ pc[f] \in Silent => pc'[f] \in Silent
    BY <1>9 DEF Suspend, TypeOK, fFinished, Silent
  <2> QED BY <2>1, <2>2, <1>0, SleepsOn DEF fFinished
<1>10. ASSUME NEW t \in Thread, WaitLock(t)
      PROVE  NoMissedEnd'
  <2>1. \A w \in Thread : pc'[w] \in Sleepy => pc[w] \in Sleepy /\ arg'[w] = arg[w]
    BY <1>10 DEF WaitLock, TypeOK, Sleepy
  <2>2. \A f \in Thread : /\ fFinished(f)' = fFinished(f)
                          /\ pc[f] \in Silent => pc'[f] \in Silent
    BY <1>10 DEF WaitLock, TypeOK, fFinished, Silent
  <2> QED BY <2>1, <2>2, <1>0, SleepsOn DEF fFinished
<1>11. ASSUME NEW t \in Thread, Scan(t)
      PROVE  NoMissedEnd'
  <2>1. CASE Return(t)
    <3>1. \A w \in Thread : pc'[w] \in Sleepy => pc[w] \in Sleepy /\ arg'[w] = arg[w]
      BY <1>11, <2>1 DEF Scan, Return, TypeOK, Sleepy
    <3>2. \A c \in Thread : /\ fFinished(c)' = fFinished(c)
                            /\ pc[c] \in Silent => pc'[c] \in Silent
      BY <1>11, <2>1 DEF Scan, Return, TypeOK, fFinished, Silent
    <3> QED BY <3>1, <3>2, <1>0, SleepsOn DEF fFinished
  <2>2. CASE ~EnoughFinished(t) /\ Goto(t, "committed") /\ arg' = arg
    <3>1. \A w \in Thread \ {t} : pc'[w] = pc[w]
      BY <2>2 DEF TypeOK
    <3>2. \A c \in Thread : /\ fFinished(c)' = fFinished(c)
                            /\ pc[c] \in Silent => pc'[c] \in Silent
      BY <1>11, <2>2 DEF Scan, TypeOK, fFinished, Silent
    <3>3. \A w \in Thread : EnoughFinished(w)' = EnoughFinished(w)
      BY <2>2, <3>2, <1>0, SameEnds DEF fFinished
    <3> SUFFICES ASSUME NEW w \in Thread, pc'[w] \in Sleepy, EnoughFinished(w)'
                 PROVE  \E c \in arg'[w].on : pc'[c] \in Silent
      BY DEF NoMissedEnd, Sleepy, Silent
    <3>4. w # t /\ EnoughFinished(w) /\ pc[w] \in Sleepy
      BY <2>2, <3>1, <3>3
    <3>5. PICK c \in arg[w].on : pc[c] \in Silent
      BY <3>4 DEF NoMissedEnd, Sleepy, Silent
    <3> QED BY <2>2, <3>2, <3>5, <1>0
  <2> QED BY <1>11, <2>1, <2>2 DEF Scan
<1>12. ASSUME NEW t \in Thread, Sleep(t)
      PROVE  NoMissedEnd'
  <2>1. \A w \in Thread : pc'[w] \in Sleepy => pc[w] \in Sleepy /\ arg'[w] = arg[w]
    BY <1>12 DEF Sleep, TypeOK, Sleepy
  <2>2. \A f \in Thread : /\ fFinished(f)' = fFinished(f)
                          /\ pc[f] \in Silent => pc'[f] \in Silent
    BY <1>12 DEF Sleep, TypeOK, fFinished, Silent
  <2> QED BY <2>1, <2>2, <1>0, SleepsOn DEF fFinished
<1>13. ASSUME NEW t \in Thread, TimeOut(t)
      PROVE  NoMissedEnd'
  <2>1. \A w \in Thread : pc'[w] \in Sleepy => pc[w] \in Sleepy /\ arg'[w] = arg[w]
    BY <1>13 DEF TimeOut, TypeOK, Sleepy
  <2>2. \A f \in Thread : /\ fFinished(f)' = fFinished(f)
                          /\ pc[f] \in Silent => pc'[f] \in Silent
    BY <1>13 DEF TimeOut, TypeOK, fFinished, Silent
  <2> QED BY <2>1, <2>2, <1>0, SleepsOn DEF fFinished
<1>14. ASSUME NEW t \in Thread, Relock(t)
      PROVE  NoMissedEnd'
  <2>1. \A w \in Thread : pc'[w] \in Sleepy => pc[w] \in Sleepy /\ arg'[w] = arg[w]
    BY <1>14 DEF Relock, TypeOK, Sleepy
  <2>2. \A f \in Thread : /\ fFinished(f)' = fFinished(f)
                          /\ pc[f] \in Silent => pc'[f] \in Silent
    BY <1>14 DEF Relock, TypeOK, fFinished, Silent
  <2> QED BY <2>1, <2>2, <1>0, SleepsOn DEF fFinished
<1>15. ASSUME NEW t \in Thread, Reenter(t)
      PROVE  NoMissedEnd'
  <2>1. \A w \in Thread : pc'[w] \in Sleepy => pc[w] \in Sleepy /\ arg'[w] = arg[w]
    BY <1>15 DEF Reenter, Return, TypeOK, Sleepy
  <2>2. \A f \in Thread : /\ fFinished(f)' = fFinished(f)
                          /\ pc[f] \in Silent => pc'[f] \in Silent
    BY <1>15 DEF Reenter, Return, TypeOK, fFinished, Silent
  <2> QED BY <2>1, <2>2, <1>0, SleepsOn DEF fFinished
<1>16. ASSUME NEW t \in Thread, Finish(t)
      PROVE  NoMissedEnd'
  <2>1. /\ pc' = [pc EXCEPT ![t] = "finished"] /\ arg' = arg
        /\ pc[t] = "quitting"
    BY <1>16 DEF Finish
  <2>2. \A c \in Thread \ {t} : fFinished(c)' = fFinished(c)
    BY <2>1 DEF TypeOK, fFinished
  <2>3. \A c \in Thread : pc[c] \in Silent => pc'[c] \in Silent
    BY <2>1 DEF TypeOK, Silent
  <2> SUFFICES ASSUME NEW w \in Thread, pc'[w] \in Sleepy, EnoughFinished(w)'
               PROVE  \E c \in arg'[w].on : pc'[c] \in Silent
    BY DEF NoMissedEnd, Sleepy, Silent
  <2>4. CASE t \in arg[w].on
    BY <2>1, <2>4 DEF TypeOK, Silent
  <2>5. CASE t \notin arg[w].on
    <3>1. pc[w] \in Sleepy
      BY <2>1 DEF TypeOK, Sleepy
    <3>2. EnoughFinished(w)
      BY <2>1, <2>2, <2>5, <1>0, SameEnds DEF fFinished
    <3>3. PICK c \in arg[w].on : pc[c] \in Silent
      BY <3>1, <3>2 DEF NoMissedEnd, Sleepy, Silent
    <3> QED BY <2>1, <2>3, <3>3, <1>0
  <2> QED BY <2>4, <2>5
<1>17. ASSUME NEW t \in Thread, ReleaseSelf(t)
      PROVE  NoMissedEnd'
  <2>1. \A w \in Thread : pc'[w] \in Sleepy => pc[w] \in Sleepy /\ arg'[w] = arg[w]
    BY <1>17 DEF ReleaseSelf, TypeOK, Sleepy
  <2>2. \A f \in Thread : /\ fFinished(f)' = fFinished(f)
                          /\ pc[f] \in Silent => pc'[f] \in Silent
    BY <1>17 DEF ReleaseSelf, TypeOK, fFinished, Silent
  <2> QED BY <2>1, <2>2, <1>0, SleepsOn DEF fFinished
<1>18. ASSUME NEW t \in Thread, Signal(t)
      PROVE  NoMissedEnd'
  <2>1. \A w \in Thread : pc'[w] \notin Sleepy
    BY <1>18, ThreadAssumption DEF Signal, TypeOK, Wakes, MutexHeld, SleepersCounted, Sleepy
  <2> QED BY <2>1 DEF NoMissedEnd, Sleepy
<1>19. ASSUME NEW t \in Thread, Create(t)
      PROVE  NoMissedEnd'
  <2>1. PICK c \in Thread :
             /\ arg[t].on = {c} /\ pc[c] = "registered" /\ pc[t] = "creating"
             /\ pc' = [pc EXCEPT ![t] = "assigning", ![c] = "created"]
             /\ arg' = arg
    BY <1>19, CallTypes DEF Create, TypeOK, Creators
  <2>2. \A w \in Thread : pc'[w] \in Sleepy => pc[w] \in Sleepy
    BY <2>1 DEF TypeOK, Sleepy
  <2>3. \A d \in Thread : /\ fFinished(d)' = fFinished(d)
                          /\ pc[d] \in Silent => pc'[d] \in Silent
    BY <2>1 DEF TypeOK, fFinished, Silent
  <2> QED BY <2>1, <2>2, <2>3, <1>0, SleepsOn DEF fFinished
<1>20. ASSUME NEW t \in Thread, CreateFails(t)
      PROVE  NoMissedEnd'
  <2>1. PICK c \in Thread :
             /\ arg[t].on = {c} /\ pc[c] = "registered" /\ pc[t] = "creating"
             /\ pc' = [pc EXCEPT ![t] = "run", ![c] = "failed"]
             /\ arg' = [arg EXCEPT ![t] = NoCall]
    BY <1>20, CallTypes DEF CreateFails, TypeOK, Creators
  <2>2. \A w \in Thread : pc'[w] \in Sleepy => pc[w] \in Sleepy /\ arg'[w] = arg[w]
    BY <2>1 DEF TypeOK, Sleepy
  <2>3. \A d \in Thread \ {c} : /\ fFinished(d)' = fFinished(d)
                                /\ pc[d] \in Silent => pc'[d] \in Silent
    BY <2>1 DEF TypeOK, fFinished, Silent
  <2>4. \A w \in Thread : pc[w] \in Sleepy => c \notin arg[w].on
    BY <2>1 DEF Holders, Sleepy
  <2> QED BY <2>2, <2>3, <2>4, <1>0, SleepsOn DEF fFinished
<1>21. ASSUME NEW t \in Thread, Assign(t)
      PROVE  NoMissedEnd'
  <2>1. \A w \in Thread : pc'[w] \in Sleepy => pc[w] \in Sleepy /\ arg'[w] = arg[w]
    BY <1>21 DEF Assign, TypeOK, Sleepy
  <2>2. \A f \in Thread : /\ fFinished(f)' = fFinished(f)
                          /\ pc[f] \in Silent => pc'[f] \in Silent
    BY <1>21 DEF Assign, TypeOK, fFinished, Silent
  <2> QED BY <2>1, <2>2, <1>0, SleepsOn DEF fFinished
<1>22. ASSUME NEW t \in Thread, Joined(t)
      PROVE  NoMissedEnd'
  <2>1. \A w \in Thread : pc'[w] \in Sleepy => pc[w] \in Sleepy /\ arg'[w] = arg[w]
    BY <1>22 DEF Joined, TypeOK, Sleepy
  <2>2. \A f \in Thread : /\ fFinished(f)' = fFinished(f)
                          /\ pc[f] \in Silent => pc'[f] \in Silent
    BY <1>22 DEF Joined, TypeOK, fFinished, Silent
  <2> QED BY <2>1, <2>2, <1>0, SleepsOn DEF fFinished
<1>23. ASSUME NEW t \in Thread, Granted(t)
      PROVE  NoMissedEnd'
  <2>1. \A w \in Thread : pc'[w] \in Sleepy => pc[w] \in Sleepy /\ arg'[w] = arg[w]
    BY <1>23 DEF Granted, TypeOK, Sleepy
  <2>2. \A f \in Thread : /\ fFinished(f)' = fFinished(f)
                          /\ pc[f] \in Silent => pc'[f] \in Silent
    BY <1>23 DEF Granted, TypeOK, fFinished, Silent
  <2> QED BY <2>1, <2>2, <1>0, SleepsOn DEF fFinished
<1>24. ASSUME NEW t \in Thread, Resume(t)
      PROVE  NoMissedEnd'
  <2>1. \A w \in Thread : pc'[w] \in Sleepy => pc[w] \in Sleepy /\ arg'[w] = arg[w]
    BY <1>24 DEF Resume, TypeOK, Sleepy
  <2>2. \A f \in Thread : /\ fFinished(f)' = fFinished(f)
                          /\ pc[f] \in Silent => pc'[f] \in Silent
    BY <1>24 DEF Resume, TypeOK, fFinished, Silent
  <2> QED BY <2>1, <2>2, <1>0, SleepsOn DEF fFinished
<1>25. ASSUME NEW t \in Thread, Pause(t)
      PROVE  NoMissedEnd'
  <2>1. \A w \in Thread : pc'[w] \in Sleepy => pc[w] \in Sleepy /\ arg'[w] = arg[w]
    BY <1>25 DEF Pause, TypeOK, Sleepy
  <2>2. \A f \in Thread : /\ fFinished(f)' = fFinished(f)
                          /\ pc[f] \in Silent => pc'[f] \in Silent
    BY <1>25 DEF Pause, TypeOK, fFinished, Silent
  <2> QED BY <2>1, <2>2, <1>0, SleepsOn DEF fFinished
<1>26. ASSUME NEW t \in Thread, VMLock(t)
      PROVE  NoMissedEnd'
  <2>1. \A w \in Thread : pc'[w] \in Sleepy => pc[w] \in Sleepy /\ arg'[w] = arg[w]
    BY <1>26 DEF VMLock, TypeOK, Sleepy
  <2>2. \A f \in Thread : /\ fFinished(f)' = fFinished(f)
                          /\ pc[f] \in Silent => pc'[f] \in Silent
    BY <1>26 DEF VMLock, TypeOK, fFinished, Silent
  <2> QED BY <2>1, <2>2, <1>0, SleepsOn DEF fFinished
<1>27. ASSUME NEW t \in Thread, WakeUp(t)
      PROVE  NoMissedEnd'
  <2>1. \A w \in Thread : pc'[w] \in Sleepy => pc[w] \in Sleepy /\ arg'[w] = arg[w]
    BY <1>27 DEF WakeUp, TypeOK, Sleepy
  <2>2. \A f \in Thread : /\ fFinished(f)' = fFinished(f)
                          /\ pc[f] \in Silent => pc'[f] \in Silent
    BY <1>27 DEF WakeUp, TypeOK, fFinished, Silent
  <2> QED BY <2>1, <2>2, <1>0, SleepsOn DEF fFinished
<1>28. CASE UNCHANGED vars
  <2>1. pc' = pc /\ arg' = arg
    BY <1>28 DEF vars
  <2>2. \A c \in Thread : fFinished(c)' = fFinished(c)
    BY <2>1 DEF fFinished
  <2> QED BY <2>1, <2>2, <1>0, SleepsOn DEF fFinished
<1> QED
  BY <1>1, <1>2, <1>3, <1>4, <1>5, <1>6, <1>7, <1>8, <1>9, <1>10, <1>11,
     <1>12, <1>13, <1>14, <1>15, <1>16, <1>17, <1>18, <1>19, <1>20, <1>21,
     <1>22, <1>23, <1>24, <1>25, <1>26, <1>27, <1>28
     DEF Next, Step, Working, Going, Waiting, Ending
-----------------------------------------------------------------------------
(* The promise of hb_vmSuspendThreads.                                     *)

Stopping == {"asking", "collecting"}

\* There is one request at a time, and nobody else inside once it is granted.
Stops ==
    /\ \A t, u \in Thread : pc[t] \in Stopping /\ pc[u] \in Stopping => t = u
    /\ \A t, u \in Thread : pc[t] = "collecting" /\ pc[u] \in Counted => t = u

\* Every step keeps to that.
LEMMA StopsKept ==
  ASSUME Known, Stops, [Next]_vars
  PROVE  Stops'
<1> USE DEF TypeOK, Known, Stops, Stopping, Goto, With, PCs, InWait, Counted,
            Runs, Calls, objects, waits, Stoppers, Inside
<1>1. ASSUME NEW t \in Thread, NEW u \in Thread, NEW c \in Thread, Share(t, u, c)
      PROVE  Stops'
  BY <1>1 DEF Share
<1>2. ASSUME NEW t \in Thread, NEW u \in Thread, NEW c \in Thread, Drop(t, u, c)
      PROVE  Stops'
  BY <1>2 DEF Drop
<1>3. ASSUME NEW t \in Thread, NEW c \in Thread, Start(t, c)
      PROVE  Stops'
  BY <1>3 DEF Start
<1>4. ASSUME NEW t \in Thread, NEW c \in Thread, Join(t, c)
      PROVE  Stops'
  BY <1>4 DEF Join
<1>5. ASSUME NEW t \in Thread, NEW c \in Thread, Detach(t, c)
      PROVE  Stops'
  BY <1>5 DEF Detach
<1>6. ASSUME NEW t \in Thread, NEW c \in Thread, QuitRequest(t, c)
      PROVE  Stops'
  BY <1>6 DEF QuitRequest
<1>7. ASSUME NEW t \in Thread, NEW call \in Call, Wait(t, call)
      PROVE  Stops'
  BY <1>7 DEF Wait
<1>8. ASSUME NEW t \in Thread, Quit(t)
      PROVE  Stops'
  BY <1>8 DEF Quit
<1>9. ASSUME NEW t \in Thread, Suspend(t)
      PROVE  Stops'
  BY <1>9 DEF Suspend
<1>10. ASSUME NEW t \in Thread, WaitLock(t)
      PROVE  Stops'
  BY <1>10 DEF WaitLock
<1>11. ASSUME NEW t \in Thread, Scan(t)
      PROVE  Stops'
  BY <1>11 DEF Scan, Return
<1>12. ASSUME NEW t \in Thread, Sleep(t)
      PROVE  Stops'
  BY <1>12 DEF Sleep
<1>13. ASSUME NEW t \in Thread, TimeOut(t)
      PROVE  Stops'
  BY <1>13 DEF TimeOut
<1>14. ASSUME NEW t \in Thread, Relock(t)
      PROVE  Stops'
  BY <1>14 DEF Relock
<1>15. ASSUME NEW t \in Thread, Reenter(t)
      PROVE  Stops'
  BY <1>15 DEF Reenter, Return
<1>16. ASSUME NEW t \in Thread, Finish(t)
      PROVE  Stops'
  BY <1>16 DEF Finish
<1>17. ASSUME NEW t \in Thread, ReleaseSelf(t)
      PROVE  Stops'
  BY <1>17 DEF ReleaseSelf
<1>18. ASSUME NEW t \in Thread, Signal(t)
      PROVE  Stops'
  BY <1>18 DEF Signal
<1>19. ASSUME NEW t \in Thread, Create(t)
      PROVE  Stops'
  <2>1. PICK c \in Thread :
             /\ arg[t].on = {c} /\ pc[c] = "registered"
             /\ pc' = [pc EXCEPT ![t] = "assigning", ![c] = "created"]
    BY <1>19, CallTypes DEF Creators, Creating, Create
  <2>2. /\ pc[t] = "creating" /\ pc'[t] = "assigning" /\ pc'[c] = "created"
        /\ \A u \in Thread \ {t, c} : pc'[u] = pc[u]
    BY <1>19, <2>1 DEF Create
  <2> QED BY <1>19, <2>1, <2>2 DEF Create
<1>20. ASSUME NEW t \in Thread, CreateFails(t)
      PROVE  Stops'
  <2>1. PICK c \in Thread :
             /\ arg[t].on = {c} /\ pc[c] = "registered"
             /\ pc' = [pc EXCEPT ![t] = "run", ![c] = "failed"]
    BY <1>20, CallTypes DEF Creators, Creating, CreateFails
  <2>2. /\ pc[t] = "creating" /\ pc'[t] = "run" /\ pc'[c] = "failed"
        /\ \A u \in Thread \ {t, c} : pc'[u] = pc[u]
    BY <1>20, <2>1 DEF CreateFails
  <2> QED BY <1>20, <2>1, <2>2 DEF CreateFails
<1>21. ASSUME NEW t \in Thread, Assign(t)
      PROVE  Stops'
  BY <1>21 DEF Assign
<1>22. ASSUME NEW t \in Thread, Joined(t)
      PROVE  Stops'
  BY <1>22 DEF Joined
<1>23. ASSUME NEW t \in Thread, Granted(t)
      PROVE  Stops'
  BY <1>23 DEF Granted
<1>24. ASSUME NEW t \in Thread, Resume(t)
      PROVE  Stops'
  BY <1>24 DEF Resume
<1>25. ASSUME NEW t \in Thread, Pause(t)
      PROVE  Stops'
  BY <1>25 DEF Pause
<1>26. ASSUME NEW t \in Thread, VMLock(t)
      PROVE  Stops'
  BY <1>26 DEF VMLock
<1>27. ASSUME NEW t \in Thread, WakeUp(t)
      PROVE  Stops'
  BY <1>27 DEF WakeUp
<1>28. CASE UNCHANGED vars
  BY <1>28 DEF vars, objects, waits
<1> QED
  BY <1>1, <1>2, <1>3, <1>4, <1>5, <1>6, <1>7, <1>8, <1>9, <1>10, <1>11,
     <1>12, <1>13, <1>14, <1>15, <1>16, <1>17, <1>18, <1>19, <1>20, <1>21,
     <1>22, <1>23, <1>24, <1>25, <1>26, <1>27, <1>28
     DEF Next, Step, Working, Going, Waiting, Ending
-----------------------------------------------------------------------------
(* Objects live as long as they are needed.                                *)

\* Threads that have no pThItm, and calls that need the items they were given.
Selfless == {"none", "failed", "ending", "ended"}
Needing == Creating \cup {"joining", "joined"}

\* What has been destroyed has no item left, and every thread keeps the items
\* of its call; those of hb_threadWait only if nobody changes its array.
Destroyed ==
    \A c \in destroyed : /\ c \notin self /\ c \notin th_h /\ pc[c] # "none"
                         /\ \A t \in Thread : <<t, c>> \notin holds
Selves == \A c \in Thread : c \in self <=> pc[c] \notin Selfless
Needed ==
    \A t, c \in Thread :
        pc[t] \in Needing \/ (~SharedArrays /\ pc[t] \in InWait) =>
            (c \in arg[t].on => <<t, c>> \in holds)
Lives == Destroyed /\ Selves /\ Needed

\* Every step keeps to that.
LEMMA LivesKept ==
  ASSUME Known, Lives, [Next]_vars
  PROVE  Lives'
<1> USE DEF TypeOK, Known, Lives, Destroyed, Selves, Needed, Needing,
            Selfless, Goto, With, PCs, InWait, Counted, Unborn, Creating,
            Runs, Calls, objects, waits
<1>1. ASSUME NEW t \in Thread, NEW u \in Thread, NEW c \in Thread, Share(t, u, c)
      PROVE  Lives'
  BY <1>1, CallTypes DEF Share, Keep
<1>2. ASSUME NEW t \in Thread, NEW u \in Thread, NEW c \in Thread, Drop(t, u, c)
      PROVE  Lives'
  BY <1>2, CallTypes DEF Drop, Keep
<1>3. ASSUME NEW t \in Thread, NEW c \in Thread, Start(t, c)
      PROVE  Lives'
  BY <1>3, CallTypes DEF Start
<1>4. ASSUME NEW t \in Thread, NEW c \in Thread, Join(t, c)
      PROVE  Lives'
  BY <1>4, CallTypes DEF Join
<1>5. ASSUME NEW t \in Thread, NEW c \in Thread, Detach(t, c)
      PROVE  Lives'
  BY <1>5, CallTypes DEF Detach
<1>6. ASSUME NEW t \in Thread, NEW c \in Thread, QuitRequest(t, c)
      PROVE  Lives'
  BY <1>6, CallTypes DEF QuitRequest
<1>7. ASSUME NEW t \in Thread, NEW call \in Call, Wait(t, call)
      PROVE  Lives'
  BY <1>7, CallTypes DEF Wait
<1>8. ASSUME NEW t \in Thread, Quit(t)
      PROVE  Lives'
  BY <1>8, CallTypes DEF Quit, Keep
<1>9. ASSUME NEW t \in Thread, Suspend(t)
      PROVE  Lives'
  BY <1>9, CallTypes DEF Suspend
<1>10. ASSUME NEW t \in Thread, WaitLock(t)
      PROVE  Lives'
  BY <1>10, CallTypes DEF WaitLock
<1>11. ASSUME NEW t \in Thread, Scan(t)
      PROVE  Lives'
  BY <1>11, CallTypes DEF Scan, Return
<1>12. ASSUME NEW t \in Thread, Sleep(t)
      PROVE  Lives'
  BY <1>12, CallTypes DEF Sleep
<1>13. ASSUME NEW t \in Thread, TimeOut(t)
      PROVE  Lives'
  BY <1>13, CallTypes DEF TimeOut
<1>14. ASSUME NEW t \in Thread, Relock(t)
      PROVE  Lives'
  BY <1>14, CallTypes DEF Relock
<1>15. ASSUME NEW t \in Thread, Reenter(t)
      PROVE  Lives'
  BY <1>15, CallTypes DEF Reenter, Return
<1>16. ASSUME NEW t \in Thread, Finish(t)
      PROVE  Lives'
  BY <1>16, CallTypes DEF Finish
<1>17. ASSUME NEW t \in Thread, ReleaseSelf(t)
      PROVE  Lives'
  BY <1>17, CallTypes DEF ReleaseSelf, Keep
<1>18. ASSUME NEW t \in Thread, Signal(t)
      PROVE  Lives'
  BY <1>18, CallTypes DEF Signal
<1>19. ASSUME NEW t \in Thread, Create(t)
      PROVE  Lives'
  <2>1. PICK c \in Thread :
             /\ arg[t].on = {c} /\ pc[c] = "registered"
             /\ pc' = [pc EXCEPT ![t] = "assigning", ![c] = "created"]
    BY <1>19, CallTypes DEF Creators, Creating, Create
  <2>2. /\ pc[t] = "creating" /\ pc'[t] = "assigning" /\ pc'[c] = "created"
        /\ \A u \in Thread \ {t, c} : pc'[u] = pc[u]
    BY <1>19, <2>1 DEF Create
  <2> QED BY <1>19, <2>1, <2>2 DEF Create
<1>20. ASSUME NEW t \in Thread, CreateFails(t)
      PROVE  Lives'
  BY <1>20, CallTypes DEF CreateFails, Keep
<1>21. ASSUME NEW t \in Thread, Assign(t)
      PROVE  Lives'
  <2>1. arg[t].on \cap destroyed = {} /\ arg[t].on \subseteq Thread
    BY <1>21, CallTypes DEF Assign
  <2>2. Destroyed'
    BY <1>21, <2>1 DEF Assign
  <2>3. Selves' /\ Needed'
    BY <1>21, CallTypes DEF Assign
  <2> QED BY <2>2, <2>3
<1>22. ASSUME NEW t \in Thread, Joined(t)
      PROVE  Lives'
  BY <1>22, CallTypes DEF Joined
<1>23. ASSUME NEW t \in Thread, Granted(t)
      PROVE  Lives'
  BY <1>23, CallTypes DEF Granted
<1>24. ASSUME NEW t \in Thread, Resume(t)
      PROVE  Lives'
  BY <1>24, CallTypes DEF Resume
<1>25. ASSUME NEW t \in Thread, Pause(t)
      PROVE  Lives'
  BY <1>25, CallTypes DEF Pause
<1>26. ASSUME NEW t \in Thread, VMLock(t)
      PROVE  Lives'
  BY <1>26, CallTypes DEF VMLock
<1>27. ASSUME NEW t \in Thread, WakeUp(t)
      PROVE  Lives'
  BY <1>27, CallTypes DEF WakeUp
<1>28. CASE UNCHANGED vars
  BY <1>28, CallTypes DEF vars, objects, waits
<1> QED
  BY <1>1, <1>2, <1>3, <1>4, <1>5, <1>6, <1>7, <1>8, <1>9, <1>10, <1>11,
     <1>12, <1>13, <1>14, <1>15, <1>16, <1>17, <1>18, <1>19, <1>20, <1>21,
     <1>22, <1>23, <1>24, <1>25, <1>26, <1>27, <1>28
     DEF Next, Step, Working, Going, Waiting, Ending
-----------------------------------------------------------------------------
(* Handles are given back once, if nobody joins or detaches a thread that  *)
(* somebody else is joining.                                               *)

\* hb_threadStart has yet to set th_h; the handle of a thread that runs is open
\* from then on until it is given back.
Assigning ==
    {c \in Thread : \E t \in Thread : pc[t] = "assigning" /\ c \in arg[t].on}

HandleState ==
    \A c \in Thread :
        /\ pc[c] \in Unborn => c \notin th_h
        /\ pc[c] \in Unborn \/ c \in th_h \cup Assigning => reclaimed[c] = 0
        /\ c \in Assigning => c \notin th_h
        /\ pc[c] \notin Unborn /\ c \notin th_h \cup Assigning /\ c # Main
             => reclaimed[c] = 1
MainApart ==
    /\ Main \in self /\ Main \notin th_h /\ reclaimed[Main] = 0
    /\ pc[Main] \notin Unborn \cup {"created", "quitting", "finished"}
    /\ \A t \in Thread : pc[t] \in Creating => Main \notin arg[t].on
OneJoiner ==
    /\ \A t, c \in Thread : pc[t] = "joining" /\ c \in arg[t].on => c \in th_h
    /\ \A t, u, c \in Thread :
           /\ pc[t] = "joining" /\ c \in arg[t].on
           /\ pc[u] = "joining" /\ c \in arg[u].on
           => t = u
Handled == HandleState /\ MainApart /\ OneJoiner

\* The handles that destructors give back.
LEMMA KeepHandles ==
  ASSUME TypeOK, NEW items, NEW selves, Keep(items, selves)
  PROVE  /\ self' = selves /\ holds' = items
         /\ \A c \in Thread :
               IF c \in th_h /\ c \notin th_h'
               THEN /\ c \notin selves /\ \A t \in Thread : <<t, c>> \notin items
                    /\ reclaimed'[c] = reclaimed[c] + 1
               ELSE (c \in th_h <=> c \in th_h') /\ reclaimed'[c] = reclaimed[c]
BY DEF TypeOK, Keep

\* Every step keeps to that.
LEMMA HandledKept ==
  ASSUME SharedHandles = FALSE, Known, Lives, Handled, [Next]_vars
  PROVE  Handled'
<1>0. Lives'
  BY LivesKept
<1> USE DEF TypeOK, Known, Lives, Destroyed, Selves, Needed, Handled,
            HandleState, MainApart, OneJoiner, Needing, Selfless, Goto, With,
            PCs, InWait, Counted, Unborn, Creating, Runs, Calls, objects,
            waits
<1>1. ASSUME NEW t \in Thread, NEW u \in Thread, NEW c \in Thread, Share(t, u, c)
      PROVE  Handled'
  <2>1. Keep(holds \cup {<<u, c>>}, self)
    BY <1>1 DEF Share
  <2>2. /\ Assigning' = Assigning /\ arg' = arg
        /\ \A v \in Thread : pc'[v] = "joining" => pc[v] = "joining"
    BY <1>1 DEF Share, Assigning
  <2>3. HandleState'
    BY <1>1, <2>1, <2>2, KeepHandles DEF Share
  <2>4. MainApart'
    BY <1>1, <2>1, KeepHandles, ThreadAssumption DEF Share
  <2>5. \A v, d \in Thread :
           pc'[v] = "joining" /\ d \in arg'[v].on => d \in th_h'
    <3>1. \A v, d \in Thread :
             pc'[v] = "joining" /\ d \in arg'[v].on => <<v, d>> \in holds'
      BY <1>0
    <3>2. \A d \in Thread : d \in th_h /\ d \notin th_h' =>
             \A v \in Thread : <<v, d>> \notin holds'
      BY <2>1, KeepHandles
    <3> QED BY <2>2, <3>1, <3>2
  <2>6. OneJoiner'
    BY <2>2, <2>5
  <2> QED BY <2>3, <2>4, <2>6
<1>2. ASSUME NEW t \in Thread, NEW u \in Thread, NEW c \in Thread, Drop(t, u, c)
      PROVE  Handled'
  <2>1. Keep(holds \ {<<u, c>>}, self)
    BY <1>2 DEF Drop
  <2>2. /\ Assigning' = Assigning /\ arg' = arg
        /\ \A v \in Thread : pc'[v] = "joining" => pc[v] = "joining"
    BY <1>2 DEF Drop, Assigning
  <2>3. HandleState'
    BY <1>2, <2>1, <2>2, KeepHandles DEF Drop
  <2>4. MainApart'
    BY <1>2, <2>1, KeepHandles, ThreadAssumption DEF Drop
  <2>5. \A v, d \in Thread :
           pc'[v] = "joining" /\ d \in arg'[v].on => d \in th_h'
    <3>1. \A v, d \in Thread :
             pc'[v] = "joining" /\ d \in arg'[v].on => <<v, d>> \in holds'
      BY <1>0
    <3>2. \A d \in Thread : d \in th_h /\ d \notin th_h' =>
             \A v \in Thread : <<v, d>> \notin holds'
      BY <2>1, KeepHandles
    <3> QED BY <2>2, <3>1, <3>2
  <2>6. OneJoiner'
    BY <2>2, <2>5
  <2> QED BY <2>3, <2>4, <2>6
<1>3. ASSUME NEW t \in Thread, NEW c \in Thread, Start(t, c)
      PROVE  Handled'
  <2>1. Assigning' = Assigning
    BY <1>3, CallTypes DEF Start, Assigning
  <2> QED BY <1>3, <2>1, CallTypes, ThreadAssumption DEF Start
<1>4. ASSUME NEW t \in Thread, NEW c \in Thread, Join(t, c)
      PROVE  Handled'
  <2>0. Assigning' = Assigning
    BY <1>4, CallTypes DEF Join, Joiners, Creators, Assigning
  <2>1. HandleState'
    BY <1>4, <2>0, CallTypes DEF Join, Joiners, Creators
  <2>2. MainApart'
    BY <1>4, CallTypes, ThreadAssumption DEF Join, Joiners, Creators
  <2>3. /\ th_h' = th_h /\ c \in th_h
        /\ pc'[t] = "joining" /\ arg'[t].on = {c}
        /\ \A v \in Thread \ {t} :
              /\ pc'[v] = pc[v] /\ arg'[v] = arg[v]
              /\ ~(pc[v] = "joining" /\ arg[v].on = {c})
    BY <1>4, CallTypes DEF Join, Joiners, On
  <2>4. \A v \in Thread \ {t} : pc[v] = "joining" => c \notin arg[v].on
    BY <2>3 DEF Creators
  <2>5. OneJoiner'
    <3> HIDE DEF Known, Lives, HandleState, MainApart
    <3> QED BY <2>3, <2>4
  <2> QED BY <2>1, <2>2, <2>5
<1>5. ASSUME NEW t \in Thread, NEW c \in Thread, Detach(t, c)
      PROVE  Handled'
  <2>0. Assigning' = Assigning
    BY <1>5, CallTypes DEF Detach, Joiners, Creators, Assigning
  <2>1. HandleState'
    BY <1>5, <2>0, CallTypes DEF Detach, Joiners, Creators
  <2>2. MainApart'
    BY <1>5, CallTypes, ThreadAssumption DEF Detach, Joiners, Creators
  <2>3. OneJoiner'
    BY <1>5, CallTypes DEF Detach, Joiners, Creators
  <2> QED BY <2>1, <2>2, <2>3
<1>6. ASSUME NEW t \in Thread, NEW c \in Thread, QuitRequest(t, c)
      PROVE  Handled'
  <2>1. Assigning' = Assigning
    BY <1>6, CallTypes DEF QuitRequest, Assigning
  <2> QED BY <1>6, <2>1, CallTypes, ThreadAssumption DEF QuitRequest
<1>7. ASSUME NEW t \in Thread, NEW call \in Call, Wait(t, call)
      PROVE  Handled'
  <2>1. Assigning' = Assigning
    BY <1>7, CallTypes DEF Wait, Assigning
  <2> QED BY <1>7, <2>1, CallTypes, ThreadAssumption DEF Wait
<1>8. ASSUME NEW t \in Thread, Quit(t)
      PROVE  Handled'
  <2>1. Keep({i \in holds : i[1] # t}, self)
    BY <1>8 DEF Quit
  <2>2. /\ Assigning' = Assigning /\ arg' = arg
        /\ \A v \in Thread : pc'[v] = "joining" => pc[v] = "joining"
    BY <1>8 DEF Quit, Assigning
  <2>3. HandleState'
    BY <1>8, <2>1, <2>2, KeepHandles DEF Quit
  <2>4. MainApart'
    BY <1>8, <2>1, KeepHandles, ThreadAssumption DEF Quit
  <2>5. \A v, d \in Thread :
           pc'[v] = "joining" /\ d \in arg'[v].on => d \in th_h'
    <3>1. \A v, d \in Thread :
             pc'[v] = "joining" /\ d \in arg'[v].on => <<v, d>> \in holds'
      BY <1>0
    <3>2. \A d \in Thread : d \in th_h /\ d \notin th_h' =>
             \A v \in Thread : <<v, d>> \notin holds'
      BY <2>1, KeepHandles
    <3> QED BY <2>2, <3>1, <3>2
  <2>6. OneJoiner'
    BY <2>2, <2>5
  <2> QED BY <2>3, <2>4, <2>6
<1>9. ASSUME NEW t \in Thread, Suspend(t)
      PROVE  Handled'
  <2>1. Assigning' = Assigning
    BY <1>9, CallTypes DEF Suspend, Assigning
  <2> QED BY <1>9, <2>1, CallTypes, ThreadAssumption DEF Suspend
<1>10. ASSUME NEW t \in Thread, WaitLock(t)
      PROVE  Handled'
  <2>1. Assigning' = Assigning
    BY <1>10, CallTypes DEF WaitLock, Assigning
  <2> QED BY <1>10, <2>1, CallTypes, ThreadAssumption DEF WaitLock
<1>11. ASSUME NEW t \in Thread, Scan(t)
      PROVE  Handled'
  <2>1. Assigning' = Assigning
    BY <1>11, CallTypes DEF Scan, Return, Assigning
  <2> QED BY <1>11, <2>1, CallTypes, ThreadAssumption DEF Scan, Return
<1>12. ASSUME NEW t \in Thread, Sleep(t)
      PROVE  Handled'
  <2>1. Assigning' = Assigning
    BY <1>12, CallTypes DEF Sleep, Assigning
  <2> QED BY <1>12, <2>1, CallTypes, ThreadAssumption DEF Sleep
<1>13. ASSUME NEW t \in Thread, TimeOut(t)
      PROVE  Handled'
  <2>1. Assigning' = Assigning
    BY <1>13, CallTypes DEF TimeOut, Assigning
  <2> QED BY <1>13, <2>1, CallTypes, ThreadAssumption DEF TimeOut
<1>14. ASSUME NEW t \in Thread, Relock(t)
      PROVE  Handled'
  <2>1. Assigning' = Assigning
    BY <1>14, CallTypes DEF Relock, Assigning
  <2> QED BY <1>14, <2>1, CallTypes, ThreadAssumption DEF Relock
<1>15. ASSUME NEW t \in Thread, Reenter(t)
      PROVE  Handled'
  <2>1. Assigning' = Assigning
    BY <1>15, CallTypes DEF Reenter, Return, Assigning
  <2> QED BY <1>15, <2>1, CallTypes, ThreadAssumption DEF Reenter, Return
<1>16. ASSUME NEW t \in Thread, Finish(t)
      PROVE  Handled'
  <2>1. Assigning' = Assigning
    BY <1>16, CallTypes DEF Finish, Assigning
  <2> QED BY <1>16, <2>1, CallTypes, ThreadAssumption DEF Finish
<1>17. ASSUME NEW t \in Thread, ReleaseSelf(t)
      PROVE  Handled'
  <2>1. Keep(holds, self \ {t})
    BY <1>17 DEF ReleaseSelf
  <2>2. /\ Assigning' = Assigning /\ arg' = arg
        /\ \A v \in Thread : pc'[v] = "joining" => pc[v] = "joining"
    BY <1>17 DEF ReleaseSelf, Assigning
  <2>3. HandleState'
    BY <1>17, <2>1, <2>2, KeepHandles DEF ReleaseSelf
  <2>4. MainApart'
    BY <1>17, <2>1, KeepHandles, ThreadAssumption DEF ReleaseSelf
  <2>5. \A v, d \in Thread :
           pc'[v] = "joining" /\ d \in arg'[v].on => d \in th_h'
    <3>1. \A v, d \in Thread :
             pc'[v] = "joining" /\ d \in arg'[v].on => <<v, d>> \in holds'
      BY <1>0
    <3>2. \A d \in Thread : d \in th_h /\ d \notin th_h' =>
             \A v \in Thread : <<v, d>> \notin holds'
      BY <2>1, KeepHandles
    <3> QED BY <2>2, <3>1, <3>2
  <2>6. OneJoiner'
    BY <2>2, <2>5
  <2> QED BY <2>3, <2>4, <2>6
<1>18. ASSUME NEW t \in Thread, Signal(t)
      PROVE  Handled'
  <2>1. Assigning' = Assigning
    BY <1>18, CallTypes DEF Signal, Assigning
  <2> QED BY <1>18, <2>1, CallTypes, ThreadAssumption DEF Signal
<1>19. ASSUME NEW t \in Thread, Create(t)
      PROVE  Handled'
  <2>1. PICK c \in Thread :
             /\ arg[t].on = {c} /\ pc[c] = "registered"
             /\ pc' = [pc EXCEPT ![t] = "assigning", ![c] = "created"]
    BY <1>19, CallTypes DEF Create, Creators
  <2>2. /\ pc[t] = "creating" /\ pc'[t] = "assigning" /\ pc'[c] = "created"
        /\ \A u \in Thread \ {t, c} : pc'[u] = pc[u]
    BY <1>19, <2>1 DEF Create
  <2>3. arg' = arg /\ th_h' = th_h /\ self' = self /\ reclaimed' = reclaimed
    BY <1>19 DEF Create
  <2>7. \A u \in Thread : pc'[u] = "assigning" <=> u = t \/ pc[u] = "assigning"
    BY <2>1, <2>2
  <2>8. Assigning' = Assigning \cup {c} /\ c \notin Assigning
    BY <2>1, <2>2, <2>3, <2>7 DEF Assigning, Creators
  <2>4. HandleState'
    BY <2>1, <2>2, <2>3, <2>8
  <2>5. MainApart'
    BY <2>1, <2>2, <2>3, ThreadAssumption
  <2>6. OneJoiner'
    BY <2>1, <2>2, <2>3
  <2> QED BY <2>4, <2>5, <2>6
<1>20. ASSUME NEW t \in Thread, CreateFails(t)
      PROVE  Handled'
  <2>1. PICK c \in Thread :
             /\ arg[t].on = {c} /\ pc[c] = "registered"
             /\ pc' = [pc EXCEPT ![t] = "run", ![c] = "failed"]
             /\ Keep(holds \ {<<t, c>>}, self \ {c})
    BY <1>20, CallTypes DEF CreateFails, Creators
  <2>2. /\ pc[t] = "creating" /\ pc'[t] = "run" /\ pc'[c] = "failed"
        /\ \A u \in Thread \ {t, c} : pc'[u] = pc[u]
        /\ arg' = [arg EXCEPT ![t] = NoCall]
    BY <1>20, <2>1 DEF CreateFails
  <2>3. Assigning' = Assigning /\ c \notin Assigning
    <3>1. \A u \in Thread : pc'[u] = "assigning" <=> pc[u] = "assigning"
      BY <2>1, <2>2
    <3>2. \A u \in Thread : pc[u] = "assigning" => arg'[u] = arg[u]
      BY <2>1, <2>2
    <3>3. c \notin Assigning
      BY <2>1, <2>2 DEF Assigning, Creators
    <3> QED BY <3>1, <3>2, <3>3 DEF Assigning
  <2>4. HandleState'
    BY <2>1, <2>2, <2>3, KeepHandles
  <2>5. MainApart'
    BY <2>1, <2>2, KeepHandles, ThreadAssumption
  <2>6. \A v \in Thread : pc'[v] = "joining" =>
                          pc[v] = "joining" /\ arg'[v] = arg[v]
    BY <2>1, <2>2
  <2>7. \A v, d \in Thread :
           pc'[v] = "joining" /\ d \in arg'[v].on => d \in th_h'
    <3>1. \A v, d \in Thread :
             pc'[v] = "joining" /\ d \in arg'[v].on => <<v, d>> \in holds'
      BY <1>0
    <3>2. \A d \in Thread : d \in th_h /\ d \notin th_h' =>
             \A v \in Thread : <<v, d>> \notin holds'
      BY <2>1, KeepHandles
    <3> QED BY <2>6, <3>1, <3>2
  <2>8. OneJoiner'
    BY <2>6, <2>7
  <2> QED BY <2>4, <2>5, <2>8
<1>21. ASSUME NEW t \in Thread, Assign(t)
      PROVE  Handled'
  <2>1. PICK c \in Thread : arg[t].on = {c}
    BY <1>21 DEF Assign, Creators
  <2>2. /\ pc[t] = "assigning" /\ pc'[t] = "run"
        /\ \A u \in Thread \ {t} : pc'[u] = pc[u] /\ arg'[u] = arg[u]
        /\ th_h' = th_h \cup {c}
        /\ UNCHANGED <<self, reclaimed>>
    BY <1>21, <2>1, CallTypes DEF Assign
  <2>3. Assigning' = Assigning \ {c} /\ c \in Assigning
    <3>1. c \in Assigning
      BY <2>1, <2>2 DEF Assigning
    <3>2. \A u \in Thread : pc'[u] = "assigning" <=> u # t /\ pc[u] = "assigning"
      BY <2>2
    <3>3. \A u \in Thread \ {t} : pc[u] = "assigning" => c \notin arg[u].on
      BY <2>1, <2>2 DEF Creators
    <3>4. \A d \in Thread : d \in Assigning' <=> d \in Assigning \ {c}
      BY <2>1, <2>2, <3>2, <3>3 DEF Assigning
    <3> QED BY <3>1, <3>4 DEF Assigning
  <2>4. HandleState'
    BY <2>1, <2>2, <2>3 DEF Creators
  <2>5. MainApart'
    BY <2>1, <2>2, ThreadAssumption
  <2>6. OneJoiner'
    BY <2>1, <2>2
  <2> QED BY <2>4, <2>5, <2>6
<1>22. ASSUME NEW t \in Thread, Joined(t)
      PROVE  Handled'
  <2>1. Assigning' = Assigning
    BY <1>22, CallTypes DEF Joined, Assigning
  <2> QED BY <1>22, <2>1, CallTypes, ThreadAssumption DEF Joined
<1>23. ASSUME NEW t \in Thread, Granted(t)
      PROVE  Handled'
  <2>1. Assigning' = Assigning
    BY <1>23, CallTypes DEF Granted, Assigning
  <2> QED BY <1>23, <2>1, CallTypes, ThreadAssumption DEF Granted
<1>24. ASSUME NEW t \in Thread, Resume(t)
      PROVE  Handled'
  <2>1. Assigning' = Assigning
    BY <1>24, CallTypes DEF Resume, Assigning
  <2> QED BY <1>24, <2>1, CallTypes, ThreadAssumption DEF Resume
<1>25. ASSUME NEW t \in Thread, Pause(t)
      PROVE  Handled'
  <2>1. Assigning' = Assigning
    BY <1>25, CallTypes DEF Pause, Assigning
  <2> QED BY <1>25, <2>1, CallTypes, ThreadAssumption DEF Pause
<1>26. ASSUME NEW t \in Thread, VMLock(t)
      PROVE  Handled'
  <2>1. Assigning' = Assigning
    BY <1>26, CallTypes DEF VMLock, Assigning
  <2> QED BY <1>26, <2>1, CallTypes, ThreadAssumption DEF VMLock
<1>27. ASSUME NEW t \in Thread, WakeUp(t)
      PROVE  Handled'
  <2>1. Assigning' = Assigning
    BY <1>27, CallTypes DEF WakeUp, Assigning
  <2> QED BY <1>27, <2>1, CallTypes, ThreadAssumption DEF WakeUp
<1>28. CASE UNCHANGED vars
  <2>1. Assigning' = Assigning
    BY <1>28 DEF vars, Assigning
  <2> QED BY <1>28, <2>1 DEF vars, objects, waits
<1> QED
  BY <1>1, <1>2, <1>3, <1>4, <1>5, <1>6, <1>7, <1>8, <1>9, <1>10, <1>11,
     <1>12, <1>13, <1>14, <1>15, <1>16, <1>17, <1>18, <1>19, <1>20, <1>21,
     <1>22, <1>23, <1>24, <1>25, <1>26, <1>27, <1>28
     DEF Next, Step, Working, Going, Waiting, Ending
-----------------------------------------------------------------------------
(* The refinement of StopTheWorld.                                         *)

\* The request names its owner, which is inside once it is granted.
LEMMA StopperKnown ==
  ASSUME TypeOK, Stops
  PROVE  /\ \A t \in Thread : pc[t] \in Stopping => Stopper = t
         /\ Stoppers = {} => Stopper = NoThread
         /\ Stopper \in Inside <=> \E t \in Thread : pc[t] = "collecting"
<1>1. ASSUME NEW t \in Thread, pc[t] \in Stopping PROVE Stopper = t
  <2>1. Stoppers = {t}
    BY <1>1 DEF Stoppers, Stopping, Stops
  <2> QED BY <2>1 DEF Stopper
<1>2. Stoppers = {} => Stopper = NoThread
  BY DEF Stopper
<1>3. Stopper \in Inside => \E t \in Thread : pc[t] = "collecting"
  <2>1. Stopper \in Inside => Stoppers # {}
    BY <1>2, ThreadAssumption DEF Inside
  <2>2. Stoppers # {} => Stopper \in Stoppers
    BY DEF Stopper
  <2> QED BY <2>1, <2>2 DEF Inside, Stoppers, Counted, InWait
<1>4. (\E t \in Thread : pc[t] = "collecting") => Stopper \in Inside
  BY <1>1 DEF Inside, Counted, Stopping
<1> QED BY <1>1, <1>2, <1>3, <1>4

\* Steps that StopTheWorld does not see ...
LEMMA Unseen ==
  ASSUME \A u \in Thread : /\ pc'[u] \in Counted <=> pc[u] \in Counted
                           /\ pc'[u] \in Stopping <=> pc[u] \in Stopping
  PROVE  [World!Next]_(World!world)
<1>1. Inside' = Inside
  BY DEF Inside
<1>2. Stoppers' = Stoppers
  BY DEF Stoppers, Stopping
<1> QED BY <1>1, <1>2 DEF World!world, Stopper

\* ... those with which a thread comes in ...
LEMMA ComesIn ==
  ASSUME TypeOK, Stops, NEW t \in Thread, Stoppers = {},
         pc'[t] \in Counted \ Stopping,
         \A u \in Thread \ {t} : pc'[u] = pc[u]
  PROVE  [World!Next]_(World!world)
<1>1. Inside' = Inside \cup {t}
  BY DEF Inside
<1>2. Stoppers' = {}
  BY DEF Stoppers, Stopping
<1>3. Stopper = NoThread /\ Stopper' = NoThread
  BY <1>2 DEF Stopper
<1>4. ~World!Granted /\ Stopper # t
  BY <1>3, ThreadAssumption DEF World!Granted, Inside
<1> QED BY <1>1, <1>3, <1>4 DEF World!Next, World!Enter

\* ... and those with which it goes.
LEMMA GoesOut ==
  ASSUME TypeOK, Stops, NEW t \in Thread,
         pc[t] \in Counted \ Stopping, pc'[t] \notin Counted \cup Stopping,
         \A u \in Thread \ {t} : pc'[u] = pc[u]
  PROVE  [World!Next]_(World!world)
<1>1. Inside' = Inside \ {t} /\ t \in Inside
  BY DEF Inside
<1>2. Stoppers' = Stoppers
  BY DEF Stoppers, Stopping
<1>3. Stopper' = Stopper
  BY <1>2 DEF Stopper
<1>4. ~World!Granted
  BY StopperKnown DEF World!Granted, Stops, Stopping
<1> QED BY <1>1, <1>3, <1>4 DEF World!Next, World!Leave

\* Every step is one of StopTheWorld, or none.
LEMMA StepStopsTheWorld ==
  ASSUME Known, Stops, TypeOK', Stops', [Next]_vars
  PROVE  [World!Next]_(World!world)
<1>0. /\ \A t \in Thread : pc'[t] \in Stopping => Stopper' = t
      /\ Stoppers' = {} => Stopper' = NoThread
  <2>1. (/\ \A t \in Thread : pc[t] \in Stopping => Stopper = t
         /\ Stoppers = {} => Stopper = NoThread)'
    BY StopperKnown, PTL
  <2> QED BY <2>1
<1> USE DEF TypeOK, Known, Stopping, Goto, With, PCs, InWait, Counted, Unborn,
            Creating, Runs, Calls, objects, waits
<1>1. ASSUME NEW t \in Thread, NEW u \in Thread, NEW c \in Thread, Share(t, u, c)
      PROVE  [World!Next]_(World!world)
  <2>1. \A v \in Thread : /\ pc'[v] \in Counted <=> pc[v] \in Counted
                          /\ pc'[v] \in Stopping <=> pc[v] \in Stopping
    BY <1>1 DEF Share
  <2> QED BY <2>1, Unseen
<1>2. ASSUME NEW t \in Thread, NEW u \in Thread, NEW c \in Thread, Drop(t, u, c)
      PROVE  [World!Next]_(World!world)
  <2>1. \A v \in Thread : /\ pc'[v] \in Counted <=> pc[v] \in Counted
                          /\ pc'[v] \in Stopping <=> pc[v] \in Stopping
    BY <1>2 DEF Drop
  <2> QED BY <2>1, Unseen
<1>3. ASSUME NEW t \in Thread, NEW c \in Thread, Start(t, c)
      PROVE  [World!Next]_(World!world)
  <2>1. \A v \in Thread : /\ pc'[v] \in Counted <=> pc[v] \in Counted
                          /\ pc'[v] \in Stopping <=> pc[v] \in Stopping
    BY <1>3 DEF Start
  <2> QED BY <2>1, Unseen
<1>4. ASSUME NEW t \in Thread, NEW c \in Thread, Join(t, c)
      PROVE  [World!Next]_(World!world)
  <2>1. /\ pc[t] \in Counted \ Stopping /\ pc'[t] \notin Counted \cup Stopping
        /\ \A v \in Thread \ {t} : pc'[v] = pc[v]
    BY <1>4 DEF Join
  <2> QED BY <2>1, GoesOut
<1>5. ASSUME NEW t \in Thread, NEW c \in Thread, Detach(t, c)
      PROVE  [World!Next]_(World!world)
  <2>1. \A v \in Thread : /\ pc'[v] \in Counted <=> pc[v] \in Counted
                          /\ pc'[v] \in Stopping <=> pc[v] \in Stopping
    BY <1>5 DEF Detach
  <2> QED BY <2>1, Unseen
<1>6. ASSUME NEW t \in Thread, NEW c \in Thread, QuitRequest(t, c)
      PROVE  [World!Next]_(World!world)
  <2>1. \A v \in Thread : /\ pc'[v] \in Counted <=> pc[v] \in Counted
                          /\ pc'[v] \in Stopping <=> pc[v] \in Stopping
    BY <1>6 DEF QuitRequest
  <2> QED BY <2>1, Unseen
<1>7. ASSUME NEW t \in Thread, NEW call \in Call, Wait(t, call)
      PROVE  [World!Next]_(World!world)
  <2>1. \A v \in Thread : /\ pc'[v] \in Counted <=> pc[v] \in Counted
                          /\ pc'[v] \in Stopping <=> pc[v] \in Stopping
    BY <1>7 DEF Wait
  <2> QED BY <2>1, Unseen
<1>8. ASSUME NEW t \in Thread, Quit(t)
      PROVE  [World!Next]_(World!world)
  <2>1. \A v \in Thread : /\ pc'[v] \in Counted <=> pc[v] \in Counted
                          /\ pc'[v] \in Stopping <=> pc[v] \in Stopping
    BY <1>8 DEF Quit
  <2> QED BY <2>1, Unseen
<1>9. ASSUME NEW t \in Thread, Suspend(t)
      PROVE  [World!Next]_(World!world)
  <2>1. /\ Stoppers = {} /\ t \in Inside
        /\ pc' = [pc EXCEPT ![t] = IF Inside = {t} THEN "collecting" ELSE "asking"]
    BY <1>9 DEF Suspend, Inside
  <2>2. Stopper = NoThread /\ ~World!Granted
    BY <2>1, ThreadAssumption DEF Stopper, World!Granted, Inside
  <2>3. Stopper' = t
    BY <1>0, <2>1
  <2>4. Inside' = IF Inside = {t} THEN Inside ELSE Inside \ {t}
    BY <2>1 DEF Inside
  <2> QED BY <2>1, <2>2, <2>3, <2>4 DEF World!Next, World!Ask
<1>10. ASSUME NEW t \in Thread, WaitLock(t)
      PROVE  [World!Next]_(World!world)
  <2>1. \A v \in Thread : /\ pc'[v] \in Counted <=> pc[v] \in Counted
                          /\ pc'[v] \in Stopping <=> pc[v] \in Stopping
    BY <1>10 DEF WaitLock
  <2> QED BY <2>1, Unseen
<1>11. ASSUME NEW t \in Thread, Scan(t)
      PROVE  [World!Next]_(World!world)
  <2>1. \A v \in Thread : /\ pc'[v] \in Counted <=> pc[v] \in Counted
                          /\ pc'[v] \in Stopping <=> pc[v] \in Stopping
    BY <1>11 DEF Scan, Return
  <2> QED BY <2>1, Unseen
<1>12. ASSUME NEW t \in Thread, Sleep(t)
      PROVE  [World!Next]_(World!world)
  <2>1. /\ pc[t] \in Counted \ Stopping /\ pc'[t] \notin Counted \cup Stopping
        /\ \A v \in Thread \ {t} : pc'[v] = pc[v]
    BY <1>12 DEF Sleep
  <2> QED BY <2>1, GoesOut
<1>13. ASSUME NEW t \in Thread, TimeOut(t)
      PROVE  [World!Next]_(World!world)
  <2>1. \A v \in Thread : /\ pc'[v] \in Counted <=> pc[v] \in Counted
                          /\ pc'[v] \in Stopping <=> pc[v] \in Stopping
    BY <1>13 DEF TimeOut
  <2> QED BY <2>1, Unseen
<1>14. ASSUME NEW t \in Thread, Relock(t)
      PROVE  [World!Next]_(World!world)
  <2>1. \A v \in Thread : /\ pc'[v] \in Counted <=> pc[v] \in Counted
                          /\ pc'[v] \in Stopping <=> pc[v] \in Stopping
    BY <1>14 DEF Relock
  <2> QED BY <2>1, Unseen
<1>15. ASSUME NEW t \in Thread, Reenter(t)
      PROVE  [World!Next]_(World!world)
  <2>1. /\ Stoppers = {} /\ pc'[t] \in Counted \ Stopping
        /\ \A v \in Thread \ {t} : pc'[v] = pc[v]
    BY <1>15 DEF Reenter, Return
  <2> QED BY <2>1, ComesIn
<1>16. ASSUME NEW t \in Thread, Finish(t)
      PROVE  [World!Next]_(World!world)
  <2>1. \A v \in Thread : /\ pc'[v] \in Counted <=> pc[v] \in Counted
                          /\ pc'[v] \in Stopping <=> pc[v] \in Stopping
    BY <1>16 DEF Finish
  <2> QED BY <2>1, Unseen
<1>17. ASSUME NEW t \in Thread, ReleaseSelf(t)
      PROVE  [World!Next]_(World!world)
  <2>1. /\ pc[t] \in Counted \ Stopping /\ pc'[t] \notin Counted \cup Stopping
        /\ \A v \in Thread \ {t} : pc'[v] = pc[v]
    BY <1>17 DEF ReleaseSelf
  <2> QED BY <2>1, GoesOut
<1>18. ASSUME NEW t \in Thread, Signal(t)
      PROVE  [World!Next]_(World!world)
  <2>1. \A v \in Thread : /\ pc'[v] \in Counted <=> pc[v] \in Counted
                          /\ pc'[v] \in Stopping <=> pc[v] \in Stopping
    BY <1>18 DEF Signal
  <2> QED BY <2>1, Unseen
<1>19. ASSUME NEW t \in Thread, Create(t)
      PROVE  [World!Next]_(World!world)
  <2>1. PICK c \in Thread : /\ pc[t] = "creating" /\ pc[c] = "registered"
                              /\ pc' = [pc EXCEPT ![t] = "assigning", ![c] = "created"]
    BY <1>19, CallTypes DEF Create, Creators
  <2>2. \A v \in Thread : /\ pc'[v] \in Counted <=> pc[v] \in Counted
                          /\ pc'[v] \in Stopping <=> pc[v] \in Stopping
    BY <2>1
  <2> QED BY <2>2, Unseen
<1>20. ASSUME NEW t \in Thread, CreateFails(t)
      PROVE  [World!Next]_(World!world)
  <2>1. PICK c \in Thread : /\ pc[t] = "creating" /\ pc[c] = "registered"
                              /\ pc' = [pc EXCEPT ![t] = "run", ![c] = "failed"]
    BY <1>20, CallTypes DEF CreateFails, Creators
  <2>2. \A v \in Thread : /\ pc'[v] \in Counted <=> pc[v] \in Counted
                          /\ pc'[v] \in Stopping <=> pc[v] \in Stopping
    BY <2>1
  <2> QED BY <2>2, Unseen
<1>21. ASSUME NEW t \in Thread, Assign(t)
      PROVE  [World!Next]_(World!world)
  <2>1. \A v \in Thread : /\ pc'[v] \in Counted <=> pc[v] \in Counted
                          /\ pc'[v] \in Stopping <=> pc[v] \in Stopping
    BY <1>21 DEF Assign
  <2> QED BY <2>1, Unseen
<1>22. ASSUME NEW t \in Thread, Joined(t)
      PROVE  [World!Next]_(World!world)
  <2>1. \A v \in Thread : /\ pc'[v] \in Counted <=> pc[v] \in Counted
                          /\ pc'[v] \in Stopping <=> pc[v] \in Stopping
    BY <1>22 DEF Joined
  <2> QED BY <2>1, Unseen
<1>23. ASSUME NEW t \in Thread, Granted(t)
      PROVE  [World!Next]_(World!world)
  <2>1. Stopper = t /\ Inside = {} /\ pc' = [pc EXCEPT ![t] = "collecting"]
    BY <1>23, StopperKnown DEF Granted
  <2>2. Stopper' = t
    BY <1>0, <2>1
  <2>3. Inside' = {t}
    BY <2>1 DEF Inside
  <2> QED BY <2>1, <2>2, <2>3 DEF World!Next, World!Grant
<1>24. ASSUME NEW t \in Thread, Resume(t)
      PROVE  [World!Next]_(World!world)
  <2>1. Stopper = t /\ t \in Inside /\ pc' = [pc EXCEPT ![t] = "run"]
    BY <1>24, StopperKnown DEF Resume, Inside
  <2>2. Stoppers' = {}
    BY <1>24, <2>1 DEF Resume, Stops, Stoppers
  <2>3. Inside' = Inside
    BY <2>1 DEF Inside
  <2> QED BY <2>1, <2>2, <2>3 DEF World!Next, World!Resume, World!Granted, Stopper
<1>25. ASSUME NEW t \in Thread, Pause(t)
      PROVE  [World!Next]_(World!world)
  <2>1. /\ pc[t] \in Counted \ Stopping /\ pc'[t] \notin Counted \cup Stopping
        /\ \A v \in Thread \ {t} : pc'[v] = pc[v]
    BY <1>25 DEF Pause
  <2> QED BY <2>1, GoesOut
<1>26. ASSUME NEW t \in Thread, VMLock(t)
      PROVE  [World!Next]_(World!world)
  <2>1. /\ Stoppers = {} /\ pc'[t] \in Counted \ Stopping
        /\ \A v \in Thread \ {t} : pc'[v] = pc[v]
    BY <1>26 DEF VMLock
  <2> QED BY <2>1, ComesIn
<1>27. ASSUME NEW t \in Thread, WakeUp(t)
      PROVE  [World!Next]_(World!world)
  <2>1. \A v \in Thread : /\ pc'[v] \in Counted <=> pc[v] \in Counted
                          /\ pc'[v] \in Stopping <=> pc[v] \in Stopping
    BY <1>27 DEF WakeUp
  <2> QED BY <2>1, Unseen
<1>28. CASE UNCHANGED vars
  <2>1. pc' = pc
    BY <1>28 DEF vars
  <2> QED BY <2>1, Unseen
<1> QED
  BY <1>1, <1>2, <1>3, <1>4, <1>5, <1>6, <1>7, <1>8, <1>9, <1>10, <1>11,
     <1>12, <1>13, <1>14, <1>15, <1>16, <1>17, <1>18, <1>19, <1>20, <1>21,
     <1>22, <1>23, <1>24, <1>25, <1>26, <1>27, <1>28
     DEF Next, Step, Working, Going, Waiting, Ending
-----------------------------------------------------------------------------
(* What holds in every behaviour.                                          *)

Safe == Known /\ Wakes /\ NoMissedEnd /\ Stops /\ Lives

LEMMA SafeAtFirst == Init => Safe
<1> SUFFICES ASSUME Init PROVE Safe
  OBVIOUS
<1> USE ThreadAssumption DEF Init
<1>1. TypeOK
  BY CallTypes DEF TypeOK, PCs, Counted
<1>2. \A t \in Thread : pc[t] \in {"run", "none"}
  OBVIOUS
<1>3. Creators /\ Holders
  BY <1>2 DEF Creators, Holders, Creating, InWait
<1>4. Wakes
  BY <1>2 DEF Wakes, MutexHeld, SleepersCounted, Holding
<1>5. NoMissedEnd
  BY <1>2 DEF NoMissedEnd
<1>6. Stops
  BY <1>2 DEF Stops, Stopping
<1>7. Lives
  BY <1>2 DEF Lives, Destroyed, Selves, Needed, Needing, Creating, InWait,
              Selfless
<1> QED BY <1>1, <1>3, <1>4, <1>5, <1>6, <1>7 DEF Safe, Known

LEMMA SafeAlways == Spec => []Safe
<1>1. Safe /\ [Next]_vars => Safe'
  <2> SUFFICES ASSUME Safe, [Next]_vars PROVE Safe'
    OBVIOUS
  <2>1. TypeOK' /\ (Creators /\ Holders)'
    BY TypeKept, KnownKept DEF Safe, Known
  <2>2. Wakes'
    BY WakesKept DEF Safe
  <2>3. NoMissedEnd'
    BY EndKept DEF Safe
  <2>4. Stops'
    BY StopsKept DEF Safe
  <2>5. Lives'
    BY LivesKept DEF Safe
  <2> QED BY <2>1, <2>2, <2>3, <2>4, <2>5 DEF Safe, Known
<1> QED BY <1>1, SafeAtFirst, PTL DEF Spec

\* All variables keep their types.
THEOREM TypeCorrect == Spec => []TypeOK
<1>1. Safe => TypeOK
  BY DEF Safe, Known
<1> QED BY <1>1, SafeAlways, PTL

\* hb_threadWait() misses no end: fFinished is set before, and read after,
\* what the broadcast and the wait do under s_thread_mtx.
THEOREM EndNotMissed == Spec => []NoMissedEnd
<1>1. Safe => NoMissedEnd
  BY DEF Safe
<1> QED BY <1>1, SafeAlways, PTL

\* As long as nobody changes an array that a thread has given to
\* hb_threadWait(), no thread object is used after hb_threadDestructor().
THEOREM ObjectsAlive ==
  ASSUME SharedArrays = FALSE
  PROVE  Spec => []NoStaleObject
<1>1. Safe => NoStaleObject
  <2> SUFFICES ASSUME Safe, NEW t \in Thread, NEW c \in Uses(t)
               PROVE  c \notin destroyed
    BY DEF NoStaleObject
  <2>1. CASE /\ pc[t] \in InWait \cup {"creating", "assigning", "joining", "joined"}
             /\ c \in arg[t].on
    <3>1. c \in Thread
      BY <2>1, CallTypes DEF Safe, Known, TypeOK
    <3>2. <<t, c>> \in holds
      BY <2>1, <3>1 DEF Safe, Lives, Needed, Needing, Creating
    <3> QED BY <3>2 DEF Safe, Lives, Destroyed
  <2>2. CASE c = t /\ (fActive(t) \/ pc[t] \in {"created", "finished"})
    <3>1. pc[t] \notin Selfless
      BY <2>2 DEF fActive, fFinished, Selfless
    <3> QED BY <2>2, <3>1 DEF Safe, Lives, Selves, Destroyed
  <2> QED BY <2>1, <2>2 DEF Uses
<1> QED BY <1>1, SafeAlways, PTL

\* As long as nobody joins or detaches a thread that another is joining, every
\* handle is given back once.
THEOREM HandlesOnce ==
  ASSUME SharedHandles = FALSE
  PROVE  Spec => []HandleOnce
<1>1. Init => Handled
  <2> SUFFICES ASSUME Init PROVE Handled
    OBVIOUS
  <2>1. \A t \in Thread : pc[t] = IF t = Main THEN "run" ELSE "none"
    BY DEF Init
  <2> QED
    BY <2>1, ThreadAssumption
    DEF Init, Handled, HandleState, MainApart, OneJoiner, Assigning, Unborn,
        Creating
<1>2. Safe /\ Handled /\ [Next]_vars => Handled'
  BY HandledKept DEF Safe
<1>3. Safe /\ Handled => HandleOnce
  <2> SUFFICES ASSUME Safe, Handled, NEW c \in Thread
               PROVE  /\ reclaimed[c] <= 1
                      /\ c \in th_h => reclaimed[c] = 0
                      /\ c \in destroyed => pc[c] = "failed" \/ reclaimed[c] = 1
    BY DEF HandleOnce
  <2>1. reclaimed[c] \in {0, 1} /\ (c \in th_h => reclaimed[c] = 0)
    BY DEF Handled, HandleState, MainApart
  <2>2. ASSUME c \in destroyed PROVE pc[c] = "failed" \/ reclaimed[c] = 1
    <3>1. c # Main /\ c \notin th_h /\ pc[c] \notin {"none", "registered"}
      BY <2>2 DEF Handled, MainApart, Safe, Lives, Destroyed, Selves, Selfless
    <3>2. c \notin Assigning
      BY <2>2 DEF Assigning, Safe, Lives, Destroyed, Needed, Needing, Creating
    <3> QED BY <3>1, <3>2 DEF Handled, HandleState, Unborn
  <2> QED BY <2>1, <2>2
<1> QED BY <1>1, <1>2, <1>3, SafeAlways, PTL DEF Spec

\* hb_vmSuspendThreads() and hb_vmResumeThreads() do what StopTheWorld says,
\* in the company of threads that wait for each other and come and go.
THEOREM ImplementsStopTheWorld == Spec => StopsTheWorldSpec
<1>1. Init => World!Init
  <2> SUFFICES ASSUME Init PROVE World!Init
    OBVIOUS
  <2>1. Stoppers = {}
    BY DEF Init, Stoppers
  <2> QED BY <2>1 DEF World!Init, Stopper, Inside
<1>2. Safe /\ Safe' /\ [Next]_vars => [World!Next]_(World!world)
  BY StepStopsTheWorld DEF Safe, Known
<1> QED BY <1>1, <1>2, SafeAlways, PTL DEF Spec, World!Spec, StopsTheWorldSpec

=============================================================================
