-------------------------- MODULE ThreadMutex_proof --------------------------
(***************************************************************************)
(* Proofs about ThreadMutex, for every finite set of threads, whichever of *)
(* them make which calls, and every bound.                                 *)
(*                                                                         *)
(* The argument has four layers, each resting on those before it.          *)
(*   LockSafe   who holds pMutex->mutex, and how owner, lock_count and the *)
(*              count a subscription put aside make up what PRG code holds *)
(*   CountsExact  lockers and waiters count the threads that wait          *)
(*   NoLostUnlock  a freed lock has a locker awake: signals are conditional *)
(*              on lockers, and whoever finds the lock taken again sleeps  *)
(*   NoLostEvent  as many waiters are awake as there are events: a step    *)
(*              leaves the queue and its waiters undisturbed, or finds an  *)
(*              event, or takes it, or adds to the queue                   *)
(* Safe is their conjunction.                                              *)
(***************************************************************************)
EXTENDS ThreadMutex, FiniteSetTheorems, TLAPS

-----------------------------------------------------------------------------
(* The raw lock, and the owner of the lock.                                *)

\* The points of a subscription between giving the own lock up and having it
\* again.
InSubscription == {"checking", "committed", "waiting", "timecheck",
                   "waittime", "taking", "restoring", "relocking"}

\* The lock has an owner just when its count says that it is taken.
OwnerCount == owner = NoThread <=> lock_count = 0

\* A count is put aside inside a subscription only, and there until the lock
\* has been taken back.
SavedWhere == \A t \in Thread :
    /\ saved[t] # 0 => pc[t] \in InSubscription
    /\ pc[t] = "relocking" => saved[t] # 0

\* A thread that ends gives back locks of its own.
Unlocking == \A t \in Thread : pc[t] = "unlocking" => owner = t

\* pMutex->mutex is kept across actions at the points of Raw and at no other.
RawHolder == \A t \in Thread : pc[t] \in Raw <=> mutex = t

\* The first layer, and the part of it that is not a type.
LockSafe ==
    /\ TypeOK
    /\ OwnerCount
    /\ LockHeld
    /\ SavedWhere
    /\ Unlocking
    /\ RawHolder

Moves == /\ OwnerCount
         /\ LockHeld
         /\ SavedWhere
         /\ Unlocking
         /\ RawHolder

\* Every step keeps the types.
LEMMA TypeKept ==
  ASSUME LockSafe, [Next]_vars
  PROVE  TypeOK'
<1> USE ThreadAssumption, CallAssumption, BoundAssumption
<1> USE DEF LockSafe, TypeOK, LockHeld, OwnerCount, PCs, Raw, Asleep,
        Timeouts, Goto, call, lock, queue, vm,
        Acquire, Free, Signalled, Null
<1>1. ASSUME NEW t \in Thread, Step(t) PROVE TypeOK'
  <2>1. CASE LockAgain(t) BY <2>1 DEF LockAgain
  <2>2. CASE Lock(t) BY <2>2 DEF Lock
  <2>3. CASE Unlock(t)
    <3>1. /\ held[t] = lock_count /\ lock_count \in Nat \ {0}
          /\ saved[t] = 0 /\ t # NoThread /\ owner = t /\ pc' = pc
          /\ saved' = saved
      BY <2>3 DEF Unlock
    <3>2. held' = [held EXCEPT ![t] = lock_count - 1] /\ lock_count - 1 \in Nat
      BY <2>3, <3>1 DEF Unlock
    <3>3. CASE lock_count = 1 BY <2>3, <3>1, <3>2, <3>3 DEF Unlock
    <3>4. CASE lock_count # 1 BY <2>3, <3>1, <3>2, <3>4 DEF Unlock
    <3> QED BY <3>3, <3>4
  <2>4. CASE Notify(t) BY <2>4 DEF Notify
  <2>5. CASE Subscribe(t) BY <2>5 DEF Subscribe, Begin, GiveUpOwn
  <2>6. CASE LockWake(t) BY <2>6 DEF LockWake
  <2>7. CASE LockTimeOut(t) BY <2>7 DEF LockTimeOut
  <2>8. CASE Create(t) BY <2>8 DEF Create
  <2>9. CASE StoreQueue(t) BY <2>9 DEF StoreQueue
  <2>10. CASE Discard(t) BY <2>10 DEF Discard
  <2>11. CASE Add(t) BY <2>11 DEF Add, AddOne, AddAll
  <2>12. CASE ClearQueue(t) BY <2>12 DEF ClearQueue
  <2>13. CASE SubscribeCleared(t)
    BY <2>13 DEF SubscribeCleared, Begin, GiveUpOwn
  <2>14. CASE Check(t) BY <2>14 DEF Check
  <2>15. CASE Wait(t) BY <2>15 DEF Wait
  <2>16. CASE WaitWake(t) BY <2>16 DEF WaitWake
  <2>17. CASE TimeCheck(t) BY <2>17 DEF TimeCheck
  <2>18. CASE TimeWake(t) BY <2>18 DEF TimeWake
  <2>19. CASE WaitTimeOut(t) BY <2>19 DEF WaitTimeOut
  <2>20. CASE Take(t) BY <2>20 DEF Take
  <2>21. CASE Restore(t) BY <2>21 DEF Restore
  <2>22. CASE RestoreWake(t) BY <2>22 DEF RestoreWake
  <2>23. CASE UnlockOwn(t) BY <2>23 DEF UnlockOwn
  <2>24. CASE Leave(t) BY <2>24 DEF Leave
  <2>25. CASE Exit(t) BY <2>25 DEF Exit, UnlockAll
  <2>26. CASE Spurious(t) BY <2>26 DEF Spurious
  <2> QED
    BY <1>1, <2>1, <2>2, <2>3, <2>4, <2>5, <2>6, <2>7, <2>8, <2>9, <2>10,
       <2>11, <2>12, <2>13, <2>14, <2>15, <2>16, <2>17, <2>18, <2>19,
       <2>20, <2>21, <2>22, <2>23, <2>24, <2>25, <2>26 DEF Step, Progress
<1>2. CASE Terminate BY <1>2 DEF Terminate, UnlockAll
<1>3. CASE Scan BY <1>3 DEF Scan
<1>4. CASE WakeAll BY <1>4 DEF WakeAll
<1>5. CASE Joined BY <1>5 DEF Joined
<1>6. CASE UNCHANGED vars BY <1>6 DEF vars
<1> QED BY <1>1, <1>2, <1>3, <1>4, <1>5, <1>6 DEF Next

\* Every step keeps the rest of the first layer: no call returns, and no
\* subscription ends, with less or more of the lock than PRG code believes.
LEMMA LockKept ==
  ASSUME LockSafe, [Next]_vars
  PROVE  Moves'
<1> USE ThreadAssumption, CallAssumption, BoundAssumption
<1> USE DEF LockSafe, Moves, TypeOK, LockHeld, OwnerCount, SavedWhere,
        Unlocking, RawHolder, InSubscription,
        PCs, Raw, Asleep, Goto, call, lock, queue, vm,
        Acquire, Free, MutexFree
<1>1. ASSUME NEW t \in Thread, Step(t) PROVE Moves'
  <2>1. CASE LockAgain(t) BY <2>1 DEF LockAgain
  <2>2. CASE Lock(t) BY <2>2 DEF Lock
  <2>3. CASE Unlock(t)
    <3>1. /\ held[t] = lock_count /\ lock_count \in Nat \ {0}
          /\ saved[t] = 0 /\ t # NoThread /\ owner = t /\ pc' = pc
          /\ saved' = saved
      BY <2>3 DEF Unlock
    <3>2. held' = [held EXCEPT ![t] = lock_count - 1] /\ lock_count - 1 \in Nat
      BY <2>3, <3>1 DEF Unlock
    <3>3. CASE lock_count = 1 BY <2>3, <3>1, <3>2, <3>3 DEF Unlock
    <3>4. CASE lock_count # 1 BY <2>3, <3>1, <3>2, <3>4 DEF Unlock
    <3> QED BY <3>3, <3>4
  <2>4. CASE Notify(t) BY <2>4 DEF Notify
  <2>5. CASE Subscribe(t) BY <2>5 DEF Subscribe, Begin, GiveUpOwn
  <2>6. CASE LockWake(t) BY <2>6 DEF LockWake
  <2>7. CASE LockTimeOut(t) BY <2>7 DEF LockTimeOut
  <2>8. CASE Create(t) BY <2>8 DEF Create
  <2>9. CASE StoreQueue(t) BY <2>9 DEF StoreQueue
  <2>10. CASE Discard(t) BY <2>10 DEF Discard
  <2>11. CASE Add(t) BY <2>11 DEF Add
  <2>12. CASE ClearQueue(t) BY <2>12 DEF ClearQueue
  <2>13. CASE SubscribeCleared(t)
    BY <2>13 DEF SubscribeCleared, Begin, GiveUpOwn
  <2>14. CASE Check(t) BY <2>14 DEF Check
  <2>15. CASE Wait(t) BY <2>15 DEF Wait
  <2>16. CASE WaitWake(t) BY <2>16 DEF WaitWake
  <2>17. CASE TimeCheck(t) BY <2>17 DEF TimeCheck
  <2>18. CASE TimeWake(t) BY <2>18 DEF TimeWake
  <2>19. CASE WaitTimeOut(t) BY <2>19 DEF WaitTimeOut
  <2>20. CASE Take(t) BY <2>20 DEF Take
  <2>21. CASE Restore(t) BY <2>21 DEF Restore
  <2>22. CASE RestoreWake(t) BY <2>22 DEF RestoreWake
  <2>23. CASE UnlockOwn(t) BY <2>23 DEF UnlockOwn
  <2>24. CASE Leave(t) BY <2>24 DEF Leave
  <2>25. CASE Exit(t) BY <2>25 DEF Exit, UnlockAll
  <2>26. CASE Spurious(t) BY <2>26 DEF Spurious
  <2> QED
    BY <1>1, <2>1, <2>2, <2>3, <2>4, <2>5, <2>6, <2>7, <2>8, <2>9, <2>10,
       <2>11, <2>12, <2>13, <2>14, <2>15, <2>16, <2>17, <2>18, <2>19,
       <2>20, <2>21, <2>22, <2>23, <2>24, <2>25, <2>26 DEF Step, Progress
<1>2. CASE Terminate BY <1>2 DEF Terminate, UnlockAll
<1>3. CASE Scan BY <1>3 DEF Scan
<1>4. CASE WakeAll BY <1>4 DEF WakeAll
<1>5. CASE Joined BY <1>5 DEF Joined
<1>6. CASE UNCHANGED vars BY <1>6 DEF vars
<1> QED BY <1>1, <1>2, <1>3, <1>4, <1>5, <1>6 DEF Next

-----------------------------------------------------------------------------
(* Cardinalities, and the two counters.                                    *)

\* One more or one less in a set of threads.
LEMMA CardinalityAdd ==
  ASSUME NEW S \in SUBSET Thread, NEW t \in Thread
  PROVE  /\ Cardinality(S) \in Nat
         /\ t \notin S => Cardinality(S \cup {t}) = Cardinality(S) + 1
         /\ t \in S => Cardinality(S \ {t}) = Cardinality(S) - 1
         /\ Cardinality(S) = 0 <=> S = {}
<1>1. IsFiniteSet(S)
  BY ThreadAssumption, FS_Subset
<1> QED BY <1>1, FS_CardinalityType, FS_AddElement, FS_RemoveElement,
           FS_EmptySet

\* No thread, and one thread.
LEMMA CardinalityNone == Cardinality({}) = 0
BY FS_EmptySet

LEMMA CardinalityOne ==
  ASSUME NEW t PROVE Cardinality({t}) = 1
BY FS_Singleton

\* A subset has no more threads.
LEMMA CardinalityMono ==
  ASSUME NEW S \in SUBSET Thread, NEW R \in SUBSET S
  PROVE  /\ Cardinality(R) \in Nat /\ Cardinality(S) \in Nat
         /\ Cardinality(R) <= Cardinality(S)
<1>1. IsFiniteSet(S)
  BY ThreadAssumption, FS_Subset
<1> QED BY <1>1, FS_CardinalityType, FS_Subset

\* What a thread at p contributes to the number of threads at the points P.
Weight(P, p) == IF p \in P THEN 1 ELSE 0

\* When one thread moves, that number changes by the difference.
LEMMA MoveOne ==
  ASSUME NEW t \in Thread, NEW p \in PCs, pc \in [Thread -> PCs],
         Goto(t, p), NEW P
  PROVE  /\ Cardinality({u \in Thread : pc[u] \in P}) \in Nat
         /\ Cardinality({u \in Thread : pc'[u] \in P})
              = Cardinality({u \in Thread : pc[u] \in P})
                  - Weight(P, pc[t]) + Weight(P, p)
<1> DEFINE A == {u \in Thread : pc[u] \in P}
           B == {u \in Thread : pc'[u] \in P}
<1>1. pc' = [pc EXCEPT ![t] = p]
  BY DEF Goto
<1>2. A \in SUBSET Thread /\ B \in SUBSET Thread
  OBVIOUS
<1>3. t \in A <=> pc[t] \in P
  OBVIOUS
<1>4. B = IF p \in P THEN A \cup {t} ELSE A \ {t}
  BY <1>1
<1>5. /\ t \notin A => Cardinality(A \cup {t}) = Cardinality(A) + 1
      /\ t \in A => Cardinality(A \ {t}) = Cardinality(A) - 1
      /\ Cardinality(A) \in Nat
  BY <1>2, CardinalityAdd
<1>6. /\ t \in A => A \cup {t} = A
      /\ t \notin A => A \ {t} = A
  BY <1>2
<1> HIDE DEF A, B
<1>7. Cardinality(B) = Cardinality(A) - Weight(P, pc[t]) + Weight(P, p)
  <2>1. CASE p \in P /\ t \in A
    <3>1. B = A BY <1>4, <1>6, <2>1
    <3> QED BY <1>3, <1>5, <2>1, <3>1 DEF Weight
  <2>2. CASE p \in P /\ t \notin A
    <3>1. Cardinality(B) = Cardinality(A) + 1 BY <1>4, <1>5, <2>2
    <3> QED BY <1>3, <1>5, <2>2, <3>1 DEF Weight
  <2>3. CASE p \notin P /\ t \in A
    <3>1. Cardinality(B) = Cardinality(A) - 1 BY <1>4, <1>5, <2>3
    <3> QED BY <1>3, <1>5, <2>3, <3>1 DEF Weight
  <2>4. CASE p \notin P /\ t \notin A
    <3>1. B = A BY <1>4, <1>6, <2>4
    <3> QED BY <1>3, <1>5, <2>4, <3>1 DEF Weight
  <2> QED BY <2>1, <2>2, <2>3, <2>4
<1> QED BY <1>5, <1>7 DEF A, B

\* A step in which t alone moves, and both counters are adjusted for it.
Counted(t) ==
    /\ pc'[t] \in PCs
    /\ Goto(t, pc'[t])
    /\ lockers' = lockers - Weight(LockPoints, pc[t])
                         + Weight(LockPoints, pc'[t])
    /\ waiters' = waiters - Weight(WaitPoints, pc[t])
                         + Weight(WaitPoints, pc'[t])

\* Such a step keeps the counters exact.
LEMMA CountsMove ==
  ASSUME TypeOK, CountsExact, NEW t \in Thread, Counted(t)
  PROVE  CountsExact'
<1> DEFINE p == pc'[t]
<1>1. p \in PCs /\ Goto(t, p) /\ pc \in [Thread -> PCs]
  BY DEF Counted, TypeOK
<1>2. /\ lockers' = lockers - Weight(LockPoints, pc[t]) + Weight(LockPoints, p)
      /\ waiters' = waiters - Weight(WaitPoints, pc[t]) + Weight(WaitPoints, p)
  BY DEF Counted
<1> HIDE DEF p
<1>3. ASSUME NEW P
      PROVE  /\ Cardinality({u \in Thread : pc[u] \in P}) \in Nat
             /\ Cardinality({u \in Thread : pc'[u] \in P})
                  = Cardinality({u \in Thread : pc[u] \in P})
                      - Weight(P, pc[t]) + Weight(P, p)
  BY <1>1, MoveOne
<1>4. /\ LockQueue = {u \in Thread : pc[u] \in LockPoints}
      /\ LockQueue' = {u \in Thread : pc'[u] \in LockPoints}
      /\ WaitQueue = {u \in Thread : pc[u] \in WaitPoints}
      /\ WaitQueue' = {u \in Thread : pc'[u] \in WaitPoints}
  BY DEF LockQueue, WaitQueue
<1> QED BY <1>2, <1>3, <1>4 DEF CountsExact, TypeOK

\* Every step is such a step: each lockers++ and waiters++ of the code is
\* undone exactly once, by whichever way the thread leaves its wait.
LEMMA CountsKept ==
  ASSUME LockSafe, CountsExact, [Next]_vars
  PROVE  CountsExact'
<1> USE ThreadAssumption
<1> USE DEF Counted, LockSafe, TypeOK, PCs, Raw, Asleep, Goto, Weight,
        LockPoints, WaitPoints, lock, queue
<1>1. ASSUME NEW t \in Thread, Step(t) PROVE Counted(t)
  <2>1. CASE LockAgain(t) BY <2>1 DEF LockAgain
  <2>2. CASE Lock(t) BY <2>2 DEF Lock
  <2>3. CASE Unlock(t) BY <2>3 DEF Unlock
  <2>4. CASE Notify(t) BY <2>4 DEF Notify
  <2>5. CASE Subscribe(t) BY <2>5 DEF Subscribe, Begin, GiveUpOwn
  <2>6. CASE LockWake(t) BY <2>6 DEF LockWake
  <2>7. CASE LockTimeOut(t) BY <2>7 DEF LockTimeOut
  <2>8. CASE Create(t) BY <2>8 DEF Create
  <2>9. CASE StoreQueue(t) BY <2>9 DEF StoreQueue
  <2>10. CASE Discard(t) BY <2>10 DEF Discard
  <2>11. CASE Add(t) BY <2>11 DEF Add
  <2>12. CASE ClearQueue(t) BY <2>12 DEF ClearQueue
  <2>13. CASE SubscribeCleared(t)
    BY <2>13 DEF SubscribeCleared, Begin, GiveUpOwn
  <2>14. CASE Check(t) BY <2>14 DEF Check
  <2>15. CASE Wait(t) BY <2>15 DEF Wait
  <2>16. CASE WaitWake(t) BY <2>16 DEF WaitWake
  <2>17. CASE TimeCheck(t) BY <2>17 DEF TimeCheck
  <2>18. CASE TimeWake(t) BY <2>18 DEF TimeWake
  <2>19. CASE WaitTimeOut(t) BY <2>19 DEF WaitTimeOut
  <2>20. CASE Take(t) BY <2>20 DEF Take
  <2>21. CASE Restore(t) BY <2>21 DEF Restore
  <2>22. CASE RestoreWake(t) BY <2>22 DEF RestoreWake
  <2>23. CASE UnlockOwn(t) BY <2>23 DEF UnlockOwn
  <2>24. CASE Leave(t) BY <2>24 DEF Leave
  <2>25. CASE Exit(t) BY <2>25 DEF Exit, UnlockAll
  <2>26. CASE Spurious(t) BY <2>26 DEF Spurious
  <2> QED
    BY <1>1, <2>1, <2>2, <2>3, <2>4, <2>5, <2>6, <2>7, <2>8, <2>9, <2>10,
       <2>11, <2>12, <2>13, <2>14, <2>15, <2>16, <2>17, <2>18, <2>19,
       <2>20, <2>21, <2>22, <2>23, <2>24, <2>25, <2>26 DEF Step, Progress
<1>2. ASSUME Terminate PROVE Counted(Main) BY <1>2 DEF Terminate, UnlockAll
<1>3. ASSUME Scan PROVE Counted(Main) BY <1>3 DEF Scan
<1>4. ASSUME WakeAll PROVE Counted(Main) BY <1>4 DEF WakeAll
<1>5. ASSUME Joined PROVE Counted(Main) BY <1>5 DEF Joined
<1>6. CASE UNCHANGED vars
  BY <1>6 DEF vars, CountsExact, LockQueue, WaitQueue
<1> HIDE DEF Counted, LockSafe
<1> QED
  BY <1>1, <1>2, <1>3, <1>4, <1>5, <1>6, CountsMove DEF Next, LockSafe

-----------------------------------------------------------------------------
(* Sleepers and the queue, and the lock that was freed.                    *)

\* Who is blocked on a condition variable is at one of its waits.
Sleepers ==
    /\ \A t \in cond_l : pc[t] \in LockPoints
    /\ \A t \in cond_w : pc[t] \in {"waiting", "waittime"}

\* What a thread saw of the queue holds while it keeps pMutex->mutex.
QueueSeen ==
    /\ events >= Null
    /\ \A t \in Thread : /\ pc[t] = "created" => events = Null
                         /\ pc[t] = "committed" => ~HaveEvents
                         /\ pc[t] = "taking" => HaveEvents

\* Every step keeps Sleepers.
LEMMA SleepersKept ==
  ASSUME LockSafe, Sleepers, [Next]_vars
  PROVE  Sleepers'
<1> USE ThreadAssumption
<1> USE DEF Sleepers, LockSafe, TypeOK, PCs, Raw, Asleep, Goto, Free,
        Signalled, LockPoints, call, lock, queue, vm
<1>1. ASSUME NEW t \in Thread, Step(t) PROVE Sleepers'
  <2>1. CASE LockAgain(t) BY <2>1 DEF LockAgain
  <2>2. CASE Lock(t) BY <2>2 DEF Lock
  <2>3. CASE Unlock(t) BY <2>3 DEF Unlock
  <2>4. CASE Notify(t) BY <2>4 DEF Notify
  <2>5. CASE Subscribe(t) BY <2>5 DEF Subscribe, Begin, GiveUpOwn
  <2>6. CASE LockWake(t) BY <2>6 DEF LockWake
  <2>7. CASE LockTimeOut(t) BY <2>7 DEF LockTimeOut
  <2>8. CASE Create(t) BY <2>8 DEF Create
  <2>9. CASE StoreQueue(t) BY <2>9 DEF StoreQueue
  <2>10. CASE Discard(t) BY <2>10 DEF Discard
  <2>11. CASE Add(t) BY <2>11 DEF Add, AddOne, AddAll
  <2>12. CASE ClearQueue(t) BY <2>12 DEF ClearQueue
  <2>13. CASE SubscribeCleared(t)
    BY <2>13 DEF SubscribeCleared, Begin, GiveUpOwn
  <2>14. CASE Check(t) BY <2>14 DEF Check
  <2>15. CASE Wait(t) BY <2>15 DEF Wait
  <2>16. CASE WaitWake(t) BY <2>16 DEF WaitWake
  <2>17. CASE TimeCheck(t) BY <2>17 DEF TimeCheck
  <2>18. CASE TimeWake(t) BY <2>18 DEF TimeWake
  <2>19. CASE WaitTimeOut(t) BY <2>19 DEF WaitTimeOut
  <2>20. CASE Take(t) BY <2>20 DEF Take
  <2>21. CASE Restore(t) BY <2>21 DEF Restore
  <2>22. CASE RestoreWake(t) BY <2>22 DEF RestoreWake
  <2>23. CASE UnlockOwn(t) BY <2>23 DEF UnlockOwn
  <2>24. CASE Leave(t) BY <2>24 DEF Leave
  <2>25. CASE Exit(t) BY <2>25 DEF Exit, UnlockAll
  <2>26. CASE Spurious(t) BY <2>26 DEF Spurious
  <2> QED
    BY <1>1, <2>1, <2>2, <2>3, <2>4, <2>5, <2>6, <2>7, <2>8, <2>9, <2>10,
       <2>11, <2>12, <2>13, <2>14, <2>15, <2>16, <2>17, <2>18, <2>19,
       <2>20, <2>21, <2>22, <2>23, <2>24, <2>25, <2>26 DEF Step, Progress
<1>2. CASE Terminate BY <1>2 DEF Terminate, UnlockAll
<1>3. CASE Scan BY <1>3 DEF Scan
<1>4. CASE WakeAll BY <1>4 DEF WakeAll
<1>5. CASE Joined BY <1>5 DEF Joined
<1>6. CASE UNCHANGED vars BY <1>6 DEF vars
<1> QED BY <1>1, <1>2, <1>3, <1>4, <1>5, <1>6 DEF Next

\* Every step keeps QueueSeen: nobody else changes the queue meanwhile.
LEMMA QueueSeenKept ==
  ASSUME LockSafe, QueueSeen, [Next]_vars
  PROVE  QueueSeen'
<1> USE ThreadAssumption
<1> USE DEF QueueSeen, LockSafe, TypeOK, PCs, Raw, Asleep, Goto, RawHolder,
        MutexFree, HaveEvents, Null, call, lock, queue, vm
<1>1. ASSUME NEW t \in Thread, Step(t) PROVE QueueSeen'
  <2>1. CASE LockAgain(t) BY <2>1 DEF LockAgain
  <2>2. CASE Lock(t) BY <2>2 DEF Lock
  <2>3. CASE Unlock(t) BY <2>3 DEF Unlock
  <2>4. CASE Notify(t) BY <2>4 DEF Notify
  <2>5. CASE Subscribe(t) BY <2>5 DEF Subscribe, Begin, GiveUpOwn
  <2>6. CASE LockWake(t) BY <2>6 DEF LockWake
  <2>7. CASE LockTimeOut(t) BY <2>7 DEF LockTimeOut
  <2>8. CASE Create(t) BY <2>8 DEF Create
  <2>9. CASE StoreQueue(t) BY <2>9 DEF StoreQueue
  <2>10. CASE Discard(t) BY <2>10 DEF Discard
  <2>11. CASE Add(t) BY <2>11 DEF Add, AddOne, AddAll
  <2>12. CASE ClearQueue(t) BY <2>12 DEF ClearQueue
  <2>13. CASE SubscribeCleared(t)
    BY <2>13 DEF SubscribeCleared, Begin, GiveUpOwn
  <2>14. CASE Check(t) BY <2>14 DEF Check
  <2>15. CASE Wait(t) BY <2>15 DEF Wait
  <2>16. CASE WaitWake(t) BY <2>16 DEF WaitWake
  <2>17. CASE TimeCheck(t) BY <2>17 DEF TimeCheck
  <2>18. CASE TimeWake(t) BY <2>18 DEF TimeWake
  <2>19. CASE WaitTimeOut(t) BY <2>19 DEF WaitTimeOut
  <2>20. CASE Take(t) BY <2>20 DEF Take
  <2>21. CASE Restore(t) BY <2>21 DEF Restore
  <2>22. CASE RestoreWake(t) BY <2>22 DEF RestoreWake
  <2>23. CASE UnlockOwn(t) BY <2>23 DEF UnlockOwn
  <2>24. CASE Leave(t) BY <2>24 DEF Leave
  <2>25. CASE Exit(t) BY <2>25 DEF Exit, UnlockAll
  <2>26. CASE Spurious(t) BY <2>26 DEF Spurious
  <2> QED
    BY <1>1, <2>1, <2>2, <2>3, <2>4, <2>5, <2>6, <2>7, <2>8, <2>9, <2>10,
       <2>11, <2>12, <2>13, <2>14, <2>15, <2>16, <2>17, <2>18, <2>19,
       <2>20, <2>21, <2>22, <2>23, <2>24, <2>25, <2>26 DEF Step, Progress
<1>2. CASE Terminate BY <1>2 DEF Terminate, UnlockAll
<1>3. CASE Scan BY <1>3 DEF Scan
<1>4. CASE WakeAll BY <1>4 DEF WakeAll
<1>5. CASE Joined BY <1>5 DEF Joined
<1>6. CASE UNCHANGED vars BY <1>6 DEF vars
<1> QED BY <1>1, <1>2, <1>3, <1>4, <1>5, <1>6 DEF Next

\* The tests lockers > 0 and waiters > 0 of the code are right.
LEMMA SomeQueued ==
  ASSUME TypeOK, CountsExact
  PROVE  /\ lockers > 0 <=> LockQueue # {}
         /\ waiters > 0 <=> WaitQueue # {}
<1>1. LockQueue \in SUBSET Thread /\ WaitQueue \in SUBSET Thread
  BY DEF LockQueue, WaitQueue
<1>2. /\ Cardinality(LockQueue) \in Nat /\ Cardinality(WaitQueue) \in Nat
      /\ Cardinality(LockQueue) = 0 <=> LockQueue = {}
      /\ Cardinality(WaitQueue) = 0 <=> WaitQueue = {}
  BY <1>1, CardinalityAdd, ThreadAssumption
<1> QED BY <1>2 DEF CountsExact

\* No step leaves a free lock to sleepers: a freed lock signals one, one that
\* wakes takes the lock or finds it taken, one that times out finds it taken.
LEMMA NoLostUnlockKept ==
  ASSUME LockSafe, CountsExact, Sleepers, NoLostUnlock, [Next]_vars
  PROVE  NoLostUnlock'
<1> USE ThreadAssumption
<1>a. lockers > 0 <=> LockQueue # {}
  BY SomeQueued DEF LockSafe
<1> USE <1>a
<1> USE DEF NoLostUnlock, LockQueue, OwnerCount, Sleepers, LockSafe, TypeOK,
        PCs, Raw, Asleep, Goto, Free, Acquire, Signalled, LockPoints,
        call, lock, queue, vm
<1>1. ASSUME NEW t \in Thread, Step(t) PROVE NoLostUnlock'
  <2>1. CASE LockAgain(t) BY <2>1 DEF LockAgain
  <2>2. CASE Lock(t) BY <2>2 DEF Lock
  <2>3. CASE Unlock(t) BY <2>3 DEF Unlock
  <2>4. CASE Notify(t) BY <2>4 DEF Notify
  <2>5. CASE Subscribe(t) BY <2>5 DEF Subscribe, Begin, GiveUpOwn
  <2>6. CASE LockWake(t) BY <2>6 DEF LockWake
  <2>7. CASE LockTimeOut(t) BY <2>7 DEF LockTimeOut
  <2>8. CASE Create(t) BY <2>8 DEF Create
  <2>9. CASE StoreQueue(t) BY <2>9 DEF StoreQueue
  <2>10. CASE Discard(t) BY <2>10 DEF Discard
  <2>11. CASE Add(t) BY <2>11 DEF Add
  <2>12. CASE ClearQueue(t) BY <2>12 DEF ClearQueue
  <2>13. CASE SubscribeCleared(t)
    BY <2>13 DEF SubscribeCleared, Begin, GiveUpOwn
  <2>14. CASE Check(t) BY <2>14 DEF Check
  <2>15. CASE Wait(t) BY <2>15 DEF Wait
  <2>16. CASE WaitWake(t) BY <2>16 DEF WaitWake
  <2>17. CASE TimeCheck(t) BY <2>17 DEF TimeCheck
  <2>18. CASE TimeWake(t) BY <2>18 DEF TimeWake
  <2>19. CASE WaitTimeOut(t) BY <2>19 DEF WaitTimeOut
  <2>20. CASE Take(t) BY <2>20 DEF Take
  <2>21. CASE Restore(t) BY <2>21 DEF Restore
  <2>22. CASE RestoreWake(t) BY <2>22 DEF RestoreWake, SavedWhere
  <2>23. CASE UnlockOwn(t) BY <2>23 DEF UnlockOwn
  <2>24. CASE Leave(t) BY <2>24 DEF Leave
  <2>25. CASE Exit(t) BY <2>25 DEF Exit, UnlockAll
  <2>26. CASE Spurious(t) BY <2>26 DEF Spurious
  <2> QED
    BY <1>1, <2>1, <2>2, <2>3, <2>4, <2>5, <2>6, <2>7, <2>8, <2>9, <2>10,
       <2>11, <2>12, <2>13, <2>14, <2>15, <2>16, <2>17, <2>18, <2>19,
       <2>20, <2>21, <2>22, <2>23, <2>24, <2>25, <2>26 DEF Step, Progress
<1>2. CASE Terminate BY <1>2 DEF Terminate, UnlockAll
<1>3. CASE Scan BY <1>3 DEF Scan
<1>4. CASE WakeAll BY <1>4 DEF WakeAll
<1>5. CASE Joined BY <1>5 DEF Joined
<1>6. CASE UNCHANGED vars BY <1>6 DEF vars
<1> QED BY <1>1, <1>2, <1>3, <1>4, <1>5, <1>6 DEF Next

-----------------------------------------------------------------------------
(* Notifications.                                                          *)

\* The waiters that have been woken.
Awake == WaitQueue \ cond_w

\* A step that has nothing to do with the queue; it may wake waiters.
Undisturbed ==
    /\ events' = events /\ waiters' = waiters
    /\ WaitQueue' = WaitQueue /\ Takers' = Takers
    /\ cond_w' \subseteq cond_w

\* A step by which t becomes the one thread that looks for an event, maybe
\* ceasing to be a waiter.
Found(t) ==
    /\ Takers = {} /\ Takers' = {t}
    /\ events' = events
    /\ \/ waiters' = waiters /\ Awake' = Awake
       \/ waiters' = waiters - 1 /\ Awake \ {t} \subseteq Awake'

\* What a step is to the queue.
EventStep(t) ==
    \/ events' <= 0
    \/ Undisturbed
    \/ Found(t)
    \/ Take(t)
    \/ Add(t)

\* The numbers in NoLostEvent, now ...
LEMMA Cards ==
  ASSUME ThreadAssumption
  PROVE  /\ Cardinality(Takers) \in Nat
         /\ Cardinality(Awake) \in Nat
         /\ Cardinality(Awake) <= Cardinality(WaitQueue)
         /\ Cardinality(WaitQueue) \in Nat
<1>1. Takers \in SUBSET Thread /\ WaitQueue \in SUBSET Thread
      /\ Awake \in SUBSET WaitQueue
  BY DEF Takers, WaitQueue, Awake
<1> QED BY <1>1, CardinalityAdd, CardinalityMono, ThreadAssumption

\* ... and after a step.
LEMMA CardsPrimed ==
  ASSUME ThreadAssumption
  PROVE  /\ Cardinality(Takers') \in Nat
         /\ Cardinality(Awake') \in Nat
         /\ Cardinality(WaitQueue') \in Nat
<1>1. Takers' \in SUBSET Thread /\ WaitQueue' \in SUBSET Thread
      /\ Awake' \in SUBSET WaitQueue'
  BY DEF Takers, WaitQueue, Awake
<1> QED BY <1>1, CardinalityMono, CardinalityAdd, ThreadAssumption

\* Every step is one of those.
LEMMA EventStepTaken ==
  ASSUME LockSafe, CountsExact, Sleepers, QueueSeen, [Next]_vars
  PROVE  \/ \E t \in Thread : EventStep(t)
         \/ UNCHANGED vars
<1> USE ThreadAssumption
<1> USE DEF EventStep, Undisturbed, Found, Awake, WaitQueue, Takers,
        WaitPoints, Sleepers, QueueSeen, HaveEvents, MutexFree, RawHolder,
        LockSafe, TypeOK, PCs, Raw, Asleep, Goto, Null, call, lock, queue, vm
<1>1. ASSUME NEW t \in Thread, Step(t) PROVE EventStep(t)
  <2>1. CASE LockAgain(t) BY <2>1 DEF LockAgain
  <2>2. CASE Lock(t) BY <2>2 DEF Lock
  <2>3. CASE Unlock(t) BY <2>3 DEF Unlock
  <2>4. CASE Notify(t) BY <2>4 DEF Notify
  <2>5. CASE Subscribe(t) BY <2>5 DEF Subscribe, Begin, GiveUpOwn
  <2>6. CASE LockWake(t) BY <2>6 DEF LockWake
  <2>7. CASE LockTimeOut(t) BY <2>7 DEF LockTimeOut
  <2>8. CASE Create(t) BY <2>8 DEF Create
  <2>9. CASE StoreQueue(t) BY <2>9 DEF StoreQueue
  <2>10. CASE Discard(t) BY <2>10 DEF Discard
  <2>11. CASE Add(t) BY <2>11 DEF EventStep
  <2>12. CASE ClearQueue(t) BY <2>12 DEF ClearQueue
  <2>13. CASE SubscribeCleared(t)
    BY <2>13 DEF SubscribeCleared, Begin, GiveUpOwn
  <2>14. CASE Check(t) BY <2>14 DEF Check
  <2>15. CASE Wait(t) BY <2>15 DEF Wait
  <2>16. CASE WaitWake(t) BY <2>16 DEF WaitWake
  <2>17. CASE TimeCheck(t) BY <2>17 DEF TimeCheck
  <2>18. CASE TimeWake(t) BY <2>18 DEF TimeWake
  <2>19. CASE WaitTimeOut(t) BY <2>19 DEF WaitTimeOut
  <2>20. CASE Take(t) BY <2>20 DEF EventStep
  <2>21. CASE Restore(t) BY <2>21 DEF Restore
  <2>22. CASE RestoreWake(t) BY <2>22 DEF RestoreWake
  <2>23. CASE UnlockOwn(t) BY <2>23 DEF UnlockOwn
  <2>24. CASE Leave(t) BY <2>24 DEF Leave
  <2>25. CASE Exit(t) BY <2>25 DEF Exit, UnlockAll
  <2>26. CASE Spurious(t) BY <2>26 DEF Spurious
  <2> QED
    BY <1>1, <2>1, <2>2, <2>3, <2>4, <2>5, <2>6, <2>7, <2>8, <2>9, <2>10,
       <2>11, <2>12, <2>13, <2>14, <2>15, <2>16, <2>17, <2>18, <2>19,
       <2>20, <2>21, <2>22, <2>23, <2>24, <2>25, <2>26 DEF Step, Progress
<1>2. ASSUME Terminate PROVE EventStep(Main) BY <1>2 DEF Terminate, UnlockAll
<1>3. ASSUME Scan PROVE EventStep(Main) BY <1>3 DEF Scan
<1>4. ASSUME WakeAll PROVE EventStep(Main) BY <1>4 DEF WakeAll
<1>5. ASSUME Joined PROVE EventStep(Main) BY <1>5 DEF Joined
<1> HIDE DEF EventStep
<1> QED BY <1>1, <1>2, <1>3, <1>4, <1>5 DEF Next

\* None of them leaves an event in the queue that a sleeper should take.
LEMMA NoLostEventKept ==
  ASSUME LockSafe, LockSafe', CountsExact, CountsExact', Sleepers, QueueSeen,
         NoLostEvent, [Next]_vars
  PROVE  NoLostEvent'
<1> USE ThreadAssumption
<1> DEFINE A == Cardinality(Awake)
           T == Cardinality(Takers)
           AA == Cardinality(Awake')
           TT == Cardinality(Takers')
<1>1. /\ A \in Nat /\ T \in Nat /\ AA \in Nat /\ TT \in Nat
      /\ A <= waiters /\ waiters \in Nat /\ waiters' \in Nat
      /\ events \in Int /\ events' \in Int
      /\ waiters = Cardinality(WaitQueue)
  BY Cards, CardsPrimed DEF CountsExact, LockSafe, TypeOK
<1>2. /\ NoLostEvent <=> events <= A + T \/ waiters + T <= A + T
      /\ NoLostEvent' <=> events' <= AA + TT \/ waiters' + TT <= AA + TT
  BY <1>1 DEF NoLostEvent, LeastOf, Awake
<1>3. events <= A + T \/ waiters <= A
  BY <1>1, <1>2
<1>4. SUFFICES events' <= AA + TT \/ waiters' <= AA
  BY <1>1, <1>2
<1> HIDE DEF A, T, AA, TT
<1>5. CASE events' <= 0
  BY <1>1, <1>5
<1>6. CASE Undisturbed
  <2>1. TT = T /\ events' = events /\ waiters' = waiters
    BY <1>6 DEF Undisturbed, T, TT
  <2>2. Awake \subseteq Awake' /\ Awake' \in SUBSET Thread
    BY <1>6 DEF Undisturbed, Awake, WaitQueue
  <2>3. A <= AA
    BY <2>2, CardinalityMono DEF A, AA
  <2> QED BY <1>1, <1>3, <2>1, <2>3
<1>7. ASSUME NEW t \in Thread, Found(t)
      PROVE  events' <= AA + TT \/ waiters' <= AA
  <2>1. T = 0 /\ TT = 1 /\ events' = events
    BY <1>7, CardinalityNone, CardinalityOne DEF Found, T, TT
  <2>2. CASE waiters' = waiters /\ Awake' = Awake
    BY <1>1, <1>3, <2>1, <2>2 DEF A, AA
  <2>3. CASE waiters' = waiters - 1 /\ Awake \ {t} \subseteq Awake'
    <3>1. Awake \in SUBSET Thread /\ Awake' \in SUBSET Thread
          /\ Awake \ {t} \in SUBSET Awake'
      BY <2>3 DEF Awake, WaitQueue
    <3>2. Cardinality(Awake \ {t}) <= AA /\ Cardinality(Awake \ {t}) \in Nat
      BY <3>1, CardinalityMono DEF AA
    <3>3. CASE t \in Awake
      <4>1. Cardinality(Awake \ {t}) = A - 1
        BY <3>1, <3>3, CardinalityAdd DEF A
      <4> QED BY <1>1, <1>3, <2>1, <2>3, <3>2, <4>1
    <3>4. CASE t \notin Awake
      <4>1. Awake \ {t} = Awake BY <3>4
      <4>2. Cardinality(Awake \ {t}) = A BY <4>1 DEF A
      <4> QED BY <1>1, <1>3, <2>1, <2>3, <3>2, <4>2
    <3> QED BY <3>3, <3>4
  <2> QED BY <1>7, <2>2, <2>3 DEF Found
<1>8. ASSUME NEW t \in Thread, Take(t)
      PROVE  events' <= AA + TT \/ waiters' <= AA
  <2>1. /\ Takers = {t} /\ Takers' = {} /\ WaitQueue' = WaitQueue
        /\ Awake' = Awake
    BY <1>8 DEF Take, Takers, WaitQueue, Awake, WaitPoints, LockSafe, TypeOK,
                RawHolder, Raw, PCs, Goto
  <2>2. T = 1 /\ TT = 0 /\ AA = A
    BY <2>1, CardinalityNone, CardinalityOne DEF A, AA, T, TT
  <2>3. events' = events - 1 /\ waiters' = waiters
    BY <1>8 DEF Take
  <2> QED BY <1>1, <1>3, <2>2, <2>3
<1>9. ASSUME NEW t \in Thread, Add(t)
      PROVE  events' <= AA + TT \/ waiters' <= AA
  <2>1. /\ Takers = {} /\ WaitQueue' = WaitQueue /\ waiters' = waiters
        /\ WaitQueue \in SUBSET Thread
    BY <1>9 DEF Add, Takers, WaitQueue, WaitPoints, LockSafe, TypeOK,
                RawHolder, Raw, PCs, Goto
  <2>2. T = 0
    BY <2>1, CardinalityNone DEF T
  <2>3. CASE cond_w' = {}
    <3>1. Awake' = WaitQueue BY <2>1, <2>3 DEF Awake
    <3>2. AA = waiters BY <1>1, <3>1 DEF AA
    <3> QED BY <2>1, <3>2, <1>1
  <2>4. ASSUME NEW u \in cond_w, cond_w' = cond_w \ {u} PROVE AA = A + 1
    <3>1. u \in WaitQueue /\ u \in Thread
      BY <2>4 DEF Sleepers, WaitQueue, WaitPoints, LockSafe, TypeOK
    <3>2. Awake' = Awake \cup {u} /\ u \notin Awake /\ Awake \in SUBSET Thread
      BY <2>1, <2>4, <3>1 DEF Awake
    <3> QED BY <3>1, <3>2, CardinalityAdd DEF A, AA
  <2>5. CASE AddOne /\ waiters > 0
    <3>1. events' = events + 1 /\ cond_w' \in Signalled(cond_w)
      BY <2>5 DEF AddOne
    <3>2. cond_w' = {} \/ \E u \in cond_w : cond_w' = cond_w \ {u}
      BY <3>1 DEF Signalled
    <3>3. CASE AA = A + 1
      BY <1>1, <1>3, <2>1, <2>2, <3>1, <3>3
    <3> QED BY <2>3, <2>4, <3>2, <3>3
  <2>6. CASE AddOne /\ ~(waiters > 0)
    BY <1>1, <2>1, <2>6
  <2>7. CASE waiters > events /\ AddAll
    <3>1. /\ events' = waiters
          /\ cond_w' \in IF waiters - events = 1 THEN Signalled(cond_w) ELSE {{}}
      BY <1>1, <2>7 DEF AddAll
    <3>2. \/ cond_w' = {}
          \/ (waiters - events = 1 /\ \E u \in cond_w : cond_w' = cond_w \ {u})
      BY <3>1 DEF Signalled
    <3>3. CASE AA = A + 1 /\ waiters - events = 1
      BY <1>1, <1>3, <2>1, <2>2, <3>1, <3>3
    <3> QED BY <2>3, <2>4, <3>2, <3>3
  <2>8. CASE ~(waiters > events) /\ AddAll
    <3>1. events' = events /\ cond_w' = cond_w
      BY <1>1, <2>8 DEF AddAll
    <3>2. AA = A
      BY <2>1, <3>1 DEF A, AA, Awake
    <3> QED BY <1>1, <1>3, <2>1, <2>2, <3>1, <3>2
  <2> QED BY <1>9, <2>5, <2>6, <2>7, <2>8 DEF Add
<1>10. CASE UNCHANGED vars
  <2>1. Undisturbed
    BY <1>10 DEF vars, queue, Undisturbed, WaitQueue, Takers
  <2> QED BY <1>6, <2>1
<1> QED BY <1>5, <1>6, <1>7, <1>8, <1>9, <1>10, EventStepTaken DEF EventStep

-----------------------------------------------------------------------------
(* The invariant, and what follows from it.                                *)

\* The inductive invariant.
Safe ==
    /\ LockSafe
    /\ CountsExact
    /\ Sleepers
    /\ QueueSeen
    /\ NoLostUnlock
    /\ NoLostEvent

\* It holds of a new mutex.
LEMMA SafeInit == Init => Safe
<1> SUFFICES ASSUME Init PROVE Safe
  OBVIOUS
<1> USE ThreadAssumption
<1>1. LockSafe
  <2>1. TypeOK
    <3>1. /\ pc \in [Thread -> PCs]
          /\ arg \in [Thread -> Timeouts \cup {"one", "all"}]
          /\ held \in [Thread -> Nat]
          /\ saved \in [Thread -> Nat]
      BY DEF Init, PCs, Timeouts
    <3>2. /\ lock_count \in Nat /\ lockers \in Int
          /\ events \in Int /\ waiters \in Int
      BY DEF Init, Null
    <3>3. /\ owner \in Thread \cup {NoThread}
          /\ mutex \in Thread \cup {NoThread}
          /\ s_mutexlst_mtx \in Thread \cup {NoThread}
          /\ s_vmMtx \in {Main, NoThread}
      BY DEF Init
    <3>4. /\ cond_l \subseteq Thread /\ cond_w \subseteq Thread
          /\ quit \in BOOLEAN
      BY DEF Init
    <3> QED BY <3>1, <3>2, <3>3, <3>4 DEF TypeOK
  <2>2. OwnerCount /\ LockHeld
    BY DEF Init, OwnerCount, LockHeld
  <2>3. SavedWhere /\ Unlocking /\ RawHolder
    BY DEF Init, SavedWhere, Unlocking, RawHolder, Raw
  <2> QED BY <2>1, <2>2, <2>3 DEF LockSafe
<1>2. LockQueue = {} /\ WaitQueue = {} /\ Takers = {}
  BY DEF Init, LockQueue, WaitQueue, Takers, LockPoints, WaitPoints
<1>3. CountsExact
  BY <1>2, CardinalityNone DEF Init, CountsExact
<1>4. Sleepers /\ QueueSeen
  BY DEF Init, Sleepers, QueueSeen, Null
<1>5. NoLostUnlock
  BY <1>2 DEF NoLostUnlock
<1>6. NoLostEvent
  <2>1. WaitQueue \ cond_w = {}
    BY <1>2
  <2> QED
    BY <1>2, <2>1, CardinalityNone DEF Init, NoLostEvent, LeastOf, Null
<1> QED BY <1>1, <1>3, <1>4, <1>5, <1>6 DEF Safe

\* Every step keeps it.
LEMMA SafeKept ==
  ASSUME Safe, [Next]_vars
  PROVE  Safe'
<1>1. LockSafe'
  BY TypeKept, LockKept DEF Safe, LockSafe, Moves
<1>2. CountsExact'
  BY CountsKept DEF Safe
<1>3. Sleepers' /\ QueueSeen'
  BY SleepersKept, QueueSeenKept DEF Safe
<1>4. NoLostUnlock'
  BY NoLostUnlockKept DEF Safe
<1>5. NoLostEvent'
  BY <1>1, <1>2, NoLostEventKept DEF Safe
<1> QED BY <1>1, <1>2, <1>3, <1>4, <1>5 DEF Safe

\* The invariant of a mutex object holds in every reachable state.
THEOREM SafeAlways == Spec => []Safe
BY SafeInit, SafeKept, PTL DEF Spec

\* The fields of HB_MUTEX keep their types: lock_count, which the code
\* decrements in hb_threadMutexUnlock, never becomes negative.
THEOREM TypeCorrect == Spec => []TypeOK
<1>1. Safe => TypeOK
  BY DEF Safe, LockSafe
<1> QED BY <1>1, SafeAlways, PTL

\* PRG code that locked a mutex n times is its owner n times over, but for the
\* wait inside hb_threadMutexSubscribe, which gives the lock back whole.
THEOREM LockAlwaysHeld == Spec => []LockHeld
<1>1. Safe => LockHeld
  BY DEF Safe, LockSafe
<1> QED BY <1>1, SafeAlways, PTL

\* lockers and waiters, by which the code decides whether to signal, count the
\* threads that wait.
THEOREM CountersExact == Spec => []CountsExact
<1>1. Safe => CountsExact
  BY DEF Safe
<1> QED BY <1>1, SafeAlways, PTL

\* hb_threadMutexUnlock, and whatever else frees the lock, has woken one of the
\* threads that wait for it.
THEOREM UnlockNotLost == Spec => []NoLostUnlock
<1>1. Safe => NoLostUnlock
  BY DEF Safe
<1> QED BY <1>1, SafeAlways, PTL

\* hb_threadMutexNotify has woken a waiter for every notification that is in
\* the queue, or every waiter if there are fewer.
THEOREM EventNotLost == Spec => []NoLostEvent
<1>1. Safe => NoLostEvent
  BY DEF Safe
<1> QED BY <1>1, SafeAlways, PTL

\* A notification leaves the queue by being taken, or by hb_mutexSubscribeNow:
\* hb_thredMutexEventInit, called by two notifiers at once, replaces no array.
THEOREM QueueShrinksByTaking == Spec => NotificationsKept
<1> DEFINE Taken(t) ==
             \/ /\ pc[t] = "taking" /\ pc'[t] = "restoring"
                /\ events' = events - 1
             \/ /\ pc[t] = "clearing" /\ pc'[t] = "cleared"
                /\ events' = Null
<1>1. ASSUME Safe, NEW t \in Thread, Step(t), events' < events
      PROVE  Taken(t)
  <2> USE <1>1 DEF queue
  <2>1. CASE Take(t) \/ ClearQueue(t)
    BY <2>1 DEF Take, ClearQueue, Goto, Safe, LockSafe, TypeOK
  <2>2. CASE StoreQueue(t)
    BY <2>2 DEF StoreQueue, Safe, QueueSeen, Null
  <2>3. CASE Add(t)
    BY <2>3 DEF Add, AddOne, AddAll, Safe, LockSafe, TypeOK
  <2>4. ASSUME ~(Take(t) \/ ClearQueue(t) \/ StoreQueue(t) \/ Add(t))
        PROVE  events' = events
    <3>1. CASE LockAgain(t) \/ Lock(t) \/ Unlock(t) \/ Notify(t) \/ Exit(t)
      BY <3>1 DEF LockAgain, Lock, Unlock, Notify, Exit
    <3>2. CASE Subscribe(t) \/ LockWake(t) \/ LockTimeOut(t) \/ Create(t)
      BY <3>2 DEF Subscribe, LockWake, LockTimeOut, Create
    <3>3. CASE Discard(t) \/ SubscribeCleared(t) \/ Check(t) \/ Wait(t)
      BY <3>3 DEF Discard, SubscribeCleared, Check, Wait
    <3>4. CASE \/ WaitWake(t) \/ TimeCheck(t) \/ TimeWake(t)
               \/ WaitTimeOut(t)
      BY <3>4 DEF WaitWake, TimeCheck, TimeWake, WaitTimeOut
    <3>5. CASE Restore(t) \/ RestoreWake(t) \/ UnlockOwn(t) \/ Leave(t)
      BY <3>5 DEF Restore, RestoreWake, UnlockOwn, Leave
    <3>6. CASE Spurious(t)
      BY <3>6 DEF Spurious
    <3> QED
      BY <2>4, <3>1, <3>2, <3>3, <3>4, <3>5, <3>6 DEF Step, Progress
  <2> QED
    BY <2>1, <2>2, <2>3, <2>4 DEF Safe, LockSafe, TypeOK
<1>2. ASSUME Terminate \/ Scan \/ WakeAll \/ Joined \/ UNCHANGED vars
      PROVE  events' = events
  BY <1>2 DEF Terminate, Scan, WakeAll, Joined, vars, queue
<1>3. Safe /\ [Next]_vars
        => [events' < events =>
              \E t \in Thread :
                 \/ pc[t] = "taking" /\ pc'[t] = "restoring"
                       /\ events' = events - 1
                 \/ pc[t] = "clearing" /\ pc'[t] = "cleared"
                       /\ events' = Null]_vars
  BY <1>1, <1>2 DEF Next, Safe, LockSafe, TypeOK
<1> QED BY <1>3, SafeAlways, PTL DEF Spec, NotificationsKept

\* A subscription that found a notification takes one: whoever else takes,
\* clears or adds, the queue has an element when hb_arrayGet reads it.
THEOREM TakenFromQueue == Spec => []TakeReady
<1>1. Safe => TakeReady
  BY DEF Safe, QueueSeen, TakeReady, HaveEvents
<1> QED BY <1>1, SafeAlways, PTL

=============================================================================
