---------------------------- MODULE VMLock_proof ----------------------------
(***************************************************************************)
(* Proofs about VMLock, for every set of threads and every bound.          *)
(*                                                                         *)
(* The safety properties of the VM lock hold each other up.  That the      *)
(* collector is alone follows from the running count being exact and zero  *)
(* when it was let in, and stays so because it keeps s_vmMtx; that a       *)
(* request has one owner is what makes a broadcast reach whoever waits for *)
(* it; that hb_vmTerminateThreads() may drop all requests rests on the     *)
(* stack count.  Safe, below, is their conjunction with the facts they     *)
(* need: who holds s_vmMtx, who made the STOP request, who may be blocked, *)
(* what a thread being started is doing, and, as long as the HVM is        *)
(* active, that a thread inside has an unlock counter of 0.                *)
(***************************************************************************)
EXTENDS VMLock, FiniteSetTheorems, TLAPS

-----------------------------------------------------------------------------
(* Types.                                                                  *)

\* Every step keeps the types.
LEMMA TypeKept ==
  ASSUME TypeOK, [Next]_vars
  PROVE  TypeOK'
<1> USE ThreadAssumption, ForeignAssumption, KillableAssumption,
        BoundAssumption
<1> DEFINE PerThreadOK ==
             /\ pc \in [Thread -> PCs]
             /\ iUnlocked \in [Thread -> Nat]
             /\ child \in [Thread -> Thread \cup {NoThread}]
           SharedOK ==
             /\ closing \subseteq Thread
             /\ actionRequest \subseteq Thread
             /\ quitState \subseteq Thread
             /\ s_vmMtx \in Thread \cup {NoThread}
             /\ s_vmCond \subseteq Thread
             /\ s_iRunningCount \in Int
             /\ s_iStackCount \in Int
             /\ shutdown \in {"no", "exit", "inactive"}
           RequestOK == hb_vmThreadRequest \subseteq {"STOP", "QUIT"}
<1> USE DEF TypeOK, PCs, Goto, DeliverQuit, delivered, own, world
<1>1. ASSUME NEW t \in Thread, Step(t) PROVE TypeOK'
  <2>1. CASE Unlock(t) BY <2>1 DEF Unlock
  <2>25. CASE UnlockLeave(t) BY <2>25 DEF UnlockLeave, NotifyRequester
  <2>2. CASE Nested(t) BY <2>2 DEF Nested
  <2>3. CASE Lock(t) BY <2>3 DEF Lock
  <2>26. CASE LockIgnored(t) BY <2>26 DEF LockIgnored
  <2>4. CASE LockLoop(t) BY <2>4 DEF LockLoop, LockRound
  <2>5. CASE LockForce(t) BY <2>5 DEF LockForce
  <2>27. CASE ForceEnter(t) BY <2>27 DEF ForceEnter
  <2>6. CASE RequestTest(t) BY <2>6 DEF RequestTest, TestRound
  <2>7. CASE RequestTestLoop(t) BY <2>7 DEF RequestTestLoop, TestRound
  <2>8. CASE RequestQuery(t) BY <2>8 DEF RequestQuery
  <2>9. CASE Suspend(t)
    <3>1. PerThreadOK' BY <2>9 DEF Suspend
    <3>2. SharedOK' BY <2>9 DEF Suspend
    <3>3. RequestOK' BY <2>9 DEF Suspend
    <3> QED BY <3>1, <3>2, <3>3
  <2>10. CASE SuspendLoop(t)
    <3>1. PerThreadOK' BY <2>10 DEF SuspendLoop
    <3>2. SharedOK' BY <2>10 DEF SuspendLoop
    <3>3. RequestOK' BY <2>10 DEF SuspendLoop
    <3> QED BY <3>1, <3>2, <3>3
  <2>11. CASE Resume(t) BY <2>11 DEF Resume
  <2>12. ASSUME NEW u \in Thread, Register(t, u) PROVE TypeOK'
    BY <2>12 DEF Register
  <2>13. CASE Created(t) BY <2>13 DEF Created
  <2>14. CASE CreateFailed(t)
    <3>1. PerThreadOK' BY <2>14 DEF CreateFailed
    <3>2. SharedOK' BY <2>14 DEF CreateFailed
    <3>3. RequestOK' BY <2>14 DEF CreateFailed
    <3> QED BY <3>1, <3>2, <3>3
  <2>15. CASE StackInit(t) BY <2>15 DEF StackInit
  <2>16. CASE ThreadQuit(t) BY <2>16 DEF ThreadQuit
  <2>17. CASE StackDel(t) BY <2>17 DEF StackDel
  <2>18. CASE StackRelease(t) BY <2>18 DEF StackRelease
  <2>19. ASSUME NEW u \in Thread, QuitRequest(t, u) PROVE TypeOK'
    BY <2>19 DEF QuitRequest
  <2>28. CASE GateTest(t) BY <2>28 DEF GateTest
  <2>20. CASE Gate(t) BY <2>20 DEF Gate
  <2>21. CASE ForeignStackInit(t) BY <2>21 DEF ForeignStackInit
  <2>22. CASE ForeignLockLoop(t) BY <2>22 DEF ForeignLockLoop, LockRound
  <2>23. CASE GateLeave(t) BY <2>23 DEF GateLeave
  <2>24. CASE Spurious(t) BY <2>24 DEF Spurious
  <2> QED
    BY <1>1, <2>1, <2>2, <2>3, <2>4, <2>5, <2>6, <2>7, <2>8, <2>9, <2>10,
       <2>11, <2>12, <2>13, <2>14, <2>15, <2>16, <2>17, <2>18, <2>19,
       <2>20, <2>21, <2>22, <2>23, <2>24, <2>25, <2>26, <2>27, <2>28 DEF Step
<1>2. CASE TerminateThreads
  <2>1. PerThreadOK' BY <1>2 DEF TerminateThreads
  <2>2. SharedOK' BY <1>2 DEF TerminateThreads
  <2>3. RequestOK' BY <1>2 DEF TerminateThreads
  <2> QED BY <2>1, <2>2, <2>3
<1>3. CASE WaitForThreads BY <1>3 DEF WaitForThreads
<1>4. CASE JoinLoop
  <2>1. PerThreadOK' BY <1>4 DEF JoinLoop
  <2>2. SharedOK' BY <1>4 DEF JoinLoop
  <2>3. RequestOK' BY <1>4 DEF JoinLoop
  <2> QED BY <2>1, <2>2, <2>3
<1>5. CASE Deactivate BY <1>5 DEF Deactivate
<1>6. CASE UNCHANGED vars BY <1>6 DEF vars
<1> QED BY <1>1, <1>2, <1>3, <1>4, <1>5, <1>6 DEF Next, Exited

-----------------------------------------------------------------------------
(* The inductive invariant.                                                *)

\* s_vmMtx is kept across actions by the collector and by nobody else.
Holder == \A g \in Thread : s_vmMtx = g <=> pc[g] = "gc"

\* A thread in hb_threadStart has a child of its own, registered and waiting
\* for its system thread.
Starting ==
    /\ \A t \in Thread :
          pc[t] = "starting" => child[t] \in Thread /\ pc[child[t]] = "reg"
    /\ \A t, u \in Thread :
          /\ pc[t] = "starting" /\ pc[u] = "starting"
          /\ child[t] = child[u]
          => t = u

\* Only a thread in one of the wait loops is blocked on s_vmCond.
Sleepers == \A t \in s_vmCond :
    pc[t] \in {"lock", "test", "susp", "term", "wait", "ewait", "elock"}

\* STOP is requested exactly while one thread waits for the others to stop or
\* has stopped them.
RequestOwner ==
    /\ \A t \in Thread : pc[t] \in {"susp", "gc"} => Stop
    /\ Stop => \E t \in Thread : pc[t] \in {"susp", "gc"}
    /\ \A t, u \in Thread :
          pc[t] \in {"susp", "gc"} /\ pc[u] \in {"susp", "gc"} => t = u

\* While the HVM is active hb_vmLock() and hb_vmLockForce() are heeded: the
\* unlock counter of a thread inside, or waiting to be let in, is 0, and one
\* that has given up its stack knows that it was counted.
Heeded == Active => \A t \in Thread :
    /\ pc[t] \in {"run", "starting", "lock", "force", "test", "susp", "gc",
                  "term", "wait", "elock", "edec"} => iUnlocked[t] = 0
    /\ pc[t] = "releasing" => iUnlocked[t] = 1

Protocol ==
    /\ Holder
    /\ Starting
    /\ Sleepers
    /\ RequestOwner
    /\ Heeded
    /\ StopsTheWorldWhileActive
    /\ QuitBeatsStop
    /\ NoLostWakeup

Safe ==
    /\ TypeOK
    /\ CountsExact
    /\ Protocol

-----------------------------------------------------------------------------
(* What the counters say, being exact.                                     *)

\* While the HVM is active, a running count of 0 says that nobody is inside,
\* and a running count of 1, read by a thread inside, that nobody else is.
LEMMA LoneRunner ==
  ASSUME TypeOK, CountsExact, Active
  PROVE  /\ s_iRunningCount <= 0 => InVM = {} /\ PastGate = {}
         /\ \A t \in Thread : s_iRunningCount <= 1 /\ t \in InVM
                                 => InVM = {t} /\ PastGate = {}
<1>1. IsFiniteSet(InVM) /\ IsFiniteSet(PastGate)
  BY ThreadAssumption, FS_Subset DEF InVM, PastGate
<1>2. Cardinality(InVM) \in Nat /\ Cardinality(PastGate) \in Nat
  BY <1>1, FS_CardinalityType
<1>3. ASSUME s_iRunningCount <= 0 PROVE InVM = {} /\ PastGate = {}
  <2>1. Cardinality(InVM) = 0 /\ Cardinality(PastGate) = 0
    BY <1>2, <1>3 DEF CountsExact
  <2> QED BY <1>1, <2>1, FS_EmptySet
<1>4. ASSUME NEW t \in Thread, s_iRunningCount <= 1, t \in InVM
      PROVE  InVM = {t} /\ PastGate = {}
  <2>1. Cardinality(InVM) # 0
    BY <1>1, <1>4, FS_EmptySet
  <2>2. Cardinality(InVM) = 1 /\ Cardinality(PastGate) = 0
    BY <1>2, <1>4, <2>1 DEF CountsExact
  <2>3. Cardinality(InVM \ {t}) = 0
    BY <1>1, <1>4, <2>2, FS_RemoveElement, 1 - 1 = 0
  <2>4. InVM \ {t} = {}
    BY <1>1, <2>3, FS_EmptySet, FS_Subset
  <2> QED BY <1>1, <1>4, <2>2, <2>4, FS_EmptySet
<1> QED BY <1>3, <1>4

\* A stack count of at most 1, read by a thread that has a stack, says that
\* no other thread has one.
LEMMA LoneStack ==
  ASSUME TypeOK, CountsExact, NEW t \in HasStack, ~OthersLeft
  PROVE  HasStack = {t}
<1>1. IsFiniteSet(HasStack)
  BY ThreadAssumption, FS_Subset DEF HasStack
<1>2. Cardinality(HasStack) \in Nat /\ Cardinality(HasStack) # 0
  BY <1>1, FS_CardinalityType, FS_EmptySet
<1>3. Cardinality(HasStack) = 1
  BY <1>2 DEF CountsExact, OthersLeft, TypeOK
<1>4. Cardinality(HasStack \ {t}) = 0
  BY <1>1, <1>3, FS_RemoveElement
<1> QED BY <1>1, <1>4, FS_EmptySet, FS_Subset

-----------------------------------------------------------------------------
(* The counters stay exact.                                                *)

\* The number of threads at a control point of P, and what one thread at p
\* adds to it.
Count(P, f) == Cardinality({t \in Thread : f[t] \in P})
Weight(P, p) == IF p \in P THEN 1 ELSE 0

\* One thread changing its control point changes the number of threads in a
\* set of control points by its own weight.
LEMMA MoveOne ==
  ASSUME NEW f \in [Thread -> PCs], NEW t \in Thread, NEW p \in PCs, NEW P
  PROVE  /\ Count(P, f) \in Nat
         /\ Count(P, [f EXCEPT ![t] = p])
              = Count(P, f) - Weight(P, f[t]) + Weight(P, p)
<1> DEFINE A == {u \in Thread : f[u] \in P}
           B == {u \in Thread : [f EXCEPT ![t] = p][u] \in P}
           C == A \ {t}
<1>1. IsFiniteSet(A) /\ IsFiniteSet(B) /\ IsFiniteSet(C)
  BY ThreadAssumption, FS_Subset
<1>2. /\ Cardinality(A) \in Nat
      /\ Cardinality(C) \in Nat
  BY <1>1, FS_CardinalityType
<1>3. IF f[t] \in P THEN t \in A ELSE C = A
  OBVIOUS
<1>4. IF p \in P THEN B = C \cup {t} ELSE B = C
  OBVIOUS
<1>5. t \notin C
  OBVIOUS
<1> HIDE DEF A, B, C
<1>6. Cardinality(C) = Cardinality(A) - Weight(P, f[t])
  <2>1. CASE f[t] \in P
    <3>1. Cardinality(C) = Cardinality(A) - 1
      BY <1>1, <1>3, <2>1, FS_RemoveElement DEF C
    <3> QED BY <2>1, <3>1 DEF Weight
  <2>2. CASE f[t] \notin P
    BY <1>2, <1>3, <2>2 DEF Weight
  <2> QED BY <2>1, <2>2
<1>7. Cardinality(B) = Cardinality(C) + Weight(P, p)
  <2>1. CASE p \in P
    <3>1. Cardinality(B) = Cardinality(C) + 1
      BY <1>1, <1>4, <1>5, <2>1, FS_AddElement
    <3> QED BY <2>1, <3>1 DEF Weight
  <2>2. CASE p \notin P
    BY <1>2, <1>4, <2>2 DEF Weight
  <2> QED BY <2>1, <2>2
<1>8. /\ Count(P, f) = Cardinality(A)
      /\ Count(P, [f EXCEPT ![t] = p]) = Cardinality(B)
  BY DEF Count, A, B
<1> QED BY <1>2, <1>6, <1>7, <1>8 DEF Weight

\* CountsExact, in terms of Count.
LEMMA CountsCounted ==
  CountsExact <=>
      /\ Active =>
            s_iRunningCount = Count(InVMPoints, pc) + Count(GatePoints, pc)
      /\ s_iStackCount = Count(StackPoints, pc)
BY DEF CountsExact, Count, InVM, PastGate, HasStack

\* A step that moves thread t to p and accounts for it in both counters, in
\* the running count as long as the HVM is active.
Counted(t, p) ==
    /\ Goto(t, p)
    /\ Active' =>
           /\ Active
           /\ s_iRunningCount' = s_iRunningCount
                  - Weight(InVMPoints, pc[t]) + Weight(InVMPoints, p)
                  - Weight(GatePoints, pc[t]) + Weight(GatePoints, p)
    /\ s_iStackCount' = s_iStackCount
           - Weight(StackPoints, pc[t]) + Weight(StackPoints, p)

\* Such a step keeps the counters exact ...
LEMMA CountsMove ==
  ASSUME TypeOK, CountsExact, NEW t \in Thread, NEW p \in PCs, Counted(t, p)
  PROVE  CountsExact'
<1>1. ASSUME NEW P
      PROVE  /\ Count(P, pc) \in Nat
             /\ Count(P, pc') = Count(P, pc) - Weight(P, pc[t]) + Weight(P, p)
  BY MoveOne DEF TypeOK, Counted, Goto
<1>2. CountsExact' <=>
        /\ Active' =>
              s_iRunningCount' = Count(InVMPoints, pc') + Count(GatePoints, pc')
        /\ s_iStackCount' = Count(StackPoints, pc')
  BY DEF CountsExact, Count, InVM, PastGate, HasStack
<1> QED
  BY <1>1, <1>2, CountsCounted DEF Counted, Weight

\* A step in which a parent t inside the VM and the child u it starts move,
\* neither of them across the border of the VM.
CountedPair(t, p, u, q) ==
    /\ pc' = [pc EXCEPT ![t] = p, ![u] = q]
    /\ UNCHANGED <<s_iRunningCount, shutdown>>
    /\ s_iStackCount' = s_iStackCount
           - Weight(StackPoints, pc[u]) + Weight(StackPoints, q)
    /\ pc[t] \in {"run", "starting"} /\ p \in {"run", "starting"}
    /\ pc[u] \in {"none", "reg", "born"} /\ q \in {"none", "reg", "born"}

\* ... and so does this one ...
LEMMA CountsMovePair ==
  ASSUME TypeOK, CountsExact, NEW t \in Thread, NEW u \in Thread,
         NEW p, NEW q, CountedPair(t, p, u, q)
  PROVE  CountsExact'
<1>1. pc \in [Thread -> PCs] /\ p \in PCs /\ q \in PCs /\ t # u
  BY DEF TypeOK, CountedPair, PCs
<1> DEFINE mid == [pc EXCEPT ![t] = p]
<1>m. mid = [pc EXCEPT ![t] = p] /\ pc' = [mid EXCEPT ![u] = q]
  BY DEF CountedPair
<1> HIDE DEF mid
<1>2. ASSUME NEW P
      PROVE  Count(P, pc) \in Nat /\ Count(P, pc')
               = Count(P, pc) - Weight(P, pc[t]) + Weight(P, p)
                              - Weight(P, pc[u]) + Weight(P, q)
  <2>1. /\ Count(P, pc) \in Nat
        /\ Count(P, mid) = Count(P, pc) - Weight(P, pc[t]) + Weight(P, p)
    BY <1>1, <1>m, MoveOne
  <2>2. mid \in [Thread -> PCs] /\ mid[u] = pc[u]
    BY <1>1, <1>m
  <2>3. Count(P, pc') = Count(P, mid) - Weight(P, mid[u]) + Weight(P, q)
    BY <1>1, <1>m, <2>2, MoveOne
  <2> QED BY <2>1, <2>2, <2>3 DEF Weight
<1>3. CountsExact' <=>
        /\ Active' =>
              s_iRunningCount' = Count(InVMPoints, pc') + Count(GatePoints, pc')
        /\ s_iStackCount' = Count(StackPoints, pc')
  BY DEF CountsExact, Count, InVM, PastGate, HasStack
<1>4. Count(InVMPoints, pc') = Count(InVMPoints, pc)
  <2>1. /\ Weight(InVMPoints, pc[t]) = 1 /\ Weight(InVMPoints, p) = 1
        /\ Weight(InVMPoints, pc[u]) = 0 /\ Weight(InVMPoints, q) = 0
    BY DEF CountedPair, Weight, InVMPoints
  <2> QED BY <1>2, <2>1
<1>5. Count(GatePoints, pc') = Count(GatePoints, pc)
  <2>1. /\ Weight(GatePoints, pc[t]) = 0 /\ Weight(GatePoints, p) = 0
        /\ Weight(GatePoints, pc[u]) = 0 /\ Weight(GatePoints, q) = 0
    BY DEF CountedPair, Weight, GatePoints
  <2> QED BY <1>2, <2>1
<1>6. Count(StackPoints, pc') = Count(StackPoints, pc)
          - Weight(StackPoints, pc[u]) + Weight(StackPoints, q)
  <2>1. Weight(StackPoints, pc[t]) = 1 /\ Weight(StackPoints, p) = 1
    BY DEF CountedPair, Weight, StackPoints, PCs
  <2>2. Weight(StackPoints, pc[u]) \in Int /\ Weight(StackPoints, q) \in Int
    BY DEF Weight
  <2> QED BY <1>2, <2>1, <2>2
<1> QED BY <1>3, <1>4, <1>5, <1>6, CountsCounted DEF CountedPair, Active

\* ... and a step that leaves control points and counters alone.
LEMMA CountsSame ==
  ASSUME CountsExact, UNCHANGED <<pc, s_iRunningCount, s_iStackCount>>,
         Active' => Active
  PROVE  CountsExact'
BY DEF CountsExact, InVM, PastGate, HasStack

\* Each step is one that the counters account for: the steps of the proof say
\* to which control point each action moves its thread.
LEMMA CountsKept ==
  ASSUME Safe, [Next]_vars
  PROVE  CountsExact'
<1> DEFINE Still == /\ UNCHANGED <<pc, s_iRunningCount, s_iStackCount>>
                    /\ Active' => Active
<1>0. /\ \A t \in Thread : \A p \in PCs : Counted(t, p) => CountsExact'
      /\ \A t, u \in Thread : \A p, q :
            CountedPair(t, p, u, q) => CountsExact'
      /\ Still => CountsExact'
  BY CountsMove, CountsMovePair, CountsSame DEF Safe
<1>29. s_iRunningCount \in Int /\ s_iStackCount \in Int
  BY DEF Safe, TypeOK
<1> USE <1>29
    DEF Counted, CountedPair, Weight, Goto, own, world, delivered, InVMPoints,
        GatePoints, StackPoints, PCs, Active
<1>1. ASSUME NEW t \in Thread, Unlock(t)
      PROVE  Counted(t, "unlock")
  BY <1>1 DEF Unlock
<1>32. ASSUME NEW t \in Thread, UnlockLeave(t)
       PROVE  Counted(t, "free")
  BY <1>32 DEF UnlockLeave
<1>2. ASSUME NEW t \in Thread, Nested(t)
      PROVE  Still
  BY <1>2 DEF Nested
<1>3. ASSUME NEW t \in Thread, Lock(t)
      PROVE  Counted(t, "lock") \/ Counted(t, "elock")
  <2>1. ASSUME pc[t] = "estack" PROVE Counted(t, "elock")
    BY <1>3, <2>1 DEF Lock
  <2>2. ASSUME pc[t] = "free" PROVE Counted(t, "lock")
    BY <1>3, <2>2 DEF Lock
  <2>3. ASSUME pc[t] = "init" PROVE Counted(t, "lock")
    BY <1>3, <2>3 DEF Lock
  <2> QED BY <1>3, <2>1, <2>2, <2>3 DEF Lock, EntryPoints
<1>33. ASSUME NEW t \in Thread, LockIgnored(t)
       PROVE  Counted(t, "run") \/ Counted(t, "edec")
  <2>1. ASSUME pc[t] = "estack" PROVE Counted(t, "edec")
    BY <1>33, <2>1 DEF LockIgnored
  <2>2. ASSUME pc[t] = "free" PROVE Counted(t, "run")
    BY <1>33, <2>2 DEF LockIgnored
  <2>3. ASSUME pc[t] = "init" PROVE Counted(t, "run")
    BY <1>33, <2>3 DEF LockIgnored
  <2> QED BY <1>33, <2>1, <2>2, <2>3 DEF LockIgnored, EntryPoints
<1>4. ASSUME NEW t \in Thread, LockLoop(t)
      PROVE  Still \/ Counted(t, "run")
  BY <1>4 DEF LockLoop, LockRound
<1>5. ASSUME NEW t \in Thread, LockForce(t)
      PROVE  Counted(t, "force")
  BY <1>5 DEF LockForce
<1>34. ASSUME NEW t \in Thread, ForceEnter(t)
       PROVE  Counted(t, "run")
  BY <1>34 DEF ForceEnter
<1>6. ASSUME NEW t \in Thread, RequestTest(t)
      PROVE  Counted(t, "test") \/ Counted(t, "run")
  BY <1>6 DEF RequestTest, TestRound
<1>7. ASSUME NEW t \in Thread, RequestTestLoop(t)
      PROVE  Counted(t, "test") \/ Counted(t, "run")
  BY <1>7 DEF RequestTestLoop, TestRound
<1>8. ASSUME NEW t \in Thread, RequestQuery(t)
      PROVE  Still
  BY <1>8 DEF RequestQuery
<1>9. ASSUME NEW t \in Thread, Suspend(t)
      PROVE  Counted(t, "gc") \/ Counted(t, "susp") \/ Still
  BY <1>9 DEF Suspend
<1>10. ASSUME NEW t \in Thread, SuspendLoop(t)
      PROVE  Counted(t, "run") \/ Counted(t, "gc") \/ Still
  BY <1>10 DEF SuspendLoop
<1>11. ASSUME NEW t \in Thread, Resume(t)
      PROVE  Counted(t, "run")
  BY <1>11 DEF Resume
<1>12. ASSUME NEW t \in Thread, NEW u \in Thread, Register(t, u)
      PROVE  CountedPair(t, "starting", u, "reg")
  BY <1>12 DEF Register, Safe, TypeOK
<1>13. ASSUME NEW t \in Thread, Created(t)
      PROVE  child[t] \in Thread /\ CountedPair(t, "run", child[t], "born")
  BY <1>13 DEF Created, Safe, Protocol, Starting, TypeOK
<1>14. ASSUME NEW t \in Thread, CreateFailed(t)
      PROVE  child[t] \in Thread /\ CountedPair(t, "run", child[t], "none")
  BY <1>14 DEF CreateFailed, Safe, Protocol, Starting, TypeOK
<1>15. ASSUME NEW t \in Thread, StackInit(t)
      PROVE  Counted(t, "init")
  BY <1>15 DEF StackInit
<1>16. ASSUME NEW t \in Thread, ThreadQuit(t)
      PROVE  Still
  BY <1>16 DEF ThreadQuit
<1>17. ASSUME NEW t \in Thread, StackDel(t)
      PROVE  Counted(t, "releasing")
  BY <1>17 DEF StackDel
<1>18. ASSUME NEW t \in Thread, StackRelease(t)
      PROVE  Counted(t, "done")
  BY <1>18 DEF StackRelease, Safe, Protocol, Heeded
<1>19. ASSUME NEW t \in Thread, NEW u \in Thread, QuitRequest(t, u)
      PROVE  Still
  BY <1>19 DEF QuitRequest
<1>20. ASSUME NEW t \in Thread, Gate(t)
      PROVE  Still \/ Counted(t, "einit")
  BY <1>20 DEF Gate
<1>35. ASSUME NEW t \in Thread, GateTest(t)
       PROVE  Counted(t, "ewait")
  BY <1>35 DEF GateTest
<1>21. ASSUME NEW t \in Thread, ForeignStackInit(t)
      PROVE  Counted(t, "estack")
  BY <1>21 DEF ForeignStackInit
<1>22. ASSUME NEW t \in Thread, ForeignLockLoop(t)
      PROVE  Still \/ Counted(t, "edec")
  BY <1>22 DEF ForeignLockLoop, LockRound
<1>23. ASSUME NEW t \in Thread, GateLeave(t)
      PROVE  Counted(t, "run")
  BY <1>23 DEF GateLeave
<1>24. ASSUME NEW t \in Thread, Spurious(t)
      PROVE  Still
  BY <1>24 DEF Spurious
<1>25. ASSUME TerminateThreads
      PROVE  Counted(Main, "term") \/ Still
  BY <1>25, ThreadAssumption DEF TerminateThreads
<1>26. ASSUME WaitForThreads
      PROVE  Counted(Main, "wait")
  BY <1>26, ThreadAssumption DEF WaitForThreads
<1>27. ASSUME JoinLoop
      PROVE  Still \/ Counted(Main, "run")
  BY <1>27, ThreadAssumption DEF JoinLoop
<1>28. ASSUME Deactivate
      PROVE  Still
  BY <1>28, ThreadAssumption DEF Deactivate
<1>30. ASSUME UNCHANGED vars PROVE Still
  BY <1>30 DEF vars
<1> HIDE DEF Counted, CountedPair, Still
<1>31. {"free", "unlock", "lock", "force", "init", "run", "test", "gc",
        "susp", "releasing", "done", "ewait", "einit", "estack", "elock",
        "edec", "term", "wait"} \subseteq PCs
  BY DEF PCs
<1> HIDE DEF PCs
<1> QED
  BY <1>0, <1>31, ThreadAssumption, <1>1, <1>2, <1>3, <1>4, <1>5,
     <1>6, <1>7, <1>8, <1>9, <1>10, <1>11, <1>12, <1>13, <1>14, <1>15, <1>16,
     <1>17, <1>18, <1>19, <1>20, <1>21, <1>22, <1>23, <1>24, <1>25, <1>26,
     <1>27, <1>28, <1>30, <1>32, <1>33, <1>34, <1>35
  DEF Next, Step, Exited

\* The rest of the invariant is kept by each step.
LEMMA ProtocolKept ==
  ASSUME Safe, TypeOK', [Next]_vars
  PROVE  Protocol'
<1> USE ThreadAssumption, LoneRunner, LoneStack
    DEF Safe, TypeOK, Protocol, Holder, Starting, Sleepers, RequestOwner,
        Heeded, StopsTheWorldWhileActive, StopsTheWorld, QuitBeatsStop,
        NoLostWakeup, Stop, Quit, Active, VMLockFree, Goto, own, world,
        delivered, InVM, PastGate, HasStack, InVMPoints, GatePoints,
        StackPoints, PCs
<1>1. ASSUME NEW t \in Thread, Unlock(t) PROVE Protocol'
  BY <1>1 DEF Unlock
<1>30. ASSUME NEW t \in Thread, UnlockLeave(t) PROVE Protocol'
  BY <1>30 DEF UnlockLeave, NotifyRequester, DeliverQuit
<1>2. ASSUME NEW t \in Thread, Nested(t) PROVE Protocol'
  BY <1>2 DEF Nested
<1>3. ASSUME NEW t \in Thread, Lock(t) PROVE Protocol'
  BY <1>3 DEF Lock, EntryPoints
<1>31. ASSUME NEW t \in Thread, LockIgnored(t) PROVE Protocol'
  BY <1>31 DEF LockIgnored, EntryPoints
<1>4. ASSUME NEW t \in Thread, LockLoop(t) PROVE Protocol'
  BY <1>4 DEF LockLoop, LockRound, DeliverQuit
<1>5. ASSUME NEW t \in Thread, LockForce(t) PROVE Protocol'
  BY <1>5 DEF LockForce
<1>32. ASSUME NEW t \in Thread, ForceEnter(t) PROVE Protocol'
  BY <1>32 DEF ForceEnter, DeliverQuit
<1>6. ASSUME NEW t \in Thread, RequestTest(t) PROVE Protocol'
  BY <1>6 DEF RequestTest, TestRound, DeliverQuit
<1>7. ASSUME NEW t \in Thread, RequestTestLoop(t) PROVE Protocol'
  BY <1>7 DEF RequestTestLoop, TestRound, DeliverQuit
<1>8. ASSUME NEW t \in Thread, RequestQuery(t) PROVE Protocol'
  BY <1>8 DEF RequestQuery, DeliverQuit
<1>9. ASSUME NEW t \in Thread, Suspend(t) PROVE Protocol'
  BY <1>9 DEF Suspend, NobodyInside, NoRequest
<1>10. ASSUME NEW t \in Thread, SuspendLoop(t) PROVE Protocol'
  BY <1>10 DEF SuspendLoop, NobodyInside, Withdrawn
<1>11. ASSUME NEW t \in Thread, Resume(t) PROVE Protocol'
  BY <1>11 DEF Resume
<1>12. ASSUME NEW t \in Thread, NEW u \in Thread, Register(t, u)
       PROVE  Protocol'
  BY <1>12 DEF Register
<1>13. ASSUME NEW t \in Thread, Created(t) PROVE Protocol'
  BY <1>13 DEF Created
<1>14. ASSUME NEW t \in Thread, CreateFailed(t) PROVE Protocol'
  BY <1>14 DEF CreateFailed
<1>15. ASSUME NEW t \in Thread, StackInit(t) PROVE Protocol'
  BY <1>15 DEF StackInit
<1>16. ASSUME NEW t \in Thread, ThreadQuit(t) PROVE Protocol'
  BY <1>16 DEF ThreadQuit
<1>17. ASSUME NEW t \in Thread, StackDel(t) PROVE Protocol'
  BY <1>17 DEF StackDel
<1>18. ASSUME NEW t \in Thread, StackRelease(t) PROVE Protocol'
  BY <1>18 DEF StackRelease
<1>19. ASSUME NEW t \in Thread, NEW u \in Thread, QuitRequest(t, u)
       PROVE  Protocol'
  BY <1>19 DEF QuitRequest
<1>33. ASSUME NEW t \in Thread, GateTest(t) PROVE Protocol'
  BY <1>33 DEF GateTest
<1>20. ASSUME NEW t \in Thread, Gate(t) PROVE Protocol'
  BY <1>20 DEF Gate
<1>21. ASSUME NEW t \in Thread, ForeignStackInit(t) PROVE Protocol'
  BY <1>21 DEF ForeignStackInit
<1>22. ASSUME NEW t \in Thread, ForeignLockLoop(t) PROVE Protocol'
  BY <1>22 DEF ForeignLockLoop, LockRound, DeliverQuit
<1>23. ASSUME NEW t \in Thread, GateLeave(t) PROVE Protocol'
  BY <1>23 DEF GateLeave
<1>24. ASSUME NEW t \in Thread, Spurious(t) PROVE Protocol'
  BY <1>24 DEF Spurious
<1>25. ASSUME TerminateThreads PROVE Protocol'
  BY <1>25 DEF TerminateThreads, OthersLeft
<1>26. ASSUME WaitForThreads PROVE Protocol'
  BY <1>26 DEF WaitForThreads, OthersLeft
<1>27. ASSUME JoinLoop PROVE Protocol'
  BY <1>27 DEF JoinLoop, OthersLeft
<1>28. ASSUME Deactivate PROVE Protocol'
  BY <1>28 DEF Deactivate
<1>29. ASSUME UNCHANGED vars PROVE Protocol'
  BY <1>29 DEF vars
<1> QED
  BY <1>1, <1>2, <1>3, <1>4, <1>5, <1>6, <1>7, <1>8, <1>9, <1>10,
     <1>11, <1>12, <1>13, <1>14, <1>15, <1>16, <1>17, <1>18, <1>19, <1>20,
     <1>21, <1>22, <1>23, <1>24, <1>25, <1>26, <1>27, <1>28, <1>29, <1>30,
     <1>31, <1>32, <1>33
  DEF Next, Step, Exited

-----------------------------------------------------------------------------
(* The theorems.                                                           *)

LEMMA SafeInit == Init => Safe
<1> SUFFICES ASSUME Init PROVE Safe
  OBVIOUS
<1> USE ThreadAssumption, BoundAssumption
<1>1. TypeOK
  BY DEF Init, TypeOK, PCs
<1>2. Protocol
  BY DEF Init, Protocol, Holder, Starting, Sleepers, RequestOwner, Heeded,
         StopsTheWorldWhileActive, StopsTheWorld, QuitBeatsStop, NoLostWakeup,
         Stop, Quit
<1>3. InVM = {Main} /\ PastGate = {} /\ HasStack = {Main}
  BY DEF Init, InVM, PastGate, HasStack, InVMPoints, GatePoints, StackPoints,
         PCs
<1>4. Cardinality({Main}) = 1 /\ Cardinality({}) = 0
  BY FS_Singleton, FS_EmptySet
<1>5. CountsExact
  BY <1>3, <1>4 DEF Init, CountsExact
<1> QED BY <1>1, <1>2, <1>5 DEF Safe

\* The VM lock keeps its inductive invariant, whatever the threads do.
THEOREM SafeAlways == Spec => []Safe
<1>1. Init => Safe
  BY SafeInit
<1>2. Safe /\ [Next]_vars => Safe'
  <2> SUFFICES ASSUME Safe, [Next]_vars PROVE Safe'
    OBVIOUS
  <2>1. TypeOK' BY TypeKept DEF Safe
  <2>2. CountsExact' BY CountsKept
  <2>3. Protocol' BY <2>1, ProtocolKept
  <2> QED BY <2>1, <2>2, <2>3 DEF Safe
<1> QED BY <1>1, <1>2, PTL DEF Spec

\* Every variable of the model of hvm.c keeps its type.
THEOREM TypeCorrect == Spec => []TypeOK
<1>1. Safe => TypeOK
  BY DEF Safe
<1> QED BY <1>1, SafeAlways, PTL

\* s_iStackCount counts the stacks, and s_iRunningCount, until hb_vmQuit()
\* clears s_fHVMActive, the threads inside.
THEOREM CountersExact == Spec => []CountsExact
<1>1. Safe => CountsExact
  BY DEF Safe
<1> QED BY <1>1, SafeAlways, PTL

\* Once hb_vmSuspendThreads() has returned HB_TRUE, the collector is alone in
\* the VM until hb_vmResumeThreads(), as long as the HVM is active.
THEOREM WorldStopped == Spec => []StopsTheWorldWhileActive
<1>1. Safe => StopsTheWorldWhileActive
  BY DEF Safe, Protocol
<1> QED BY <1>1, SafeAlways, PTL

\* The STOP request has one owner.
THEOREM OneOwner == Spec => []StopHasOneOwner
<1> DEFINE Owners == {t \in Thread : pc[t] \in {"susp", "gc"}}
<1>1. Safe => StopHasOneOwner
  <2> SUFFICES ASSUME Safe PROVE Cardinality(Owners) = IF Stop THEN 1 ELSE 0
    BY DEF StopHasOneOwner
  <2>1. CASE Stop
    <3>1. PICK t \in Thread : pc[t] \in {"susp", "gc"}
      BY <2>1 DEF Safe, Protocol, RequestOwner
    <3>2. Owners = {t}
      BY <3>1 DEF Safe, Protocol, RequestOwner
    <3> QED BY <2>1, <3>2, FS_Singleton
  <2>2. CASE ~Stop
    <3>1. Owners = {}
      BY <2>2 DEF Safe, Protocol, RequestOwner
    <3> QED BY <2>2, <3>1, FS_EmptySet
  <2> QED BY <2>1, <2>2
<1> QED BY <1>1, SafeAlways, PTL

\* The collector does not run once main has asked all threads to quit.
THEOREM QuitFirst == Spec => []QuitBeatsStop
<1>1. Safe => QuitBeatsStop
  BY DEF Safe, Protocol
<1> QED BY <1>1, SafeAlways, PTL

\* No broadcast on s_vmCond is missing: what a blocked thread waits for has
\* not happened.
THEOREM NoWakeupLost == Spec => []NoLostWakeup
<1>1. Safe => NoLostWakeup
  BY DEF Safe, Protocol
<1> QED BY <1>1, SafeAlways, PTL

\* hb_vmTerminateThreads() and hb_vmWaitForThreads() return to a main thread
\* that is alone.
THEOREM JoinedAlone == Spec => JoinReturnsAlone
<1>1. ASSUME Safe, [Next]_vars,
             pc[Main] \in {"term", "wait"}, pc'[Main] = "run"
      PROVE  HasStack = {Main}
  <2>1. CASE JoinLoop
    <3>1. ~OthersLeft
      BY <1>1, <2>1 DEF JoinLoop
    <3>2. Main \in HasStack
      BY <1>1, ThreadAssumption DEF HasStack, StackPoints, PCs
    <3> QED BY <1>1, <3>1, <3>2, LoneStack DEF Safe
  <2>2. ASSUME NEW t \in Thread, Step(t) PROVE pc'[Main] = pc[Main]
    <3> USE <1>1, ThreadAssumption
        DEF Goto, own, world, Safe, TypeOK, Protocol, Starting
    <3>1. CASE \/ Unlock(t) \/ UnlockLeave(t) \/ Nested(t) \/ Lock(t)
               \/ LockIgnored(t) \/ LockLoop(t)
      BY <3>1 DEF Unlock, UnlockLeave, Nested, Lock, LockIgnored, EntryPoints,
                  LockLoop, LockRound
    <3>2. CASE \/ LockForce(t) \/ ForceEnter(t) \/ RequestTest(t) \/ RequestTestLoop(t)
               \/ RequestQuery(t)
      BY <3>2 DEF LockForce, ForceEnter, RequestTest, RequestTestLoop, TestRound,
                  RequestQuery
    <3>3. CASE Suspend(t) \/ SuspendLoop(t) \/ Resume(t)
      BY <3>3 DEF Suspend, SuspendLoop, Resume
    <3>4. CASE \E u \in Thread : Register(t, u)
      BY <3>4 DEF Register
    <3>5. CASE Created(t) \/ CreateFailed(t)
      BY <3>5 DEF Created, CreateFailed
    <3>6. CASE StackInit(t) \/ ThreadQuit(t) \/ StackDel(t) \/ StackRelease(t)
      BY <3>6 DEF StackInit, ThreadQuit, StackDel, StackRelease
    <3>7. CASE \E u \in Thread : QuitRequest(t, u)
      BY <3>7 DEF QuitRequest
    <3>8. CASE \/ GateTest(t) \/ Gate(t) \/ ForeignStackInit(t)
               \/ ForeignLockLoop(t) \/ GateLeave(t)
      BY <3>8 DEF GateTest, Gate, ForeignStackInit, ForeignLockLoop,
                  LockRound, GateLeave
    <3>9. CASE Spurious(t)
      BY <3>9 DEF Spurious
    <3> QED
      BY <2>2, <3>1, <3>2, <3>3, <3>4, <3>5, <3>6, <3>7, <3>8, <3>9 DEF Step
  <2>3. ASSUME TerminateThreads \/ WaitForThreads PROVE FALSE
    BY <1>1, <2>3 DEF TerminateThreads, WaitForThreads
  <2>4. ASSUME Deactivate \/ UNCHANGED vars PROVE pc'[Main] = pc[Main]
    BY <2>4 DEF Deactivate, vars
  <2> QED BY <1>1, <2>1, <2>2, <2>3, <2>4 DEF Next, Exited
<1>2. Safe /\ [Next]_vars
        => [(pc[Main] \in {"term", "wait"} /\ pc'[Main] = "run")
                => HasStack = {Main}]_vars
  BY <1>1
<1> QED BY <1>2, SafeAlways, PTL DEF Spec, JoinReturnsAlone

-----------------------------------------------------------------------------
(* VMLock implements StopTheWorld.                                         *)

\* The points at which StopTheWorld sees a thread inside.
Seen == InVMPoints \cup GatePoints

\* The STOP request names its owner, which is inside once it is granted.
LEMMA StopperKnown ==
  Safe => /\ \A t \in Thread : pc[t] \in {"susp", "gc"} => Stopper = t
          /\ ~Stop => Stopper = NoThread
          /\ Inside = {t \in Thread : pc[t] \in Seen}
          /\ Stopper \in Inside <=> \E t \in Thread : pc[t] = "gc"
<1> SUFFICES ASSUME Safe
             PROVE  /\ \A t \in Thread :
                          pc[t] \in {"susp", "gc"} => Stopper = t
                    /\ ~Stop => Stopper = NoThread
                    /\ Inside = {t \in Thread : pc[t] \in Seen}
                    /\ Stopper \in Inside <=> \E t \in Thread : pc[t] = "gc"
  OBVIOUS
<1>1. ASSUME NEW t \in Thread, pc[t] \in {"susp", "gc"} PROVE Stopper = t
  <2>1. Stoppers = {t}
    BY <1>1 DEF Stoppers, Safe, Protocol, RequestOwner
  <2> QED BY <2>1 DEF Stopper
<1>2. ASSUME ~Stop PROVE Stopper = NoThread
  <2>1. Stoppers = {}
    BY <1>2 DEF Stoppers, Safe, Protocol, RequestOwner
  <2> QED BY <2>1 DEF Stopper
<1>3. Inside = {t \in Thread : pc[t] \in Seen}
  BY DEF Inside, InVM, PastGate, Seen
<1>4. ASSUME NEW t \in Thread, pc[t] = "gc" PROVE Stopper \in Inside
  BY <1>1, <1>3, <1>4 DEF Seen, InVMPoints
<1>5. ASSUME Stopper \in Inside PROVE \E t \in Thread : pc[t] = "gc"
  <2>1. Stopper \in Stoppers
    BY <1>3, <1>5, ThreadAssumption DEF Stopper
  <2> QED BY <1>3, <1>5, <2>1 DEF Stoppers, Seen, InVMPoints, GatePoints
<1> QED BY <1>1, <1>2, <1>3, <1>4, <1>5

\* The collector keeps s_vmMtx.
LEMMA FreeNotGranted ==
  ASSUME Safe, VMLockFree
  PROVE  Stopper \notin Inside
BY StopperKnown, ThreadAssumption
DEF VMLockFree, Safe, Protocol, Holder

\* A step that moves nobody to or from the two points of the collector leaves
\* the owner of the request as it is.
LEMMA SameOwner ==
  ASSUME \A u \in Thread : pc'[u] \in {"susp", "gc"} <=> pc[u] \in {"susp", "gc"}
  PROVE  Stopper' = Stopper
<1>1. Stoppers' = Stoppers
  BY DEF Stoppers
<1> QED BY <1>1 DEF Stopper

\* A thread moves between points that are not the collector's.
LEMMA ThreadMoves ==
  ASSUME Safe, Safe', NEW t \in Thread, NEW p \in PCs,
         pc' = [pc EXCEPT ![t] = p],
         p \notin {"susp", "gc"}, pc[t] \notin {"susp", "gc"},
         VMLockFree, Quit' = Quit
  PROVE  [World!Next]_(World!world)
<1> USE DEF Safe, TypeOK
<1>1. Stopper' = Stopper
  BY SameOwner
<1>2. Stopper \notin Inside /\ Stopper # t
  <2>1. ASSUME Stopper = t PROVE pc[t] \in {"susp", "gc"}
    BY <2>1, ThreadAssumption DEF Stopper, Stoppers
  <2> QED BY <2>1, FreeNotGranted
<1>3. /\ Inside = {u \in Thread : pc[u] \in Seen}
      /\ Inside' = {u \in Thread : pc'[u] \in Seen}
  BY DEF Inside, InVM, PastGate, Seen
<1>4. CASE p \in Seen
  <2>1. Inside' = Inside \cup {t}
    BY <1>3, <1>4
  <2> QED BY <1>1, <1>2, <2>1 DEF World!Next, World!Enter, World!Granted
<1>5. CASE p \notin Seen
  <2>1. Inside' = Inside \ {t}
    BY <1>3, <1>5
  <2>2. CASE t \in Inside
    BY <1>1, <1>2, <2>1, <2>2 DEF World!Next, World!Leave, World!Granted
  <2>3. CASE t \notin Inside
    <3>1. Inside' = Inside
      BY <2>1, <2>3
    <3> QED BY <1>1, <3>1 DEF World!world
  <2> QED BY <2>2, <2>3
<1> QED BY <1>4, <1>5

\* A step that moves nobody into, out of or within what StopTheWorld sees.
LEMMA NothingSeen ==
  ASSUME Quit' = Quit,
         \A u \in Thread : /\ pc'[u] \in Seen <=> pc[u] \in Seen
                           /\ pc'[u] \in {"susp", "gc"}
                                  <=> pc[u] \in {"susp", "gc"}
  PROVE  UNCHANGED World!world
<1>1. Stopper' = Stopper
  BY SameOwner
<1>2. Inside' = Inside
  <2>1. /\ Inside = {u \in Thread : pc[u] \in Seen}
        /\ Inside' = {u \in Thread : pc'[u] \in Seen}
    BY DEF Inside, InVM, PastGate, Seen
  <2> QED BY <2>1
<1> QED BY <1>1, <1>2 DEF World!world

\* Every step of the protocol while the HVM is active is a step of
\* StopTheWorld, or none.
LEMMA StepStopsTheWorld ==
  ASSUME Safe, Safe', Active, [Next]_vars
  PROVE  [World!Next]_(World!world)
<1> USE ThreadAssumption DEF Goto, own, world
<1> pc \in [Thread -> PCs] /\ pc' \in [Thread -> PCs]
  BY DEF Safe, TypeOK
<1>1. /\ \A t \in Thread : pc[t] \in {"susp", "gc"} => Stopper = t
      /\ ~Stop => Stopper = NoThread
      /\ Inside = {t \in Thread : pc[t] \in Seen}
      /\ Stopper \in Inside <=> \E t \in Thread : pc[t] = "gc"
  BY StopperKnown
<1>2. /\ \A t \in Thread : pc'[t] \in {"susp", "gc"} => Stopper' = t
      /\ ~Stop' => Stopper' = NoThread
      /\ Inside' = {t \in Thread : pc'[t] \in Seen}
      /\ Stopper' \in Inside' <=> \E t \in Thread : pc'[t] = "gc"
  <2>1. (Safe => /\ \A t \in Thread : pc[t] \in {"susp", "gc"} => Stopper = t
                 /\ ~Stop => Stopper = NoThread
                 /\ Inside = {t \in Thread : pc[t] \in Seen}
                 /\ Stopper \in Inside <=> \E t \in Thread : pc[t] = "gc")'
    BY StopperKnown, PTL
  <2> QED BY <2>1
<1>3. ASSUME NEW t \in Thread, Suspend(t) PROVE [World!Next]_(World!world)
  <2>1. Stopper = NoThread /\ ~Quit /\ t \in Inside
    BY <1>3, <1>1 DEF Suspend, NoRequest, Stop, Quit, Seen, InVMPoints
  <2>2. CASE pc' = [pc EXCEPT ![t] = "gc"]
    <3>1. Inside = {t} /\ Inside' = {t}
      BY <1>1, <1>2, <1>3, <2>2
      DEF Safe, Protocol, StopsTheWorldWhileActive, StopsTheWorld, Active,
          InVM, PastGate, Suspend, Inside, Seen, InVMPoints, GatePoints
    <3>2. Stopper' = t /\ Quit' = Quit
      BY <1>2, <1>3, <2>1, <2>2 DEF Suspend, Quit
    <3> QED BY <2>1, <3>1, <3>2 DEF World!Next, World!Ask
  <2>3. CASE /\ pc' = [pc EXCEPT ![t] = "susp"]
             /\ ~NobodyInside(s_iRunningCount - 1)
    <3>1. Inside' = Inside \ {t}
      BY <1>1, <1>2, <2>3 DEF Seen, InVMPoints, GatePoints
    <3>2. Inside # {t}
      <4>1. ASSUME Inside = {t} PROVE InVM \cap PastGate \subseteq {t}
        BY <4>1 DEF Inside
      <4>2. ASSUME Inside = {t} PROVE InVM = {t} /\ PastGate = {}
        BY <1>3, <4>2 DEF Inside, InVM, PastGate, Suspend, InVMPoints,
                          GatePoints
      <4>3. ASSUME Inside = {t} PROVE s_iRunningCount = 1
        <5>1. Cardinality({t}) = 1 /\ Cardinality({}) = 0
          BY FS_Singleton, FS_EmptySet
        <5> QED BY <4>2, <4>3, <5>1 DEF Safe, CountsExact
      <4> QED BY <4>3, <2>3 DEF NobodyInside
    <3>3. Stopper' = t /\ Quit' = Quit
      BY <1>2, <1>3, <2>1, <2>3 DEF Suspend, Quit
    <3> QED BY <2>1, <3>1, <3>2, <3>3 DEF World!Next, World!Ask
  <2>4. CASE UNCHANGED <<pc, hb_vmThreadRequest>>
    BY <2>4, NothingSeen DEF Quit
  <2> QED BY <1>3, <2>2, <2>3, <2>4 DEF Suspend
<1>4. ASSUME NEW t \in Thread, SuspendLoop(t) PROVE [World!Next]_(World!world)
  <2>1. Stopper = t /\ t \notin Inside
    BY <1>1, <1>4 DEF SuspendLoop, Seen, InVMPoints, GatePoints
  <2>2. Quit' = Quit
    BY <1>4 DEF SuspendLoop, Quit
  <2>3. CASE Withdrawn /\ pc' = [pc EXCEPT ![t] = "run"]
    <3>1. Inside' = Inside \cup {t}
      BY <1>1, <1>2, <2>3 DEF Seen, InVMPoints
    <3>2. Stopper' = NoThread
      BY <1>2, <1>4, <2>3 DEF SuspendLoop, Stop
    <3>3. Stopper \notin Inside /\ Quit
      BY <2>1, <2>3 DEF Withdrawn
    <3> QED BY <2>1, <2>2, <3>1, <3>2, <3>3
            DEF World!Next, World!Withdraw, World!Granted
  <2>4. CASE ~Withdrawn /\ pc' = [pc EXCEPT ![t] = "gc"]
    <3>1. Inside' = {t} /\ Stopper' = t
      BY <1>2, <1>4, <2>4
      DEF SuspendLoop, Safe, Protocol, StopsTheWorldWhileActive,
          StopsTheWorld, Active, InVM, PastGate, Inside
    <3>2. Inside = {}
      BY <1>1, <1>2, <1>4, <2>1, <2>4, <3>1 DEF SuspendLoop
    <3> QED BY <2>1, <2>2, <2>4, <3>1, <3>2
            DEF World!Next, World!Grant, Withdrawn
  <2>5. CASE UNCHANGED <<pc, hb_vmThreadRequest>>
    BY <2>5, NothingSeen DEF Quit
  <2> QED BY <1>4, <2>3, <2>4, <2>5 DEF SuspendLoop
<1>5. ASSUME NEW t \in Thread, Resume(t) PROVE [World!Next]_(World!world)
  <2>1. Stopper = t /\ Stopper \in Inside
    BY <1>1, <1>5 DEF Resume
  <2>2. Inside' = Inside
    BY <1>1, <1>2, <1>5 DEF Resume, Seen, InVMPoints
  <2>3. Stopper' = NoThread /\ Quit' = Quit
    BY <1>2, <1>5 DEF Resume, Stop, Quit
  <2> QED BY <2>1, <2>2, <2>3 DEF World!Next, World!Resume, World!Granted
<1>6. ASSUME TerminateThreads PROVE [World!Next]_(World!world)
  <2>1. Stopper \notin Inside /\ Main \in Inside
    BY <1>1, <1>6, FreeNotGranted DEF TerminateThreads, Seen, InVMPoints
  <2>2. CASE OthersLeft
    <3>1. pc' = [pc EXCEPT ![Main] = "term"] /\ Quit'
      BY <1>6, <2>2 DEF TerminateThreads, Quit
    <3>2. Inside' = Inside \ {Main}
      BY <1>1, <1>2, <3>1 DEF Seen, InVMPoints, GatePoints
    <3>3. Stopper' = Stopper
      BY <1>6, <3>1, SameOwner DEF TerminateThreads
    <3> QED BY <2>1, <3>1, <3>2, <3>3
            DEF World!Next, World!AskQuit, World!Granted
  <2>3. CASE ~OthersLeft
    <3>1. pc' = pc /\ ~Quit' /\ ~Stop'
      BY <1>6, <2>3 DEF TerminateThreads, Quit, Stop
    <3>2. Inside' = Inside /\ Stopper' = NoThread
      BY <1>1, <1>2, <3>1
    <3>3. Stopper = NoThread
      BY <3>1, <3>2, SameOwner
    <3> QED BY <2>1, <3>1, <3>2, <3>3 DEF World!Next, World!DropQuit
  <2> QED BY <2>2, <2>3
<1>7. ASSUME JoinLoop PROVE [World!Next]_(World!world)
  <2>1. Stopper \notin Inside
    BY <1>7, FreeNotGranted DEF JoinLoop
  <2>2. CASE OthersLeft
    BY <1>7, <2>2, NothingSeen DEF JoinLoop, Quit
  <2>3. CASE ~OthersLeft /\ pc[Main] = "wait"
    BY <1>7, <2>3, ThreadMoves DEF JoinLoop, Quit, PCs
  <2>4. CASE ~OthersLeft /\ pc[Main] = "term"
    <3>1. pc' = [pc EXCEPT ![Main] = "run"] /\ ~Quit' /\ ~Stop'
      BY <1>7, <2>4 DEF JoinLoop, Quit, Stop
    <3>2. Inside' = Inside \cup {Main} /\ Stopper' = NoThread
      BY <1>1, <1>2, <3>1 DEF Seen, InVMPoints
    <3>3. Stopper = NoThread
      BY <2>4, <3>1, <3>2, SameOwner
    <3> QED BY <3>1, <3>2, <3>3 DEF World!Next, World!DropQuit
  <2> QED BY <1>7, <2>2, <2>3, <2>4 DEF JoinLoop
<1>8. ASSUME WaitForThreads PROVE [World!Next]_(World!world)
  BY <1>8, ThreadMoves DEF WaitForThreads, Quit, PCs
<1>9. ASSUME NEW t \in Thread, Step(t), ~Suspend(t), ~SuspendLoop(t), ~Resume(t)
      PROVE [World!Next]_(World!world)
  <2> USE DEF Quit, PCs, Seen, InVMPoints, GatePoints
  <2>1. CASE Unlock(t) BY <2>1, NothingSeen DEF Unlock
  <2>19. CASE UnlockLeave(t) BY <2>19, ThreadMoves DEF UnlockLeave
  <2>2. CASE Nested(t) BY <2>2, NothingSeen DEF Nested
  <2>3. CASE Lock(t)
    <3>1. CASE pc[t] = "estack" BY <2>3, <3>1, NothingSeen DEF Lock
    <3>2. CASE pc[t] \in {"free", "init"}
      BY <2>3, <3>2, NothingSeen DEF Lock
    <3> QED BY <2>3, <3>1, <3>2 DEF Lock, EntryPoints
  <2>20. CASE LockIgnored(t) BY <2>20 DEF LockIgnored
  <2>4. CASE LockLoop(t) \/ ForeignLockLoop(t)
    <3>1. CASE UNCHANGED pc
      BY <2>4, <3>1, NothingSeen DEF LockLoop, ForeignLockLoop, LockRound
    <3>2. CASE ~UNCHANGED pc
      BY <2>4, <3>2, ThreadMoves DEF LockLoop, ForeignLockLoop, LockRound
    <3> QED BY <3>1, <3>2
  <2>5. CASE LockForce(t) BY <2>5, NothingSeen DEF LockForce
  <2>21. CASE ForceEnter(t) BY <2>21, ThreadMoves DEF ForceEnter
  <2>6. CASE RequestTest(t) \/ RequestTestLoop(t)
    <3>1. \E p \in {"test", "run"} : pc' = [pc EXCEPT ![t] = p]
      BY <2>6 DEF RequestTest, RequestTestLoop, TestRound
    <3> QED BY <2>6, <3>1, ThreadMoves
            DEF RequestTest, RequestTestLoop, TestRound
  <2>7. CASE RequestQuery(t) BY <2>7, NothingSeen DEF RequestQuery
  <2>8. CASE \E u \in Thread : Register(t, u)
    BY <2>8, NothingSeen DEF Register
  <2>9. CASE Created(t) \/ CreateFailed(t)
    BY <2>9, NothingSeen DEF Created, CreateFailed, Safe, Protocol, Starting
  <2>10. CASE StackInit(t) BY <2>10, NothingSeen DEF StackInit
  <2>11. CASE ThreadQuit(t) BY <2>11, NothingSeen DEF ThreadQuit
  <2>12. CASE StackDel(t) BY <2>12, NothingSeen DEF StackDel
  <2>13. CASE StackRelease(t) BY <2>13, ThreadMoves DEF StackRelease
  <2>14. CASE \E u \in Thread : QuitRequest(t, u)
    BY <2>14, NothingSeen DEF QuitRequest
  <2>22. CASE GateTest(t) BY <2>22, NothingSeen DEF GateTest
  <2>15. CASE Gate(t)
    <3>1. CASE UNCHANGED pc
      BY <2>15, <3>1, NothingSeen DEF Gate
    <3>2. CASE ~UNCHANGED pc
      BY <2>15, <3>2, ThreadMoves DEF Gate
    <3> QED BY <3>1, <3>2
  <2>16. CASE ForeignStackInit(t) BY <2>16, NothingSeen DEF ForeignStackInit
  <2>17. CASE GateLeave(t) BY <2>17, ThreadMoves DEF GateLeave
  <2>18. CASE Spurious(t) BY <2>18, NothingSeen DEF Spurious
  <2> QED
    BY <1>9, <2>1, <2>2, <2>3, <2>4, <2>5, <2>6, <2>7, <2>8, <2>9, <2>10,
       <2>11, <2>12, <2>13, <2>14, <2>15, <2>16, <2>17, <2>18, <2>19, <2>20,
       <2>21, <2>22 DEF Step
<1>10. ASSUME Deactivate \/ UNCHANGED vars PROVE [World!Next]_(World!world)
  BY <1>10, NothingSeen DEF Deactivate, vars, Quit
<1> QED BY <1>3, <1>4, <1>5, <1>6, <1>7, <1>8, <1>9, <1>10 DEF Next, Exited

\* As long as the HVM is active hb_vmSuspendThreads() and hb_vmResumeThreads()
\* do what StopTheWorld says, whatever the other threads do.
THEOREM ImplementsStopTheWorld == Spec => StopsTheWorldSpec
<1>1. Init => World!Init
  <2> SUFFICES ASSUME Init PROVE World!Init
    OBVIOUS
  <2>1. Stopper = NoThread /\ ~Quit
    BY DEF Init, Stoppers, Stopper, Quit
  <2>2. Inside \subseteq Thread
    BY DEF Inside, InVM, PastGate
  <2> QED BY <2>1, <2>2 DEF World!Init
<1>2. Safe /\ Safe' /\ [Next]_vars
        => [Active => World!Next \/ UNCHANGED World!world]_vars
  BY StepStopsTheWorld
<1> QED BY <1>1, <1>2, SafeAlways, PTL DEF Spec, StopsTheWorldSpec

=============================================================================
