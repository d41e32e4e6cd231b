------------------------------- MODULE VMLock -------------------------------
(***************************************************************************)
(* The HVM lock of the multi-threaded virtual machine (src/vm/hvm.c, built *)
(* with HB_MT_VM over pthreads).                                           *)
(*                                                                         *)
(* A thread owns the VM while its unlock counter iUnlocked is 0.           *)
(* s_iRunningCount counts the threads inside the VM, s_iStackCount the     *)
(* threads that have an HVM stack, hb_vmThreadRequest carries the STOP     *)
(* (garbage collector) and QUIT (shutdown) requests.  All three are        *)
(* guarded by s_vmMtx, and every wait is a wait on s_vmCond, which is only *)
(* ever broadcast.                                                         *)
(*                                                                         *)
(* Granularity: a piece of code between taking s_vmMtx and releasing it,   *)
(* by HB_VM_UNLOCK or by a wait on s_vmCond, is one action.  s_vmMtx is    *)
(* seen held only where the code keeps it across other code: after         *)
(* hb_vmSuspendThreads() returned HB_TRUE, until hb_vmResumeThreads().     *)
(*                                                                         *)
(* s_fHVMActive is read without s_vmMtx, once, at the entry of each call   *)
(* that tests it: an action of its own.  A thread that was outside the VM  *)
(* when hb_vmQuit() cleared the flag comes back without being counted: it  *)
(* runs with an unlock counter above 0.                                    *)
(***************************************************************************)
EXTENDS Integers, FiniteSets

CONSTANTS
    Thread,       \* every thread that may ever run in the process
    Main,         \* s_main_thread
    Foreign,      \* threads not created by the HVM: they attach themselves
    Straight,     \* threads running straight-line LLVM code: no request poll
    Killable,     \* threads that hb_threadQuitRequest() may name
    Forcing,      \* threads that enter by hb_vmLockForce() as well
    NoThread,     \* nobody
    ExitMayStart, \* do EXIT procedures start threads?
    MaxUnlock     \* bound on the nesting of hb_vmUnlock()

ASSUME ThreadAssumption == /\ IsFiniteSet(Thread)
                           /\ Main \in Thread
                           /\ NoThread \notin Thread
ASSUME ForeignAssumption == Foreign \subseteq Thread \ {Main}
ASSUME StraightAssumption == Straight \subseteq Thread
ASSUME KillableAssumption == Killable \subseteq Thread
ASSUME BoundAssumption == /\ MaxUnlock \in Nat \ {0}
                          /\ ExitMayStart \in BOOLEAN

VARIABLES
    pc,                  \* where each thread stands in the protocol
    iUnlocked,           \* hb_stack.iUnlocked of each thread
    child,               \* thread being started by this one, or NoThread
    closing,             \* threads that have entered hb_vmThreadQuit()
    actionRequest,       \* threads whose action request is HB_QUIT_REQUESTED
    quitState,           \* hb_stackQuitState(): QUIT already delivered
    s_vmMtx,             \* owner of the VM mutex between actions
    s_vmCond,            \* threads blocked on the condition variable
    hb_vmThreadRequest,  \* subset of {"STOP", "QUIT"}
    s_iRunningCount,
    s_iStackCount,
    shutdown             \* progress of hb_vmQuit()

own == <<iUnlocked, child, closing>>
delivered == <<actionRequest, quitState>>
world == <<hb_vmThreadRequest, s_iStackCount, shutdown>>
vars == <<pc, own, delivered, s_vmMtx, s_vmCond, s_iRunningCount, world>>

-----------------------------------------------------------------------------
(* Control points.                                                         *)
(*   none      no HB_THREADSTATE registered                                *)
(*   reg       registered by its parent, system thread not created yet     *)
(*   born      system thread running, no HVM stack yet                     *)
(*   init      stack built, about to call hb_vmLock for the first time     *)
(*   run       inside the VM          free      outside, after hb_vmUnlock *)
(*   starting  inside the VM, between hb_vmThreadRegister and its outcome  *)
(*   unlock    in hb_vmUnlock, still counted                               *)
(*   lock      in the loop of hb_vmLock                                    *)
(*   force     in hb_vmLockForce, not counted yet                          *)
(*   test      in the loop of hb_vmRequestTest                             *)
(*   susp      in the loop of hb_vmSuspendThreads(HB_TRUE)                 *)
(*   gc        hb_vmSuspendThreads returned HB_TRUE, s_vmMtx kept          *)
(*   term,wait main in hb_vmTerminateThreads, hb_vmWaitForThreads          *)
(*   releasing between the two critical sections of hb_vmStackRelease      *)
(*   done      gone                                                        *)
(*   ewait     foreign thread at the gate of hb_vmRequestReenterExt        *)
(*   einit     past the gate, counted, about to build its HVM stack        *)
(*   estack    stack built, about to call hb_vmLock                        *)
(*   elock     in the loop of that hb_vmLock                               *)
(*   edec      inside as well: counted twice until the gate count is given *)
(*             back                                                        *)
PCs == {"none", "reg", "born", "init", "run", "free", "starting", "unlock",
        "lock", "force", "test", "susp", "gc", "term", "wait", "releasing",
        "done", "ewait", "einit", "estack", "elock", "edec"}

\* Points at which s_iRunningCount should have counted a thread: once for being
\* in the VM, and once for having passed the gate of a foreign thread.
InVMPoints == {"run", "starting", "unlock", "gc", "releasing", "edec"}
GatePoints == {"einit", "estack", "elock", "edec"}
\* Points of a thread that s_iStackCount counts.
StackPoints == PCs \ {"none", "done", "ewait", "einit"}

InVM == {t \in Thread : pc[t] \in InVMPoints}
PastGate == {t \in Thread : pc[t] \in GatePoints}
HasStack == {t \in Thread : pc[t] \in StackPoints}

Stop == "STOP" \in hb_vmThreadRequest
Quit == "QUIT" \in hb_vmThreadRequest

-----------------------------------------------------------------------------
\* hb_vmInit: the main thread has its stack and has locked the VM.
Init ==
    /\ pc = [t \in Thread |-> IF t = Main THEN "run" ELSE "none"]
    /\ iUnlocked = [t \in Thread |-> 0]
    /\ child = [t \in Thread |-> NoThread]
    /\ closing = {}
    /\ actionRequest = {}
    /\ quitState = {}
    /\ s_vmMtx = NoThread
    /\ s_vmCond = {}
    /\ hb_vmThreadRequest = {}
    /\ s_iRunningCount = 1
    /\ s_iStackCount = 1
    /\ shutdown = "no"

\* HB_VM_LOCK(): the action runs its critical section with s_vmMtx free.
VMLockFree == s_vmMtx = NoThread

\* s_fHVMActive: without it hb_vmUnlock(), hb_vmLock() and hb_vmLockForce()
\* return at once.
Active == shutdown # "inactive"

Goto(t, p) == pc' = [pc EXCEPT ![t] = p]

\* The recurring block that turns a QUIT request into the action request of
\* this thread, once per thread.
QuitIgnored(t) == UNCHANGED delivered    \* faulty: the block is missing

DeliverQuit(t) ==
    IF Quit /\ t \notin quitState
      THEN /\ quitState' = quitState \cup {t}
           /\ actionRequest' = actionRequest \cup {t}
      ELSE UNCHANGED delivered

-----------------------------------------------------------------------------
(* Entering and leaving the VM.                                            *)

\* A thread that leaves the VM wakes whoever made a request.
NotifyNobody == UNCHANGED s_vmCond       \* faulty: the broadcast is missing

NotifyRequester ==
    s_vmCond' = IF hb_vmThreadRequest # {} THEN {} ELSE s_vmCond

\* hb_vmUnlock() by a thread inside the VM: hb_stackUnlock() ...
Unlock(t) ==
    /\ pc[t] = "run"
    /\ Active
    /\ iUnlocked' = [iUnlocked EXCEPT ![t] = 1]
    /\ Goto(t, "unlock")
    /\ UNCHANGED <<child, closing, delivered, s_vmMtx, s_vmCond,
                   s_iRunningCount, world>>

\* ... and, with s_vmMtx, leaving the count.
UnlockLeave(t) ==
    /\ pc[t] = "unlock"
    /\ VMLockFree
    /\ s_iRunningCount' = s_iRunningCount - 1
    /\ DeliverQuit(t)
    /\ NotifyRequester
    /\ Goto(t, "free")
    /\ UNCHANGED <<own, s_vmMtx, world>>

\* hb_vmUnlock() and hb_vmLock() by a thread that stays outside.
Nested(t) ==
    /\ pc[t] = "free"
    /\ Active
    /\ \/ /\ iUnlocked[t] < MaxUnlock
          /\ iUnlocked' = [iUnlocked EXCEPT ![t] = @ + 1]
       \/ /\ iUnlocked[t] > 1
          /\ iUnlocked' = [iUnlocked EXCEPT ![t] = @ - 1]
    /\ UNCHANGED <<pc, child, closing, delivered, s_vmMtx, s_vmCond,
                   s_iRunningCount, world>>

\* A round of the loop of hb_vmLock(): wait while STOP is requested, otherwise
\* enter the VM.
LockRound(t, entered) ==
    /\ VMLockFree
    /\ DeliverQuit(t)
    /\ \/ /\ Stop
          /\ s_vmCond' = s_vmCond \cup {t}
          /\ UNCHANGED <<pc, s_iRunningCount>>
       \/ /\ ~Stop
          /\ s_iRunningCount' = s_iRunningCount + 1
          /\ Goto(t, entered)
          /\ UNCHANGED s_vmCond
    /\ UNCHANGED <<s_vmMtx, world>>

\* Threads outside the VM whose next call takes them in: hb_vmLock() or
\* hb_vmLockForce() in the one case, the hb_vmLock() of hb_vmThreadInit() in
\* the others.
EntryPoints == {"free", "init", "estack"}

\* hb_vmLock(): hb_stackLock() drops the counter to 0, then the loop.
Lock(t) ==
    /\ pc[t] \in EntryPoints
    /\ Active
    /\ iUnlocked[t] = 1
    /\ iUnlocked' = [iUnlocked EXCEPT ![t] = 0]
    /\ Goto(t, IF pc[t] = "estack" THEN "elock" ELSE "lock")
    /\ UNCHANGED <<child, closing, delivered, s_vmMtx, s_vmCond,
                   s_iRunningCount, world>>

\* The same calls once s_fHVMActive has been cleared return at once: nothing
\* is counted, no STOP is waited for, and the thread goes on inside the VM.
LockIgnored(t) ==
    /\ pc[t] \in EntryPoints
    /\ ~Active
    /\ Goto(t, IF pc[t] = "estack" THEN "edec" ELSE "run")
    /\ UNCHANGED <<own, delivered, s_vmMtx, s_vmCond, s_iRunningCount, world>>

LockLoop(t) ==
    /\ pc[t] = "lock"
    /\ t \notin s_vmCond
    /\ LockRound(t, "run")
    /\ UNCHANGED own

\* hb_vmLockForce(): enters whatever STOP says.
LockForce(t) ==
    /\ t \in Forcing
    /\ pc[t] = "free"
    /\ Active
    /\ iUnlocked[t] = 1
    /\ iUnlocked' = [iUnlocked EXCEPT ![t] = 0]
    /\ Goto(t, "force")
    /\ UNCHANGED <<child, closing, delivered, s_vmMtx, s_vmCond,
                   s_iRunningCount, world>>

ForceEnter(t) ==
    /\ pc[t] = "force"
    /\ VMLockFree
    /\ DeliverQuit(t)
    /\ s_iRunningCount' = s_iRunningCount + 1
    /\ Goto(t, "run")
    /\ UNCHANGED <<own, s_vmMtx, s_vmCond, world>>

-----------------------------------------------------------------------------
(* Answering requests.                                                     *)

\* A round of hb_vmRequestTest() by a thread already out of the count, which
\* is n: while STOP is requested, broadcast and wait.
TestRound(t, n) ==
    /\ VMLockFree
    /\ DeliverQuit(t)
    /\ \/ /\ Stop
          /\ s_vmCond' = {t}
          /\ Goto(t, "test")
          /\ s_iRunningCount' = n
       \/ /\ ~Stop
          /\ s_iRunningCount' = n + 1
          /\ Goto(t, "run")
          /\ UNCHANGED s_vmCond
    /\ UNCHANGED <<own, s_vmMtx, world>>

\* The interpreter loop of hb_vmExecute polls hb_vmThreadRequest before every
\* instruction; straight-line code has no such poll.
RequestTestStillCounted(t) ==            \* faulty: no s_iRunningCount--
    /\ pc[t] = "run"
    /\ t \notin Straight
    /\ hb_vmThreadRequest # {}
    /\ TestRound(t, s_iRunningCount)

RequestTest(t) ==
    /\ pc[t] = "run"
    /\ t \notin Straight
    /\ hb_vmThreadRequest # {}
    /\ TestRound(t, s_iRunningCount - 1)

RequestTestLoop(t) ==
    /\ pc[t] = "test"
    /\ t \notin s_vmCond
    /\ TestRound(t, s_iRunningCount)

\* hb_vmRequestQuery(): reads hb_vmThreadRequest without s_vmMtx.
RequestQuery(t) ==
    /\ pc[t] \in {"run", "free"}
    /\ Quit
    /\ t \notin quitState
    /\ DeliverQuit(t)
    /\ UNCHANGED <<pc, own, s_vmMtx, s_vmCond, s_iRunningCount, world>>

-----------------------------------------------------------------------------
(* Stopping the world: hb_vmSuspendThreads, hb_vmResumeThreads.            *)

\* Only a VM without any request pending accepts a STOP request.
NoRequest == hb_vmThreadRequest = {}

\* The caller, no longer counted, is alone when the count n is down to 0.
AtMostOne(n) == n <= 1                   \* faulty: off by one
NobodyInside(n) == n <= 0

\* A QUIT request withdraws the STOP of a waiting caller.
Withdrawn == Quit

\* hb_vmSuspendThreads(fWait) up to its first wait.  A request that is already
\* pending makes it return HB_FALSE at once, which changes nothing.  With a
\* running count above 0 a caller with fWait waits, one without it, which is
\* the second of two disjuncts, gives up: all it leaves is the broadcast.
Suspend(t) ==
    /\ pc[t] = "run"
    /\ VMLockFree
    /\ NoRequest
    /\ \/ /\ NobodyInside(s_iRunningCount - 1)
          /\ hb_vmThreadRequest' = {"STOP"}
          /\ s_vmMtx' = t
          /\ Goto(t, "gc")
          /\ UNCHANGED <<s_vmCond, s_iRunningCount>>
       \/ /\ ~NobodyInside(s_iRunningCount - 1)
          /\ hb_vmThreadRequest' = {"STOP"}
          /\ s_iRunningCount' = s_iRunningCount - 1
          /\ s_vmCond' = s_vmCond \cup {t}
          /\ Goto(t, "susp")
          /\ UNCHANGED s_vmMtx
       \/ /\ ~NobodyInside(s_iRunningCount - 1)
          /\ s_vmCond' = {}
          /\ UNCHANGED <<pc, s_vmMtx, hb_vmThreadRequest, s_iRunningCount>>
    /\ UNCHANGED <<own, delivered, s_iStackCount, shutdown>>

\* The loop of hb_vmSuspendThreads(HB_TRUE) after a wake-up: a QUIT request
\* withdraws the STOP, a running count of 0 grants it.
SuspendLoop(t) ==
    /\ pc[t] = "susp"
    /\ t \notin s_vmCond
    /\ VMLockFree
    /\ \/ /\ Withdrawn
          /\ hb_vmThreadRequest' = hb_vmThreadRequest \ {"STOP"}
          /\ s_iRunningCount' = s_iRunningCount + 1
          /\ s_vmCond' = {}
          /\ Goto(t, "run")
          /\ UNCHANGED s_vmMtx
       \/ /\ ~Withdrawn
          /\ NobodyInside(s_iRunningCount)
          /\ s_iRunningCount' = s_iRunningCount + 1
          /\ s_vmMtx' = t
          /\ Goto(t, "gc")
          /\ UNCHANGED <<s_vmCond, hb_vmThreadRequest>>
       \/ /\ ~Withdrawn
          /\ ~NobodyInside(s_iRunningCount)
          /\ s_vmCond' = s_vmCond \cup {t}
          /\ UNCHANGED <<pc, s_vmMtx, hb_vmThreadRequest, s_iRunningCount>>
    /\ UNCHANGED <<own, delivered, s_iStackCount, shutdown>>

\* hb_vmResumeThreads(), with s_vmMtx held since the suspension.
Resume(t) ==
    /\ pc[t] = "gc"
    /\ hb_vmThreadRequest' = hb_vmThreadRequest \ {"STOP"}
    /\ s_vmCond' = {}
    /\ s_vmMtx' = NoThread
    /\ Goto(t, "run")
    /\ UNCHANGED <<own, delivered, s_iRunningCount, s_iStackCount, shutdown>>

-----------------------------------------------------------------------------
(* Waiting for the other threads: main only.                               *)

\* There are HVM stacks other than that of main.
OthersRunning == s_iRunningCount > 1     \* faulty: the wrong counter
OthersLeft == s_iStackCount > 1

\* hb_vmTerminateThreads() up to its first wait, called by the PRG level
\* hb_threadTerminateAll() or, once, at the beginning of hb_vmQuit().
TerminateThreads ==
    /\ pc[Main] = "run"
    /\ VMLockFree
    /\ \/ shutdown = "no" /\ shutdown' = "exit"
       \/ shutdown # "inactive" /\ UNCHANGED shutdown
    /\ \/ /\ OthersLeft
          /\ hb_vmThreadRequest' = hb_vmThreadRequest \cup {"QUIT"}
          /\ s_iRunningCount' = s_iRunningCount - 1
          /\ s_vmCond' = {Main}
          /\ Goto(Main, "term")
       \/ /\ ~OthersLeft
          /\ hb_vmThreadRequest' = {}
          /\ s_vmCond' = {}
          /\ UNCHANGED <<pc, s_iRunningCount>>
    /\ UNCHANGED <<own, delivered, s_vmMtx, s_iStackCount>>

\* hb_vmWaitForThreads() up to its first wait.
WaitForThreads ==
    /\ pc[Main] = "run"
    /\ Active
    /\ VMLockFree
    /\ OthersLeft
    /\ s_iRunningCount' = s_iRunningCount - 1
    /\ s_vmCond' =
           (IF hb_vmThreadRequest # {} THEN {} ELSE s_vmCond) \cup {Main}
    /\ Goto(Main, "wait")
    /\ UNCHANGED <<own, delivered, s_vmMtx, world>>

\* Their loops: s_iStackCount > 1 waits on, otherwise the caller is counted
\* again and, in hb_vmTerminateThreads, every request is dropped.
JoinLoop ==
    /\ pc[Main] \in {"term", "wait"}
    /\ Main \notin s_vmCond
    /\ VMLockFree
    /\ \/ /\ OthersLeft
          /\ s_vmCond' = s_vmCond \cup {Main}
          /\ UNCHANGED <<pc, hb_vmThreadRequest, s_iRunningCount>>
       \/ /\ ~OthersLeft
          /\ s_iRunningCount' = s_iRunningCount + 1
          /\ hb_vmThreadRequest' =
                 IF pc[Main] = "term" THEN {} ELSE hb_vmThreadRequest
          /\ Goto(Main, "run")
          /\ UNCHANGED s_vmCond
    /\ UNCHANGED <<own, delivered, s_vmMtx, s_iStackCount, shutdown>>

\* hb_vmQuit() past the EXIT procedures: s_fHVMActive = HB_FALSE.
Deactivate ==
    /\ pc[Main] = "run"
    /\ shutdown = "exit"
    /\ shutdown' = "inactive"
    /\ UNCHANGED <<pc, own, delivered, s_vmMtx, s_vmCond, hb_vmThreadRequest,
                   s_iRunningCount, s_iStackCount>>

-----------------------------------------------------------------------------
(* Threads of the HVM: start, life and end.                                *)

\* hb_threadStart: hb_vmThreadRegister() links the new state and counts it,
\* without asking for s_fHVMActive; only main runs no more programs by then.
Register(t, u) ==
    /\ pc[t] = "run"
    /\ t = Main => \/ shutdown = "no"
                   \/ shutdown = "exit" /\ ExitMayStart
    /\ u \in Thread \ (Foreign \cup {Main})
    /\ pc[u] = "none"
    /\ VMLockFree
    /\ s_iStackCount' = s_iStackCount + 1
    /\ pc' = [pc EXCEPT ![t] = "starting", ![u] = "reg"]
    /\ child' = [child EXCEPT ![t] = u]
    /\ UNCHANGED <<iUnlocked, closing, delivered, s_vmMtx, s_vmCond,
                   hb_vmThreadRequest, s_iRunningCount, shutdown>>

\* hb_threadCreate() succeeded: the system thread runs.
Created(t) ==
    /\ pc[t] = "starting"
    /\ pc' = [pc EXCEPT ![t] = "run", ![child[t]] = "born"]
    /\ child' = [child EXCEPT ![t] = NoThread]
    /\ UNCHANGED <<iUnlocked, closing, delivered, s_vmMtx, s_vmCond,
                   s_iRunningCount, world>>

\* hb_threadCreate() failed: hb_vmThreadRelease() takes the state out again.
CreateFailed(t) ==
    /\ pc[t] = "starting"
    /\ VMLockFree
    /\ s_iStackCount' = s_iStackCount - 1
    /\ s_vmCond' = {}
    /\ pc' = [pc EXCEPT ![t] = "run", ![child[t]] = "none"]
    /\ child' = [child EXCEPT ![t] = NoThread]
    /\ UNCHANGED <<iUnlocked, closing, delivered, s_vmMtx,
                   hb_vmThreadRequest, s_iRunningCount, shutdown>>

\* hb_vmThreadInit(): hb_vmStackInit() leaves the stack unlocked for the
\* hb_vmLock() that follows.
StackInit(t) ==
    /\ pc[t] = "born"
    /\ VMLockFree
    /\ iUnlocked' = [iUnlocked EXCEPT ![t] = 1]
    /\ Goto(t, "init")
    /\ UNCHANGED <<child, closing, delivered, s_vmMtx, s_vmCond,
                   s_iRunningCount, world>>

\* hb_vmThreadQuit() up to hb_vmStackRelease(): the function of the thread has
\* returned, of itself or after a QUIT request; the workareas are closed and
\* the memvars cleared, which may run code inside and outside the VM.
ThreadQuit(t) ==
    /\ pc[t] = "run"
    /\ t # Main
    /\ t \notin closing
    /\ closing' = closing \cup {t}
    /\ quitState' = quitState \cup {t}
    /\ actionRequest' = actionRequest \ {t}
    /\ UNCHANGED <<pc, iUnlocked, child, s_vmMtx, s_vmCond,
                   s_iRunningCount, world>>

\* hb_vmStackRelease(): unlink the state from the list of stacks ...
StackDel(t) ==
    /\ pc[t] = "run"
    /\ t \in closing \/ (t = Main /\ shutdown = "inactive")
    /\ VMLockFree
    /\ iUnlocked' = [iUnlocked EXCEPT ![t] = @ + 1]
    /\ Goto(t, "releasing")
    /\ UNCHANGED <<child, closing, delivered, s_vmMtx, s_vmCond,
                   s_iRunningCount, world>>

\* ... and, after the stack has been freed, leave both counts: that of the
\* running threads if fLocked says that the thread was counted.
StackRelease(t) ==
    /\ pc[t] = "releasing"
    /\ VMLockFree
    /\ s_iRunningCount' = IF iUnlocked[t] = 1 THEN s_iRunningCount - 1
                                              ELSE s_iRunningCount
    /\ s_iStackCount' = s_iStackCount - 1
    /\ s_vmCond' = {}
    /\ Goto(t, "done")
    /\ UNCHANGED <<own, delivered, s_vmMtx, hb_vmThreadRequest, shutdown>>

\* hb_threadQuitRequest(): sets the action request of another thread whose
\* stack is active, whatever that thread is doing.
QuitRequest(t, u) ==
    /\ pc[t] = "run"
    /\ VMLockFree
    /\ u \in Killable
    /\ pc[u] \in StackPoints \ {"reg", "born", "releasing"}
    /\ u \notin actionRequest
    /\ actionRequest' = actionRequest \cup {u}
    /\ UNCHANGED <<pc, own, quitState, s_vmMtx, s_vmCond, s_iRunningCount,
                   world>>

-----------------------------------------------------------------------------
(* Threads of the host program: hb_vmRequestReenterExt.                    *)

\* Only an active HVM lets a thread come to the gate.
GateTest(t) ==
    /\ t \in Foreign
    /\ pc[t] = "none"
    /\ Active
    /\ Goto(t, "ewait")
    /\ UNCHANGED <<own, delivered, s_vmMtx, s_vmCond, s_iRunningCount, world>>

\* The gate: wait while STOP is requested, then count the thread in.
Gate(t) ==
    /\ pc[t] = "ewait"
    /\ t \notin s_vmCond
    /\ VMLockFree
    /\ \/ /\ Stop
          /\ s_vmCond' = s_vmCond \cup {t}
          /\ UNCHANGED <<pc, s_iRunningCount>>
       \/ /\ ~Stop
          /\ s_iRunningCount' = s_iRunningCount + 1
          /\ Goto(t, "einit")
          /\ UNCHANGED s_vmCond
    /\ UNCHANGED <<own, delivered, s_vmMtx, world>>

\* hb_vmThreadInit( NULL ): a state and a stack of its own, then hb_vmLock().
ForeignStackInit(t) ==
    /\ pc[t] = "einit"
    /\ VMLockFree
    /\ s_iStackCount' = s_iStackCount + 1
    /\ iUnlocked' = [iUnlocked EXCEPT ![t] = 1]
    /\ Goto(t, "estack")
    /\ UNCHANGED <<child, closing, delivered, s_vmMtx, s_vmCond,
                   s_iRunningCount, hb_vmThreadRequest, shutdown>>

ForeignLockLoop(t) ==
    /\ pc[t] = "elock"
    /\ t \notin s_vmCond
    /\ LockRound(t, "edec")
    /\ UNCHANGED own

\* The count taken at the gate is given back.
GateLeave(t) ==
    /\ pc[t] = "edec"
    /\ VMLockFree
    /\ s_iRunningCount' = s_iRunningCount - 1
    /\ s_vmCond' = {}
    /\ Goto(t, "run")
    /\ UNCHANGED <<own, delivered, s_vmMtx, world>>

-----------------------------------------------------------------------------
\* pthread_cond_wait() may return without a broadcast.
Spurious(t) ==
    /\ t \in s_vmCond
    /\ s_vmCond' = s_vmCond \ {t}
    /\ UNCHANGED <<pc, own, delivered, s_vmMtx, s_iRunningCount, world>>

\* Everything has ended: the process is about to exit.
Exited ==
    /\ pc[Main] = "done"
    /\ UNCHANGED vars

Step(t) ==
    \/ Unlock(t) \/ UnlockLeave(t) \/ Nested(t)
    \/ Lock(t) \/ LockIgnored(t) \/ LockLoop(t)
    \/ LockForce(t) \/ ForceEnter(t)
    \/ RequestTest(t) \/ RequestTestLoop(t) \/ RequestQuery(t)
    \/ Suspend(t) \/ SuspendLoop(t) \/ Resume(t)
    \/ \E u \in Thread : Register(t, u)
    \/ Created(t) \/ CreateFailed(t) \/ StackInit(t)
    \/ ThreadQuit(t) \/ StackDel(t) \/ StackRelease(t)
    \/ \E u \in Thread : QuitRequest(t, u)
    \/ GateTest(t) \/ Gate(t)
    \/ ForeignStackInit(t) \/ ForeignLockLoop(t) \/ GateLeave(t)
    \/ Spurious(t)

Next ==
    \/ \E t \in Thread : Step(t)
    \/ TerminateThreads \/ WaitForThreads \/ JoinLoop \/ Deactivate
    \/ Exited

Spec == Init /\ [][Next]_vars

-----------------------------------------------------------------------------
(* Fairness.  Every thread that waits for s_vmMtx alone gets it, a running *)
(* interpreter comes to its next instruction whatever C functions it calls *)
(* in between, a call made outside the VM returns, and a thread asked to   *)
(* quit unwinds to its entry function and finishes.  A thread that was not *)
(* asked may run for ever.  The steps of Progress(t) belong to different   *)
(* control points of t, so that one weak fairness condition serves all.    *)
Progress(t) ==
    \/ UnlockLeave(t) \/ Lock(t) \/ LockIgnored(t) \/ LockLoop(t)
    \/ ForceEnter(t) \/ RequestTestLoop(t)
    \/ SuspendLoop(t) \/ Resume(t)
    \/ Created(t) \/ CreateFailed(t) \/ StackInit(t) \/ StackRelease(t)
    \/ Gate(t) \/ ForeignStackInit(t) \/ ForeignLockLoop(t) \/ GateLeave(t)
    \/ t = Main /\ JoinLoop

Fairness == \A t \in Thread :
    /\ WF_vars(Progress(t))
    /\ SF_vars(RequestTest(t))
    /\ SF_vars(t \in actionRequest /\ ThreadQuit(t))
    /\ SF_vars(StackDel(t))

FairSpec == Spec /\ Fairness

-----------------------------------------------------------------------------
(* Properties.                                                             *)

\* The state as StopTheWorld sees it: the threads that s_iRunningCount should
\* stand for, and the owner of the STOP request.
Stoppers == {t \in Thread : pc[t] \in {"susp", "gc"}}
Stopper == IF Stoppers = {} THEN NoThread ELSE CHOOSE t \in Stoppers : TRUE
Inside == InVM \cup PastGate

World == INSTANCE StopTheWorld WITH
    inside <- Inside, stopper <- Stopper, quit <- Quit

\* hb_vmSuspendThreads() and hb_vmResumeThreads() keep their promise, step by
\* step, as long as the HVM is active: one owner of a STOP, nobody else inside
\* once it is granted, no STOP granted during a shutdown.  Afterwards they do
\* not: a thread may then come in through a hb_vmLock() that returns at once.
StopsTheWorldSpec ==
    /\ World!Init
    /\ [][Active => World!Next \/ UNCHANGED World!world]_vars

\* The type of the state.
TypeOK ==
    /\ pc \in [Thread -> PCs]
    /\ iUnlocked \in [Thread -> Nat]
    /\ child \in [Thread -> Thread \cup {NoThread}]
    /\ closing \subseteq Thread
    /\ actionRequest \subseteq Thread
    /\ quitState \subseteq Thread
    /\ s_vmMtx \in Thread \cup {NoThread}
    /\ s_vmCond \subseteq Thread
    /\ hb_vmThreadRequest \subseteq {"STOP", "QUIT"}
    /\ s_iRunningCount \in Int
    /\ s_iStackCount \in Int
    /\ shutdown \in {"no", "exit", "inactive"}

\* The two counters, kept by more than a dozen separate increments and
\* decrements, equal the number of threads they stand for: that of the stacks
\* always, that of the threads inside until s_fHVMActive is cleared, from when
\* on some may be inside that nobody has counted.
CountsExact ==
    /\ Active => s_iRunningCount = Cardinality(InVM) + Cardinality(PastGate)
    /\ s_iStackCount = Cardinality(HasStack)

\* While hb_vmSuspendThreads() has returned HB_TRUE to a thread (the garbage
\* collector marks and sweeps), no other thread is inside the VM, not even
\* one that used hb_vmLockForce() or is releasing its stack.  So says the
\* comment of hb_vmLock(), "lock VM blocking GC and other exclusive single
\* task code execution"; the collection of hb_vmQuit() after s_fHVMActive has
\* been cleared may find another thread inside.
StopsTheWorld ==
    \A g \in Thread : pc[g] = "gc" => InVM = {g} /\ PastGate = {}

\* The same while the HVM is active.
StopsTheWorldWhileActive == Active => StopsTheWorld

\* The STOP request has exactly one owner, the thread that will withdraw it.
StopHasOneOwner ==
    Cardinality({t \in Thread : pc[t] \in {"susp", "gc"}})
        = IF Stop THEN 1 ELSE 0

\* The collector never runs once the main thread has asked all to quit.
QuitBeatsStop == \A g \in Thread : pc[g] = "gc" => ~Quit

\* A thread blocked on s_vmCond waits for something that has not happened:
\* whoever makes it happen broadcasts.
NoLostWakeup ==
    \A t \in s_vmCond :
        /\ pc[t] \in {"lock", "test", "ewait", "elock"} => Stop
        /\ pc[t] = "susp" => s_iRunningCount > 0 /\ ~Quit
        /\ pc[t] \in {"term", "wait"} => s_iStackCount > 1

\* hb_vmTerminateThreads() and hb_vmWaitForThreads() return to a main thread
\* that is the only one left with an HVM stack.
JoinReturnsAlone ==
    [][(pc[Main] \in {"term", "wait"} /\ pc'[Main] = "run")
           => HasStack = {Main}]_vars

\* "executed at the end of HVM cleanup code just before application exit when
\* other threads are destroyed" (garbage.c, hb_gcReleaseAll): when main has
\* left the VM for good, nobody else has an HVM stack.
TeardownAlone == shutdown = "inactive" => HasStack \subseteq {Main}

\* A thread waiting to stop the world is answered, granted or refused.
SuspendAnswered ==
    \A t \in Thread : pc[t] = "susp" ~> pc[t] # "susp"

\* hb_vmTerminateThreads() "send QUIT request to all threads except current
\* one and wait for their termination" (hvm.c) comes to an end.
TerminateReturns == pc[Main] = "term" ~> pc[Main] # "term"

=============================================================================
