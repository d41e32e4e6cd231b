----------------------------- MODULE ThreadMutex -----------------------------
(***************************************************************************)
(* One Harbour mutex object (HB_MUTEX, src/vm/thread.c, built with         *)
(* HB_MT_VM over pthreads): a recursive lock with its lockers, a queue of  *)
(* notifications with its waiters, and the way a shutdown of the threads   *)
(* reaches those who wait on it.                                           *)
(*                                                                         *)
(* The fields are guarded by the raw lock pMutex->mutex.  The code also    *)
(* takes s_vmMtx while it holds it (hb_vmLockForce around every change of  *)
(* an HVM array), and hb_vmTerminateThreads takes the two the other way    *)
(* round, below s_mutexlst_mtx: all three are variables of their own.      *)
(*                                                                         *)
(* Granularity: what runs under pMutex->mutex is one action, but for the   *)
(* points where the code asks for a second lock, and between the last look *)
(* at the QUIT request and the wait that follows it.                       *)
(***************************************************************************)
EXTENDS Integers, FiniteSets

CONSTANTS
    Thread,      \* the threads, all of them running from the start
    Main,        \* s_main_thread
    NoThread,    \* nobody
    Lockers,     \* threads that call hb_mutexLock and hb_mutexUnlock
    Notifiers,   \* threads that call hb_mutexNotify and hb_mutexNotifyAll
    Subscribers, \* threads that call hb_mutexSubscribe
    Clearers,    \* threads that call hb_mutexSubscribeNow
    LockWaits,   \* the time-outs given to hb_mutexLock
    Waits,       \* the time-outs given to the two subscriptions
    Terminates,  \* does main call hb_threadTerminateAll?
    MaxLock,     \* bound on the depth of a recursive lock
    MaxEvents    \* bound on the length of the queue

\* No time-out argument, a positive one, and zero.
Timeouts == {"forever", "timed", "now"}

ASSUME ThreadAssumption == /\ IsFiniteSet(Thread)
                           /\ Main \in Thread
                           /\ NoThread \notin Thread
ASSUME CallAssumption == /\ Lockers \subseteq Thread
                         /\ Notifiers \subseteq Thread
                         /\ Subscribers \subseteq Thread
                         /\ Clearers \subseteq Thread
                         /\ LockWaits \subseteq Timeouts
                         /\ Waits \subseteq Timeouts
                         /\ Terminates \in BOOLEAN
ASSUME BoundAssumption == MaxLock \in Nat \ {0} /\ MaxEvents \in Nat \ {0}

VARIABLES
    pc,             \* where each thread stands in its call
    arg,            \* argument of the running call: a time-out, "one" or "all"
    held,           \* how often the PRG code of a thread holds the lock
    saved,          \* lock_count put aside by the running subscription
    lock_count,
    owner,
    lockers,
    cond_l,         \* threads blocked on cond_l
    events,         \* length of the queue, Null while there is no array
    waiters,
    cond_w,         \* threads blocked on cond_w
    mutex,          \* holder of pMutex->mutex between actions
    s_mutexlst_mtx, \* holder of the lock of the list of mutexes
    s_vmMtx,        \* holder of the VM mutex between actions
    quit            \* is QUIT requested of all threads?

call == <<arg, held, saved>>
lock == <<lock_count, owner, lockers, cond_l>>
queue == <<events, waiters, cond_w>>
vm == <<s_mutexlst_mtx, s_vmMtx, quit>>
vars == <<pc, call, lock, queue, mutex, vm>>

\* pMutex->events == NULL
Null == -1

-----------------------------------------------------------------------------
(* Control points.  At a point of Raw the thread holds pMutex->mutex.      *)
(*   out             in PRG code                                           *)
(*   locking, locktime  waiting for the lock, without and with a time-out  *)
(*   creating, created  making the queue: array not yet made, made and     *)
(*                   about to be stored                                    *)
(*   discarding      another thread was faster                             *)
(*   adding          queue there, about to take s_vmMtx and add            *)
(*   clearing, cleared  about to drop the queue, queue dropped             *)
(*   checking        at the condition of the loop of hb_mutexSubscribe     *)
(*   committed       condition seen true, about to wait                    *)
(*   waiting         on cond_w without a time-out                          *)
(*   timecheck, waittime  condition and wait of the loop with a time-out   *)
(*   taking          there are events, about to take s_vmMtx and one event *)
(*   restoring       about to take the own lock back                       *)
(*   relocking       waiting for that                                      *)
(*   unlocking       in hb_threadMutexUnlockAll, owner of the lock         *)
(*   leaving, gone   the rest of hb_vmStackRelease, and the end            *)
(*   scanning, waking  main in hb_threadMutexUnsubscribeAll: about to read *)
(*                   waiters, about to broadcast                           *)
(*   joining         main waiting for the others to go                     *)
LockPoints == {"locking", "locktime", "relocking"}
WaitPoints == {"waiting", "waittime", "timecheck"}
Raw == {"created", "adding", "clearing", "checking", "committed",
        "timecheck", "taking", "restoring"}
Asleep == {"locking", "locktime", "relocking", "waiting", "waittime"}
PCs == {"out", "creating", "discarding", "cleared", "unlocking", "leaving",
        "gone", "scanning", "waking", "joining"} \cup Raw \cup Asleep

LockQueue == {t \in Thread : pc[t] \in LockPoints}
WaitQueue == {t \in Thread : pc[t] \in WaitPoints}
\* Threads inside a subscription that are not asleep and found, or are about
\* to look for, an event: they hold pMutex->mutex.
Takers == {t \in Thread : pc[t] \in {"checking", "taking"}}

Init ==
    /\ pc = [t \in Thread |-> "out"]
    /\ arg = [t \in Thread |-> "now"]
    /\ held = [t \in Thread |-> 0]
    /\ saved = [t \in Thread |-> 0]
    /\ lock_count = 0 /\ owner = NoThread /\ lockers = 0 /\ cond_l = {}
    /\ events = Null /\ waiters = 0 /\ cond_w = {}
    /\ mutex = NoThread
    /\ s_mutexlst_mtx = NoThread /\ s_vmMtx = NoThread /\ quit = FALSE

Goto(t, p) == pc' = [pc EXCEPT ![t] = p]
MutexFree == mutex = NoThread
VMLockFree == s_vmMtx = NoThread
HaveEvents == events > 0

\* HB_COND_SIGNAL on a condition variable with the given threads blocked.
Signalled(cond) == IF cond = {} THEN {{}} ELSE {cond \ {t} : t \in cond}

-----------------------------------------------------------------------------
(* hb_threadMutexLock, hb_threadMutexTimedLock, hb_threadMutexUnlock.      *)

\* Whoever gives the lock back wakes one locker.
FreeSilently ==                          \* faulty: no signal
    lock_count' = 0 /\ owner' = NoThread /\ UNCHANGED cond_l

Free ==
    /\ lock_count' = 0
    /\ owner' = NoThread
    /\ cond_l' \in IF lockers > 0 THEN Signalled(cond_l) ELSE {cond_l}

Acquire(t, n) == lock_count' = n /\ owner' = t

\* The owner locks again, without touching pMutex->mutex.
LockAgain(t) ==
    /\ pc[t] = "out" /\ t \in Lockers
    /\ owner = t
    /\ lock_count < MaxLock
    /\ lock_count' = lock_count + 1
    /\ held' = [held EXCEPT ![t] = @ + 1]
    /\ UNCHANGED <<pc, arg, saved, owner, lockers, cond_l, queue, mutex, vm>>

\* Up to the first wait; with a time-out of zero a busy lock is not waited for.
Lock(t) ==
    /\ pc[t] = "out" /\ t \in Lockers
    /\ owner # t
    /\ MutexFree
    /\ \/ /\ lock_count = 0
          /\ Acquire(t, 1)
          /\ held' = [held EXCEPT ![t] = 1]
          /\ UNCHANGED <<pc, lockers, cond_l>>
       \/ /\ lock_count # 0
          /\ \/ "forever" \in LockWaits /\ Goto(t, "locking")
             \/ "timed" \in LockWaits /\ Goto(t, "locktime")
          /\ lockers' = lockers + 1
          /\ cond_l' = cond_l \cup {t}
          /\ UNCHANGED <<held, lock_count, owner>>
    /\ UNCHANGED <<arg, saved, queue, mutex, vm>>

\* A signalled locker looks at the lock again.
LockWake(t) ==
    /\ pc[t] \in {"locking", "locktime"}
    /\ t \notin cond_l
    /\ MutexFree
    /\ \/ /\ lock_count = 0
          /\ Acquire(t, 1)
          /\ lockers' = lockers - 1
          /\ held' = [held EXCEPT ![t] = 1]
          /\ Goto(t, "out")
          /\ UNCHANGED cond_l
       \/ /\ lock_count # 0
          /\ cond_l' = cond_l \cup {t}
          /\ UNCHANGED <<pc, held, lock_count, owner, lockers>>
    /\ UNCHANGED <<arg, saved, queue, mutex, vm>>

\* The time-out ends the wait, and the lock is tried a last time.
LockTimeOut(t) ==
    /\ pc[t] = "locktime"
    /\ t \in cond_l
    /\ MutexFree
    /\ lockers' = lockers - 1
    /\ cond_l' = cond_l \ {t}
    /\ IF lock_count = 0
         THEN Acquire(t, 1) /\ held' = [held EXCEPT ![t] = 1]
         ELSE UNCHANGED <<held, lock_count, owner>>
    /\ Goto(t, "out")
    /\ UNCHANGED <<arg, saved, queue, mutex, vm>>

\* Only the owner unlocks; the last unlock frees the lock.
Unlock(t) ==
    /\ pc[t] = "out" /\ t \in Lockers
    /\ owner = t
    /\ MutexFree
    /\ held' = [held EXCEPT ![t] = @ - 1]
    /\ IF lock_count = 1
         THEN Free
         ELSE lock_count' = lock_count - 1 /\ UNCHANGED <<owner, cond_l>>
    /\ UNCHANGED <<pc, arg, saved, lockers, queue, mutex, vm>>

-----------------------------------------------------------------------------
(* hb_threadMutexNotify, for one waiter or for all of them.                *)

\* Notifications on their way to the queue: MaxEvents bounds them with it.
Pending == {t \in Thread :
              pc[t] \in {"creating", "created", "discarding", "adding"}}

Notify(t) ==
    /\ pc[t] = "out" /\ t \in Notifiers
    /\ events + Cardinality(Pending) < MaxEvents
    /\ MutexFree
    /\ \/ arg' = [arg EXCEPT ![t] = "one"]
       \/ waiters > 0 /\ arg' = [arg EXCEPT ![t] = "all"]
    /\ IF events = Null
         THEN Goto(t, "creating") /\ UNCHANGED mutex
         ELSE Goto(t, "adding") /\ mutex' = t
    /\ UNCHANGED <<held, saved, lock, queue, vm>>

\* hb_thredMutexEventInit dropped the mutex to allocate the array and takes it
\* again: another notifier may have stored an array by now.
Create(t) ==
    /\ pc[t] = "creating"
    /\ MutexFree
    /\ IF events = Null
         THEN Goto(t, "created") /\ mutex' = t
         ELSE Goto(t, "discarding") /\ UNCHANGED mutex
    /\ UNCHANGED <<call, lock, queue, vm>>

StoreQueue(t) ==
    /\ pc[t] = "created"
    /\ VMLockFree
    /\ events' = 0
    /\ Goto(t, "adding")
    /\ UNCHANGED <<call, lock, waiters, cond_w, mutex, vm>>

\* The array of this thread is released with the mutex dropped once more.
StoreAnyway(t) ==                        \* faulty: mutex not dropped again
    /\ pc[t] = "discarding"
    /\ MutexFree
    /\ mutex' = t
    /\ events' = 0
    /\ Goto(t, "adding")
    /\ UNCHANGED <<call, lock, waiters, cond_w, vm>>

Discard(t) ==
    /\ pc[t] = "discarding"
    /\ MutexFree
    /\ mutex' = t
    /\ Goto(t, "adding")
    /\ UNCHANGED <<call, lock, queue, vm>>

\* What a notification adds to the queue, and whom it wakes.
AddOne ==
    /\ VMLockFree
    /\ events' = events + 1
    /\ cond_w' \in IF waiters > 0 THEN Signalled(cond_w) ELSE {cond_w}

AddAllWakeOne ==                         \* faulty: wakes one waiter only
    \/ /\ waiters > events
       /\ VMLockFree
       /\ events' = waiters
       /\ cond_w' \in Signalled(cond_w)
    \/ waiters <= events /\ UNCHANGED <<events, cond_w>>

AddAll ==
    \/ /\ waiters > events
       /\ VMLockFree
       /\ events' = waiters
       /\ cond_w' \in IF waiters - events = 1 THEN Signalled(cond_w) ELSE {{}}
    \/ waiters <= events /\ UNCHANGED <<events, cond_w>>

\* Neither branch can do without the array.
Add(t) ==
    /\ pc[t] = "adding"
    /\ events # Null
    /\ IF arg[t] = "one" THEN AddOne ELSE AddAll
    /\ mutex' = NoThread
    /\ Goto(t, "out")
    /\ UNCHANGED <<call, lock, waiters, vm>>

-----------------------------------------------------------------------------
(* hb_threadMutexSubscribe, hb_threadMutexTimedSubscribe.                  *)

\* The lock, when it is the thread's own, is given up for the wait.
GiveUpOwn(t) ==
    IF owner = t
      THEN saved' = [saved EXCEPT ![t] = lock_count] /\ Free
      ELSE UNCHANGED <<saved, lock_count, owner, cond_l>>

\* With the mutex just taken, w being the time-out of the call.
Begin(t, w) ==
    \/ /\ w = "forever"
       /\ GiveUpOwn(t)
       /\ Goto(t, "checking")
       /\ UNCHANGED waiters
    \/ /\ w = "timed" /\ ~HaveEvents
       /\ GiveUpOwn(t)
       /\ waiters' = waiters + 1
       /\ Goto(t, "timecheck")
    \/ /\ w = "now" \/ (w = "timed" /\ HaveEvents)
       /\ Goto(t, IF HaveEvents THEN "taking" ELSE "restoring")
       /\ UNCHANGED <<saved, lock_count, owner, cond_l, waiters>>

Subscribe(t) ==
    /\ pc[t] = "out"
    /\ MutexFree
    /\ \E w \in Waits :
        /\ arg' = [arg EXCEPT ![t] = w]
        /\ \/ /\ t \in Subscribers \/ (t \in Clearers /\ events = Null)
              /\ Begin(t, w)
           \/ /\ t \in Clearers /\ events # Null
              /\ Goto(t, "clearing")
              /\ UNCHANGED <<saved, lock_count, owner, cond_l, waiters>>
    /\ mutex' = t
    /\ UNCHANGED <<held, lockers, events, cond_w, vm>>

\* The old queue goes, and its contents are released without the mutex.
ClearQueue(t) ==
    /\ pc[t] = "clearing"
    /\ VMLockFree
    /\ events' = Null
    /\ mutex' = NoThread
    /\ Goto(t, "cleared")
    /\ UNCHANGED <<call, lock, waiters, cond_w, vm>>

SubscribeCleared(t) ==
    /\ pc[t] = "cleared"
    /\ MutexFree
    /\ mutex' = t
    /\ Begin(t, arg[t])
    /\ UNCHANGED <<arg, held, lockers, events, cond_w, vm>>

\* The loop without a time-out: look at the queue and at the QUIT request ...
Check(t) ==
    /\ pc[t] = "checking"
    /\ Goto(t, IF HaveEvents THEN "taking"
               ELSE IF quit THEN "restoring" ELSE "committed")
    /\ UNCHANGED <<call, lock, queue, mutex, vm>>

\* ... then count oneself as a waiter, and wait.
Wait(t) ==
    /\ pc[t] = "committed"
    /\ waiters' = waiters + 1
    /\ cond_w' = cond_w \cup {t}
    /\ mutex' = NoThread
    /\ Goto(t, "waiting")
    /\ UNCHANGED <<call, lock, events, vm>>

WaitWake(t) ==
    /\ pc[t] = "waiting"
    /\ t \notin cond_w
    /\ MutexFree
    /\ mutex' = t
    /\ waiters' = waiters - 1
    /\ Goto(t, "checking")
    /\ UNCHANGED <<call, lock, events, cond_w, vm>>

\* The loop with a time-out: the thread is counted before it looks.
TimeCheckUncounted(t) ==                 \* faulty: waiters-- is missing
    /\ pc[t] = "timecheck"
    /\ IF HaveEvents \/ quit
         THEN /\ Goto(t, IF HaveEvents THEN "taking" ELSE "restoring")
              /\ UNCHANGED <<waiters, cond_w, mutex>>
         ELSE /\ cond_w' = cond_w \cup {t}
              /\ mutex' = NoThread
              /\ Goto(t, "waittime")
              /\ UNCHANGED waiters
    /\ UNCHANGED <<call, lock, events, vm>>

TimeCheck(t) ==
    /\ pc[t] = "timecheck"
    /\ IF HaveEvents \/ quit
         THEN /\ waiters' = waiters - 1
              /\ Goto(t, IF HaveEvents THEN "taking" ELSE "restoring")
              /\ UNCHANGED <<cond_w, mutex>>
         ELSE /\ cond_w' = cond_w \cup {t}
              /\ mutex' = NoThread
              /\ Goto(t, "waittime")
              /\ UNCHANGED waiters
    /\ UNCHANGED <<call, lock, events, vm>>

TimeWake(t) ==
    /\ pc[t] = "waittime"
    /\ t \notin cond_w
    /\ MutexFree
    /\ mutex' = t
    /\ Goto(t, "timecheck")
    /\ UNCHANGED <<call, lock, queue, vm>>

WaitTimeOut(t) ==
    /\ pc[t] = "waittime"
    /\ t \in cond_w
    /\ MutexFree
    /\ mutex' = t
    /\ waiters' = waiters - 1
    /\ cond_w' = cond_w \ {t}
    /\ Goto(t, IF HaveEvents THEN "taking" ELSE "restoring")
    /\ UNCHANGED <<call, lock, events, vm>>

Take(t) ==
    /\ pc[t] = "taking"
    /\ VMLockFree
    /\ events' = events - 1
    /\ Goto(t, "restoring")
    /\ UNCHANGED <<call, lock, waiters, cond_w, mutex, vm>>

\* The own lock, if it was given up, is taken back before the call returns.
RestoreAtOnce(t) ==                      \* faulty: does not wait for it
    /\ pc[t] = "restoring"
    /\ Goto(t, "out")
    /\ IF saved[t] = 0 THEN UNCHANGED <<lock_count, owner>>
                       ELSE Acquire(t, saved[t])
    /\ saved' = [saved EXCEPT ![t] = 0]
    /\ mutex' = NoThread
    /\ UNCHANGED <<arg, held, lockers, cond_l, queue, vm>>

Restore(t) ==
    /\ pc[t] = "restoring"
    /\ \/ /\ saved[t] = 0
          /\ Goto(t, "out")
          /\ UNCHANGED <<saved, lock>>
       \/ /\ saved[t] > 0 /\ owner = NoThread
          /\ Acquire(t, saved[t])
          /\ saved' = [saved EXCEPT ![t] = 0]
          /\ Goto(t, "out")
          /\ UNCHANGED <<lockers, cond_l>>
       \/ /\ saved[t] > 0 /\ owner # NoThread
          /\ lockers' = lockers + 1
          /\ cond_l' = cond_l \cup {t}
          /\ Goto(t, "relocking")
          /\ UNCHANGED <<saved, lock_count, owner>>
    /\ mutex' = NoThread
    /\ UNCHANGED <<arg, held, queue, vm>>

RestoreWake(t) ==
    /\ pc[t] = "relocking"
    /\ t \notin cond_l
    /\ MutexFree
    /\ \/ /\ lock_count = 0
          /\ lockers' = lockers - 1
          /\ Acquire(t, saved[t])
          /\ saved' = [saved EXCEPT ![t] = 0]
          /\ Goto(t, "out")
          /\ UNCHANGED cond_l
       \/ /\ lock_count # 0
          /\ cond_l' = cond_l \cup {t}
          /\ UNCHANGED <<pc, saved, lock_count, owner, lockers>>
    /\ UNCHANGED <<arg, held, queue, mutex, vm>>

-----------------------------------------------------------------------------
(* The end of a thread, and hb_vmTerminateThreads.                         *)

\* hb_threadMutexUnlockAll: the owner is read under s_mutexlst_mtx alone.
UnlockAll(t, next) ==
    /\ s_mutexlst_mtx = NoThread
    /\ IF owner = t
         THEN s_mutexlst_mtx' = t /\ Goto(t, "unlocking")
         ELSE UNCHANGED s_mutexlst_mtx /\ Goto(t, next)

\* The entry function of a thread returns, its HVM stack is released.
Exit(t) ==
    /\ pc[t] = "out" /\ t # Main
    /\ UnlockAll(t, "leaving")
    /\ UNCHANGED <<call, lock, queue, mutex, s_vmMtx, quit>>

UnlockOwn(t) ==
    /\ pc[t] = "unlocking"
    /\ MutexFree
    /\ Free
    /\ held' = [held EXCEPT ![t] = 0]
    /\ s_mutexlst_mtx' = NoThread
    /\ Goto(t, IF t = Main THEN "scanning" ELSE "leaving")
    /\ UNCHANGED <<arg, saved, lockers, queue, mutex, s_vmMtx, quit>>

Leave(t) ==
    /\ pc[t] = "leaving"
    /\ VMLockFree
    /\ Goto(t, "gone")
    /\ UNCHANGED <<call, lock, queue, mutex, vm>>

\* hb_vmTerminateThreads holds s_vmMtx from here to its wait.
Terminate ==
    /\ Terminates
    /\ pc[Main] = "out"
    /\ VMLockFree
    /\ s_vmMtx' = Main
    /\ quit' = TRUE
    /\ UnlockAll(Main, "scanning")
    /\ UNCHANGED <<call, lock, queue, mutex>>

\* hb_threadMutexUnsubscribeAll: waiters is read without pMutex->mutex.
ScanPlus == waiters > 1                  \* faulty: off by one
SomeWaiter == waiters > 0

Scan ==
    /\ pc[Main] = "scanning"
    /\ s_mutexlst_mtx = NoThread
    /\ \/ /\ SomeWaiter
          /\ s_mutexlst_mtx' = Main
          /\ Goto(Main, "waking")
          /\ UNCHANGED s_vmMtx
       \/ /\ ~SomeWaiter
          /\ s_vmMtx' = NoThread
          /\ Goto(Main, "joining")
          /\ UNCHANGED s_mutexlst_mtx
    /\ UNCHANGED <<call, lock, queue, mutex, quit>>

WakeAll ==
    /\ pc[Main] = "waking"
    /\ MutexFree
    /\ cond_w' = IF waiters > 0 THEN {} ELSE cond_w
    /\ s_mutexlst_mtx' = NoThread
    /\ s_vmMtx' = NoThread
    /\ Goto(Main, "joining")
    /\ UNCHANGED <<call, lock, events, waiters, mutex, quit>>

Joined ==
    /\ pc[Main] = "joining"
    /\ VMLockFree
    /\ \A t \in Thread \ {Main} : pc[t] = "gone"
    /\ quit' = FALSE
    /\ Goto(Main, "out")
    /\ UNCHANGED <<call, lock, queue, mutex, s_mutexlst_mtx, s_vmMtx>>

-----------------------------------------------------------------------------
\* A wait on a condition variable may return without a signal.
Spurious(t) ==
    /\ t \in cond_l \cup cond_w
    /\ cond_l' = cond_l \ {t}
    /\ cond_w' = cond_w \ {t}
    /\ UNCHANGED <<pc, call, lock_count, owner, lockers, events, waiters,
                   mutex, vm>>

\* The steps of a call once it has been made.
Progress(t) ==
    \/ LockWake(t) \/ LockTimeOut(t)
    \/ Create(t) \/ StoreQueue(t) \/ Discard(t) \/ Add(t)
    \/ ClearQueue(t) \/ SubscribeCleared(t)
    \/ Check(t) \/ Wait(t) \/ WaitWake(t)
    \/ TimeCheck(t) \/ TimeWake(t) \/ WaitTimeOut(t)
    \/ Take(t) \/ Restore(t) \/ RestoreWake(t)
    \/ UnlockOwn(t) \/ Leave(t)

Step(t) ==
    \/ LockAgain(t) \/ Lock(t) \/ Unlock(t) \/ Notify(t) \/ Subscribe(t)
    \/ Progress(t) \/ Exit(t) \/ Spurious(t)

Next ==
    \/ \E t \in Thread : Step(t)
    \/ Terminate \/ Scan \/ WakeAll \/ Joined

Spec == Init /\ [][Next]_vars

-----------------------------------------------------------------------------
(* Fairness.  pMutex->mutex, s_vmMtx and s_mutexlst_mtx are granted in the *)
(* end to whoever keeps asking, a time-out expires, and a thread asked to  *)
(* quit returns from its entry function once its calls return.  Nothing    *)
(* makes a thread that was not asked call or return.  The steps of         *)
(* Progress(t) belong to different control points of t.                    *)
Fairness ==
    /\ \A t \in Thread : SF_vars(Progress(t)) /\ SF_vars(quit /\ Exit(t))
    /\ WF_vars(Scan) /\ SF_vars(WakeAll) /\ WF_vars(Joined)

FairSpec == Spec /\ Fairness

-----------------------------------------------------------------------------
(* Properties.                                                             *)

\* The type of the state.
TypeOK ==
    /\ pc \in [Thread -> PCs]
    /\ arg \in [Thread -> Timeouts \cup {"one", "all"}]
    /\ held \in [Thread -> Nat]
    /\ saved \in [Thread -> Nat]
    /\ lock_count \in Nat
    /\ owner \in Thread \cup {NoThread}
    /\ lockers \in Int
    /\ cond_l \subseteq Thread
    /\ events \in Int
    /\ waiters \in Int
    /\ cond_w \subseteq Thread
    /\ mutex \in Thread \cup {NoThread}
    /\ s_mutexlst_mtx \in Thread \cup {NoThread}
    /\ s_vmMtx \in {Main, NoThread}
    /\ quit \in BOOLEAN

\* A thread whose PRG code holds the lock n times is its owner n times over,
\* except during a subscription, which gives the whole lock up for its wait
\* and has the whole lock again when it returns.
LockHeld ==
    \A t \in Thread :
        /\ held[t] = saved[t] + (IF owner = t THEN lock_count ELSE 0)
        /\ pc[t] = "out" => saved[t] = 0

\* The counters that decide whether anybody is signalled count exactly the
\* threads waiting for the lock and those waiting for an event.
CountsExact ==
    /\ lockers = Cardinality(LockQueue)
    /\ waiters = Cardinality(WaitQueue)

\* A free lock is never left to sleeping lockers: one of them has been woken.
NoLostUnlock ==
    lock_count = 0 /\ LockQueue # {} => \E t \in LockQueue : t \notin cond_l

\* No notification is left in the queue with somebody asleep to take it: as
\* many waiters are awake, or taking, as there are events and takers for them.
LeastOf(a, b) == IF a < b THEN a ELSE b

NoLostEvent ==
    LET takers == Cardinality(Takers)
    IN  LeastOf(events, waiters + takers)
            <= Cardinality(WaitQueue \ cond_w) + takers

\* hb_arrayGet meets an array with elements: between the loop that found it
\* and hb_arrayGet nobody empties the queue, hb_mutexSubscribeNow included.
TakeReady == \A t \in Thread : pc[t] = "taking" => events > 0

\* hb_arrayAdd meets an array as well.  It may not: a notifier that lost the
\* race to make the array drops pMutex->mutex once more, and a clearing
\* subscription may come in between.
QueueReady ==
    /\ TakeReady
    /\ \A t \in Thread : pc[t] = "adding" => events # Null

\* A notification leaves the queue in two ways only: one subscriber takes it,
\* or hb_mutexSubscribeNow clears the queue.  A notifier that lost the race to
\* make the array does not replace it.
NotificationsKept ==
    [][events' < events =>
         \E t \in Thread :
            \/ pc[t] = "taking" /\ pc'[t] = "restoring" /\ events' = events - 1
            \/ pc[t] = "clearing" /\ pc'[t] = "cleared" /\ events' = Null]_vars

\* A lock that was freed is taken again if somebody waits for it.
LockPassedOn ==
    (lock_count = 0 /\ LockQueue # {}) ~> (lock_count > 0 \/ LockQueue = {})

\* hb_vmTerminateThreads ends: "send QUIT request to all threads except
\* current one and wait for their termination" (hvm.c).
TerminateReturns == quit ~> ~quit

=============================================================================
