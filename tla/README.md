# A verification project for the Harbour run-time

This directory holds TLA+ modules that model the multi-threaded Harbour
virtual machine (HVM), its garbage collector, its LLVM backend and the locks of
its database drivers, configurations that model-check them with TLC, and proofs
checked by TLAPS. Paths below are relative to the
root of the repository.

## 1. The system

Harbour is a compiler of the xBase language (`src/compiler`, `src/pp`,
`src/macro`), a virtual machine that runs its p-code (`src/vm`), a run-time
library (`src/rtl`), database drivers (`src/rdd`) and many contributed
libraries (`contrib`). This repository adds an LLVM backend: `genllvm.c` turns
a function's p-code either into a call of the interpreter or into straight-line
code of calls to shims in `hvm.c`.

| Component | State | Operations | Talks to |
|---|---|---|---|
| HVM lock (`src/vm/hvm.c` 469-985, 9053-9115) | `s_iRunningCount`, `s_iStackCount`, `hb_vmThreadRequest`, `s_vmMtx`, `s_vmCond`; per thread `iUnlocked`, action request, quit state | enter, leave and force into the VM, poll for requests, stop and resume the world, start, end, quit and join threads, attach a foreign thread | every blocking C function (unlock/lock around the call), the collector, thread objects, mutex objects |
| Mutex objects (`src/vm/thread.c` 1681-2744) | owner, count, lockers, waiters, queue of notifications, raw lock, two condition variables | lock, timed lock, unlock, notify one or all, subscribe with or without time-out and clearing, SYNC wait and signal, unlock all, unsubscribe all | HVM lock (`hb_vmLockForce` below the raw lock), shutdown (raw lock below the HVM lock) |
| Thread objects (`src/vm/thread.c` 1050-1680) | `HB_THREADSTATE`: active, finished, handle, the thread's own item; `s_thread_mtx`, `s_thread_cond` | start, join, wait for some or all, detach, quit request, end of a thread, destructor | HVM lock (`hb_vmLock` below `s_thread_mtx`), garbage collector |
| Garbage collector (`src/vm/garbage.c`, `src/vm/arrays.c`) | three block lists, lock counters, flags, reference counters, `s_bCollecting` | alloc, lock, unlock, attach, grip, ref and unref, mark, sweep, release all | HVM lock (stop the world), every container (mark and clear callbacks), destructors in PRG code |
| SEQUENCE handling (`src/vm/hvm.c` 1928-2129, 2971-3090, the `hb_xvmSeq*` and `hb_xvmAlways*` functions, the shims from 13667; `gencc.c`, `genllvm.c` and `harbour.y` of `src/compiler`) | evaluation stack, RECOVER envelopes, recover base, action request | begin, break, recover, always, return, quit | compiler; interpreter loop, C code of `-gc3`, straight-line code of the LLVM backend |
| Detached areas (`src/rdd/wacore.c`, `dbdetach.c`) | `s_pDetachedAreas`, its lock and condition; areas and aliases of each thread | open, close, detach, request with time-out, close all | HVM lock (`hb_vmLock` below `s_waMtx`), shutdown |
| Tasks (`src/vm/task.c`) | task list, ready, sleeping and waiting queues | create, yield, sleep, mutex, condition | replaces threads on systems without them |
| DBF locks (`src/rdd/dbf1.c`) | record buffer and its flags, list of locked records, file lock, number of records; header and records of the file | open, move, lock, append, write, flush, unlock, close | `hb_fileLock`, other areas and processes |
| Shared handles (`src/rtl/filebuf.c`, `filesys.c`) | list of open files, use counts, list of locked ranges | open, lock range, unlock, close | threads of the process, record locks of the operating system |
| the rest | see `PROJECT.json` | compiler, items, classes, drivers, RTL, tools | sequential or I/O; not modelled |

What makes the system hard:

* **Preemptive threads over a cooperative stop.** The collector may run only
  when every other thread is out of the VM. Nothing forces a thread out: it
  leaves when it calls a blocking function or polls. A dozen increments and
  decrements of two counters, spread over as many functions, decide whether
  the collector is alone.
* **Shutdown.** `hb_vmTerminateThreads` sets QUIT and waits. Every place a
  thread can sleep must notice QUIT, and whoever is asleep must be woken.
* **Nested locks.** A thread may hold a PRG-level mutex, its raw lock,
  `s_mutexlst_mtx` and `s_vmMtx` at once.
* **Drop and retake.** Several functions release a lock to allocate memory or
  to destroy values and use what they read before.
* **Time-outs** that race with signals, and **spurious wake-ups**.
* **Destructors** run in the middle of `hb_gcRefFree` and of a collection; they
  are PRG code, which may allocate, free, collect, wait, or store the object.
* **Two kinds of locks on a file.** POSIX locks belong to processes and vanish
  when any descriptor is closed; the threads of a process need locks of their
  own on top, and the two change in separate steps.
* **Unwinding.** BREAK, RETURN, QUIT and ALWAYS interact through a stack of
  envelopes; three execution engines implement them, each by other means.

What makes each component correct:

* HVM lock: the counters are exact; the collector is alone; a STOP has one
  owner and yields to QUIT; no sleeper misses what it waits for; joins return
  to a main thread that is alone; requests are answered and joins end.
* Mutex objects: the owner is who PRG code believes it is, through recursion
  and subscriptions; no unlock and no notification is lost on a sleeper; the
  queue exists when it is used; shutdown ends.
* Thread objects: no wait misses the end of a thread; a handle is given back
  once; the object lives while a call uses it; a STOP is granted to a collector
  whatever the others wait for.
* Collector: nothing referred to is freed and no cleanup function works on freed
  memory; counters follow the references; a collection takes what the program
  cannot reach and nothing else; destructors run once.
* Detached areas: an open area is always in one place, and no thread waits for
  one that is on the list.
* File handles and DBF locks: a byte has one owner; the locks of the list and of
  the operating system agree; no record is lost or overwritten from a stale
  buffer, the header knows every record, and nobody is kept waiting for it.
* SEQUENCE: stack and envelopes balance on every path; ALWAYS runs exactly
  once; a request reaches the handler it is meant for; the engines agree.

## 2. The modules

| Module | Models | Contents |
|---|---|---|
| `VMLock`, `MCVMLock` | the HVM lock | state machine, safety, liveness; implements `StopTheWorld` |
| `StopTheWorld` | what it promises a collector | abstract specification |
| `ThreadMutex`, `MCThreadMutex` | one mutex object | state machine, safety, liveness |
| `Threads`, `MCThreads` | thread objects | state machine over `StopTheWorld`, which it implements; safety, liveness |
| `Garbage`, `MCGarbage` | the garbage collector | state machine that instantiates `StopTheWorld`; safety |
| `DetachedAreas`, `MCDetachedAreas` | work areas that move between threads | state machine that implements `StopTheWorld`; safety, liveness |
| `ByteLocks` | what `hb_fileLock` promises | abstract specification |
| `FileLocks`, `MCFileLocks` | shared file handles | state machine that implements `ByteLocks` |
| `LockList` | the sorted list of locked ranges | algorithms, compared with sets |
| `DbfLocks`, `MCDbfLocks` | a shared table | state machine on the bytes of `ByteLocks` |
| `Sequence` | pcode of BEGIN SEQUENCE, the frame of a function | programs, shared operators and properties, refinement mapping |
| `SequenceVM` | the interpreter | abstract engine |
| `SequenceXVM` | C code of `-gc3` | implements `SequenceVM` |
| `SequenceLLVM` | straight-line LLVM code | implements `SequenceVM` in part |
| `VMLock_proof`, `ThreadMutex_proof`, `Threads_proof`, `Garbage_proof`, `DetachedAreas_proof`, `FileLocks_proof`, `DbfLocks_proof`, `SequenceVM_proof` | | theorems about the module they are named after |

The modules meet in two abstract specifications. `StopTheWorld` stands between
the HVM lock and whoever stops the other threads; `ByteLocks` between the shared
file handles and the DBF driver:

    VMLock  Threads  DetachedAreas        FileLocks
        \      |      /   (implement)         |     (implements)
          StopTheWorld                    ByteLocks
               |          (used by)           |     (used by)
            Garbage                        DbfLocks

Operators marked `faulty` are variants of the definition that follows them,
with a plausible mistake; nothing uses them. Each shows that some property
would notice that mistake.

### VMLock

The HVM lock. One state variable for each variable of the code: `s_vmMtx`,
`s_vmCond` (the set of threads blocked on it), `hb_vmThreadRequest`,
`s_iRunningCount`, `s_iStackCount`, `iUnlocked`, the action request and the
quit state; `pc` says at which point of the protocol a thread stands. A piece
of code between taking and releasing `s_vmMtx` is one action, each round of a
wait loop is one action, so that every interleaving the mutex allows is
explored. The interpreter's poll of `hb_vmThreadRequest` is `RequestTest`;
threads in `Straight` run straight-line code of the LLVM backend and have no
poll. Threads in `Foreign` attach themselves by `hb_vmRequestReenterExt`,
those in `Killable` may be sent a QUIT of their own, and those in `Forcing`
enter by `hb_vmLockForce` as well.

`s_fHVMActive` is read without `s_vmMtx` at the entry of `hb_vmUnlock`,
`hb_vmLock`, `hb_vmLockForce` and `hb_vmRequestReenterExt`, so that each of
these calls is an action that tests the flag (`Unlock`, `Lock`, `LockForce`,
`GateTest`) and one with `s_vmMtx` that goes on whatever has become of it
(`UnlockLeave`, `LockLoop`, `ForceEnter`, `Gate`). Once `Deactivate` has cleared
the flag a call that enters the VM returns at once (`LockIgnored`): the thread is
inside, has not waited for a STOP and is not counted, and its `iUnlocked` stays
above 0, which `hb_vmStackRelease` looks at when the thread ends. From then on
`s_iRunningCount` is not what its name says, and no promise about it is made.

Actions and code: `Unlock`, `UnlockLeave`, `Nested`, `Lock`, `LockLoop`,
`LockForce`, `ForceEnter`, `LockIgnored` (`hb_vmUnlock`, `hb_vmLock`,
`hb_vmLockForce`); `RequestTest`,
`RequestTestLoop`, `RequestQuery`; `Suspend`, `SuspendLoop`, `Resume`;
`TerminateThreads`, `WaitForThreads`, `JoinLoop`, `Deactivate` (the joins and
the end of `hb_vmQuit`); `Register`, `Created`, `CreateFailed`, `StackInit`,
`ThreadQuit`, `StackDel`, `StackRelease`, `QuitRequest` (life of a thread);
`GateTest`, `Gate`, `ForeignStackInit`, `ForeignLockLoop`, `GateLeave`; `Spurious`.

### ThreadMutex

One mutex object: the fields of `HB_MUTEX` are variables of the same names,
the raw lock, `s_mutexlst_mtx` and `s_vmMtx` are holders, `cond_l` and `cond_w`
are sets of blocked threads. The queue is its length (`Null` while there is no
array): the values are never looked at. `held` is the one variable the code
does not have: how often PRG code of a thread holds the lock, from the results
its calls returned. An action is what the code does under the raw lock, split
where it asks for a second lock and between the last look at the QUIT request
and the wait: these are the windows in which another thread matters.

`hb_vmUnlock` and `hb_vmLock` around the calls are not modelled: at both the
thread holds nothing the others need. The pair `hb_vmLockForce`/`hb_vmUnlock`
around a change of the array is one step that needs `s_vmMtx` free.

### StopTheWorld

Three variables: the threads inside the VM, the one that asked the others to
stop, and whether QUIT has been requested. `Ask`, `Grant` and `Resume` are
`hb_vmSuspendThreads` and `hb_vmResumeThreads`, `Enter` and `Leave` the HVM lock
and unlock, `Withdraw` a request that gives way to QUIT. `Promise` says that
whoever has been granted a request is alone inside.

In `VMLock` the threads inside are those that `s_iRunningCount` should stand for,
and the promise is kept while the HVM is active; afterwards a thread may enter
during a granted request (section 6). In
`Threads` and `DetachedAreas`, where the counter is not modelled, they are the
threads at control points inside the VM; both show that calling `hb_vmLock` with
another mutex held does not break the promise. `Garbage` takes its actions from
this module.

### Threads

A thread object (`HB_THREADSTATE`) for each thread. `holds` says which threads
have an item that points to the object, `self` is `pThItm`, `th_h` the handles
that are not 0, `reclaimed` counts how often a handle has been joined or
detached, `s_thread_mtx` is its holder and `waiting` the counter of waiters seen
as a flag. `arg` is what the running call reads once and uses later: the object
it was given, the array of `hb_threadWait`, its time-out.

Actions: `Start`, `Create`, `Assign`, `CreateFails` (`hb_threadStart`, which sets
`th_h` after the thread may have ended); `Join`, `JoinKept`, `Joined`, `Detach`,
`QuitRequest`; `Wait`, `WaitLock`, `Scan`, `Sleep`, `TimeOut`, `WakeUp`, `Relock`,
`Reenter` (`hb_threadWait`, which leaves and enters the VM below
`s_thread_mtx`); `Finish`, `ReleaseSelf`, `Signal` (the end of a thread); `Share`,
`Drop` (PRG code hands items over and clears them; the last one runs the
destructor); `Suspend`, `Granted`, `Resume`, `Pause` (a collector and the poll).
Left out: results, `hb_threadOnce`, thread storage.

### Garbage

Blocks are model values. `refs` says to which blocks each holder refers: the
contents of a block, the statics, pointers of C code, and the evaluation stack
of a thread in parts, one for the program and one for each destructor that runs.
`counter`, `list`, `locked`, `used` and `delete` are the fields of a block,
`frames` the cleanup functions and collections that a thread is in the middle of,
innermost last: which block, how far, and on whose behalf (`hb_gcRefFree`, the
collector clearing, the collector at its end).

Actions: `Copy`, `Clear` (items), `New`, `Grip`, `DropGrip`, `Attach`, `LockBlock`,
`UnlockBlock`; `CallCleanup`, `Return`, `ReleaseItem`, `FreeBlock`, `KeepBlock` (the
cleanup functions and the end of `hb_gcRefFree`, with error 1301); `Suspend`,
`Granted`, `Collect`, `CollectNothing`, `ClearDeleted`, `Cleared`, `FreeDeleted`,
`KeepDeleted`, `LinkDeleted`, `Collected` (`hb_gcCollectAll`, with error 1302);
`Leave`, `Enter`. Marking is the set of blocks that are reached through blocks
not met yet (`Marked`), which is what `hb_gcMark` computes by its recursion, and
happens in one step, since `Promise` leaves nobody to interfere. Everything after
it runs together with the other threads.

A program (`Programs`) says which threads run, which blocks may become objects
with a destructor, whether destructors store references in what outlives them
(`storing`), and whether C code locks blocks (`locking`). C code is assumed not
to lock or unlock a block that is being destroyed.

### DetachedAreas

`wa` are the areas of each thread, `handle` which area an alias stands for in a
thread, `s_pDetachedAreas` the list, `s_waMtx` its lock; `arg` the area or alias
that a call is about and how long it waits. Actions: `Open`, `Close`, `Detach`,
`EnterSection`, `Notice`, `LockForce`, `Add` (`hb_rddDetachArea`), `Request`, `Take`,
`Miss`, `Sleep`, `TimeOut`, `WakeUp`, `Relock`, `Reenter` (`hb_rddRequestArea`),
`CloseAll`, `Quit`, `QuitRequest`, `Terminate`, `Joined`, `ShutDown` (the end of a
thread and of the HVM), and a collector as above. A request takes any area of the
list that fits; the code takes the first.

### ByteLocks, FileLocks, LockList

`ByteLocks` has the owner of each byte. `FileLocks` follows one file in several
processes: the `HB_FILE` of each process (`used`, `shared`, `mode`, `hFile`,
`pLocks`), the record locks of the operating system (`fcntl`: process, byte,
kind), and the threads. What runs under `s_lockMtx` is one action and each call
of the operating system another: `Lock`, then `LockInOS`, then `Refuse` when the
system says no; `Unlock` or `UnlockInOS`, then `Unlist`; `Open` with its look at an
open file of the same device and inode (`Look`), the replacement of a read-only
descriptor (`CloseReplaced`, `CloseEach`); `Close`; `Die`. POSIX rules are modelled as
the code uses them: locks belong to the process, and closing any descriptor of
the file drops them.

`LockList` has the array as the code keeps it: `FindOffset` is the binary search,
`SetLock` and `Unlocked` the insertion, joining, cutting and splitting in place. It
is compared with the sets of `FileLocks`.

### DbfLocks

The file is its records' keys (`rows`), the count in its `header`, and the
auto-increment `counter`; a work area has the position, the buffer with its flags,
the locks it knows of, and the number of records when it last looked. `stale`
tells whose buffer differs from the file. Each call of an `hb_file*` function is
one action, with what the driver does up to the next, so that other areas and
the death of a process come in between. `op` is the call that is running, `pc` the
step: `Write`, `HeaderLock`, `RecountBefore`, `Recount`, `Written`, `WriteHeader`,
`WriteEol`, `HeaderUnlock` (`hb_dbfGoCold`, `hb_dbfFlush`, the header), `RecLock`,
`FileLock`, `Release`, `ReleaseOne`, `ReleaseFile`, `AppendLock`, `Reserve`, `Blank`,
`AutoInc`, `AppendUnlock` (`hb_dbfAppend`), `CloseFile`, `Die`. `uiSetHeader` gives each
area its `DB_SETHEADER_*` mode.

### Sequence

What the engines share. The compiler's part is an operator: `Sequence(with,
stmts, recover, always)` is the pcode that `harbour.y` emits and
`hb_compSequenceFinish` trims, `Programs` the set of functions explored, with
at most one SEQUENCE inside another (`Sequences`, `Inner`, `Outer`). The frame is `code`, `pc`, the part of
the evaluation stack that belongs to the function, the recover base, the
action request and the return value. An envelope (`HB_IT_RECOVER`) is a record
of its recover address, the base below it, its flags and the request it took.
A caller's SEQUENCE may be around the function: `frame` is 0 or 2.

What the compiler knows at an opcode is read off the pcode: `Open(p)` is the
set of the SEQUENCEs open at `p`, each named by the opcode that opens it, `Height`
the height of the stack, `Place(i)` where the envelope of a SEQUENCE is. Whether an
engine agrees is what `FrameAsCompiled` asks. The searches of the engines along the
chain of recover bases (`BreakBase`, `Unwind`) are recursive functions over it.

`owed` and `returned` are history variables: the ALWAYS clauses of SEQUENCEs
that were entered, and the value of the last RETURN. A called function is one
step, which returns, breaks (`hb_vmRequestBreak`, with its search for the
SEQUENCE that takes the value) or quits.

### SequenceVM, SequenceXVM, SequenceLLVM

One action for each opcode that takes part. In `SequenceVM` an action is one
turn of the loop of `hb_vmExecute`, including what its end does about a
request (`EndOfLoop`), and `Poll` is the request test at its head. In
`SequenceXVM` a request breaks out of the generated C blocks one at a time
(`Exit`), and each `hb_xvm` function removes what was left on the stack; the
request test inside `hb_xvm` functions is `Polled`. In `SequenceLLVM` the
branch after a shim is computed as the emitter does it, from its stack of
regions (`Regions`, `Branch`); nothing polls, and nothing removes operands.

`SequenceVM` is the abstract specification of the other two. While a compiled
engine carries a request from block to block, the interpreter has already cut
the stack and reached the handler: the refinement mapping (`VMstack`, `VMpc`,
`VMrecoverBase`, `VMaction`, `VMcanRecover` in `Sequence`) maps a request in
flight to the state in which it has landed, and fills the envelopes with the
addresses that the compiled code has in its branches. `Implements` is the
step-by-step statement of it. It holds for `SequenceXVM` until another
thread's QUIT is noticed, which the interpreter of the mapping does not do;
for `SequenceLLVM` until any QUIT is requested, and only for functions
satisfying `Handled`: each SEQUENCE without ALWAYS has a RECOVER, calls in a
SEQUENCE are made with nothing pending on the stack, and in an ALWAYS clause
only inside of one more SEQUENCE with a RECOVER, and RETURN is where no
envelope is open. Section 6 lists what happens elsewhere.

Left out: what an error block contains (only the item that restores it is
there); EXIT and LOOP, which the compiler refuses (`hb_compLoopExit`,
`hb_compLoopLoop`) everywhere in a SEQUENCE but in a RECOVER clause without
ALWAYS, where the envelope is gone and they are plain jumps; and values other
than whether they are the ones given to BREAK and RETURN.

## 3. Runs

| Run | Instance | Shows |
|---|---|---|
| `vmlock` | main, two threads, a foreign thread; all force their way in, the two may be quit on their own, EXIT procedures start threads; `MaxUnlock` 2 | no sleeper missed, joins return to a lone main, and, while the HVM is active, counters exact and the lock implements `StopTheWorld` |
| `vmlock_live` | main and two threads, one of which may be quit on its own; no symmetry | STOP requests are answered, the shutdown ends |
| `mutex` | main and two threads; all lock and subscribe, two notify, main clears the queue; lock depth 2, queue of 2 | lock ownership through subscriptions, exact counters, no lost unlock, no lost event, notifications kept |
| `mutex_live` | two threads that lock and wait with time-outs | a freed lock is passed on, shutdown ends |
| `garbage` | two blocks; one thread whose destructors store, one thread with locked blocks, two threads whose destructors store nothing that outlives them | nothing freed is referred to or worked on, counters cover the references and are exact without storing destructors, a collection takes exactly what is unreachable, destructors run once |
| `threads` | main starts two threads, waits and joins; one shares objects, one requests and collects; or all of them join, detach and hand objects on | no end of a thread is missed, a handle is given back once, no object is destroyed while used, a STOP is granted |
| `areas` | main and two threads, two areas, one alias: areas passed on with a collector; a giver that is quit | no waiter is left with its area on the list, an open area is in one place, who waits is served |
| `files` | two threads in one process, one in another, 4 bytes, every range; and every list over 8 bytes | list and system agree, the array does what the sets do, `FileLocks` implements `ByteLocks` |
| `dbf` | two areas with different header modes, one of which cannot write at times; two records | no update lost, records and keys kept, header right, nobody holds the header while it waits |
| `sequence` | every function of `Programs` over calls, pending operands, RETURN, empty clauses, WITH, one nesting in each part; two requests and a poll | envelopes and stack as compiled, BREAK delivered, ALWAYS once, the caller's frame intact and the right RETURN value, requests kept |
| `sequence_c` | the same functions, with WITH | the C code implements the interpreter |
| `sequence_llvm` | functions of the `Handled` class, three requests | so does the straight-line code |

Bounds. Three threads are enough for every pair of roles plus a bystander: a
collector, a thread it waits for and a thread held at the lock; an owner, a
locker and a subscriber; a giver, a taker and a collector. `MaxUnlock` = 2 lets
an unlock nest once; a thread may force its way in as often as it likes. The live
run has no `Forcing` thread: those could keep the collector out for ever,
which the code accepts. `MaxLock` = 2 lets a lock recurse. `MaxEvents` bounds what
notifiers queue; `hb_mutexNotifyAll` may go beyond it up to the number of waiters.

Two blocks make every relation of two: an object that refers to itself, to the
other, cycles, a grip and what it holds; `MaxFrames` = 4 lets a cleanup function
call a destructor that drops the other object or collects. A thread at the bound
cannot take the step, which is why deadlock is not checked there. Four bytes make
two ranges touch, overlap, contain and split each other, and two areas with two
records make an append meet a lock, a flush, another append and a death. The proofs of section 5 need none of these bounds
to be small.

A SEQUENCE in each part of another puts every pair of handlers next to each
other; a third level would only repeat a pair, as the engines look at the
innermost envelope and the chain below it. Two requests let one be made while
another is put aside, three let a third be made in what follows.

`dbf` has the constraint `FailedCall`: once a record could not be written, the
call in which it happened goes on to its end and what would follow is left out.
What follows is in section 6 (`MCDbfLocksFail`).

Deadlock is checked for the HVM lock, the live mutex run, the files and the table.
It is not where the system may stop: mutex objects, whose shutdown can deadlock
(section 6); threads and areas, where main may wait for ever for a thread that
waits; `MaxFrames`; functions, which return.

## 4. Fairness

`VMLock`: a thread at a step that needs only `s_vmMtx` takes it (weak
fairness); an interpreter reaches its next instruction infinitely often, so a
poll that is enabled again and again happens (strong); a thread asked to quit
unwinds and ends, and releases its stack (strong). A thread that was not asked
may run for ever.

`ThreadMutex`: the three locks are granted in the end to whoever keeps asking
(strong), time-outs expire, a thread asked to quit ends once its calls return. No
thread is assumed to make a call.

`Threads`: each thread goes on with the call it is in (weak), and one that runs
PRG code reaches a poll infinitely often (strong). Nobody is assumed to make a
call or to end.

`DetachedAreas`: each thread goes on with its call, gets `s_waMtx` if it keeps
asking, and polls; one that was asked to quit does when it can (strong); main
notices that all have ended (weak). Nobody is assumed to detach an area: who
waits is served when an area that fits is there.

`Garbage`, `FileLocks` and `DbfLocks` state safety only: a destructor need not
return, and locks are tried, not waited for, except the header's, for which
`HeaderHeldBriefly` is the safety form of progress: its holder is never kept
waiting. The SEQUENCE modules state no liveness either: a function that calls
something that does not return does not return.

## 5. Proofs

All proofs hold for any set of threads, blocks, areas, processes and bytes and
for any bounds. The assumptions on the constants are named where the constants
are declared; they say that sets are finite where the code counts, that `nobody` is
no thread, and which values the bounds may have. Each proof rests on one inductive
invariant, called `Safe` unless said otherwise; one lemma per action or kind of
step shows that it is kept.

`VMLock_proof`: `Safe == TypeOK /\ CountsExact /\ Protocol`. `CountsExact` alone is
not inductive, for a step may decrement a counter for a thread that was never
counted; `Protocol` says where a thread stands when it holds `s_vmMtx`, starts a
child, sleeps or owns the STOP, and holds the safety properties themselves. Its
part `Heeded` says that as long as the HVM is active the unlock counter of a
thread inside is 0, and that one giving up its stack knows it was counted, so that
the count it leaves is its own. The
lemmas `CountsMove`, `CountsMovePair` and `CountsSame` turn a change of `pc` into a
change of the two cardinalities. `ImplementsStopTheWorld` maps each step taken
while the HVM is active to a step of `StopTheWorld` or none, from `Safe`. That
`s_iStackCount` is exact, that no wake-up is lost, that a STOP has one owner and
that joins return alone needs no such condition.

`ThreadMutex_proof` has its invariant in layers:

    Safe == LockSafe /\ CountsExact /\ Sleepers /\ QueueSeen
                     /\ NoLostUnlock /\ NoLostEvent

`LockSafe` says who holds the raw lock and that the owner, the count, and the
count put aside by a subscription add up to what PRG code holds. From it each
step changes `lockers` and `waiters` by what it changes of the threads that
wait, which makes the counters exact. Exact counters make the code's tests
`lockers > 0` and `waiters > 0` right, so that a freed lock always has a locker
awake. For notifications the steps are sorted by what they are to the queue
(`EventStep`): they leave it and its waiters undisturbed, find an event, take
one or add some; the raw lock lets at most one thread look for an event at a
time, and each case keeps as many waiters awake as there are events for them.
`TakenFromQueue` is the half of `QueueReady` that the code keeps whoever calls
`hb_mutexSubscribeNow`: a subscription that has found a notification takes one.
The other half, that a notifier has an array to add to, fails with two
notifiers and a thread that clears (section 6).

`Threads_proof`: `Safe == Known /\ Wakes /\ NoMissedEnd /\ Stops /\ Lives`. `Known`
says who creates whom and that items belong only to threads that were created;
`Wakes` that the holder of `s_thread_mtx` is where the control points put it and that
whoever sleeps has been counted; `Stops` that there is one request at a time and
nobody else inside once it is granted; `Lives` that an object that was destroyed
has no items left while each thread keeps the items of the call it is in. `ObjectsAlive` assumes that arrays of threads are not
shared while one waits on them, `HandlesOnce` (with the further invariant `Handled`)
that threads do not join and detach one object at once: both fail otherwise
(section 6), so the assumptions are the constants `SharedArrays` and
`SharedHandles`.

`Garbage_proof`: `Safe == TypeOK /\ Work /\ CountCovers /\ NoDanglingItem`. `Work` is
about who works on which block: one collection at a time, whose calls are above
it on the stack of its thread; at most one cleanup function on a block, which is
marked then; marked blocks are allocated. From it a block that is freed is
nobody's work, and from `CountCovers` nothing refers to it.

Its second half goes on from there, in two steps. `Core` adds which frames can
be below others (`Rest`), that what is to be linked is in no list while its thread
is alone (`Lone`), whose items are on the stack (`Levels`), and where a flag may be
behind (`Flags`): only in a block that `hb_gcRefFree` was about to free when another
collection passed. `CallsValid` follows for every program. For programs whose
destructors store nothing that outlives them, `Tidy` adds four facts: nothing but
its destructor's items refers to what is being freed (`Private`), what the
collector has cleared stays empty (`Emptied`), what the program can get at is
closed under references and has no block that is marked for deletion or whose
flag is behind (`Apart`, with the set as a witness that is carried along), and
counters are no more than the references (`Counts`). That set is what makes the
others inductive: a copy can only come from it, so nothing is stored in what is
being destroyed. `CountedExactly` is `Counts`. For `SweepsExactly`, marking stops at
blocks it has met or whose flag is behind; nothing refers to the latter, so
nothing is lost (`SweptUnreachable`).

`DetachedAreas_proof`: `Safe == TypeOK /\ Section /\ Kept /\ NoLostArea /\ Ends /\ Stops`:
who holds `s_waMtx` (and that only a detaching call carries an area), that each
open area is in exactly one place, that no sleeper is left with its area on the
list, what is left once the main thread has asked the others to quit and they
have ended, and that nobody else is inside once a STOP is granted.

`FileLocks_proof`, under `LockModes = {"readwrite"}` (ranges are locked only through
handles opened for reading and writing; the property fails otherwise, section 6):

    Safe == TypeOK /\ Counting /\ Handles /\ Replacing /\ Lists /\ Apart /\ System

the use counter is the number of users, locks come only through handles for
reading and writing, nobody has a lock where a descriptor is being replaced, the
list is in order and covers what threads have or are about to have, threads are
apart, and in the system a byte belongs to at most one process, which has all the
bytes that its threads hold in a shared file. `ImplementsByteLocks` maps a byte to the thread that has it in
hand.

`ListAlwaysInOrder` needs no assumption on `LockModes`. Its invariant `Arrays` says
that a list is a finite set of ranges that neither overlap nor touch; all else is
about one list and one range. Exactly one array stands for such a list
(`ArraysExist`, `OneArray`, by induction over the size of the list), binary search
ends at the position its comment promises (`FindOffsetFinds`, by induction over the
length of the window), and what insertion, removal, joining and splitting make
of the array is in order and has the elements of the new list, so it is the new
list's array (`SetLockAgrees`, `UnlockedAgrees`). The library's induction theorems take
an operator as a parameter, which the provers cannot instantiate; `Least` and
`Induction` state the same for sets: a set of naturals that has an element has a
least one.

`DbfLocks_proof`: `Safe == Control /\ (failed \/ Data)`. `Control` is what holds even
after a failed write: types, which steps occur in which call, and that the locks
an area knows of are the bytes it owns. `Data` relates file, header, counter and
buffers (`Table`, `Buffer`, `Position`, `Keys`): a buffer is hot only under a lock and
stale only without one; the count of an area is above the file's only while the record it
appended is not yet written; a header behind the file belongs to an area that is
going to write it, or to one that ended before it could.

`SequenceVM_proof` holds for every choice of statements, clauses and nestings that
`ProgramAssumption` admits, with one SEQUENCE inside another at most (`Programs`;
deeper nesting would take an induction over programs, which neither TLC nor the
prover can do here). It has two inductive invariants:

    Framed == the frame is as the next opcode was compiled for, and owed are
              the ALWAYS clauses open that have not begun
    Marked == what the envelopes have put aside is consistent with the frame

Nothing is assumed of the programs. `Fits(c)` says that code `c`, wherever it is
placed in a function, is a `Part` of it: its SEQUENCEs have one of three
forms, do not overlap (`Apart`), and their envelopes are where the compiler
puts them (`Deep`). It is shown for statements, for code in sequence, and for a
SEQUENCE whose parts fit, hence for `Programs`. Heights are a sum over the
opcodes before; `HeightsExist` shows by induction that the recursive function
that defines them exists, and `Fits` is about anything that satisfies its equation.

`FrameAt` generalises `FrameAsCompiled` to the middle of a turn of the loop, and
adds what makes it inductive: nothing else on the stack is an envelope, and an
envelope's slot is a value. Each opcode is shown to establish it for the opcode
behind it, whatever request is pending. The searches of `hb_vmRequestBreak` and of
the end of the loop then have a known chain to follow: `BreakGoes` and `UnwindGoes`
show that they stop where `Dest` and `Stops` say, which are functions of what is
open (`Descent`: a chain that goes down admits one such function only). With
them `EndIs` lists the three outcomes of `EndOfLoop`, and `Settle` shows that each
keeps `Framed`. `AlwaysFrameAsCompiled` and `AlwaysAlwaysOnce` follow.

`Marked` is about values. An envelope holds a request only at its handler, and a
request put aside only while its ALWAYS clause runs; a BREAK held anywhere means that the slot of
the SEQUENCE it is meant for has its value (`Receives`); a RETURN put aside has the
value of the last RETURN in its slot, unless an ALWAYS clause has returned
another, in which case a newer request is sure to take its place (`Void`). That last disjunct
is what makes it inductive, and it is where `ReturnClean` could fail.

`AlwaysRequestsKept` looks at one turn of the loop. `OpcodeTurns` splits it: the opcode hands
on what is put aside (`HandsOn`: it still is, is under way, a stronger request is, or
the BREAK's SEQUENCE has ended), then comes the end of the loop. That cuts the stack off at the
envelope where it lands. `SettleHeld` shows what goes with it: by `Marked` only a
begun ALWAYS has anything put aside, and a RETURN or BREAK lands at the innermost
envelope it can, so nothing does; only a QUIT, stronger than all, passes over some.
`Quiet` says that nothing is under way between opcodes until a QUIT of another thread is noticed.
That QUIT is under way while an opcode runs, whose own request may overwrite it
(`SequenceVMQuit`, section 6), hence the `~quitState'` in `RequestsKept`.

| Theorem | Statement |
|---|---|
| `VMLock_proof!CountersExact`, `WorldStopped`, `OneOwner`, `QuitFirst`, `NoWakeupLost` | `[]CountsExact`, `[]StopsTheWorldWhileActive`, `[]StopHasOneOwner`, `[]QuitBeatsStop`, `[]NoLostWakeup` |
| `VMLock_proof!JoinedAlone`, `ImplementsStopTheWorld` | `JoinReturnsAlone`, `StopsTheWorldSpec` |
| `ThreadMutex_proof!LockAlwaysHeld`, `CountersExact`, `UnlockNotLost`, `EventNotLost` | `[]LockHeld`, `[]CountsExact`, `[]NoLostUnlock`, `[]NoLostEvent` |
| `ThreadMutex_proof!QueueShrinksByTaking`, `TakenFromQueue` | `NotificationsKept`, `[]TakeReady` |
| `Threads_proof!EndNotMissed`, `ObjectsAlive`, `HandlesOnce`, `ImplementsStopTheWorld` | `[]NoMissedEnd`, `[]NoStaleObject`, `[]HandleOnce`, `StopsTheWorldSpec` |
| `Garbage_proof!Counted`, `ItemsValid`, `DestroyedOnce`, `OneCleanup`, `SweepsAlone` | `[]CountCovers`, `[]NoDanglingItem`, `[]DestructorOnce`, `[]WorkedOn`, `[]World!Promise` |
| `Garbage_proof!CallsValid`, `CountedExactly`, `SweepsExactly` | `[]NoDanglingCall`, `[]NoLeak`, `SweepExact` |
| `DetachedAreas_proof!AreaNotMissed`, `AllKept`, `ImplementsStopTheWorld` | `[]NoLostArea`, `[]AreasKept`, `StopsTheWorldSpec` |
| `FileLocks_proof!LocksAlwaysAgree`, `ListAlwaysInOrder`, `ImplementsByteLocks` | `[]LocksAgree`, `[]ListInOrder`, `ByteLocksSpec` |
| `DbfLocks_proof!UpdatesNotLost`, `HeaderAlwaysAgrees`, `RecordsAlwaysKept`, `NeverKeptWaiting` | `[]NoLostUpdate`, `[]HeaderAgrees`, `RecordsKept`, `[]HeaderHeldBriefly` |
| `SequenceVM_proof!AlwaysFrameAsCompiled`, `AlwaysAlwaysOnce`, `AlwaysBreakDelivered`, `AlwaysReturnClean` | `[]FrameAsCompiled`, `[]AlwaysOnce`, `[]BreakDelivered`, `[]ReturnClean` |
| `SequenceVM_proof!AlwaysFramed`, `AlwaysMarked`, `AlwaysRequestsKept` | `[]Framed`, `[]Marked`, `RequestsKept` |
| `TypeCorrect` in each but the last, `SafeAlways` or `ControlAlways` in some | `[]TypeOK`, `[]Safe`, `[]Control` |

Only model-checked:

* Liveness (`SuspendAnswered`, `TerminateReturns`, `LockPassedOn`, `StopIsGranted`,
  `WaiterServed`), which is out of the prover's reach, as is ENABLED.
* That the compiled engines implement the interpreter (`Implements` of
  `SequenceXVM` and `SequenceLLVM`): the code they run is not the pcode but what
  their generators make of it, regions and blocks, of which nothing like `Fits`
  has been shown.

## 6. Disagreements met

A configuration below is not among the runs; `tlc -config X.cfg M` finds its
counterexample.

| Configuration | Property | What happens |
|---|---|---|
| `MCVMLockAttach` | `SuspendAnswered` | a foreign thread passes the gate of `hb_vmRequestReenterExt`, is counted, and waits in `hb_vmLock` for a STOP whose owner waits for that count |
| `MCVMLockLive` with `Straight = {t1}` | `SuspendAnswered` | straight-line LLVM code does not poll |
| `MCVMLockExit` | `TeardownAlone`, `StopsTheWorld` | `hb_vmTerminateThreads` is called before EXIT procedures run (`hvm.c` 1237, 1240). A thread started by one of them, or a foreign thread attached then, is still there when `s_fHVMActive` is cleared (1270); its next `hb_vmLock` (554, or 889 for a new thread) returns at once, and it runs uncounted while main collects garbage (1289). The comment of `hb_vmLock` says "lock VM blocking GC and other exclusive single task code execution" |
| `MCThreadMutexOrder` | `TerminateReturns` | main takes `s_vmMtx` then the raw lock, a notifier the raw lock then `s_vmMtx`; a third way round goes through `s_mutexlst_mtx` when the owner of the mutex ends |
| `MCThreadMutexMissed` | `TerminateReturns` | `hb_threadMutexUnsubscribeAll` reads `waiters` without the raw lock; a subscriber between its look at QUIT and its `waiters++` sleeps for ever, and main with it |
| `MCThreadMutexTwo` | `QueueReady` | two notifiers make the queue at once and a third thread clears it: the slower notifier uses a null pointer |
| `MCThreadsTwo` | `StopIsGranted` | two threads are in `hb_threadWait`; one calls `hb_vmLock` with `s_thread_mtx` held (`thread.c` 1396), the other waits for that mutex inside the VM (1364), and the collector for the other |
| `MCThreads` with `SharedHandles = TRUE` | `HandleOnce` | two threads join or detach one object at once |
| `MCThreads` with `SharedArrays = TRUE` | `NoStaleObject` | `hb_threadWait` keeps pointers to the threads of an array that another thread empties |
| `MCGarbageAlarm` | `NoFalseAlarm` | `doc/destruct.txt` says error 1302 is raised when a programmer stored a reference; a destructor that merely starts a collection while an array is being released raises it too (`arrays.c` 68) |
| `MCGarbageRace` | `LinksLoose` | the collector resets the flags of a block it keeps before it links it (`garbage.c` 699-704); in between another thread may free the block. `doc/destruct.txt` calls storing the object "not dangerous for HVM integrity" |
| `MCDetachedAreasQuit` | `TerminateReturns` | a thread in an endless `hb_dbRequest` is not woken at the end of the program (`hvm.c` 651, 667; `wacore.c` 708) |
| `MCDetachedAreasAlias` | `AliasFindsArea` | `wacore.c` 598 removes the alias of an area by name, also when another area of the thread has taken it over (`workarea.c` 770-771) |
| `MCFileLocksReopened` | `LocksAgree` | a file locked through a read-only descriptor and then opened for writing: the descriptor is replaced and the locks of the system go with the old one |
| `MCFileLocksModes` | `HandleServes` | when a file is opened again in another lesser mode, the handle it has already gets a descriptor that does not serve it: one for reading may be left with one that only writes |
| `MCDbfLocksFail` | `UpdatesKept` | a record that could not be written stays hot although its lock is released (`dbf1.c` 881); it is written later over what others wrote, and the header may be wrong |
| `SequenceVMQuit` | `QuitKept` | the QUIT of another thread, noticed once at the head of the loop, is overwritten by the ENDPROC, ALWAYSEND or BREAK of that turn |
| `SequenceXVMAlways` | `ReturnClean` | `hb_xvmAlwaysBegin` polls, and its QUIT leaves the C block before the ALWAYS clause, with the envelope still in place |
| `SequenceLLVMBreak` | `BreakDelivered` | the shim of SEQUENCE's end (`hvm.c` 13690-13695) does not clear the BREAK of a SEQUENCE without RECOVER, as `hb_vmExecute` does (3044): it leaves the function |
| `SequenceLLVMAlways` | `AlwaysOnce` | a request made in an ALWAYS clause branches to the beginning of that clause; with other constants, RETURN branches past the clause, a pending operand is taken for the envelope, and QUIT leaves the recover base at an envelope that is gone |

Seen in the code without a configuration of its own: a waiter of `hb_dbRequest`
that times out returns without another look at the list; `hb_dbDetachedList`
dereferences the alias of an area that has none (`wacore.c` 753); the comment at
`garbage.c` 388-390 says that locked blocks are not freed, but `hb_gcRefFree` frees
one whose counter becomes 0. When destructors store references, a block that the
collector has cleared already may be given contents that are not released
(`NoLeak`), and one that is being destroyed may come back with a flag that is
behind (`SweepExact`): both properties are stated for the other programs.

## 7. Not modelled

* In the modelled parts: `hb_vmRequestReenterExt` called by a thread that has a
  stack, which repeats `hb_vmLock` until its counter is 0 and is seen as `Nested`
  and `Lock`; SYNC calls of mutex objects (no code increments
  `syncsignals`, so `hb_mutexSyncWait` without a time-out does not return:
  `thread.c` 1916); `hb_threadOnce`, results and storage of threads, and QUIT
  while in `hb_threadWait`, which nothing wakes; `hb_gcFree`, `hb_gcReleaseAll`,
  automatic collections (`HB_GC_AUTO`); a failing close of an area that is
  released, and `hb_dbDetachedList`; shared locks that callers ask for,
  `hb_fileLockTest`, opens that fail; of the DBF driver exclusive use, pack, zap,
  memo fields, encryption, triggers, relations, the locks of index files
  (`dbf1.c` 1348-1515) and a header that cannot be read or written.
* Tasks (`task.c`), memory variables and the symbol table.
* Items, containers, classes, macro and source compilers, drivers' on-disk
  structures, RTL, code pages, debugger, vendored and contributed code: they are
  sequential computation or I/O, and the repository tests them by comparison
  with expected results (`utils/hbtest`). `PROJECT.json` lists each part.

## 8. Plan

Done: the modules of section 2 with their runs and proofs.

Left:

1. Proofs: that `SequenceXVM` implements `SequenceVM`, from an invariant like
   `Framed` with a request under way.
2. `Tasks` (`task.c`): the cooperative scheduler, its queues and time-outs, and
   that its mutexes keep what `ThreadMutex` keeps.
3. SYNC calls in the frame of `ThreadMutex`; index locks in that of `DbfLocks`.
