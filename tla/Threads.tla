------------------------------ MODULE Threads ------------------------------
(***************************************************************************)
(* Thread objects (HB_THREADSTATE, src/vm/thread.c and src/vm/hvm.c, built *)
(* with HB_MT_VM over pthreads): hb_threadStart, hb_threadJoin,            *)
(* hb_threadDetach, hb_threadWait, hb_threadQuitRequest, the end of a      *)
(* thread, and the destructor of the object.                               *)
(*                                                                         *)
(* A thread object lives as long as an item points to it; one such item is *)
(* pThItm, which the thread itself drops when it ends.  The handle th_h    *)
(* has to be given back to the operating system once, by a join, a detach  *)
(* or the destructor.  Threads that wait for others sleep on one condition *)
(* variable, s_thread_cond, guarded by s_thread_mtx; hb_vmLock() is called *)
(* with that mutex held.  A thread may ask the others to stop at any time, *)
(* by the rules of StopTheWorld.                                           *)
(*                                                                         *)
(* Granularity: what runs under s_thread_mtx or s_vmMtx is one action, but *)
(* for the points where it waits, or between reading fFinished and the     *)
(* wait.  The result of a thread is left out.                              *)
(***************************************************************************)
EXTENDS Integers, FiniteSets

CONSTANTS
    Thread,        \* the threads; each is started once
    Main,          \* the first thread
    NoThread,      \* nobody
    Programs,      \* the programs to explore: which calls each thread makes
    SharedHandles, \* may a thread be joined or detached by two at a time?
    SharedArrays   \* may others change the array given to hb_threadWait?

ASSUME ThreadAssumption == /\ IsFiniteSet(Thread)
                           /\ Main \in Thread
                           /\ NoThread \notin Thread
ASSUME ProgramAssumption ==
    Programs \subseteq [Thread -> SUBSET {"start", "share", "join", "detach",
                                         "wait", "request", "collect"}]
ASSUME SharingAssumption == /\ SharedHandles \in BOOLEAN
                            /\ SharedArrays \in BOOLEAN

VARIABLES
    program,     \* the program that runs
    pc,          \* where each thread stands
    arg,         \* what the running call of a thread is about
    holds,       \* <<t, c>>: an item of t points to the object of c
    self,        \* threads with a pThItm
    destroyed,   \* threads whose object has been destroyed
    th_h,        \* threads with th_h # 0
    reclaimed,   \* how often the handle of a thread has been given back
    request,     \* threads with HB_QUIT_REQUESTED
    s_thread_mtx,\* its holder, or NoThread
    waiting      \* s_waiting_for_threads > 0

objects == <<holds, self, destroyed, th_h, reclaimed>>
waits == <<s_thread_mtx, waiting>>
vars == <<program, pc, arg, objects, request, waits>>

-----------------------------------------------------------------------------
(* Control points                                                          *)
(*   none, registered  no such thread, object made by hb_threadStart       *)
(*   failed        pthread_create refused                                  *)
(*   created       before the hb_vmLock of hb_vmThreadInit                 *)
(*   run, paused   in PRG code, held by hb_vmRequestTest                   *)
(*   creating, assigning  in hb_threadStart: about to create, to set th_h  *)
(*   joining, joined  in pthread_join, before the hb_vmLock after it       *)
(*   entering      about to lock s_thread_mtx in hb_threadWait             *)
(*   scanning, committed  with it: about to read fFinished, about to sleep *)
(*   sleeping, woken, relocked  on s_thread_cond, without and with the     *)
(*                 mutex again; the latter in hb_vmLock                    *)
(*   asking, collecting  in hb_vmSuspendThreads, and after it              *)
(*   quitting      hb_vmThreadQuit, before hb_vmStackDel                   *)
(*   finished      fFinished set, pThItm still there                       *)
(*   ending, ended  out of the VM, before and after the broadcast          *)
InWait == {"entering", "scanning", "committed", "sleeping", "woken",
           "relocked"}
Holding == {"scanning", "committed", "relocked"}
Counted == {"run", "creating", "assigning", "entering", "scanning",
            "committed", "collecting", "quitting", "finished"}
PCs == {"none", "registered", "failed", "created", "paused", "joining",
        "joined", "asking", "ending", "ended"} \cup InWait \cup Counted

Inside == {t \in Thread : pc[t] \in Counted}
Stoppers == {t \in Thread : pc[t] \in {"asking", "collecting"}}
Stopper == IF Stoppers = {} THEN NoThread ELSE CHOOSE t \in Stoppers : TRUE

World == INSTANCE StopTheWorld
         WITH inside <- Inside, stopper <- Stopper, quit <- FALSE

\* pState->fFinished and pState->fActive
fFinished(t) == pc[t] \in {"failed", "finished", "ending", "ended"}
fActive(t) ==
    pc[t] \notin {"none", "registered", "created"} /\ ~fFinished(t)

\* The arguments of hb_threadWait: the threads, fAll, and the time-out, which
\* is "now" once fExit is TRUE.
Call == [on : SUBSET Thread, fAll : BOOLEAN, wait : {"forever", "timed", "now"}]
NoCall == [on |-> {}, fAll |-> FALSE, wait |-> "now"]
On(c) == [NoCall EXCEPT !.on = {c}]

Finished(t) == {c \in arg[t].on : fFinished(c)}
EnoughFinished(t) ==
    IF arg[t].fAll THEN Finished(t) = arg[t].on ELSE Finished(t) # {}

Goto(t, p) == pc' = [pc EXCEPT ![t] = p]
With(t, p, a) == Goto(t, p) /\ arg' = [arg EXCEPT ![t] = a]

Init ==
    /\ program \in Programs
    /\ pc = [t \in Thread |-> IF t = Main THEN "run" ELSE "none"]
    /\ arg = [t \in Thread |-> NoCall]
    /\ holds = {}
    /\ self = {Main}
    /\ destroyed = {}
    /\ th_h = {}
    /\ reclaimed = [t \in Thread |-> 0]
    /\ request = {}
    /\ s_thread_mtx = NoThread
    /\ waiting = FALSE

\* PRG code runs until it sees a request.
Runs(t) == pc[t] = "run" /\ t \notin request
Calls(t, name) == Runs(t) /\ name \in program[t]

-----------------------------------------------------------------------------
(* Items that point to thread objects, and hb_threadDestructor.            *)

\* The items that are left.  Objects without one are destroyed, which gives
\* their handles back.
Keep(items, selves) ==
    LET dead == {c \in Thread \ destroyed :
                    /\ pc[c] # "none" /\ c \notin selves
                    /\ \A t \in Thread : <<t, c>> \notin items}
    IN  /\ holds' = items
        /\ self' = selves
        /\ destroyed' = destroyed \cup dead
        /\ th_h' = th_h \ dead
        /\ reclaimed' = [c \in Thread |->
               IF c \in dead \cap th_h THEN reclaimed[c] + 1 ELSE reclaimed[c]]

\* hb_threadSelf() of thread c, or a copy of an item, to an item of thread u.
Share(t, u, c) ==
    /\ Calls(t, "share") /\ pc[u] = "run"
    /\ <<t, c>> \in holds \/ t = c
    /\ Keep(holds \cup {<<u, c>>}, self)
    /\ UNCHANGED <<program, pc, arg, request, waits>>

\* Thread t clears an item of its own, or one in an array that thread u waits
\* for.
Drop(t, u, c) ==
    /\ Runs(t)
    /\ t = u \/ (SharedArrays /\ pc[u] \in InWait)
    /\ <<u, c>> \in holds
    /\ Keep(holds \ {<<u, c>>}, self)
    /\ UNCHANGED <<program, pc, arg, request, waits>>

-----------------------------------------------------------------------------
(* hb_threadStart                                                          *)

\* The item to be returned is made before the new thread can run.
StartUnheld(t, c) ==                     \* faulty: made when th_h is known
    /\ Calls(t, "start") /\ pc[c] = "none"
    /\ pc' = [pc EXCEPT ![t] = "creating", ![c] = "registered"]
    /\ arg' = [arg EXCEPT ![t] = On(c)]
    /\ self' = self \cup {c}
    /\ UNCHANGED <<program, holds, destroyed, th_h, reclaimed, request, waits>>

Start(t, c) ==
    /\ Calls(t, "start") /\ pc[c] = "none"
    /\ pc' = [pc EXCEPT ![t] = "creating", ![c] = "registered"]
    /\ arg' = [arg EXCEPT ![t] = On(c)]
    /\ holds' = holds \cup {<<t, c>>}
    /\ self' = self \cup {c}
    /\ UNCHANGED <<program, destroyed, th_h, reclaimed, request, waits>>

Create(t) ==
    /\ pc[t] = "creating"
    /\ \E c \in arg[t].on :
          pc' = [pc EXCEPT ![t] = "assigning", ![c] = "created"]
    /\ UNCHANGED <<program, arg, objects, request, waits>>

\* th_h is set by the creator, when the new thread may have ended already.
Assign(t) ==
    /\ pc[t] = "assigning"
    /\ th_h' = th_h \cup arg[t].on
    /\ With(t, "run", NoCall)
    /\ UNCHANGED <<program, holds, self, destroyed, reclaimed, request, waits>>

\* hb_vmThreadRelease() and hb_ret().
CreateFails(t) ==
    /\ pc[t] = "creating"
    /\ \E c \in arg[t].on :
          /\ pc' = [pc EXCEPT ![t] = "run", ![c] = "failed"]
          /\ Keep(holds \ {<<t, c>>}, self \ {c})
    /\ arg' = [arg EXCEPT ![t] = NoCall]
    /\ UNCHANGED <<program, request, waits>>

-----------------------------------------------------------------------------
(* hb_threadJoin, hb_threadDetach, hb_threadQuitRequest                    *)

Joiners(c) == {t \in Thread : pc[t] = "joining" /\ arg[t].on = {c}}

\* th_h is read, and the VM left.
Join(t, c) ==
    /\ Calls(t, "join") /\ t # c
    /\ <<t, c>> \in holds
    /\ c \in th_h
    /\ SharedHandles \/ Joiners(c) = {}
    /\ With(t, "joining", On(c))
    /\ UNCHANGED <<program, objects, request, waits>>

\* pthread_join() returns and th_h is cleared.
JoinKept(t) ==                           \* faulty: th_h not cleared
    /\ pc[t] = "joining"
    /\ \E c \in arg[t].on :
          /\ pc[c] = "ended"
          /\ reclaimed' = [reclaimed EXCEPT ![c] = @ + 1]
    /\ Goto(t, "joined")
    /\ UNCHANGED <<program, arg, holds, self, destroyed, th_h, request, waits>>

Joined(t) ==
    /\ pc[t] = "joining"
    /\ \E c \in arg[t].on :
          /\ pc[c] = "ended"
          /\ th_h' = th_h \ {c}
          /\ reclaimed' = [reclaimed EXCEPT ![c] = @ + 1]
    /\ Goto(t, "joined")
    /\ UNCHANGED <<program, arg, holds, self, destroyed, request, waits>>

Detach(t, c) ==
    /\ Calls(t, "detach")
    /\ <<t, c>> \in holds
    /\ c \in th_h
    /\ SharedHandles \/ Joiners(c) = {}
    /\ th_h' = th_h \ {c}
    /\ reclaimed' = [reclaimed EXCEPT ![c] = @ + 1]
    /\ UNCHANGED <<program, pc, arg, holds, self, destroyed, request, waits>>

QuitRequest(t, c) ==
    /\ Calls(t, "request") /\ c # Main
    /\ <<t, c>> \in holds
    /\ fActive(c)
    /\ request' = request \cup {c}
    /\ UNCHANGED <<program, pc, arg, objects, waits>>

-----------------------------------------------------------------------------
(* hb_threadWait                                                           *)

Wait(t, call) ==
    /\ Calls(t, "wait")
    /\ call.on # {} /\ \A c \in call.on : <<t, c>> \in holds
    /\ With(t, "entering", call)
    /\ UNCHANGED <<program, objects, request, waits>>

WaitLock(t) ==
    /\ pc[t] = "entering"
    /\ s_thread_mtx = NoThread
    /\ s_thread_mtx' = t
    /\ Goto(t, "scanning")
    /\ UNCHANGED <<program, arg, objects, request, waiting>>

Return(t) == With(t, "run", NoCall) /\ s_thread_mtx' = NoThread

\* Either enough threads have finished or it is too late, or the thread counts
\* itself among those that wait.
ScanUncounted(t) ==                      \* faulty: s_waiting_for_threads kept
    /\ pc[t] = "scanning"
    /\ \/ /\ EnoughFinished(t) \/ arg[t].wait = "now"
          /\ Return(t)
          /\ UNCHANGED waiting
       \/ /\ ~EnoughFinished(t) /\ arg[t].wait # "now"
          /\ Goto(t, "committed")
          /\ UNCHANGED <<arg, waits>>
    /\ UNCHANGED <<program, objects, request>>

Scan(t) ==
    /\ pc[t] = "scanning"
    /\ \/ /\ EnoughFinished(t) \/ arg[t].wait = "now"
          /\ Return(t)
          /\ UNCHANGED waiting
       \/ /\ ~EnoughFinished(t) /\ arg[t].wait # "now"
          /\ Goto(t, "committed")
          /\ waiting' = TRUE
          /\ UNCHANGED <<arg, s_thread_mtx>>
    /\ UNCHANGED <<program, objects, request>>

\* hb_vmUnlock() and pthread_cond_wait(), which lets the mutex go.
Sleep(t) ==
    /\ pc[t] = "committed"
    /\ Goto(t, "sleeping")
    /\ s_thread_mtx' = NoThread
    /\ UNCHANGED <<program, arg, objects, request, waiting>>

\* The time-out, after which fExit is TRUE, or a wake-up for no reason.
TimeOut(t) ==
    /\ pc[t] = "sleeping" /\ arg[t].wait = "timed"
    /\ With(t, "woken", [arg[t] EXCEPT !.wait = "now"])
    /\ UNCHANGED <<program, objects, request, waits>>

WakeUp(t) ==
    /\ pc[t] = "sleeping"
    /\ Goto(t, "woken")
    /\ UNCHANGED <<program, arg, objects, request, waits>>

Relock(t) ==
    /\ pc[t] = "woken"
    /\ s_thread_mtx = NoThread
    /\ s_thread_mtx' = t
    /\ Goto(t, "relocked")
    /\ UNCHANGED <<program, arg, objects, request, waiting>>

\* hb_vmLock(), with s_thread_mtx held.
Reenter(t) ==
    /\ pc[t] = "relocked"
    /\ Stoppers = {}
    /\ IF t \in request /\ arg[t].wait # "now"
         THEN Return(t)
         ELSE Goto(t, "scanning") /\ UNCHANGED <<arg, s_thread_mtx>>
    /\ UNCHANGED <<program, objects, request, waiting>>

-----------------------------------------------------------------------------
(* The end of a thread: hb_vmThreadQuit and hb_threadStartFunc             *)

\* Stack and memory variables are cleared.
Quit(t) ==
    /\ pc[t] = "run" /\ t # Main
    /\ Goto(t, "quitting")
    /\ Keep({i \in holds : i[1] # t}, self)
    /\ request' = request \ {t}
    /\ UNCHANGED <<program, arg, waits>>

\* hb_vmStackDel(): fFinished is set.
Finish(t) ==
    /\ pc[t] = "quitting"
    /\ Goto(t, "finished")
    /\ UNCHANGED <<program, arg, objects, request, waits>>

\* pThItm is dropped, and the VM left for good.
ReleaseSelf(t) ==
    /\ pc[t] = "finished"
    /\ Goto(t, "ending")
    /\ Keep(holds, self \ {t})
    /\ UNCHANGED <<program, arg, request, waits>>

\* HB_COND_SIGNALN of all that wait.
Signal(t) ==
    /\ pc[t] = "ending"
    /\ s_thread_mtx = NoThread
    /\ pc' = [u \in Thread |-> IF u = t THEN "ended"
                               ELSE IF waiting /\ pc[u] = "sleeping"
                               THEN "woken" ELSE pc[u]]
    /\ waiting' = FALSE
    /\ UNCHANGED <<program, arg, objects, request, s_thread_mtx>>

-----------------------------------------------------------------------------
(* The VM lock: hb_vmSuspendThreads, and those that it stops               *)

Suspend(t) ==
    /\ Calls(t, "collect")
    /\ Stoppers = {}
    /\ Goto(t, IF Inside = {t} THEN "collecting" ELSE "asking")
    /\ UNCHANGED <<program, arg, objects, request, waits>>

Granted(t) ==
    /\ pc[t] = "asking"
    /\ Inside = {}
    /\ Goto(t, "collecting")
    /\ UNCHANGED <<program, arg, objects, request, waits>>

Resume(t) ==
    /\ pc[t] = "collecting"
    /\ Goto(t, "run")
    /\ UNCHANGED <<program, arg, objects, request, waits>>

PauseAtQuit(t) ==                        \* faulty: as straight-line code polls
    /\ pc[t] = "run" /\ t \in request
    /\ Stoppers # {}
    /\ Goto(t, "paused")
    /\ UNCHANGED <<program, arg, objects, request, waits>>

Pause(t) ==
    /\ pc[t] = "run"
    /\ Stoppers # {}
    /\ Goto(t, "paused")
    /\ UNCHANGED <<program, arg, objects, request, waits>>

\* hb_vmLock() of a thread that starts, was stopped, or has joined another.
VMLock(t) ==
    /\ pc[t] \in {"created", "paused", "joined"}
    /\ Stoppers = {}
    /\ With(t, "run", NoCall)
    /\ UNCHANGED <<program, objects, request, waits>>

-----------------------------------------------------------------------------
\* What PRG code does ...
Working(t) ==
    \/ \E c \in Thread :
          \/ Start(t, c) \/ Join(t, c) \/ Detach(t, c) \/ QuitRequest(t, c)
          \/ \E u \in Thread : Share(t, u, c) \/ Drop(t, u, c)
    \/ \E call \in Call : Wait(t, call)
    \/ Quit(t) \/ Suspend(t)

\* ... and what follows from that.
Waiting(t) ==
    \/ WaitLock(t) \/ Scan(t) \/ Sleep(t) \/ TimeOut(t) \/ Relock(t)
    \/ Reenter(t)

Ending(t) == Finish(t) \/ ReleaseSelf(t) \/ Signal(t)

Going(t) ==
    \/ Waiting(t) \/ Ending(t)
    \/ Create(t) \/ CreateFails(t) \/ Assign(t) \/ Joined(t)
    \/ Granted(t) \/ Resume(t) \/ Pause(t) \/ VMLock(t)

Step(t) == Working(t) \/ Going(t) \/ WakeUp(t)
Next == \E t \in Thread : Step(t)

Spec == Init /\ [][Next]_vars

\* The operating system runs every thread, and PRG code polls for requests
\* before every instruction.
FairSpec == Spec /\ \A t \in Thread : WF_vars(Going(t)) /\ SF_vars(Pause(t))

-----------------------------------------------------------------------------
TypeOK ==
    /\ program \in Programs
    /\ pc \in [Thread -> PCs]
    /\ arg \in [Thread -> Call]
    /\ holds \subseteq Thread \X Thread
    /\ self \subseteq Thread
    /\ destroyed \subseteq Thread
    /\ th_h \subseteq Thread
    /\ reclaimed \in [Thread -> Nat]
    /\ request \subseteq Thread
    /\ s_thread_mtx \in Thread \cup {NoThread}
    /\ waiting \in BOOLEAN

\* hb_threadWait does not sleep through the end it waits for: while enough of
\* its threads have finished, one of them has its broadcast to make.  fFinished
\* is set under s_vmMtx and read under s_thread_mtx.
NoMissedEnd ==
    \A t \in Thread :
        pc[t] \in {"committed", "sleeping"} /\ EnoughFinished(t) =>
            \E c \in arg[t].on : pc[c] \in {"finished", "ending"}

\* The handle of a thread is given back once: never twice, by whatever mix of
\* joins, detaches and destructor, and never not at all once the object is gone.
HandleOnce ==
    \A c \in Thread :
        /\ reclaimed[c] <= 1
        /\ c \in th_h => reclaimed[c] = 0
        /\ c \in destroyed => pc[c] = "failed" \/ reclaimed[c] = 1

\* Threads whose object thread t is going to read or to write: the one that it
\* starts or joins, those that it waits for, and its own.
Uses(t) ==
    (IF pc[t] \in InWait \cup {"creating", "assigning", "joining", "joined"}
       THEN arg[t].on ELSE {})
    \cup (IF fActive(t) \/ pc[t] \in {"created", "finished"} THEN {t} ELSE {})

\* No thread object is used after its destructor has run: the creator sets th_h
\* of a thread that may be over, and hb_threadWait and hb_threadJoin come back
\* to their threads after they left the VM.
NoStaleObject == \A t \in Thread : Uses(t) \cap destroyed = {}

\* A collector gets the VM to itself, with one thread in hb_threadWait, whose
\* hb_vmLock waits for the collector with s_thread_mtx held.
StopIsGranted ==
    \A t \in Thread : pc[t] = "asking" ~> pc[t] = "collecting"

\* hb_vmSuspendThreads keeps its promise, whatever the threads do.
StopsTheWorldSpec == World!Spec
=============================================================================
