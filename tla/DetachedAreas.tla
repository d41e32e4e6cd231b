--------------------------- MODULE DetachedAreas ---------------------------
(***************************************************************************)
(* Work areas that move between threads (src/rdd/wacore.c and              *)
(* src/rdd/dbdetach.c, built with HB_MT_VM over pthreads): hb_dbDetach     *)
(* takes an area from its thread and puts it on a list, hb_dbRequest takes *)
(* one from the list, waiting for it if need be.                           *)
(*                                                                         *)
(* The list s_pDetachedAreas is guarded by s_waMtx, which is taken outside *)
(* the VM (hb_threadEnterCriticalSectionGC); those that wait sleep on      *)
(* s_waCond and come back through hb_vmLock() with s_waMtx held.  A thread *)
(* may ask the others to stop, by the rules of StopTheWorld, and main asks *)
(* them to quit before it ends.                                            *)
(*                                                                         *)
(* Left out: relations, locks and contents of an area, the value that      *)
(* travels with it, the order of the list (a request takes any area that   *)
(* fits, the code the first), and which of its areas a thread has          *)
(* selected: the current area may be any of its own.                       *)
(***************************************************************************)
EXTENDS Integers, FiniteSets

CONSTANTS
    Thread,     \* the threads, started before
    Main,       \* the first thread
    NoThread,   \* nobody
    Area,       \* the tables that are opened, once each
    NoArea,     \* no area
    Alias,      \* aliases
    NoAlias,    \* an area, or a call of hb_dbRequest, without one
    Programs    \* the programs to explore: which calls each thread makes, those
                \* of hb_dbRequest by their time-out

ASSUME ThreadAssumption == /\ Main \in Thread
                           /\ NoThread \notin Thread
ASSUME AreaAssumption == NoArea \notin Area /\ NoAlias \notin Alias
ASSUME ProgramAssumption ==
    Programs \subseteq [Thread -> SUBSET
        {"open", "close", "detach", "forever", "timed", "now", "collect", "quit"}]

VARIABLES
    program,          \* the program that runs
    pc,               \* where each thread stands
    arg,              \* what the running call of a thread is about
    opened, closed,   \* areas that have been opened, and closed
    atomAlias,        \* the alias of an area
    wa,               \* areas of each thread
    handle,           \* for each thread, the area that an alias stands for
    s_pDetachedAreas, \* the list, as a set
    s_waMtx,          \* its holder, or NoThread
    request,          \* threads with HB_QUIT_REQUESTED
    quit              \* HB_THREQUEST_QUIT: "no", "asked", and "done" after it

areas == <<opened, closed, atomAlias, wa, handle, s_pDetachedAreas>>
requests == <<request, quit>>
vars == <<program, pc, arg, areas, s_waMtx, requests>>

-----------------------------------------------------------------------------
(* Control points                                                          *)
(*   run, paused   in PRG code, held by hb_vmRequestTest                   *)
(*   entering      out of the VM, about to lock s_waMtx                    *)
(*   forcing       with it, in hb_vmLockForce                              *)
(*   listing       about to look at the list or to add to it               *)
(*   committed     out of the VM, about to sleep                           *)
(*   sleeping, woken, relocked  on s_waCond, without and with s_waMtx      *)
(*                 again; the latter in hb_vmLock                          *)
(*   asking, collecting  in hb_vmSuspendThreads, and after it              *)
(*   terminating   main, in hb_vmTerminateThreads                          *)
(*   ended         the thread is gone                                      *)
CountedEntering ==                \* faulty: s_waMtx is asked for inside the VM
    {"run", "entering", "listing", "collecting"}
Counted == {"run", "listing", "collecting"}
Holding == {"forcing", "listing", "committed", "relocked"}
PCs == {"paused", "entering", "sleeping", "woken", "asking", "terminating",
        "ended"} \cup Counted \cup Holding

Inside == {t \in Thread : pc[t] \in Counted}
Stoppers == {t \in Thread : pc[t] \in {"asking", "collecting"}}
Stopper == IF Stoppers = {} THEN NoThread ELSE CHOOSE t \in Stoppers : TRUE

World == INSTANCE StopTheWorld
         WITH inside <- Inside, stopper <- Stopper, quit <- (quit = "asked")

\* The area to detach, or the alias and the time-out of a request.
Call == [area : Area \cup {NoArea}, alias : Alias \cup {NoAlias},
         wait : {"forever", "timed", "now"}]
NoCall == [area |-> NoArea, alias |-> NoAlias, wait |-> "now"]

Goto(t, p) == pc' = [pc EXCEPT ![t] = p]
With(t, p, a) == Goto(t, p) /\ arg' = [arg EXCEPT ![t] = a]

Init ==
    /\ program \in Programs
    /\ pc = [t \in Thread |-> "run"]
    /\ arg = [t \in Thread |-> NoCall]
    /\ opened = {}
    /\ closed = {}
    /\ atomAlias = [a \in Area |-> NoAlias]
    /\ wa = [t \in Thread |-> {}]
    /\ handle = [t \in Thread |-> [n \in Alias |-> NoArea]]
    /\ s_pDetachedAreas = {}
    /\ s_waMtx = NoThread
    /\ request = {}
    /\ quit = "no"

\* PRG code runs until it sees a request.
Runs(t) == pc[t] = "run" /\ t \notin request
Calls(t, name) == Runs(t) /\ name \in program[t]

-----------------------------------------------------------------------------
(* Areas of one thread: dbUseArea, dbCloseArea.                            *)

\* What thread t is left with without area a (which may be NoArea): its alias
\* stands for nothing, even if it stood for another area.
AreasWithout(t, a) == wa[t] \ {a}
HandlesWithout(t, a) ==
    [n \in Alias |-> IF a # NoArea /\ atomAlias[a] = n THEN NoArea
                     ELSE handle[t][n]]

\* The current area, which t may have or not.
Current(t) == wa[t] \cup {NoArea}
Close(t, a) ==
    /\ Calls(t, "close") /\ a \in wa[t]
    /\ wa' = [wa EXCEPT ![t] = AreasWithout(t, a)]
    /\ handle' = [handle EXCEPT ![t] = HandlesWithout(t, a)]
    /\ closed' = closed \cup {a}
    /\ UNCHANGED <<program, pc, arg, opened, atomAlias, s_pDetachedAreas,
                   s_waMtx, requests>>

\* The current area is closed first.  An alias in use is refused after that; an
\* area may have none.
Open(t, old, a, name) ==
    /\ Calls(t, "open") /\ old \in Current(t)
    /\ closed' = closed \cup ({old} \ {NoArea})
    /\ LET free == HandlesWithout(t, old)
       IN  IF name = NoAlias \/ free[name] = NoArea
             THEN /\ a \notin opened
                  /\ opened' = opened \cup {a}
                  /\ atomAlias' = [atomAlias EXCEPT ![a] = name]
                  /\ wa' = [wa EXCEPT ![t] = AreasWithout(t, old) \cup {a}]
                  /\ handle' = [handle EXCEPT ![t] = 
                         [n \in Alias |-> IF n = name THEN a ELSE free[n]]]
             ELSE /\ wa' = [wa EXCEPT ![t] = AreasWithout(t, old)]
                  /\ handle' = [handle EXCEPT ![t] = free]
                  /\ UNCHANGED <<opened, atomAlias>>
    /\ UNCHANGED <<program, pc, arg, s_pDetachedAreas, s_waMtx, requests>>

-----------------------------------------------------------------------------
(* hb_rddDetachArea and hb_rddRequestArea                                  *)

\* The area leaves its thread, and the thread the VM.
Detach(t, a) ==
    /\ Calls(t, "detach") /\ a \in wa[t]
    /\ wa' = [wa EXCEPT ![t] = AreasWithout(t, a)]
    /\ handle' = [handle EXCEPT ![t] = HandlesWithout(t, a)]
    /\ With(t, "entering", [NoCall EXCEPT !.area = a])
    /\ UNCHANGED <<program, opened, closed, atomAlias, s_pDetachedAreas,
                   s_waMtx, requests>>

\* The current area is closed first unless a new one is asked for.  An alias in
\* use is refused after that.
Request(t, old, name, wait) ==
    /\ Calls(t, wait) /\ old \in Current(t)
    /\ closed' = closed \cup ({old} \ {NoArea})
    /\ wa' = [wa EXCEPT ![t] = AreasWithout(t, old)]
    /\ handle' = [handle EXCEPT ![t] = HandlesWithout(t, old)]
    /\ IF name # NoAlias /\ HandlesWithout(t, old)[name] # NoArea
         THEN UNCHANGED <<pc, arg>>
         ELSE With(t, "entering", [NoCall EXCEPT !.alias = name, !.wait = wait])
    /\ UNCHANGED <<program, opened, atomAlias, s_pDetachedAreas, s_waMtx,
                   requests>>

\* hb_threadEnterCriticalSectionGC, which has left the VM.
EnterSection(t) ==
    /\ pc[t] = "entering"
    /\ s_waMtx = NoThread
    /\ s_waMtx' = t
    /\ Goto(t, "forcing")
    /\ UNCHANGED <<program, arg, areas, requests>>

\* Every call that locks the VM notices a QUIT.
Notice(t) == request' = IF quit = "asked" /\ t # Main THEN request \cup {t}
                        ELSE request

\* hb_vmLockForce waits for nobody but a collector at work.
LockForce(t) ==
    /\ pc[t] = "forcing"
    /\ \A g \in Thread : pc[g] # "collecting"
    /\ Notice(t)
    /\ Goto(t, "listing")
    /\ UNCHANGED <<program, arg, areas, s_waMtx, quit>>

AddWakeOne(t) ==                         \* faulty: signals one thread
    /\ pc[t] = "listing" /\ arg[t].area # NoArea
    /\ s_pDetachedAreas' = s_pDetachedAreas \cup {arg[t].area}
    /\ s_waMtx' = NoThread
    /\ LET asleep == {u \in Thread : pc[u] = "sleeping"}
       IN  \E woken \in IF asleep = {} THEN {{}} ELSE {{u} : u \in asleep} :
             pc' = [u \in Thread |-> IF u = t THEN "run"
                                     ELSE IF u \in woken THEN "woken" ELSE pc[u]]
    /\ arg' = [arg EXCEPT ![t] = NoCall]
    /\ UNCHANGED <<program, opened, closed, atomAlias, wa, handle, requests>>

Add(t) ==
    /\ pc[t] = "listing" /\ arg[t].area # NoArea
    /\ s_pDetachedAreas' = s_pDetachedAreas \cup {arg[t].area}
    /\ s_waMtx' = NoThread
    /\ pc' = [u \in Thread |-> IF u = t THEN "run"
                               ELSE IF pc[u] = "sleeping" THEN "woken"
                               ELSE pc[u]]
    /\ arg' = [arg EXCEPT ![t] = NoCall]
    /\ UNCHANGED <<program, opened, closed, atomAlias, wa, handle, requests>>

Fits(t, a) == arg[t].alias \in {NoAlias, atomAlias[a]}
Fitting(t) == {a \in s_pDetachedAreas : Fits(t, a)}
Return(t) == With(t, "run", NoCall) /\ s_waMtx' = NoThread

TakeStillListed(t, a) ==                 \* faulty: the holder keeps the area
    /\ pc[t] = "listing" /\ arg[t].area = NoArea
    /\ a \in Fitting(t)
    /\ wa' = [wa EXCEPT ![t] = @ \cup {a}]
    /\ handle' = [handle EXCEPT ![t] =
           [n \in Alias |-> IF n = atomAlias[a] /\ @[n] = NoArea THEN a ELSE @[n]]]
    /\ Return(t)
    /\ UNCHANGED <<program, opened, closed, atomAlias, s_pDetachedAreas, requests>>

\* The area, whose holder is emptied, becomes one of t, which gives it its
\* alias unless that stands for another.
Take(t, a) ==
    /\ pc[t] = "listing" /\ arg[t].area = NoArea
    /\ a \in Fitting(t)
    /\ s_pDetachedAreas' = s_pDetachedAreas \ {a}
    /\ wa' = [wa EXCEPT ![t] = @ \cup {a}]
    /\ handle' = [handle EXCEPT ![t] =
           [n \in Alias |-> IF n = atomAlias[a] /\ @[n] = NoArea THEN a ELSE @[n]]]
    /\ Return(t)
    /\ UNCHANGED <<program, opened, closed, atomAlias, requests>>

\* Nothing fits: give up, or leave the VM to wait.
Miss(t) ==
    /\ pc[t] = "listing" /\ arg[t].area = NoArea
    /\ Fitting(t) = {}
    /\ IF arg[t].wait = "now" THEN Return(t)
       ELSE Goto(t, "committed") /\ UNCHANGED <<arg, s_waMtx>>
    /\ UNCHANGED <<program, areas, requests>>

Sleep(t) ==
    /\ pc[t] = "committed"
    /\ Goto(t, "sleeping")
    /\ s_waMtx' = NoThread
    /\ UNCHANGED <<program, arg, areas, requests>>

\* The time-out, after which ulMilliSec is 0, or a wake-up for no reason.
TimeOut(t) ==
    /\ pc[t] = "sleeping" /\ arg[t].wait = "timed"
    /\ With(t, "woken", [arg[t] EXCEPT !.wait = "now"])
    /\ UNCHANGED <<program, areas, s_waMtx, requests>>

WakeUp(t) ==
    /\ pc[t] = "sleeping"
    /\ Goto(t, "woken")
    /\ UNCHANGED <<program, arg, areas, s_waMtx, requests>>

Relock(t) ==
    /\ pc[t] = "woken"
    /\ s_waMtx = NoThread
    /\ s_waMtx' = t
    /\ Goto(t, "relocked")
    /\ UNCHANGED <<program, arg, areas, requests>>

\* hb_vmLock() with s_waMtx held.  Too late or asked to quit, the call returns
\* without another look at the list.
Reenter(t) ==
    /\ pc[t] = "relocked"
    /\ Stoppers = {}
    /\ Notice(t)
    /\ IF arg[t].wait = "now" \/ t \in request'
         THEN Return(t)
         ELSE Goto(t, "listing") /\ UNCHANGED <<arg, s_waMtx>>
    /\ UNCHANGED <<program, areas, quit>>

-----------------------------------------------------------------------------
(* The end: hb_vmThreadQuit, hb_vmTerminateThreads and hb_vmQuit           *)

\* hb_rddCloseAll().
CloseAll(t) ==
    /\ wa' = [wa EXCEPT ![t] = {}]
    /\ handle' = [handle EXCEPT ![t] =
           [n \in Alias |-> IF \E a \in wa[t] : atomAlias[a] = n
                            THEN NoArea ELSE @[n]]]

Quit(t) ==
    /\ pc[t] = "run" /\ t # Main
    /\ CloseAll(t)
    /\ closed' = closed \cup wa[t]
    /\ Goto(t, "ended")
    /\ request' = request \ {t}
    /\ UNCHANGED <<program, arg, opened, atomAlias, s_pDetachedAreas, s_waMtx,
                   quit>>

\* hb_threadQuitRequest().
QuitRequest(t, c) ==
    /\ Calls(t, "quit") /\ c # Main
    /\ pc[c] # "ended"
    /\ request' = request \cup {c}
    /\ UNCHANGED <<program, pc, arg, areas, s_waMtx, quit>>

Terminate ==
    /\ pc[Main] = "run" /\ quit = "no"
    /\ quit' = "asked"
    /\ Goto(Main, "terminating")
    /\ UNCHANGED <<program, arg, areas, s_waMtx, request>>

\* EXIT procedures run after that.
Joined ==
    /\ pc[Main] = "terminating"
    /\ \A t \in Thread \ {Main} : pc[t] = "ended"
    /\ quit' = "done"
    /\ Goto(Main, "run")
    /\ UNCHANGED <<program, arg, areas, s_waMtx, request>>

\* hb_rddCloseAll() and hb_rddCloseDetachedAreas(), main being alone.
ShutDown ==
    /\ pc[Main] = "run" /\ quit = "done"
    /\ s_waMtx = NoThread
    /\ CloseAll(Main)
    /\ s_pDetachedAreas' = {}
    /\ closed' = closed \cup wa[Main] \cup s_pDetachedAreas
    /\ Goto(Main, "ended")
    /\ UNCHANGED <<program, arg, opened, atomAlias, s_waMtx, requests>>

-----------------------------------------------------------------------------
(* The VM lock: hb_vmSuspendThreads, and those that it stops               *)

Suspend(t) ==
    /\ Calls(t, "collect")
    /\ Stoppers = {} /\ quit # "asked"
    /\ Goto(t, IF Inside = {t} THEN "collecting" ELSE "asking")
    /\ UNCHANGED <<program, arg, areas, s_waMtx, requests>>

Granted(t) ==
    /\ pc[t] = "asking"
    /\ Inside = {} /\ quit # "asked"
    /\ Goto(t, "collecting")
    /\ UNCHANGED <<program, arg, areas, s_waMtx, requests>>

Withdraw(t) ==
    /\ pc[t] = "asking"
    /\ quit = "asked"
    /\ Goto(t, "run")
    /\ UNCHANGED <<program, arg, areas, s_waMtx, requests>>

Resume(t) ==
    /\ pc[t] = "collecting"
    /\ Goto(t, "run")
    /\ UNCHANGED <<program, arg, areas, s_waMtx, requests>>

\* hb_vmRequestTest() of a thread in PRG code.
Pause(t) ==
    /\ pc[t] = "run"
    /\ Stoppers # {} \/ (quit = "asked" /\ t \notin request)
    /\ Notice(t)
    /\ Goto(t, "paused")
    /\ UNCHANGED <<program, arg, areas, s_waMtx, quit>>

VMLock(t) ==
    /\ pc[t] = "paused"
    /\ Stoppers = {}
    /\ Notice(t)
    /\ Goto(t, "run")
    /\ UNCHANGED <<program, arg, areas, s_waMtx, quit>>

-----------------------------------------------------------------------------
\* What PRG code does ...
Working(t) ==
    \/ \E a \in Area : Close(t, a) \/ Detach(t, a)
    \/ \E old \in Current(t), name \in Alias \cup {NoAlias} :
          \/ \E a \in Area : Open(t, old, a, name)
          \/ \E wait \in {"forever", "timed", "now"} : Request(t, old, name, wait)
    \/ \E c \in Thread : QuitRequest(t, c)
    \/ Quit(t) \/ Suspend(t)

\* ... and what follows from that, with or without a lock to wait for.
Locking(t) == EnterSection(t) \/ LockForce(t) \/ Relock(t) \/ Reenter(t) \/ VMLock(t)
Going(t) ==
    \/ Add(t) \/ (\E a \in Area : Take(t, a)) \/ Miss(t) \/ Sleep(t)
    \/ TimeOut(t) \/ Granted(t) \/ Withdraw(t) \/ Resume(t)

Step(t) == Working(t) \/ Locking(t) \/ Going(t) \/ WakeUp(t) \/ Pause(t)
Ending == Terminate \/ Joined \/ ShutDown
Next == (\E t \in Thread : Step(t)) \/ Ending

Spec == Init /\ [][Next]_vars

\* The operating system runs every thread and hands locks on to those that keep
\* asking; PRG code polls for requests before every instruction, and a thread
\* that was asked to quit does.
FairSpec ==
    /\ Spec /\ WF_vars(Joined)
    /\ \A t \in Thread :
          SF_vars(\/ Going(t) \/ Locking(t) \/ Pause(t)
                  \/ t \in request /\ Quit(t))

-----------------------------------------------------------------------------
TypeOK ==
    /\ program \in Programs
    /\ pc \in [Thread -> PCs]
    /\ arg \in [Thread -> Call]
    /\ opened \subseteq Area
    /\ closed \subseteq Area
    /\ atomAlias \in [Area -> Alias \cup {NoAlias}]
    /\ wa \in [Thread -> SUBSET Area]
    /\ handle \in [Thread -> [Alias -> Area \cup {NoArea}]]
    /\ s_pDetachedAreas \subseteq Area
    /\ s_waMtx \in Thread \cup {NoThread}
    /\ request \subseteq Thread
    /\ quit \in {"no", "asked", "done"}

\* Nobody sleeps, or is about to, while an area that it waits for is on the list:
\* whoever adds one wakes all, and a thread that looked in vain lets s_waMtx go
\* only by going to sleep.
NoLostArea ==
    \A t \in Thread : pc[t] \in {"committed", "sleeping"} => Fitting(t) = {}

\* An area that is open is in one place: with one thread, on its way from there
\* to the list, or on it; one that is closed, or not yet open, is in none.
Somewhere(a) ==
    a \in s_pDetachedAreas \/ \E t \in Thread : a \in wa[t] \/ arg[t].area = a
OnePlace ==
    /\ \A a \in Area : a \in opened \ closed <=> Somewhere(a)
    /\ \A a \in Area, t, u \in Thread :
          /\ a \in wa[t] \/ arg[t].area = a => a \notin s_pDetachedAreas
          /\ a \in wa[t] => arg[u].area # a
          /\ a \in wa[t] \cap wa[u] => t = u
          /\ arg[t].area = a /\ arg[u].area = a => t = u

\* No area is lost or shared on its way from thread to thread, and when the
\* application has ended all are closed, wherever they were ("close all
\* workareas", hvm.c).
AreasKept == OnePlace /\ (pc[Main] = "ended" => opened = closed)

\* A thread does not wait for ever while there is an area that fits on the list:
\* it gets an answer, or others leave it none, whoever collects meanwhile.
Requesting == {"entering", "woken"} \cup Holding
Waits(t) ==
    pc[t] \in Requesting /\ arg[t].area = NoArea /\ Fitting(t) # {}
WaiterServed == \A t \in Thread : Waits(t) ~> ~Waits(t)

\* Every area of a thread can be reached by its alias.
AliasFindsArea ==
    \A t \in Thread : \A a \in wa[t] :
        atomAlias[a] # NoAlias => handle[t][atomAlias[a]] # NoArea

\* "send QUIT request to all threads except current one and wait for their
\* termination" (hvm.c): hb_vmTerminateThreads comes to an end.
TerminateReturns == pc[Main] = "terminating" ~> pc[Main] # "terminating"

\* hb_vmSuspendThreads keeps its promise, whatever the threads do.
StopsTheWorldSpec == World!Spec
=============================================================================
