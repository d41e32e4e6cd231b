---------------------------- MODULE StopTheWorld ----------------------------
(***************************************************************************)
(* What hb_vmSuspendThreads() and hb_vmResumeThreads() promise to whoever  *)
(* wants to be the only thread inside the VM (src/vm/hvm.c): the abstract  *)
(* specification that VMLock implements and that the garbage collector     *)
(* builds on.  Counters, condition variable and mutex are gone; left are   *)
(* the threads inside, the one that asked the others to stop, and the      *)
(* shutdown that takes precedence over it.  A thread that asked is inside  *)
(* again when, and only when, its request has been granted.                *)
(***************************************************************************)
CONSTANTS
    Thread,    \* the threads
    NoThread   \* nobody

VARIABLES
    inside,    \* threads inside the VM
    stopper,   \* owner of the STOP request, or NoThread
    quit       \* is QUIT requested?

world == <<inside, stopper, quit>>

Granted == stopper \in inside

Init ==
    /\ inside \in SUBSET Thread
    /\ stopper = NoThread
    /\ quit = FALSE

\* A thread comes in, even one that ignores a STOP not granted yet, or leaves.
Enter(t) ==
    /\ ~Granted
    /\ stopper # t
    /\ inside' = inside \cup {t}
    /\ stopper' = stopper /\ quit' = quit

Leave(t) ==
    /\ ~Granted
    /\ t \in inside
    /\ inside' = inside \ {t}
    /\ stopper' = stopper /\ quit' = quit

\* Nobody asks while there is another request.  The caller is granted what it
\* asks for if it is alone, and waits outside otherwise.
Ask(t) ==
    /\ t \in inside
    /\ stopper = NoThread
    /\ ~quit
    /\ stopper' = t
    /\ inside' = IF inside = {t} THEN inside ELSE inside \ {t}
    /\ quit' = quit

Grant(t) ==
    /\ stopper = t
    /\ ~quit
    /\ inside = {}
    /\ inside' = {t}
    /\ stopper' = stopper /\ quit' = quit

\* A shutdown refuses a request that has not been granted.
Withdraw(t) ==
    /\ stopper = t
    /\ ~Granted
    /\ quit
    /\ stopper' = NoThread
    /\ inside' = inside \cup {t}
    /\ quit' = quit

Resume(t) ==
    /\ stopper = t
    /\ Granted
    /\ stopper' = NoThread
    /\ inside' = inside /\ quit' = quit

\* The thread that shuts down waits outside, and is back when the others have
\* ended and no request is left.
AskQuit(t) ==
    /\ ~Granted
    /\ t \in inside
    /\ quit' = TRUE
    /\ inside' = inside \ {t}
    /\ UNCHANGED stopper

DropQuit(t) ==
    /\ stopper = NoThread
    /\ quit' = FALSE
    /\ inside' = inside \cup {t}
    /\ UNCHANGED stopper

Next == \E t \in Thread :
    \/ Enter(t) \/ Leave(t) \/ Ask(t) \/ Grant(t) \/ Withdraw(t) \/ Resume(t)
    \/ AskQuit(t) \/ DropQuit(t)

Spec == Init /\ [][Next]_world

\* While a request is granted its owner is inside the VM, nobody else is, and
\* no shutdown is under way.
Promise ==
    /\ inside \subseteq Thread
    /\ stopper \in Thread \cup {NoThread}
    /\ Granted => inside = {stopper} /\ ~quit
=============================================================================
