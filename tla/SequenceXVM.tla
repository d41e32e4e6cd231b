----------------------------- MODULE SequenceXVM -----------------------------
(***************************************************************************)
(* SEQUENCE in the C code that -gc3 makes of the pcode                     *)
(* (src/compiler/gencc.c) with the hb_xvm functions of src/vm/hvm.c.  Each *)
(* SEQUENCE is a C block, `for( ;; ) { ... }` or `do { ... } while( 0 )`,  *)
(* and every hb_xvm call that returns a request is followed by `break`:    *)
(* the control goes to the end of the innermost block with the request     *)
(* pending and the stack as it was.  What is behind that end removes the   *)
(* items and takes the request or breaks again.                            *)
(***************************************************************************)
EXTENDS Sequence

CONSTANT Polls          \* does another thread ask this one to QUIT?
ASSUME PollsAssumption == Polls \in BOOLEAN

VARIABLE quitState      \* hb_stackQuitState(): the request has been noticed
vars == <<frameVars, quitState>>

XVMInit == Init /\ quitState = FALSE

-----------------------------------------------------------------------------
\* Where `break` leads from the code of an opcode: to the end of the innermost
\* C block.  The code behind the end of a block belongs to the block outside.
Exit ==
    LET behind == {i \in Open(pc) : pc \in {First(code, i), Last(code, i)}}
        inside == Open(pc) \ behind
    IN  IF inside = {} THEN Done ELSE Handler(Innermost(inside), pc)

\* hb_stackRemove(): pops what is above this position, if anything is.
Remove(stk, n) == IF n < Len(stk) THEN Cut(stk, n) ELSE stk

\* The function ends with hb_xvmExitProc; its caller releases the frame.
Goto(stk, base, act, next) ==
    /\ pc' = next
    /\ recoverBase' = base
    /\ stack' = IF next = Done THEN Remove(stk, frame) ELSE stk
    /\ action' = IF next = Done THEN act \ {"ENDPROC"} ELSE act

\* hb_vmRequestTest: another thread's QUIT is noticed once.
Polled(act, polled) ==
    \/ polled = act /\ UNCHANGED quitState
    \/ Polls /\ ~quitState /\ polled = {"QUIT"} /\ quitState' = TRUE

\* HB_XVM_RETURN and what follows it: `break` if there is a request.
TestRequest(stk, base, act) ==
    \E polled \in {act, {"QUIT"}} :
       /\ Polled(act, polled)
       /\ Goto(stk, base, polled, IF polled = {} THEN pc + 1 ELSE Exit)

\* The same where a BREAK has reached its SEQUENCE.
TakeBreak(stk, base) ==
    \E polled \in {action, {"QUIT"}} :
       /\ Polled(action, polled)
       /\ IF polled \in {{}, {"BREAK"}} THEN Goto(stk, base, {}, pc + 1)
                                        ELSE Goto(stk, base, polled, Exit)

\* A function of the hb_xvm family that returns no request.
Run(stk) == Goto(stk, recoverBase, action, pc + 1) /\ UNCHANGED quitState

-----------------------------------------------------------------------------
(* Statements.                                                             *)

Noop ==
    /\ At("NOOP")
    /\ Run(stack)
    /\ UNCHANGED <<ret, requests, owed, returned>>

Push ==
    /\ At("PUSH")
    /\ Run(Append(stack, Value(Other)))
    /\ UNCHANGED <<ret, requests, owed, returned>>

Pop ==
    /\ At("POP")
    /\ Run(Drop(stack, 1))
    /\ UNCHANGED <<ret, requests, owed, returned>>

Do ==
    /\ At("DO")
    /\ \E o \in Outcomes(stack, recoverBase) :
          Admitted(o) /\ TestRequest(o.stack, recoverBase, o.action)
    /\ ret' = Other
    /\ UNCHANGED <<owed, returned>>

Function ==
    /\ At("FUNCTION")
    /\ \E o \in Outcomes(stack, recoverBase) :
          /\ Admitted(o)
          /\ TestRequest(Append(o.stack, Value(Other)), recoverBase, o.action)
    /\ ret' = Nil
    /\ UNCHANGED <<owed, returned>>

RetValue ==
    /\ At("RETVALUE")
    /\ ret' = <<"return", pc>> /\ returned' = ret'
    /\ Run(stack)
    /\ UNCHANGED <<requests, owed>>

EndProcBare ==                           \* faulty: no hb_xvmEndProc
    /\ At("ENDPROC")
    /\ Goto(stack, recoverBase, action, Exit)
    /\ UNCHANGED <<ret, requests, owed, returned, quitState>>

\* hb_xvmEndProc inside of a C block; outside of any, only `break`.
EndProc ==
    /\ At("ENDPROC")
    /\ LET nested == Open(pc) # {}
           act == IF nested /\ action \cap {"QUIT", "BREAK"} = {}
                    THEN {"ENDPROC"} ELSE action
       IN  Goto(stack, recoverBase, act, Exit)
    /\ UNCHANGED <<ret, requests, owed, returned, quitState>>

-----------------------------------------------------------------------------
(* SEQUENCE.                                                               *)

SeqBlock ==
    /\ At("SEQBLOCK")
    /\ TestRequest(Append(stack, Block), recoverBase, action)
    /\ UNCHANGED <<ret, requests, owed, returned>>

Enter(flags) ==
    LET stk == stack \o <<Value(Nil), Envelope(0, recoverBase, flags)>>
    IN  Goto(stk, Len(stk), action, pc + 1) /\ UNCHANGED quitState

SeqBegin ==
    /\ At("SEQBEGIN")
    /\ Enter({})
    /\ UNCHANGED <<ret, requests, owed, returned>>

SeqAlways ==
    /\ At("SEQALWAYS")
    /\ Enter({"DOALWAYS"})
    /\ owed' = owed \cup {Target}
    /\ UNCHANGED <<ret, requests, returned>>

\* The stack down to the envelope in force, which hb_xvm calls find on top
\* after hb_stackRemove( hb_stackGetRecoverBase() ).
Removed == Remove(stack, recoverBase)
OnTop == Removed[Len(Removed)]

\* hb_xvmSeqEndTest, the end of a body in front of a RECOVER clause.
SeqEndTest ==
    /\ At("SEQEND") /\ Target # pc + 1
    /\ \E polled \in {action, {"QUIT"}} :
          /\ Polled(action, polled)
          /\ IF polled = {} THEN Goto(Drop(Removed, 2), OnTop.base, {}, Target)
                            ELSE Goto(stack, recoverBase, polled, Exit)
    /\ UNCHANGED <<ret, requests, owed, returned>>

\* hb_xvmSeqEnd, where also a BREAK arrives.
SeqEnd ==
    /\ At("SEQEND") /\ Target = pc + 1
    /\ TakeBreak(Drop(Removed, 2), OnTop.base)
    /\ UNCHANGED <<ret, requests, owed, returned>>

SeqRecover ==
    /\ At("SEQRECOVER")
    /\ TakeBreak(Drop(Removed, 1), OnTop.base)
    /\ UNCHANGED <<ret, requests, owed, returned>>

\* The request is put aside, and so is the value of RETURN; a QUIT of the poll
\* breaks out of the SEQUENCE before the ALWAYS clause has begun.
AlwaysBegin ==
    /\ At("ALWAYSBEGIN")
    /\ LET n == Len(Removed)
           keeps == "ENDPROC" \in action
           slot == IF keeps THEN Value(ret) ELSE Removed[n - 1]
       IN  /\ TestRequest([Removed EXCEPT ![n].request = action, ![n - 1] = slot],
                          recoverBase, {})
           /\ ret' = IF keeps THEN Nil ELSE ret
    /\ owed' = IF pc' = pc + 1 THEN owed \ {pc} ELSE owed
    /\ UNCHANGED <<requests, returned>>

AlwaysEnd ==
    /\ At("ALWAYSEND")
    /\ LET restores == "ENDPROC" \in OnTop.request \ action
       IN  ret' = IF restores THEN Removed[Len(Removed) - 1].v ELSE ret
    /\ TestRequest(Drop(Removed, 2), OnTop.base,
                   Strongest(action \cup OnTop.request))
    /\ UNCHANGED <<requests, owed, returned>>

-----------------------------------------------------------------------------
XVMNext ==
    /\ \/ Noop \/ Push \/ Pop \/ Do \/ Function \/ RetValue \/ EndProc
       \/ SeqBlock \/ SeqBegin \/ SeqAlways \/ SeqEndTest \/ SeqEnd
       \/ SeqRecover \/ AlwaysBegin \/ AlwaysEnd
    /\ UNCHANGED <<code, frame>>

XVMSpec == XVMInit /\ [][XVMNext]_vars

-----------------------------------------------------------------------------
(* The interpreter that the C code stands for, which polls nothing.  What  *)
(* the C code does on the way to a handler is a stuttering step of it.     *)
VM == INSTANCE SequenceVM WITH
        stack <- VMstack, pc <- VMpc, recoverBase <- VMrecoverBase,
        action <- VMaction, bCanRecover <- VMcanRecover, quitState <- FALSE,
        Polls <- FALSE

\* Breaking out of C blocks one by one, the C code does what the interpreter
\* does at once, with the same handlers, values, recover base and requests,
\* until it notices that another thread wants it to quit.
Implements == VM!VMInit /\ [][quitState' \/ VM!Next]_<<VM!vars, quitState>>

=============================================================================
