----------------------------- MODULE SequenceVM -----------------------------
(***************************************************************************)
(* SEQUENCE in the interpreter, hb_vmExecute (src/vm/hvm.c).  One action   *)
(* is one turn of its main loop: an opcode, and what the end of the loop   *)
(* does about the action request.  The poll of hb_vmThreadRequest at the   *)
(* head of the loop is an action of its own: another thread may ask this   *)
(* one to quit before any opcode.                                          *)
(***************************************************************************)
EXTENDS Sequence

CONSTANT Polls          \* does another thread ask this one to QUIT?
ASSUME PollsAssumption == Polls \in BOOLEAN

VARIABLES
    bCanRecover,        \* is there an envelope of this function?
    quitState           \* hb_stackQuitState(): the request has been noticed

vars == <<frameVars, bCanRecover, quitState>>

VMInit == Init /\ bCanRecover = FALSE /\ quitState = FALSE

-----------------------------------------------------------------------------
(* The end of the loop, given what the opcode left behind.                 *)

\* Continue in the handler of the envelope at b, which keeps the request.
Land(stk, b, act) ==
    /\ stack' = [Cut(stk, b) EXCEPT ![b].request = act]
    /\ recoverBase' = b /\ bCanRecover' = TRUE
    /\ action' = {}
    /\ pc' = stk[b].recover

LeaveDangling(stk, base, act) ==         \* faulty: keeps the recover base
    /\ stack' = Cut(stk, frame)
    /\ recoverBase' = recoverBase /\ bCanRecover' = FALSE
    /\ action' = act
    /\ pc' = Done

\* Return; the caller releases what is left of the frame (hb_stackOldFrame).
Leave(stk, base, act) ==
    /\ stack' = Cut(stk, frame)
    /\ recoverBase' = base /\ bCanRecover' = FALSE
    /\ action' = act
    /\ pc' = Done

Continue(stk, base, can, next) ==
    /\ stack' = stk
    /\ recoverBase' = base /\ bCanRecover' = can
    /\ action' = {}
    /\ pc' = next

EndOfLoop(stk, base, can, act, next) ==
    LET unwound == Unwind(stk, base, can)
    IN  \/ act = {} /\ Continue(stk, base, can, next)
        \/ act = {"BREAK"} /\ can /\ Land(stk, base, act)
        \/ act = {"BREAK"} /\ ~can /\ Leave(stk, base, act)
        \/ /\ act \in {{"ENDPROC"}, {"QUIT"}}
           /\ unwound.found
           /\ Land(stk, unwound.base, act)
        \/ /\ act \in {{"ENDPROC"}, {"QUIT"}}
           /\ ~unwound.found
           /\ Leave(stk, unwound.base, act \ {"ENDPROC"})

\* An opcode that has no part in SEQUENCE, leaving this stack.
Plain(stk) == EndOfLoop(stk, recoverBase, bCanRecover, action, pc + 1)

-----------------------------------------------------------------------------
(* Statements.                                                             *)

Noop ==
    /\ At("NOOP")
    /\ Plain(stack)
    /\ UNCHANGED <<ret, requests, owed, returned>>

Push ==
    /\ At("PUSH")
    /\ Plain(Append(stack, Value(Other)))
    /\ UNCHANGED <<ret, requests, owed, returned>>

Pop ==
    /\ At("POP")
    /\ Plain(Drop(stack, 1))
    /\ UNCHANGED <<ret, requests, owed, returned>>

\* A procedure called with QUIT pending executes one opcode, and that may be
\* its ENDPROC, which replaces the request and is then dropped.
CallOutcomes ==
    Outcomes(stack, recoverBase) \cup {Returns(stack, {}) : a \in action}

Do ==
    /\ At("DO")
    /\ \E o \in CallOutcomes :
          /\ Admitted(o)
          /\ EndOfLoop(o.stack, recoverBase, bCanRecover, o.action, pc + 1)
    /\ ret' = Other
    /\ UNCHANGED <<owed, returned>>

Function ==
    /\ At("FUNCTION")
    /\ \E o \in CallOutcomes :
          /\ Admitted(o)
          /\ EndOfLoop(Append(o.stack, Value(Other)), recoverBase,
                       bCanRecover, o.action, pc + 1)
    /\ ret' = Nil
    /\ UNCHANGED <<owed, returned>>

RetValue ==
    /\ At("RETVALUE")
    /\ ret' = <<"return", pc>> /\ returned' = ret'
    /\ Plain(stack)
    /\ UNCHANGED <<requests, owed>>

EndProc ==
    /\ At("ENDPROC")
    /\ EndOfLoop(stack, recoverBase, bCanRecover, {"ENDPROC"}, pc)
    /\ UNCHANGED <<ret, requests, owed, returned>>

-----------------------------------------------------------------------------
(* SEQUENCE.                                                               *)

\* Puts the error block aside and installs the one of the WITH clause.
SeqBlock ==
    /\ At("SEQBLOCK")
    /\ Plain(Append(stack, Block))
    /\ UNCHANGED <<ret, requests, owed, returned>>

EnterForgetful(flags) ==                 \* faulty: no HB_SEQ_CANRECOVER
    LET stk == stack \o <<Value(Nil), Envelope(Target, recoverBase, flags)>>
    IN  EndOfLoop(stk, Len(stk), TRUE, action, pc + 1)

\* An envelope and its slot, remembering the state around them.
Enter(flags) ==
    LET f == flags \cup (IF bCanRecover THEN {"CANRECOVER"} ELSE {})
        stk == stack \o <<Value(Nil), Envelope(Target, recoverBase, f)>>
    IN  EndOfLoop(stk, Len(stk), TRUE, action, pc + 1)

SeqBegin ==
    /\ At("SEQBEGIN")
    /\ Enter({})
    /\ UNCHANGED <<ret, requests, owed, returned>>

SeqAlways ==
    /\ At("SEQALWAYS")
    /\ Enter({"DOALWAYS"})
    /\ owed' = owed \cup {Target}
    /\ UNCHANGED <<ret, requests, returned>>

\* The state around the envelope on top is back.
SeqEnd ==
    /\ At("SEQEND")
    /\ EndOfLoop(Drop(stack, 2), Top.base, "CANRECOVER" \in Top.flags, action,
                 Target)
    /\ UNCHANGED <<ret, requests, owed, returned>>

\* As SeqEnd, but the value of BREAK stays on the stack.
SeqRecover ==
    /\ At("SEQRECOVER")
    /\ EndOfLoop(Drop(stack, 1), Top.base, "CANRECOVER" \in Top.flags, action,
                 pc + 1)
    /\ UNCHANGED <<ret, requests, owed, returned>>

\* From here on a request leads to ALWAYSEND; the one that led here is put
\* aside, and so is the value of RETURN.
AlwaysBegin ==
    /\ At("ALWAYSBEGIN")
    /\ LET n == Len(stack)
           f == Top.flags \cup Top.request
           envelope == [Top EXCEPT !.recover = Target, !.flags = f,
                                   !.request = {}]
           keeps == "ENDPROC" \in f
           slot == IF keeps THEN Value(ret) ELSE stack[n - 1]
       IN  /\ Plain([stack EXCEPT ![n] = envelope, ![n - 1] = slot])
           /\ ret' = IF keeps THEN Nil ELSE ret
    /\ owed' = owed \ {pc}
    /\ UNCHANGED <<requests, returned>>

\* The value of RETURN is restored unless the ALWAYS clause has returned one of
\* its own.
Restores(e) == "ENDPROC" \in e.flags \ e.request

\* The stronger of the two requests goes on.
AlwaysEnd ==
    /\ At("ALWAYSEND")
    /\ ret' = IF Restores(Top) THEN stack[Len(stack) - 1].v ELSE ret
    /\ EndOfLoop(Drop(stack, 2), Top.base, "CANRECOVER" \in Top.flags,
                 Strongest(Top.flags \cup Top.request), pc + 1)
    /\ UNCHANGED <<requests, owed, returned>>

-----------------------------------------------------------------------------
\* hb_vmRequestTest, at the head of the loop: noticed once per thread.
Poll ==
    /\ Polls /\ ~quitState
    /\ pc # Done
    /\ quitState' = TRUE
    /\ action' = {"QUIT"}
    /\ UNCHANGED <<code, frame, pc, stack, recoverBase, ret, requests, owed,
                   returned, bCanRecover>>

Opcode ==
    \/ Noop \/ Push \/ Pop \/ Do \/ Function \/ RetValue \/ EndProc
    \/ SeqBlock \/ SeqBegin \/ SeqAlways \/ SeqEnd \/ SeqRecover
    \/ AlwaysBegin \/ AlwaysEnd

Next == Poll \/ (Opcode /\ UNCHANGED <<code, frame, quitState>>)

Spec == VMInit /\ [][Next]_vars

\* Requests made by the functions called: QUIT is never dropped; BREAK and
\* RETURN are not before they are served, where an ALWAYS clause in between may
\* make requests of its own.  For the QUIT of another thread this is not so,
\* see SequenceVMQuit.cfg.
RequestsKept == [][~quitState' => KeepsQuit /\ KeepsRequests]_vars

=============================================================================
