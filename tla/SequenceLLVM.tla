---------------------------- MODULE SequenceLLVM ----------------------------
(***************************************************************************)
(* SEQUENCE in the straight-line LLVM code of -GL (src/compiler/genllvm.c) *)
(* with the hb_vmsh shims of src/vm/hvm.c.  Every opcode is a block that   *)
(* calls a shim and branches on the request it returns.  Where to, the     *)
(* emitter decides from the stack of regions it keeps while it walks the   *)
(* pcode.  No code cuts the eval stack on the way to a handler, and nothing*)
(* follows the chain of the envelopes on the way out of the function.      *)
(***************************************************************************)
EXTENDS Sequence

vars == frameVars

-----------------------------------------------------------------------------
(* The emitter.                                                            *)

\* seq_stack at every opcode.  A region is closed by its SEQEND, before the
\* SEQRECOVER, and an ALWAYS region keeps its handler up to the ALWAYSEND.
Region(i, always) == [always |-> always, recover |-> i + code[i].to]
Regions(p) ==
    LET after(regions, op, i) ==
          CASE op = "SEQBEGIN" -> Append(regions, Region(i, FALSE))
            [] op = "SEQALWAYS" -> Append(regions, Region(i, TRUE))
            [] op \in {"SEQEND", "ALWAYSEND"} -> Drop(regions, 1)
            [] OTHER -> regions
        f[i \in 1..Len(code)] ==
          IF i = 1 THEN <<>> ELSE after(f[i - 1], code[i - 1].op, i - 1)
    IN  f[p]

\* hb_llvmSLEmitActionCheck: BREAK goes to the topmost region, QUIT to the
\* topmost ALWAYS region, anything else to the epilogue.
Branch(regions, act) ==
    LET isAlways(r) == r.always
        always == SelectSeq(regions, isAlways)
    IN  CASE act = {} -> pc + 1
          [] act = {"BREAK"} /\ regions # <<>> -> regions[Len(regions)].recover
          [] act = {"QUIT"} /\ always # <<>> -> always[Len(always)].recover
          [] OTHER -> Done

\* A shim has left this; its caller releases what is left of the frame.
Goto(stk, base, act, next) ==
    /\ pc' = next
    /\ recoverBase' = base
    /\ stack' = IF next = Done THEN Cut(stk, frame) ELSE stk
    /\ action' = act

Shim(stk, act) == Goto(stk, recoverBase, act, Branch(Regions(pc), act))

-----------------------------------------------------------------------------
(* Statements.  A request pending before one branches at its first push.   *)

Interrupted(o) ==
    /\ At(o) /\ action # {}
    /\ Shim(stack, action)
    /\ UNCHANGED <<ret, requests, owed, returned>>

Noop ==
    /\ At("NOOP")
    /\ Shim(stack, action)
    /\ UNCHANGED <<ret, requests, owed, returned>>

Push ==
    /\ At("PUSH")
    /\ Shim(Append(stack, Value(Other)), action)
    /\ UNCHANGED <<ret, requests, owed, returned>>

Pop ==
    /\ At("POP")
    /\ Shim(Drop(stack, 1), action)
    /\ UNCHANGED <<ret, requests, owed, returned>>

Do ==
    \/ Interrupted("DO")
    \/ /\ At("DO") /\ action = {}
       /\ \E o \in Outcomes(stack, recoverBase) :
             Admitted(o) /\ Shim(o.stack, o.action)
       /\ ret' = Other
       /\ UNCHANGED <<owed, returned>>

Function ==
    /\ At("FUNCTION")
    /\ \E o \in Outcomes(stack, recoverBase) :
          /\ Admitted(o)
          /\ Shim(Append(o.stack, Value(Other)), o.action)
    /\ ret' = Nil
    /\ UNCHANGED <<owed, returned>>

RetValue ==
    \/ Interrupted("RETVALUE")
    \/ /\ At("RETVALUE") /\ action = {}
       /\ ret' = <<"return", pc>> /\ returned' = ret'
       /\ Shim(stack, action)
       /\ UNCHANGED <<requests, owed>>

\* A branch to the epilogue, and no request.
EndProc ==
    /\ At("ENDPROC")
    /\ Goto(stack, recoverBase, action, Done)
    /\ UNCHANGED <<ret, requests, owed, returned>>

-----------------------------------------------------------------------------
(* SEQUENCE.                                                               *)

SeqBlock ==
    /\ At("SEQBLOCK")
    /\ Shim(Append(stack, Block), action)
    /\ UNCHANGED <<ret, requests, owed, returned>>

Enter(flags) ==
    LET f == flags \cup {"CANRECOVER"}
        stk == stack \o <<Value(Nil), Envelope(Target, recoverBase, f)>>
    IN  Goto(stk, Len(stk), action, pc + 1)

SeqBegin ==
    /\ At("SEQBEGIN")
    /\ Enter({})
    /\ UNCHANGED <<ret, requests, owed, returned>>

SeqAlways ==
    /\ At("SEQALWAYS")
    /\ Enter({"DOALWAYS"})
    /\ owed' = owed \cup {Target}
    /\ UNCHANGED <<ret, requests, returned>>

\* The item on top, taken for an envelope without asking.
Misread == Envelope(0, -1, {})
OnTop == IF Top.kind = "envelope" THEN Top ELSE Misread

\* Also where a BREAK arrives if there is no RECOVER clause; it stays pending.
SeqEnd ==
    /\ At("SEQEND")
    /\ Goto(Drop(stack, 2), OnTop.base, action, Target)
    /\ UNCHANGED <<ret, requests, owed, returned>>

SeqRecoverPending ==                     \* faulty: the BREAK stays pending
    /\ At("SEQRECOVER")
    /\ Goto(Drop(stack, 1), OnTop.base, action, pc + 1)
    /\ UNCHANGED <<ret, requests, owed, returned>>

SeqRecover ==
    /\ At("SEQRECOVER")
    /\ Goto(Drop(stack, 1), OnTop.base, {}, pc + 1)
    /\ UNCHANGED <<ret, requests, owed, returned>>

AlwaysBegin ==
    /\ At("ALWAYSBEGIN")
    /\ LET n == Len(stack)
           f == OnTop.flags \cup action
           envelope == [OnTop EXCEPT !.recover = Target, !.flags = f,
                                     !.request = {}]
           keeps == "ENDPROC" \in f
           slot == IF keeps THEN Value(ret) ELSE stack[n - 1]
       IN  /\ Goto([stack EXCEPT ![n] = envelope, ![n - 1] = slot],
                   recoverBase, {}, pc + 1)
           /\ ret' = IF keeps THEN Nil ELSE ret
    /\ owed' = owed \ {pc}
    /\ UNCHANGED <<requests, returned>>

AlwaysEnd ==
    /\ At("ALWAYSEND")
    /\ LET restores == "ENDPROC" \in OnTop.flags \ OnTop.request
           act == Strongest(OnTop.flags \cup OnTop.request)
       IN  /\ Goto(Drop(stack, 2), OnTop.base, act,
                   Branch(Drop(Regions(pc), 1), act))
           /\ ret' = IF restores THEN stack[Len(stack) - 1].v ELSE ret
    /\ UNCHANGED <<requests, owed, returned>>

-----------------------------------------------------------------------------
LLVMNext ==
    /\ \/ Noop \/ Push \/ Pop \/ Do \/ Function \/ RetValue \/ EndProc
       \/ SeqBlock \/ SeqBegin \/ SeqAlways \/ SeqEnd \/ SeqRecover
       \/ AlwaysBegin \/ AlwaysEnd
    /\ UNCHANGED <<code, frame>>

LLVMSpec == Init /\ [][LLVMNext]_vars

-----------------------------------------------------------------------------
(* The functions for which this does what the interpreter does: every      *)
(* SEQUENCE without an ALWAYS clause has a RECOVER clause, nothing is      *)
(* called in a SEQUENCE with an operand or the item of WITH on the stack,  *)
(* nor in an ALWAYS clause but in the body of a SEQUENCE with RECOVER, and *)
(* RETURN is outside of every SEQUENCE that has an ALWAYS clause.          *)
Handled ==
    \A i \in 1..Len(code) :
       LET open == Open(i)
       IN  /\ code[i].op = "SEQEND" => code[i].to > 1
           /\ code[i].op \in {"DO", "FUNCTION"} /\ open # {} =>
                 /\ Height(i) = 2 * Cardinality(open)
                 /\ \A j \in open :
                       Begun(j, i) => \E k \in open : k > j /\ code[k].op = "SEQBEGIN"
           /\ code[i].op = "ENDPROC" => open = {}

HandledInit == Init /\ Handled
HandledSpec == HandledInit /\ [][LLVMNext]_vars

\* The interpreter that the straight-line code stands for.
VM == INSTANCE SequenceVM WITH
        stack <- VMstack, pc <- VMpc, recoverBase <- VMrecoverBase,
        action <- VMaction, bCanRecover <- VMcanRecover,
        quitState <- FALSE, Polls <- FALSE

\* In these functions the straight-line code does what the interpreter does,
\* with the same handlers, values, recover base and requests, until a QUIT is
\* requested.
Implements ==
    /\ VM!VMInit
    /\ [][\/ "QUIT" \in Pending'
          \/ VM!Next \/ UNCHANGED VM!vars]_vars

=============================================================================
