------------------------------ MODULE Sequence ------------------------------
(***************************************************************************)
(* BEGIN SEQUENCE ... RECOVER ... ALWAYS ... END SEQUENCE: the pcode the   *)
(* compiler makes of it (src/compiler/harbour.y, hbmain.c), the frame of   *)
(* one function that executes it, and what holds of every engine.  Three   *)
(* engines execute this pcode, each in a module of its own:                *)
(*   SequenceVM    the interpreter, hb_vmExecute (src/vm/hvm.c)            *)
(*   SequenceXVM   C code generated with -gc3 (src/compiler/gencc.c) that  *)
(*                 calls the hb_xvm functions                              *)
(*   SequenceLLVM  straight-line LLVM code (src/compiler/genllvm.c) that   *)
(*                 calls the hb_vmsh shims                                 *)
(* They share the eval stack, its recover base and the action request, and *)
(* hb_vmRequestBreak, which is called below any of them.                   *)
(*                                                                         *)
(* A function called is one step: it returns, requests BREAK or requests   *)
(* QUIT, and leaves the stack and the recover base as it found them.  That *)
(* the engines deserve this is what ReturnClean says.                      *)
(***************************************************************************)
EXTENDS Integers, Sequences, FiniteSets

CONSTANTS
    Bodies,     \* statements that may stand in the body of a SEQUENCE
    Recovers,   \* statements for RECOVER, "none" for no RECOVER clause
    Alwayses,   \* statements for ALWAYS, "none" for no ALWAYS clause
    Withs,      \* is there a WITH clause?
    Nestings,   \* the parts of a SEQUENCE that may be another SEQUENCE
    Tails,      \* statements that may follow a SEQUENCE
    Requests,   \* what a called function may request
    MaxRequests \* bound on the requests of one run

\* A call; an assignment that calls nothing; a call with an operand pending on
\* the stack; RETURN with a value; no statement at all; no such clause.
Statements == {"call", "safe", "operand", "return", "empty", "none"}

ASSUME ProgramAssumption ==
    /\ Bodies \subseteq Statements \ {"return", "none"}
    /\ Recovers \subseteq Statements
    /\ Alwayses \subseteq Statements
    /\ Withs \subseteq BOOLEAN
    /\ Nestings \subseteq {"body", "recover", "always"}
    /\ Tails \subseteq {"call", "safe", "empty"}
    /\ Requests \subseteq {"break", "quit"}
    /\ MaxRequests \in Nat

-----------------------------------------------------------------------------
(* Pcode.  Jumps are relative, as in the pcode, which lets a compiled part *)
(* be placed anywhere.                                                     *)

Op(o) == <<[op |-> o, to |-> 0]>>
Jump(o, d) == <<[op |-> o, to |-> d]>>

\* The opcodes of a statement.  PUSH stands for any opcode that pushes, POP for
\* any that pops, and NOOP for a statement that does its work and no more;
\* RETVALUE includes the push of the value.
Statement(s) ==
    CASE s = "call" -> Op("DO")
      [] s = "safe" -> Op("NOOP")
      [] s = "operand" -> Op("PUSH") \o Op("FUNCTION") \o Op("POP") \o Op("POP")
      [] s = "return" -> Op("RETVALUE") \o Op("ENDPROC")
      [] s = "empty" -> <<>>

\* Clauses that may be left out are sets of at most one piece of code.
Given(cs) == {{c} : c \in cs}
Clauses(ss) == Given({Statement(s) : s \in ss \ {"none"}})
                   \cup (IF "none" \in ss THEN {{}} ELSE {})
The(clause) == CHOOSE c \in clause : TRUE

\* BEGIN SEQUENCE [RECOVER] END, without ALWAYS.
TrySeq(body, recover) ==
    IF recover = {}
      THEN Jump("SEQBEGIN", Len(body) + 1) \o body \o Jump("SEQEND", 1)
      ELSE LET r == Op("SEQRECOVER") \o Op("POP") \o The(recover)
           IN  Jump("SEQBEGIN", Len(body) + 2) \o body
                   \o Jump("SEQEND", Len(r) + 1) \o r

\* The whole statement, after hb_compSequenceFinish has removed the opcodes
\* nobody needs.
Sequence(with, stmts, recover, always) ==
    LET body == IF with THEN Op("SEQBLOCK") \o stmts \o Op("POP") ELSE stmts
        try == IF always # {} /\ recover = {} THEN body
                                              ELSE TrySeq(body, recover)
    IN  CASE stmts = <<>> -> IF always = {} THEN <<>> ELSE The(always)
          [] stmts # <<>> /\ always \in {{}, {<<>>}} -> try
          [] OTHER -> Jump("SEQALWAYS", Len(try) + 1) \o try
                          \o Jump("ALWAYSBEGIN", Len(The(always)) + 1)
                          \o The(always) \o Op("ALWAYSEND")

\* The SEQUENCEs made of these bodies and clauses.
Sequences(bodies, recovers, alwayses) ==
    {Sequence(w, b, r, a) :
        w \in Withs, b \in bodies, r \in recovers, a \in alwayses}
Flat == {Statement(s) : s \in Bodies}
Followed(ss) == {s \o Statement(t) : s \in ss, t \in Tails}

\* RETURN is a compile-time error in the body of a SEQUENCE.
Inner(ss) ==
    Followed(Sequences(Flat, Clauses(Recovers \ ss), Clauses(Alwayses \ ss)))

\* One SEQUENCE, with at most one other in one of its parts, in a function
\* that ends with a RETURN.
Outer ==
    LET recovers == Clauses(Recovers)
        alwayses == Clauses(Alwayses)
        nested(part, ss) == IF part \in Nestings THEN ss ELSE {}
    IN  Sequences(Flat, recovers, alwayses)
          \cup nested("body", Sequences(Inner({"return"}), recovers, alwayses))
          \cup nested("recover", Sequences(Flat, Given(Inner({})), alwayses))
          \cup nested("always", Sequences(Flat, recovers, Given(Inner({}))))

Programs == {s \o Statement("return") : s \in Followed(Outer)}

-----------------------------------------------------------------------------
(* The frame of the function.                                              *)

VARIABLES
    code,        \* the pcode of the function
    frame,       \* height of the stack below it
    pc,          \* next opcode, Done when the function has returned
    stack,       \* the eval stack
    recoverBase, \* hb_stackGetRecoverBase(), 0 for none
    action,      \* hb_stackGetActionRequest(), a set of at most one request
    ret,         \* hb_stackReturnItem()
    requests,    \* number of requests made so far
    owed,        \* ALWAYS clauses of SEQUENCEs entered that have not begun
    returned     \* value of the last RETURN executed

frameVars == <<code, frame, pc, stack, recoverBase, action, ret, requests,
               owed, returned>>

Done == Len(code) + 1
At(o) == pc # Done /\ code[pc].op = o
Target == pc + code[pc].to

RequestNames == {"QUIT", "BREAK", "ENDPROC"}
Flags == RequestNames \cup {"CANRECOVER", "DOALWAYS"}

\* Items of the stack: a value, the item of a WITH clause, whose error block is
\* in force as long as the item is there, and an envelope, which is always
\* pushed on a value, the slot of BREAK or RETURN.
Nil == <<"nil", 0>>
Other == <<"other", 0>>
Value(v) == [kind |-> "value", v |-> v]
Block == [kind |-> "block"]
Envelope(r, b, f) == [kind |-> "envelope", recover |-> r, base |-> b,
                      flags |-> f, request |-> {}]

\* Called from inside a SEQUENCE of the caller, or from none.
Init ==
    /\ code \in Programs
    /\ frame \in {0, 2}
    /\ pc = 1
    /\ stack = IF frame = 0 THEN <<>> ELSE <<Value(Nil), Envelope(0, 0, {})>>
    /\ recoverBase = frame
    /\ action = {} /\ ret = Nil /\ requests = 0
    /\ owed = {} /\ returned = Nil

Cut(stk, n) == SubSeq(stk, 1, n)
Drop(stk, n) == SubSeq(stk, 1, Len(stk) - n)
Top == stack[Len(stack)]

\* Where the stack has an envelope.
Chain(stk) == {i \in 1..Len(stk) : stk[i].kind = "envelope"}

BreakBaseInnermost(stk, base) == base    \* faulty: an ALWAYS envelope will do

\* hb_vmRequestBreak: the SEQUENCE that a BREAK is meant for, 0 for none, is
\* the innermost one that is not an ALWAYS envelope.
BreakBase(stk, base) ==
    LET f[b \in {0} \cup Chain(stk)] ==
          IF b # 0 /\ "DOALWAYS" \in stk[b].flags THEN f[stk[b].base] ELSE b
    IN  f[base]

\* What a function called with this stack may do: the stack, the request, and
\* whether it made one.
Returns(stk, act) == [stack |-> stk, action |-> act, n |-> 0]
Breaks(stk, base) ==
    LET b == BreakBase(stk, base)
    IN  IF b = 0 THEN [stack |-> stk, action |-> {"QUIT"}, n |-> 1]
        ELSE [stack |-> [stk EXCEPT ![b - 1].v = <<"break", requests + 1>>],
              action |-> {"BREAK"}, n |-> 1]
Quits(stk) == [stack |-> stk, action |-> {"QUIT"}, n |-> 1]

Outcomes(stk, base) ==
    {Returns(stk, action)}
        \cup {Breaks(stk, base) : r \in Requests \cap {"break"}}
        \cup {Quits(stk) : r \in Requests \cap {"quit"}}
Admitted(o) == requests + o.n <= MaxRequests /\ requests' = requests + o.n

UnwindOut(stk, base, can) ==             \* faulty: does not look for ALWAYS
    [base |-> frame, found |-> FALSE]

\* The envelope at which ENDPROC and QUIT stop: the innermost ALWAYS one of
\* this function.  If there is none the recover base is the caller's again.
Unwind(stk, base, can) ==
    LET f[b \in Chain(stk)] ==
          IF "DOALWAYS" \in stk[b].flags THEN [base |-> b, found |-> TRUE]
          ELSE IF "CANRECOVER" \in stk[b].flags THEN f[stk[b].base]
          ELSE [base |-> stk[b].base, found |-> FALSE]
    IN  IF can THEN f[base] ELSE [base |-> base, found |-> FALSE]

StrongestAll(acts) ==                    \* faulty: the two requests together
    acts \cap RequestNames
StrongestQuit(acts) ==                   \* faulty: keeps no other request
    acts \cap {"QUIT"}

\* A pending request after an ALWAYS clause: the strongest of the two.
Strongest(acts) ==
    CASE "QUIT" \in acts -> {"QUIT"}
      [] "QUIT" \notin acts /\ "BREAK" \in acts -> {"BREAK"}
      [] acts \cap {"QUIT", "BREAK"} = {} -> acts \cap {"ENDPROC"}

-----------------------------------------------------------------------------
(* What the compiler knows at every opcode: the SEQUENCEs open there, each *)
(* by the opcode that opens it.                                            *)
SeqOps(c) == {i \in 1..Len(c) : c[i].op \in {"SEQBEGIN", "SEQALWAYS"}}

\* The handler in the envelope as pushed, and the last opcode that finds the
\* envelope: SEQRECOVER, SEQEND if there is no RECOVER clause, or ALWAYSEND.
First(c, i) == i + c[i].to
Last(c, i) == IF c[i].op = "SEQALWAYS" THEN First(c, First(c, i)) ELSE First(c, i)

Open(p) == {i \in SeqOps(code) : i < p /\ p <= Last(code, i)}
Innermost(is) == CHOOSE i \in is : \A j \in is : j <= i

\* The handler at p of a SEQUENCE open there: an ALWAYS clause that has begun
\* leads to its end.
Begun(i, p) == First(code, i) < p
Handler(i, p) == IF Begun(i, p) THEN Last(code, i) ELSE First(code, i)

\* Positions on the stack of the envelopes of this function.
Envelopes(stk) == {i \in Chain(stk) : frame < i}

-----------------------------------------------------------------------------
(* Properties of every engine.  One that carries a request along to its    *)
(* handler, rather than acting on it at once, is not Settled while it does.*)
Settled == action = {} /\ pc # Done
Return == pc = Done

\* How much higher than at its start the stack is at an opcode, as compiled.
\* A SEQEND in front of a RECOVER clause jumps over it; what follows the SEQEND
\* has the stack of before.
Effect(c, i) ==
    CASE c[i].op \in {"PUSH", "FUNCTION", "SEQBLOCK"} -> 1
      [] c[i].op \in {"POP", "SEQRECOVER"} -> -1
      [] c[i].op \in {"SEQBEGIN", "SEQALWAYS"} -> 2
      [] c[i].op = "ALWAYSEND" \/ (c[i].op = "SEQEND" /\ c[i].to = 1) -> -2
      [] OTHER -> 0
Heights(c) ==
    LET h[i \in 1..Len(c)] == IF i = 1 THEN 0 ELSE h[i - 1] + Effect(c, i - 1)
    IN  h
Height(p) == Heights(code)[p]

\* Where the envelope of the SEQUENCE opened at i is on the stack, and the
\* recover base where these are open.
Place(i) == frame + Height(i) + 2
Base(is) == IF is = {} THEN frame ELSE Place(Innermost(is))

\* The envelopes as the compiler would have them: each in its place, with the
\* handler of its SEQUENCE, chained to the one around it.
EnvelopesAsOpen ==
    /\ Envelopes(stack) = {Place(i) : i \in Open(pc)}
    /\ \A i \in Open(pc) :
          LET envelope == stack[Place(i)]
          IN  /\ envelope.recover = Handler(i, pc)
              /\ envelope.base = Base(Open(i))
              /\ "DOALWAYS" \in envelope.flags <=> code[i].op = "SEQALWAYS"
              /\ "CANRECOVER" \in envelope.flags <=> Open(i) # {}
    /\ recoverBase = Base(Open(pc))

\* The requests that are not served yet: the one in force and those put aside
\* in the envelopes of ALWAYS clauses.
Pending ==
    LET held(i) == IF stack[i].kind = "envelope"
                     THEN stack[i].flags \cup stack[i].request ELSE {}
    IN  RequestNames
          \cap (action \cup UNION {held(i) : i \in (frame + 1)..Len(stack)})

\* Values have the shapes the modules assume; recoverBase is -1 when it was
\* read from an item that is no envelope.
TypeOK ==
    /\ frame \in {0, 2} /\ pc \in 1..Done
    /\ \A i \in 1..Len(stack) : stack[i].kind \in {"value", "block", "envelope"}
    /\ recoverBase \in -1..Len(stack)
    /\ action \in {{}} \cup {{r} : r \in RequestNames}
    /\ requests \in 0..MaxRequests
    /\ owed \subseteq 1..Len(code)
    /\ ret[1] \in {"nil", "return", "other"}

\* The opcodes of SEQUENCE find the envelope of their SEQUENCE on top of the
\* stack, whatever was pushed on it before a request cut it short: what the
\* _HB_RECOVER_DEBUG checks of hvm.c assert.
EnvelopeOnTop ==
    pc # Done /\ code[pc].op \in {"SEQEND", "SEQRECOVER", "ALWAYSBEGIN", "ALWAYSEND"}
        => /\ Len(stack) = recoverBase /\ recoverBase > frame
           /\ Top.kind = "envelope"

\* By whichever way an opcode is reached, in sequence, from SEQEND over the
\* RECOVER clause or by a request, the stack below it is the one it was
\* compiled for, and so is the chain of the envelopes.
FrameAsCompiled ==
    Settled => Len(stack) = frame + Height(pc) /\ EnvelopesAsOpen

\* RECOVER USING finds the value given to BREAK, and a BREAK leaves the
\* function only for a RECOVER of a caller, which finds it too.
BreakDelivered ==
    /\ At("SEQRECOVER") /\ action \subseteq {"BREAK"} => stack[Len(stack) - 1].v[1] = "break"
    /\ Return /\ action = {"BREAK"} => frame # 0 /\ stack[1].v[1] = "break"

\* The ALWAYS clause of a SEQUENCE that was entered begins once: never again
\* after a request made in it, and not never, whatever leaves the SEQUENCE.
AlwaysOnce ==
    /\ At("ALWAYSBEGIN") => pc \in owed
    /\ Return => owed = {}

\* A function gives back the recover base of its caller, and its caller's
\* envelope, however it is left; one that returns normally returns the value of
\* its last RETURN, in spite of the ALWAYS clauses that ran after it.
ReturnClean ==
    Return => /\ recoverBase = frame
              /\ Len(stack) = frame
              /\ frame # 0 => stack[2] = Envelope(0, 0, {})
              /\ action = {} => ret = returned

KeepsQuit == "QUIT" \in Pending => "QUIT" \in Pending'

\* A BREAK pending stays so until a SEQUENCE that is not left by it ends, or a
\* QUIT overtakes it; a RETURN until the function returns or a request does.
KeepsRequests ==
    /\ "BREAK" \in Pending =>
          \/ Pending' \cap {"BREAK", "QUIT"} # {}
          \/ At("SEQEND") \/ At("SEQRECOVER")
    /\ "ENDPROC" \in Pending => Pending' # {} \/ Return'

\* QUIT, once requested, is never dropped: it is in force, or put aside for the
\* end of an ALWAYS clause.
QuitKept == [][KeepsQuit]_frameVars

-----------------------------------------------------------------------------
(* The interpreter that an engine stands for.  SequenceXVM and SequenceLLVM *)
(* carry a request in action while they jump from handler to handler, and  *)
(* have in their code what the interpreter keeps in the envelopes.  A state *)
(* with a request under way stands for the one in which the interpreter has *)
(* cut the stack and reached the handler, or has left the function.        *)
InFlight == action # {} /\ pc # Done

\* The envelope whose handler gets the request, 0 if it leaves the function.
Landing ==
    LET serving == {b \in Envelopes(stack) :
                      action = {"BREAK"} \/ "DOALWAYS" \in stack[b].flags}
    IN  IF serving = {} THEN 0 ELSE Innermost(serving)

\* The stack with each envelope as the interpreter fills it; once its ALWAYS
\* clause has begun, the request put aside is one of the flags.
AsInterpreted(stk) ==
    LET e == Envelopes(stk)
        open == Open(pc)
        opener(b) == CHOOSE i \in open :
           Cardinality({j \in open : j < i}) = Cardinality({k \in e : k < b})
        filled(b) ==
          LET i == opener(b)
              begun == Begun(i, pc)
          IN  [stk[b] EXCEPT
                 !.recover = Handler(i, pc),
                 !.flags = (@ \ {"CANRECOVER"})
                              \cup (IF Open(i) # {} THEN {"CANRECOVER"} ELSE {})
                              \cup (IF begun THEN stk[b].request ELSE {}),
                 !.request = IF begun THEN {} ELSE @]
    IN  [b \in 1..Len(stk) |-> IF b \in e THEN filled(b) ELSE stk[b]]

VMstack ==
    IF ~InFlight THEN AsInterpreted(stack)
    ELSE LET b == Landing
         IN  IF b = 0 THEN Cut(stack, frame)
             ELSE [AsInterpreted(Cut(stack, b)) EXCEPT ![b].request = action]
VMpc ==
    IF ~InFlight THEN pc
    ELSE LET b == Landing
         IN  IF b = 0 THEN Done ELSE AsInterpreted(Cut(stack, b))[b].recover
VMrecoverBase ==
    IF ~InFlight THEN recoverBase
    ELSE LET b == Landing IN IF b = 0 THEN frame ELSE b
VMaction == IF InFlight THEN (IF Landing = 0 THEN action \ {"ENDPROC"} ELSE {})
                        ELSE action
VMcanRecover == Open(VMpc) # {}

=============================================================================
