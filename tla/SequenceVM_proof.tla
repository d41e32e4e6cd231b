-------------------------- MODULE SequenceVM_proof --------------------------
(***************************************************************************)
(* Proofs about SequenceVM, for every choice of statements, clauses and    *)
(* nestings, and all bounds.                                               *)
(*                                                                         *)
(* The compiler. Whatever Statement and Sequence produce is a Part         *)
(* wherever it is placed in a function (Fits): the SEQUENCEs in it have    *)
(* one of three forms, do not overlap, and each has its envelope on the    *)
(* stack for as long as it is open. The heights are a recursive function,  *)
(* so Fits is about any function that satisfies its equation, and a        *)
(* function is found that does.                                            *)
(*                                                                         *)
(* The frame. Framed says that the stack, the recover base and the         *)
(* envelopes are those the next opcode was compiled for. An opcode leaves  *)
(* them so for the opcode behind it, before the end of the loop (FrameAt); *)
(* the end of the loop goes on, lands in a handler, or leaves (Goes), and  *)
(* each of these keeps Framed.                                             *)
(*                                                                         *)
(* The requests. Marked, on top of Framed, says what each envelope has put *)
(* aside, that the value of a BREAK waits in the slot of the SEQUENCE it   *)
(* is meant for, and where the value of the last RETURN is.                *)
(*                                                                         *)
(* Requests kept. An opcode hands on every request that is put aside (Held *)
(* and HandsOn), and what the end of the loop then cuts off with the stack *)
(* has nothing put aside, unless the request is a QUIT, which is stronger  *)
(* than all (SettleHeld).                                                  *)
(***************************************************************************)
EXTENDS SequenceVM, FiniteSetTheorems, SequenceTheorems, TLAPS

-----------------------------------------------------------------------------
(* Naturals.                                                               *)

\* A set of naturals that is not empty has a least element.
LEMMA Least ==
  ASSUME NEW T \in SUBSET Nat, T # {}
  PROVE  \E m \in T : \A n \in T : m <= n
<1> DEFINE Below == {0..n : n \in T}
<1>1. \A n \in T : 0..n \in SUBSET Nat /\ IsFiniteSet(0..n)
  BY FS_Interval
<1>2. Below \subseteq FiniteSubsetsOf(Nat) /\ Below # {}
  BY <1>1 DEF FiniteSubsetsOf
<1>3. PICK B \in Below : \A C \in Below : <<C, B>> \notin StrictSubsetOrdering(Nat)
  BY <1>2, FS_StrictSubsetOrderingWellFounded, WFMin, Zenon
<1>4. PICK m \in T : B = 0..m
  BY <1>3
<1>5. ASSUME NEW n \in T, n < m
      PROVE  FALSE
  <2>1. 0..n \in Below /\ 0..n \subseteq 0..m /\ m \in 0..m /\ m \notin 0..n
    BY <1>5
  <2>2. <<0..n, 0..m>> \in StrictSubsetOrdering(Nat)
    BY <2>1 DEF StrictSubsetOrdering
  <2> QED BY <1>3, <1>4, <2>1, <2>2
<1> QED BY <1>5

\* Induction over the naturals.
LEMMA Induction ==
  ASSUME NEW T, 0 \in T, \A n \in Nat : n \in T => n + 1 \in T
  PROVE  \A n \in Nat : n \in T
<1> SUFFICES ASSUME Nat \ T # {} PROVE FALSE
  OBVIOUS
<1>1. PICK m \in Nat \ T : \A n \in Nat \ T : m <= n
  BY Least
<1>2. m # 0 /\ m - 1 \in Nat /\ m - 1 \in T
  BY <1>1
<1>3. (m - 1) + 1 = m
  BY <1>1
<1> QED BY <1>1, <1>2, <1>3

\* The greatest element of a set of naturals with a bound.
LEMMA Greatest ==
  ASSUME NEW T \in SUBSET Nat, T # {}, NEW n \in Nat, \A m \in T : m <= n
  PROVE  Innermost(T) \in T /\ \A m \in T : m <= Innermost(T)
<1> DEFINE D == {n - m : m \in T}
<1>1. D \in SUBSET Nat /\ D # {}
  <2>1. \A m \in T : n - m \in Nat
    OBVIOUS
  <2> QED BY <2>1
<1>2. PICK d \in D : \A e \in D : d <= e
  BY <1>1, Least
<1>3. PICK g \in T : d = n - g
  BY <1>2
<1>4. \A m \in T : m <= g
  <2> TAKE m \in T
  <2>1. n - m \in D /\ n - g <= n - m
    BY <1>2, <1>3
  <2> QED BY <2>1
<1> QED BY <1>4 DEF Innermost

-----------------------------------------------------------------------------
(* Pcode.                                                                  *)

\* The opcodes, and pcode as a sequence of them.
Ops == {"PUSH", "FUNCTION", "SEQBLOCK", "POP", "SEQBEGIN", "SEQALWAYS", "SEQEND",
        "SEQRECOVER", "ALWAYSBEGIN", "ALWAYSEND", "DO", "NOOP", "RETVALUE", "ENDPROC"}
Pcode == [op : Ops, to : Nat]

\* The end of the body of a SEQUENCE, and the last opcode of the statement.
Stop(c, i) == IF c[First(c, i)].op = "SEQRECOVER" THEN First(c, i) - 1 ELSE First(c, i)
End(c, i) == IF c[First(c, i)].op = "SEQRECOVER"
               THEN Stop(c, i) + c[Stop(c, i)].to - 1 ELSE Last(c, i)

\* The opcode i opens the SEQUENCE that is open at p.
InSeq(c, i, p) == i < p /\ p <= Last(c, i)

\* The three forms of a SEQUENCE.
Shape(c, i) ==
    \/ /\ c[i].op = "SEQALWAYS"
       /\ i < First(c, i) /\ First(c, i) <= Len(c) /\ First(c, i) < Last(c, i)
       /\ c[First(c, i)].op = "ALWAYSBEGIN" /\ c[Last(c, i)].op = "ALWAYSEND"
    \/ /\ c[i].op = "SEQBEGIN"
       /\ i < First(c, i) /\ First(c, i) <= Len(c)
       /\ c[First(c, i)].op = "SEQEND" /\ c[First(c, i)].to = 1
    \/ /\ c[i].op = "SEQBEGIN"
       /\ i < First(c, i) - 1 /\ First(c, i) <= Len(c)
       /\ c[First(c, i)].op = "SEQRECOVER"
       /\ c[First(c, i) - 1].op = "SEQEND" /\ c[First(c, i) - 1].to > 1

\* The height K[p] of the stack at p is the sum of what the opcodes before do.
Sums(c, K) ==
    /\ K \in [1..(Len(c) + 1) -> Int]
    /\ K[1] = 0
    /\ \A p \in 1..Len(c) : K[p + 1] = K[p] + Effect(c, p)

\* The envelope is on the stack as long as the SEQUENCE is open, and on top at
\* its handlers; behind the statement the stack is as it was.
Deep(c, K, i) ==
    /\ \A p \in (i + 1)..Last(c, i) : K[p] >= K[i] + 2
    /\ K[Stop(c, i)] = K[i] + 2
    /\ K[First(c, i)] = K[i] + 2
    /\ K[Last(c, i)] = K[i] + 2
    /\ K[End(c, i) + 1] = K[i]
    /\ c[End(c, i)].op # "RETVALUE"

\* A SEQUENCE that begins at j, after i, is in the body of the one at i, in its
\* ALWAYS clause, in its RECOVER clause, or behind it.
Apart(c, i, j) ==
    \/ End(c, j) < Stop(c, i)
    \/ First(c, i) < j /\ End(c, j) < Last(c, i)
    \/ Last(c, i) < j /\ End(c, j) <= End(c, i)
    \/ End(c, i) < j

\* An opcode of SEQUENCE belongs to one; POP finds something that is no
\* envelope; RETVALUE and ENDPROC go together, and not in the body of a SEQUENCE.
OpFits(c, K, a, b, p) ==
    /\ c[p].op = "SEQEND" =>
          \E i \in SeqOps(c) : a <= i /\ i <= b /\ c[i].op = "SEQBEGIN" /\ Stop(c, i) = p
    /\ c[p].op = "SEQRECOVER" =>
          \E i \in SeqOps(c) : a <= i /\ i <= b /\ c[i].op = "SEQBEGIN" /\ First(c, i) = p
    /\ c[p].op = "ALWAYSBEGIN" =>
          \E i \in SeqOps(c) : a <= i /\ i <= b /\ c[i].op = "SEQALWAYS" /\ First(c, i) = p
    /\ c[p].op = "ALWAYSEND" =>
          \E i \in SeqOps(c) : a <= i /\ i <= b /\ c[i].op = "SEQALWAYS" /\ Last(c, i) = p
    /\ c[p].op = "POP" =>
          /\ K[p] >= K[a] + 1
          /\ \A i \in SeqOps(c) : a <= i /\ i <= b /\ InSeq(c, i, p) => K[p] >= K[i] + 3
    /\ c[p].op = "RETVALUE" => p < b /\ c[p + 1].op = "ENDPROC"
    /\ c[p].op = "ENDPROC" => a < p /\ c[p - 1].op = "RETVALUE"
    /\ c[p].op \in {"RETVALUE", "ENDPROC"} =>
          \A i \in SeqOps(c) : a <= i /\ i <= b /\ InSeq(c, i, p) => c[i].op = "SEQALWAYS"

\* The opcodes from a to b are a statement, or several, or none.
Part(c, K, a, b) ==
    /\ a \in Nat /\ b \in Nat /\ 1 <= a /\ a <= b + 1 /\ b <= Len(c)
    /\ K[b + 1] = K[a]
    /\ \A p \in a..b : K[p] >= K[a]
    /\ \A i \in SeqOps(c) : a <= i /\ i <= b => Shape(c, i) /\ End(c, i) <= b /\ Deep(c, K, i)
    /\ \A i, j \in SeqOps(c) : a <= i /\ i < j /\ j <= b => Apart(c, i, j)
    /\ \A p \in a..b : OpFits(c, K, a, b, p)

\* Code that does not leave the function by itself.
NoReturn(c, a, b) == \A p \in a..b : c[p].op \notin {"RETVALUE", "ENDPROC"}

\* The opcodes of a SEQUENCE in their order.
LEMMA ShapeFacts ==
  ASSUME NEW c \in Seq(Pcode), NEW i \in SeqOps(c), Shape(c, i)
  PROVE  /\ i \in Nat /\ Stop(c, i) \in Nat /\ First(c, i) \in Nat
         /\ Last(c, i) \in Nat /\ End(c, i) \in Nat
         /\ 1 <= i /\ i < Stop(c, i) /\ Stop(c, i) <= First(c, i)
         /\ First(c, i) <= Last(c, i) /\ Last(c, i) <= End(c, i)
<1>1. /\ Len(c) \in Nat /\ i \in 1..Len(c) /\ i \in Nat /\ 1 <= i
      /\ \A p \in 1..Len(c) : c[p] \in Pcode /\ c[p].to \in Nat
  <2>1. \A p \in 1..Len(c) : c[p] \in Pcode
    BY ElementOfSeq
  <2> QED BY <2>1, LenProperties DEF SeqOps, Pcode
<1>2. First(c, i) \in Nat
  BY <1>1 DEF First
<1>3. CASE /\ c[i].op = "SEQALWAYS"
           /\ i < First(c, i) /\ First(c, i) <= Len(c) /\ First(c, i) < Last(c, i)
           /\ c[First(c, i)].op = "ALWAYSBEGIN" /\ c[Last(c, i)].op = "ALWAYSEND"
  <2>1. Last(c, i) = First(c, i) + c[First(c, i)].to /\ Stop(c, i) = First(c, i) /\ End(c, i) = Last(c, i)
    <3>1. Last(c, i) = First(c, First(c, i))
      BY <1>3 DEF Last
    <3>2. First(c, First(c, i)) = First(c, i) + c[First(c, i)].to
      BY DEF First
    <3> QED BY <1>3, <3>1, <3>2 DEF Stop, End
  <2>2. c[First(c, i)].to \in Nat
    BY <1>1, <1>2, <1>3
  <2> QED BY <1>1, <1>2, <1>3, <2>1, <2>2
<1>4. CASE /\ c[i].op = "SEQBEGIN"
           /\ i < First(c, i) /\ First(c, i) <= Len(c)
           /\ c[First(c, i)].op = "SEQEND" /\ c[First(c, i)].to = 1
  BY <1>1, <1>2, <1>4 DEF Last, Stop, End
<1>5. CASE /\ c[i].op = "SEQBEGIN"
           /\ i < First(c, i) - 1 /\ First(c, i) <= Len(c)
           /\ c[First(c, i)].op = "SEQRECOVER"
           /\ c[First(c, i) - 1].op = "SEQEND" /\ c[First(c, i) - 1].to > 1
  <2>1. Last(c, i) = First(c, i) /\ Stop(c, i) = First(c, i) - 1
        /\ End(c, i) = Stop(c, i) + c[Stop(c, i)].to - 1
    BY <1>5 DEF Last, Stop, End
  <2>2. First(c, i) - 1 \in 1..Len(c)
    BY <1>1, <1>2, <1>5
  <2>3. c[First(c, i) - 1].to \in Nat
    BY <1>1, <2>2
  <2> QED BY <1>1, <1>2, <1>5, <2>1, <2>2, <2>3
<1> QED BY <1>3, <1>4, <1>5 DEF Shape

\* What each opcode does to the height of the stack.
LEMMA Effects ==
  ASSUME NEW c, NEW p
  PROVE  /\ c[p].op \in {"PUSH", "FUNCTION", "SEQBLOCK"} => Effect(c, p) = 1
         /\ c[p].op \in {"POP", "SEQRECOVER"} => Effect(c, p) = -1
         /\ c[p].op \in {"SEQBEGIN", "SEQALWAYS"} => Effect(c, p) = 2
         /\ c[p].op = "ALWAYSEND" => Effect(c, p) = -2
         /\ c[p].op = "SEQEND" /\ c[p].to = 1 => Effect(c, p) = -2
         /\ c[p].op = "SEQEND" /\ c[p].to # 1 => Effect(c, p) = 0
         /\ c[p].op \in {"DO", "NOOP", "RETVALUE", "ENDPROC", "ALWAYSBEGIN"} => Effect(c, p) = 0
BY DEF Effect

\* Heights that sum up the effects are integers, one opcode at a time.
LEMMA SumStep ==
  ASSUME NEW c \in Seq(Pcode), NEW K, Sums(c, K), NEW p \in Nat, 1 <= p, p <= Len(c)
  PROVE  K[p] \in Int /\ K[p + 1] \in Int /\ K[p + 1] = K[p] + Effect(c, p)
<1>1. Len(c) \in Nat
  BY LenProperties
<1>2. p \in 1..Len(c) /\ p \in 1..(Len(c) + 1) /\ p + 1 \in 1..(Len(c) + 1)
  BY <1>1
<1> QED BY <1>2 DEF Sums

\* They are integers everywhere.
LEMMA SumInt ==
  ASSUME NEW c \in Seq(Pcode), NEW K, Sums(c, K)
  PROVE  \A p \in 1..Len(c) : K[p] \in Int
<1>1. Len(c) \in Nat
  BY LenProperties
<1>2. \A p \in 1..Len(c) : p \in 1..(Len(c) + 1)
  BY <1>1
<1> QED BY <1>2 DEF Sums

\* What fits in a part fits in a larger one.
LEMMA Within ==
  ASSUME NEW c \in Seq(Pcode), NEW K, Sums(c, K),
         NEW a \in Nat, NEW b \in Nat, NEW d \in Nat, NEW e \in Nat,
         1 <= a, b <= Len(c), a <= d, e <= b, Part(c, K, d, e), K[a] <= K[d],
         NEW p \in d..e,
         \A i \in SeqOps(c) : a <= i /\ i <= b /\ ~(d <= i /\ i <= e) /\ InSeq(c, i, p) =>
            K[d] >= K[i] + 2 /\ (NoReturn(c, d, e) \/ c[i].op = "SEQALWAYS")
  PROVE  OpFits(c, K, a, b, p)
<1>1. /\ Len(c) \in Nat
      /\ \A i \in SeqOps(c) : i \in 1..Len(c)
      /\ \A q \in 1..(Len(c) + 1) : K[q] \in Int
  BY LenProperties DEF SeqOps, Sums
<1>2. OpFits(c, K, d, e, p)
  BY DEF Part
<1>3. p \in 1..Len(c) /\ p \in d..e /\ K[p] \in Int /\ K[d] \in Int /\ K[a] \in Int
  BY <1>1
<1>4. \A i \in SeqOps(c) : d <= i /\ i <= e => a <= i /\ i <= b
  BY <1>1
<1>5. c[p].op = "POP" =>
          /\ K[p] >= K[a] + 1
          /\ \A i \in SeqOps(c) : a <= i /\ i <= b /\ InSeq(c, i, p) => K[p] >= K[i] + 3
  <2> SUFFICES ASSUME c[p].op = "POP" PROVE
          /\ K[p] >= K[a] + 1
          /\ \A i \in SeqOps(c) : a <= i /\ i <= b /\ InSeq(c, i, p) => K[p] >= K[i] + 3
    OBVIOUS
  <2>1. K[p] >= K[d] + 1
    BY <1>2 DEF OpFits
  <2>2. ASSUME NEW i \in SeqOps(c), a <= i, i <= b, InSeq(c, i, p)
        PROVE  K[p] >= K[i] + 3
    <3>1. CASE d <= i /\ i <= e
      BY <1>2, <2>2, <3>1 DEF OpFits
    <3>2. CASE ~(d <= i /\ i <= e)
      <4>1. K[d] >= K[i] + 2
        BY <2>2, <3>2
      <4>2. K[i] \in Int
        BY <1>1
      <4> QED BY <1>3, <2>1, <4>1, <4>2, SMTT(30)
    <3> QED BY <3>1, <3>2
  <2> QED BY <1>3, <2>1, <2>2
<1>6. c[p].op \in {"RETVALUE", "ENDPROC"} =>
          \A i \in SeqOps(c) : a <= i /\ i <= b /\ InSeq(c, i, p) => c[i].op = "SEQALWAYS"
  <2> SUFFICES ASSUME c[p].op \in {"RETVALUE", "ENDPROC"},
                      NEW i \in SeqOps(c), a <= i, i <= b, InSeq(c, i, p)
               PROVE  c[i].op = "SEQALWAYS"
    OBVIOUS
  <2>1. ~NoReturn(c, d, e)
    BY DEF NoReturn
  <2>2. CASE d <= i /\ i <= e
    BY <1>2, <2>2 DEF OpFits
  <2>3. CASE ~(d <= i /\ i <= e)
    BY <2>1, <2>3
  <2> QED BY <2>2, <2>3
<1>7. /\ c[p].op = "RETVALUE" => p < b /\ c[p + 1].op = "ENDPROC"
      /\ c[p].op = "ENDPROC" => a < p /\ c[p - 1].op = "RETVALUE"
  BY <1>2, <1>3 DEF OpFits
<1>8. /\ c[p].op = "SEQEND" =>
          \E i \in SeqOps(c) : a <= i /\ i <= b /\ c[i].op = "SEQBEGIN" /\ Stop(c, i) = p
      /\ c[p].op = "SEQRECOVER" =>
          \E i \in SeqOps(c) : a <= i /\ i <= b /\ c[i].op = "SEQBEGIN" /\ First(c, i) = p
      /\ c[p].op = "ALWAYSBEGIN" =>
          \E i \in SeqOps(c) : a <= i /\ i <= b /\ c[i].op = "SEQALWAYS" /\ First(c, i) = p
      /\ c[p].op = "ALWAYSEND" =>
          \E i \in SeqOps(c) : a <= i /\ i <= b /\ c[i].op = "SEQALWAYS" /\ Last(c, i) = p
  BY <1>2, <1>4 DEF OpFits
<1> QED BY <1>5, <1>6, <1>7, <1>8 DEF OpFits

\* One part after another.
LEMMA Joined ==
  ASSUME NEW c \in Seq(Pcode), NEW K, Sums(c, K),
         NEW a, NEW m, NEW b, Part(c, K, a, m), Part(c, K, m + 1, b)
  PROVE  Part(c, K, a, b)
<1>1. /\ Len(c) \in Nat
      /\ \A i \in SeqOps(c) : i \in 1..Len(c)
      /\ \A q \in 1..(Len(c) + 1) : K[q] \in Int
  BY LenProperties DEF SeqOps, Sums
<1>2. /\ a \in Nat /\ m \in Nat /\ b \in Nat /\ 1 <= a /\ a <= m + 1 /\ m <= b /\ b <= Len(c)
      /\ K[m + 1] = K[a] /\ K[b + 1] = K[a]
  BY DEF Part
<1>3. \A p \in a..b : K[p] >= K[a]
  <2> TAKE p \in a..b
  <2>1. p \in a..m \/ p \in (m + 1)..b
    BY <1>2
  <2> QED BY <1>2, <2>1 DEF Part
<1>4. \A i \in SeqOps(c) : a <= i /\ i <= b => (a <= i /\ i <= m) \/ (m + 1 <= i /\ i <= b)
  BY <1>1, <1>2
<1>5. \A i \in SeqOps(c) :
         /\ a <= i /\ i <= m => Shape(c, i) /\ End(c, i) <= m /\ Deep(c, K, i)
         /\ m + 1 <= i /\ i <= b => Shape(c, i) /\ End(c, i) <= b /\ Deep(c, K, i)
  BY DEF Part
<1>6. \A i \in SeqOps(c) : a <= i /\ i <= m =>
         End(c, i) \in Nat /\ End(c, i) <= Len(c) /\ Last(c, i) \in Nat /\ Last(c, i) <= m
  <2> TAKE i \in SeqOps(c)
  <2> HAVE a <= i /\ i <= m
  <2>1. Shape(c, i) /\ End(c, i) <= m
    BY <1>5
  <2> QED BY <1>1, <1>2, <2>1, ShapeFacts
<1>7. \A i \in SeqOps(c) : a <= i /\ i <= b => Shape(c, i) /\ End(c, i) <= b /\ Deep(c, K, i)
  <2> TAKE i \in SeqOps(c)
  <2> HAVE a <= i /\ i <= b
  <2>1. CASE a <= i /\ i <= m
    BY <1>2, <1>5, <1>6, <2>1
  <2>2. CASE m + 1 <= i /\ i <= b
    BY <1>5, <2>2
  <2> QED BY <1>4, <2>1, <2>2
<1>8. \A i, j \in SeqOps(c) : a <= i /\ i < j /\ j <= b => Apart(c, i, j)
  <2> TAKE i, j \in SeqOps(c)
  <2> HAVE a <= i /\ i < j /\ j <= b
  <2>1. CASE j <= m
    BY <1>1, <2>1 DEF Part
  <2>2. CASE m + 1 <= i
    BY <1>1, <2>2 DEF Part
  <2>3. CASE i <= m /\ m + 1 <= j
    <3>1. End(c, i) < j
      BY <1>1, <1>2, <1>5, <1>6, <2>3
    <3> QED BY <3>1 DEF Apart
  <2> QED BY <1>1, <1>2, <2>1, <2>2, <2>3
<1>9. \A p \in a..b : OpFits(c, K, a, b, p)
  <2> TAKE p \in a..b
  <2>1. CASE p \in a..m
    <3>1. \A i \in SeqOps(c) : a <= i /\ i <= b /\ ~(a <= i /\ i <= m) => ~InSeq(c, i, p)
      BY <1>1, <1>2, <2>1 DEF InSeq
    <3> QED BY <1>1, <1>2, <2>1, <3>1, Within
  <2>2. CASE p \in (m + 1)..b
    <3>1. \A i \in SeqOps(c) : a <= i /\ i <= b /\ ~(m + 1 <= i /\ i <= b) => ~InSeq(c, i, p)
      BY <1>1, <1>2, <1>4, <1>6, <2>2 DEF InSeq
    <3>2. m + 1 \in Nat /\ a <= m + 1 /\ b <= b /\ K[a] <= K[m + 1]
      <4>1. a \in 1..(Len(c) + 1)
        BY <1>1, <1>2
      <4>2. K[a] \in Int
        BY <1>1, <4>1
      <4> QED BY <1>2, <4>2
    <3> QED BY <1>2, <2>2, <3>1, <3>2, Within
  <2> QED BY <1>2, <2>1, <2>2
<1> QED BY <1>2, <1>3, <1>7, <1>8, <1>9 DEF Part

\* A SEQUENCE around its body and one other clause.
LEMMA Wrapped ==
  ASSUME NEW c \in Seq(Pcode), NEW K, Sums(c, K),
         NEW a \in SeqOps(c), Shape(c, a), Deep(c, K, a), End(c, a) <= Len(c),
         Part(c, K, a + 1, Stop(c, a) - 1),
         c[a].op = "SEQBEGIN" => NoReturn(c, a + 1, Stop(c, a) - 1),
         NEW d, NEW e, Part(c, K, d, e), First(c, a) < d, e <= End(c, a),
         \/ Last(c, a) < d /\ K[d] >= K[a]
         \/ c[a].op = "SEQALWAYS" /\ d <= Last(c, a) /\ e < Last(c, a),
         \A p \in a..End(c, a) :
            \/ p \in {a, Stop(c, a), First(c, a), Last(c, a)}
            \/ p \in (a + 1)..(Stop(c, a) - 1)
            \/ p \in d..e
            \/ Last(c, a) < p /\ c[p].op = "POP" /\ K[p] >= K[a] + 1
  PROVE  Part(c, K, a, End(c, a))
<1> DEFINE x == Stop(c, a)
           f == First(c, a)
           l == Last(c, a)
           b == End(c, a)
<1>1. /\ Len(c) \in Nat
      /\ \A i \in SeqOps(c) : i \in 1..Len(c) /\ c[i].op \in {"SEQBEGIN", "SEQALWAYS"}
      /\ \A q \in 1..(Len(c) + 1) : K[q] \in Int
  BY LenProperties DEF SeqOps, Sums
<1>2. /\ a \in Nat /\ x \in Nat /\ f \in Nat /\ l \in Nat /\ b \in Nat
      /\ 1 <= a /\ a < x /\ x <= f /\ f <= l /\ l <= b /\ b <= Len(c)
  BY ShapeFacts
<1>3. /\ d \in Nat /\ e \in Nat /\ 1 <= d /\ d <= e + 1 /\ e <= Len(c) /\ f < d /\ e <= b
      /\ x - 1 \in Nat /\ a + 1 \in Nat
  BY <1>2 DEF Part
<1>4. /\ K[a] \in Int /\ K[d] \in Int /\ K[a + 1] \in Int
      /\ K[a + 1] >= K[a] + 2
      /\ K[d] >= K[a] /\ (d <= l => K[d] >= K[a] + 2)
      /\ K[x] = K[a] + 2 /\ K[f] = K[a] + 2 /\ K[l] = K[a] + 2 /\ K[b + 1] = K[a]
  <2>1. K[a] \in Int /\ K[d] \in Int /\ K[a + 1] \in Int
    BY <1>1, <1>2, <1>3
  <2>2. a + 1 \in (a + 1)..l
    BY <1>2
  <2>3. d <= l => d \in (a + 1)..l
    BY <1>2, <1>3
  <2>4. \A p \in (a + 1)..l : K[p] >= K[a] + 2
    BY DEF Deep
  <2>5. K[x] = K[a] + 2 /\ K[f] = K[a] + 2 /\ K[l] = K[a] + 2 /\ K[b + 1] = K[a]
    BY DEF Deep
  <2>6. (l < d /\ K[d] >= K[a]) \/ d <= l
    OBVIOUS
  <2> HIDE DEF l
  <2>7. K[d] >= K[a]
    BY <2>1, <2>3, <2>4, <2>6
  <2> QED BY <2>1, <2>2, <2>3, <2>4, <2>5, <2>7
<1>5. /\ c[x].op \in {"SEQEND", "ALWAYSBEGIN"}
      /\ c[f].op \in {"SEQEND", "SEQRECOVER", "ALWAYSBEGIN"}
      /\ c[l].op \in {"SEQEND", "SEQRECOVER", "ALWAYSEND"}
      /\ c[x].op = "SEQEND" => c[a].op = "SEQBEGIN"
      /\ c[f].op \in {"SEQEND", "SEQRECOVER"} => c[a].op = "SEQBEGIN"
      /\ c[f].op = "SEQEND" => x = f
      /\ c[l].op = "SEQEND" => x = l
      /\ c[l].op = "SEQRECOVER" => f = l
      /\ c[x].op = "ALWAYSBEGIN" => c[a].op = "SEQALWAYS" /\ f = x
      /\ c[f].op = "ALWAYSBEGIN" => c[a].op = "SEQALWAYS"
      /\ c[l].op = "ALWAYSEND" => c[a].op = "SEQALWAYS"
      /\ c[l].op \in {"SEQEND", "SEQRECOVER"} => c[a].op = "SEQBEGIN"
  BY <1>2 DEF Shape, Stop, Last
<1> HIDE DEF x, f, l, b
<1>6. \A i \in SeqOps(c) : a <= i /\ i <= b =>
         i = a \/ (a + 1 <= i /\ i <= x - 1) \/ (d <= i /\ i <= e)
  <2> TAKE i \in SeqOps(c)
  <2> HAVE a <= i /\ i <= b
  <2>1. i \in a..b /\ i \in Int
    <3>1. i \in 1..Len(c)
      BY <1>1
    <3> QED BY <1>1, <1>2, <3>1
  <2>2. i \notin {x, f, l} /\ c[i].op # "POP"
    BY <1>1, <1>5
  <2> QED BY <1>2, <1>3, <2>1, <2>2, SMTT(30) DEF x, f, l, b
<1>7. \A i \in SeqOps(c) :
         /\ a + 1 <= i /\ i <= x - 1 => Shape(c, i) /\ End(c, i) <= x - 1 /\ Deep(c, K, i)
         /\ d <= i /\ i <= e => Shape(c, i) /\ End(c, i) <= e /\ Deep(c, K, i)
  BY DEF Part, x
<1>8. \A i \in SeqOps(c) : a <= i /\ i <= b =>
         /\ i \in Nat /\ End(c, i) \in Nat /\ Last(c, i) \in Nat /\ Last(c, i) <= End(c, i)
         /\ Shape(c, i) /\ End(c, i) <= b /\ Deep(c, K, i)
  <2> TAKE i \in SeqOps(c)
  <2> HAVE a <= i /\ i <= b
  <2>1. Shape(c, i) /\ Deep(c, K, i)
    BY <1>6, <1>7
  <2>2. /\ i \in Nat /\ End(c, i) \in Nat /\ Last(c, i) \in Nat /\ Last(c, i) <= End(c, i)
    BY <2>1, ShapeFacts
  <2>3. End(c, i) <= b
    <3>1. CASE i = a
      BY <1>2, <3>1 DEF b
    <3>2. CASE a + 1 <= i /\ i <= x - 1
      BY <1>2, <1>7, <2>2, <3>2
    <3>3. CASE d <= i /\ i <= e
      BY <1>2, <1>3, <1>7, <2>2, <3>3
    <3> QED BY <1>6, <3>1, <3>2, <3>3
  <2> QED BY <2>1, <2>2, <2>3
<1>9. \A p \in a..b : K[p] >= K[a]
  <2> TAKE p \in a..b
  <2>1. CASE p \in {a, x, f, l}
    BY <1>4, <2>1
  <2>2. CASE p \in (a + 1)..(x - 1)
    <3>1. K[p] >= K[a + 1]
      BY <2>2 DEF Part, x
    <3>2. K[p] \in Int
      BY <1>1, <1>2
    <3> QED BY <1>4, <3>1, <3>2
  <2>3. CASE p \in d..e
    <3>1. K[p] >= K[d]
      BY <2>3 DEF Part
    <3>2. K[p] \in Int
      BY <1>1, <1>2
    <3> QED BY <1>4, <3>1, <3>2
  <2>4. CASE K[p] >= K[a] + 1
    <3>1. K[p] \in Int
      BY <1>1, <1>2
    <3> QED BY <1>4, <2>4, <3>1
  <2> QED BY <2>1, <2>2, <2>3, <2>4 DEF x, f, l, b
<1>10. \A i, j \in SeqOps(c) : a <= i /\ i < j /\ j <= b => Apart(c, i, j)
  <2> TAKE i, j \in SeqOps(c)
  <2> HAVE a <= i /\ i < j /\ j <= b
  <2>0. i <= b /\ a <= j /\ i \in Nat /\ j \in Nat /\ End(c, i) \in Nat /\ End(c, j) \in Nat
    BY <1>1, <1>2, <1>8
  <2>1. CASE i = a /\ a + 1 <= j /\ j <= x - 1
    <3>1. End(c, j) < x
      BY <1>2, <1>7, <2>0, <2>1
    <3> QED BY <2>1, <3>1 DEF Apart, x
  <2>2. CASE i = a /\ d <= j /\ j <= e
    <3>1. End(c, j) <= e /\ End(c, j) <= b
      BY <1>3, <1>7, <1>8, <2>0, <2>2
    <3>2. CASE l < d
      <4>1. l < j
        BY <1>2, <1>3, <2>0, <2>2, <3>2
      <4> QED BY <2>2, <3>1, <4>1 DEF Apart, l, b
    <3>3. CASE e < l
      <4>1. f < j /\ End(c, j) < l
        BY <1>2, <1>3, <2>0, <2>2, <3>1, <3>3
      <4> QED BY <2>2, <4>1 DEF Apart, f, l
    <3> QED BY <3>2, <3>3 DEF l
  <2>3. CASE a + 1 <= i /\ j <= x - 1
    BY <2>3 DEF Part, x
  <2>4. CASE a + 1 <= i /\ i <= x - 1 /\ d <= j
    <3>1. End(c, i) < j
      BY <1>2, <1>3, <1>7, <2>0, <2>4
    <3> QED BY <3>1 DEF Apart
  <2>5. CASE d <= i /\ j <= e
    BY <2>5 DEF Part
  <2>6. \/ i = a \/ (a + 1 <= i /\ i <= x - 1) \/ (d <= i /\ i <= e)
    BY <1>6, <2>0
  <2>7. \/ j = a \/ (a + 1 <= j /\ j <= x - 1) \/ (d <= j /\ j <= e)
    BY <1>6, <2>0
  <2> QED BY <1>2, <1>3, <2>0, <2>1, <2>2, <2>3, <2>4, <2>5, <2>6, <2>7
<1>11. \A p \in a..b : OpFits(c, K, a, b, p)
  <2> TAKE p \in a..b
  <2>0. p \in Nat /\ a <= p /\ p <= b
    BY <1>2
  <2>1. CASE p = a
    BY <1>1, <2>1 DEF OpFits
  <2>2. CASE p \in {x, f, l}
    <3>1. a <= a /\ a <= b
      BY <1>2
    <3>2. /\ c[p].op \in {"SEQEND", "SEQRECOVER", "ALWAYSBEGIN", "ALWAYSEND"}
          /\ c[p].op = "SEQEND" => c[a].op = "SEQBEGIN" /\ x = p
          /\ c[p].op = "SEQRECOVER" => c[a].op = "SEQBEGIN" /\ f = p
          /\ c[p].op = "ALWAYSBEGIN" => c[a].op = "SEQALWAYS" /\ f = p
          /\ c[p].op = "ALWAYSEND" => c[a].op = "SEQALWAYS" /\ l = p
      BY <1>5, <2>2
    <3> QED BY <3>1, <3>2 DEF OpFits, x, f, l
  <2>3. CASE p \in (a + 1)..(x - 1)
    <3>1. ASSUME NEW i \in SeqOps(c), a <= i, i <= b, ~(a + 1 <= i /\ i <= x - 1), InSeq(c, i, p)
          PROVE  K[a + 1] >= K[i] + 2 /\ (NoReturn(c, a + 1, x - 1) \/ c[i].op = "SEQALWAYS")
      <4>1. i = a
        BY <1>1, <1>2, <1>3, <1>6, <2>3, <3>1 DEF InSeq
      <4> QED BY <1>1, <1>4, <4>1 DEF x
    <3>2. Part(c, K, a + 1, x - 1) /\ a <= a + 1 /\ x - 1 <= b /\ K[a] <= K[a + 1]
      BY <1>2, <1>4, SMTT(30) DEF x
    <3> QED BY <1>2, <1>3, <2>3, <3>1, <3>2, Within
  <2>4. CASE p \in d..e
    <3>1. ASSUME NEW i \in SeqOps(c), a <= i, i <= b, ~(d <= i /\ i <= e), InSeq(c, i, p)
          PROVE  K[d] >= K[i] + 2 /\ (NoReturn(c, d, e) \/ c[i].op = "SEQALWAYS")
      <4>1. i = a
        <5>1. CASE a + 1 <= i /\ i <= x - 1
          BY <1>2, <1>3, <1>7, <1>8, <2>4, <3>1, <5>1 DEF InSeq
        <5> QED BY <1>6, <3>1, <5>1
      <4>2. p <= l
        BY <3>1, <4>1 DEF InSeq, l
      <4>3. ~(l < d)
        BY <1>2, <1>3, <2>4, <4>2
      <4> QED BY <1>4, <4>1, <4>3 DEF l
    <3>2. a <= d /\ e <= b /\ K[a] <= K[d]
      BY <1>2, <1>3, <1>4
    <3> QED BY <1>2, <1>3, <2>4, <3>1, <3>2, Within
  <2>5. CASE p \notin d..e /\ l < p /\ c[p].op = "POP" /\ K[p] >= K[a] + 1
    <3>1. ASSUME NEW i \in SeqOps(c), a <= i, i <= b
          PROVE  ~InSeq(c, i, p)
      <4>1. CASE i = a
        BY <1>2, <2>0, <2>5, <4>1 DEF InSeq, l
      <4>2. CASE a + 1 <= i /\ i <= x - 1
        BY <1>2, <1>7, <1>8, <2>0, <2>5, <3>1, <4>2 DEF InSeq
      <4>3. CASE d <= i /\ i <= e
        BY <1>2, <1>3, <1>7, <1>8, <2>0, <2>5, <3>1, <4>3 DEF InSeq
      <4> QED BY <1>6, <3>1, <4>1, <4>2, <4>3
    <3> QED BY <2>5, <3>1 DEF OpFits
  <2> QED BY <2>1, <2>2, <2>3, <2>4, <2>5 DEF x, f, l, b
<1> QED
  <2>1. a <= b + 1
    BY <1>2
  <2> QED BY <1>2, <1>4, <1>8, <1>9, <1>10, <1>11, <2>1 DEF Part, b

\* No opcodes are a part.
LEMMA EmptyPart ==
  ASSUME NEW c \in Seq(Pcode), NEW K, Sums(c, K), NEW a \in 1..(Len(c) + 1)
  PROVE  Part(c, K, a, a - 1)
<1>1. Len(c) \in Nat
  BY LenProperties
<1>2. a \in Nat /\ a - 1 \in Nat /\ 1 <= a /\ a <= (a - 1) + 1 /\ a - 1 <= Len(c) /\ K[(a - 1) + 1] = K[a]
  BY <1>1
<1>3. \A i \in Nat : ~(a <= i /\ i <= a - 1)
  BY <1>1
<1>4. a..(a - 1) = {} /\ \A i \in SeqOps(c) : i \in Nat
  BY <1>1 DEF SeqOps
<1>5. \A i, j \in SeqOps(c) : ~(a <= i /\ i < j /\ j <= a - 1)
  BY <1>2, <1>4
<1> QED BY <1>2, <1>3, <1>4, <1>5 DEF Part

\* Opcodes that have no part in SEQUENCE, with what they do to the stack.
LEMMA PlainPart ==
  ASSUME NEW c \in Seq(Pcode), NEW K, Sums(c, K), NEW a \in Nat, NEW b \in Nat,
         1 <= a, a <= b, b <= Len(c), K[b + 1] = K[a],
         \A p \in a..b : K[p] >= K[a],
         \A p \in a..b :
            \/ c[p].op \in {"DO", "NOOP", "PUSH", "FUNCTION"}
            \/ c[p].op = "POP" /\ K[p] >= K[a] + 1
            \/ c[p].op = "RETVALUE" /\ p < b /\ c[p + 1].op = "ENDPROC"
            \/ c[p].op = "ENDPROC" /\ a < p /\ c[p - 1].op = "RETVALUE"
  PROVE  Part(c, K, a, b)
<1>1. \A i \in SeqOps(c) : i \in Nat /\ c[i].op \in {"SEQBEGIN", "SEQALWAYS"}
  BY DEF SeqOps
<1>2. \A i \in SeqOps(c) : ~(a <= i /\ i <= b)
  <2> TAKE i \in SeqOps(c)
  <2>1. i \notin a..b
    BY <1>1
  <2> QED BY <1>1, <2>1
<1>3. \A i, j \in SeqOps(c) : ~(a <= i /\ i < j /\ j <= b)
  BY <1>1, <1>2
<1>4. \A p \in a..b : OpFits(c, K, a, b, p)
  BY <1>2 DEF OpFits
<1>5. a <= b + 1
  OBVIOUS
<1> QED BY <1>2, <1>3, <1>4, <1>5 DEF Part

\* So is a call or an assignment,
LEMMA CallPart ==
  ASSUME NEW c \in Seq(Pcode), NEW K, Sums(c, K), NEW a \in 1..Len(c),
         c[a].op \in {"DO", "NOOP"}
  PROVE  Part(c, K, a, a)
<1>1. Len(c) \in Nat /\ a \in Nat /\ a..a = {a}
  BY LenProperties
<1>2. K[a] \in Int /\ K[a + 1] = K[a]
  <2>1. Effect(c, a) = 0
    BY Effects
  <2> QED BY <1>1, <2>1, SumStep
<1>3. K[a] >= K[a]
  BY <1>2
<1> QED BY <1>1, <1>2, <1>3, PlainPart

\* a call with an operand pending,
LEMMA OperandPart ==
  ASSUME NEW c \in Seq(Pcode), NEW K, Sums(c, K), NEW a \in Nat, 1 <= a, a + 3 <= Len(c),
         c[a].op = "PUSH", c[a + 1].op = "FUNCTION", c[a + 2].op = "POP", c[a + 3].op = "POP"
  PROVE  Part(c, K, a, a + 3)
<1>1. Len(c) \in Nat /\ a..(a + 3) = {a, a + 1, a + 2, a + 3}
  BY LenProperties
<1>0. /\ Effect(c, a) = 1 /\ Effect(c, a + 1) = 1
      /\ Effect(c, a + 2) = -1 /\ Effect(c, a + 3) = -1
  BY Effects
<1>6. /\ (a + 1) + 1 = a + 2 /\ (a + 2) + 1 = a + 3
      /\ a + 1 \in Nat /\ a + 2 \in Nat /\ a + 3 \in Nat /\ a <= a + 3
      /\ 1 <= a + 1 /\ 1 <= a + 2 /\ 1 <= a + 3
      /\ a <= Len(c) /\ a + 1 <= Len(c) /\ a + 2 <= Len(c)
  BY <1>1
<1>2. K[a] \in Int /\ K[a + 1] = K[a] + 1
  BY <1>0, <1>6, SumStep
<1>3. K[(a + 1) + 1] = K[a + 1] + 1
  BY <1>0, <1>6, SumStep
<1>4. K[(a + 2) + 1] = K[a + 2] - 1
  BY <1>0, <1>6, SumStep
<1>5. K[(a + 3) + 1] = K[a + 3] - 1
  BY <1>0, <1>6, SumStep
<1>7. /\ K[a + 1] = K[a] + 1 /\ K[a + 2] = K[a] + 2 /\ K[a + 3] = K[a] + 1
      /\ K[(a + 3) + 1] = K[a]
  BY <1>2, <1>3, <1>4, <1>5, <1>6
<1>8. \A p \in a..(a + 3) : K[p] >= K[a]
  <2>1. K[a] >= K[a] /\ K[a + 1] >= K[a] /\ K[a + 2] >= K[a] /\ K[a + 3] >= K[a]
    BY <1>2, <1>7
  <2> QED BY <1>1, <2>1
<1>9. \A p \in a..(a + 3) :
            \/ c[p].op \in {"DO", "NOOP", "PUSH", "FUNCTION"}
            \/ c[p].op = "POP" /\ K[p] >= K[a] + 1
  BY <1>1, <1>2, <1>7, SMTT(30)
<1> QED BY <1>6, <1>7, <1>8, <1>9, PlainPart

\* and a RETURN.
LEMMA ReturnPart ==
  ASSUME NEW c \in Seq(Pcode), NEW K, Sums(c, K), NEW a \in Nat, 1 <= a, a + 1 <= Len(c),
         c[a].op = "RETVALUE", c[a + 1].op = "ENDPROC"
  PROVE  Part(c, K, a, a + 1)
<1>1. Len(c) \in Nat /\ a..(a + 1) = {a, a + 1}
  BY LenProperties
<1>0. Effect(c, a) = 0 /\ Effect(c, a + 1) = 0 /\ a + 1 \in Nat /\ a <= Len(c) /\ 1 <= a + 1
  BY <1>1, Effects
<1>2. K[a] \in Int /\ K[a + 1] = K[a]
  BY <1>0, SumStep
<1>3. K[(a + 1) + 1] = K[a + 1]
  BY <1>0, <1>2, SumStep
<1>4. /\ a + 1 \in Nat /\ a <= a + 1 /\ a < a + 1 /\ (a + 1) - 1 = a
  OBVIOUS
<1>5. \A p \in a..(a + 1) : K[p] >= K[a]
  BY <1>1, <1>2
<1>6. \A p \in a..(a + 1) :
            \/ c[p].op = "RETVALUE" /\ p < a + 1 /\ c[p + 1].op = "ENDPROC"
            \/ c[p].op = "ENDPROC" /\ a < p /\ c[p - 1].op = "RETVALUE"
  BY <1>1, <1>4
<1> QED BY <1>2, <1>3, <1>4, <1>5, <1>6, PlainPart

\* The body of a SEQUENCE WITH.
LEMMA BlockPart ==
  ASSUME NEW c \in Seq(Pcode), NEW K, Sums(c, K), NEW a \in Nat, NEW b \in Nat,
         1 <= a, a < b, b <= Len(c),
         c[a].op = "SEQBLOCK", c[b].op = "POP", Part(c, K, a + 1, b - 1)
  PROVE  Part(c, K, a, b)
<1>1. /\ Len(c) \in Nat
      /\ \A i \in SeqOps(c) : i \in 1..Len(c) /\ c[i].op \in {"SEQBEGIN", "SEQALWAYS"}
      /\ \A q \in 1..(Len(c) + 1) : K[q] \in Int
  BY LenProperties DEF SeqOps, Sums
<1>0. Effect(c, a) = 1 /\ Effect(c, b) = -1 /\ a <= Len(c) /\ 1 <= b
  BY <1>1, Effects
<1>2. K[a] \in Int /\ K[a + 1] = K[a] + 1 /\ K[a + 1] \in Int /\ K[b] \in Int
  BY <1>0, SumStep
<1>3. K[b] = K[a + 1]
  <2>1. K[(b - 1) + 1] = K[a + 1]
    BY DEF Part
  <2> QED BY <2>1
<1>4. K[b + 1] = K[b] - 1
  BY <1>0, SumStep
<1>5. K[b + 1] = K[a]
  BY <1>2, <1>3, <1>4
<1>6. \A p \in a..b : p = a \/ p = b \/ p \in (a + 1)..(b - 1)
  OBVIOUS
<1>7. \A p \in a..b : K[p] >= K[a]
  <2> TAKE p \in a..b
  <2>1. CASE p \in (a + 1)..(b - 1)
    <3>1. K[p] >= K[a + 1] /\ K[p] \in Int
      BY <1>1, <2>1 DEF Part
    <3> QED BY <1>2, <3>1
  <2> QED BY <1>2, <1>3, <1>6, <2>1
<1>8. \A i \in SeqOps(c) : a <= i /\ i <= b => a + 1 <= i /\ i <= b - 1
  <2> TAKE i \in SeqOps(c)
  <2> HAVE a <= i /\ i <= b
  <2>1. i # a /\ i # b /\ i \in Int
    BY <1>1
  <2> QED BY <2>1
<1>9. \A i \in SeqOps(c) : a <= i /\ i <= b =>
         /\ i \in Nat /\ End(c, i) \in Nat /\ Last(c, i) \in Nat /\ Last(c, i) <= End(c, i)
         /\ Shape(c, i) /\ End(c, i) <= b - 1 /\ Deep(c, K, i)
  <2> TAKE i \in SeqOps(c)
  <2> HAVE a <= i /\ i <= b
  <2>1. Shape(c, i) /\ End(c, i) <= b - 1 /\ Deep(c, K, i)
    BY <1>8 DEF Part
  <2> QED BY <2>1, ShapeFacts
<1>10. \A i \in SeqOps(c) : a <= i /\ i <= b => End(c, i) <= b
  BY <1>9
<1>11. \A i, j \in SeqOps(c) : a <= i /\ i < j /\ j <= b => Apart(c, i, j)
  <2> TAKE i, j \in SeqOps(c)
  <2> HAVE a <= i /\ i < j /\ j <= b
  <2>1. i <= b /\ a <= j
    BY <1>1
  <2>2. a + 1 <= i /\ j <= b - 1
    BY <1>8, <2>1
  <2> QED BY <2>2 DEF Part
<1>12. \A p \in a..b : OpFits(c, K, a, b, p)
  <2> TAKE p \in a..b
  <2>1. CASE p = a
    BY <2>1 DEF OpFits
  <2>2. CASE p = b
    <3>1. \A i \in SeqOps(c) : a <= i /\ i <= b => ~InSeq(c, i, p)
      BY <1>9, <2>2 DEF InSeq
    <3>2. K[p] >= K[a] + 1
      BY <1>2, <1>3, <2>2
    <3> QED BY <2>2, <3>1, <3>2 DEF OpFits
  <2>3. CASE p \in (a + 1)..(b - 1)
    <3>1. a + 1 \in Nat /\ b - 1 \in Nat /\ a <= a + 1 /\ b - 1 <= b /\ K[a] <= K[a + 1]
      BY <1>2
    <3>2. \A i \in SeqOps(c) : a <= i /\ i <= b => (a + 1 <= i /\ i <= b - 1)
      BY <1>8
    <3> QED BY <2>3, <3>1, <3>2, Within
  <2> QED BY <1>6, <2>1, <2>2, <2>3
<1>13. a <= b + 1
  OBVIOUS
<1> QED BY <1>5, <1>7, <1>9, <1>10, <1>11, <1>12, <1>13 DEF Part

-----------------------------------------------------------------------------
(* Sums of heights, for the clauses of a SEQUENCE.                         *)

\* The heights in a SEQUENCE without RECOVER, from one opcode to the next.
LEMMA TryHeights ==
  ASSUME NEW k \in Int, NEW body, NEW end, NEW behind,
         body = k + 2, end = body, behind = end - 2
  PROVE  body = k + 2 /\ end = k + 2 /\ behind = k /\ end >= k + 2 /\ behind >= k
OBVIOUS

\* The heights in a SEQUENCE with RECOVER.
LEMMA RecoverHeights ==
  ASSUME NEW k \in Int, NEW body, NEW end, NEW recover, NEW pop, NEW clause, NEW behind,
         body = k + 2, end = body, recover = end + 0, pop = recover - 1,
         clause = pop - 1, behind = clause
  PROVE  /\ body = k + 2 /\ end = k + 2 /\ recover = k + 2 /\ pop = k + 1
         /\ clause = k /\ behind = k
         /\ end >= k + 2 /\ recover >= k + 2 /\ pop >= k + 1 /\ clause >= k
OBVIOUS

\* The heights in a SEQUENCE with ALWAYS.
LEMMA AlwaysHeights ==
  ASSUME NEW k \in Int, NEW body, NEW begin, NEW clause, NEW end, NEW behind,
         body = k + 2, begin = body, clause = begin + 0, end = clause, behind = end - 2
  PROVE  /\ body = k + 2 /\ begin = k + 2 /\ clause = k + 2 /\ end = k + 2 /\ behind = k
         /\ begin >= k + 2 /\ end >= k + 2
OBVIOUS

\* What is not lower than the body of a SEQUENCE is above its envelope.
LEMMA GeTrans ==
  ASSUME NEW k \in Int, NEW n \in Int, NEW body, body = k + 2, n >= body
  PROVE  n >= k + 2
OBVIOUS

\* A SEQEND that jumps over the RECOVER clause jumps to what is behind it.
LEMMA JumpTo ==
  ASSUME NEW x \in Nat, NEW b \in Nat, NEW t \in Nat, b + 1 = x + t, x + 2 <= b
  PROVE  x + t - 1 = b /\ t > 1 /\ t # 1
OBVIOUS

\* BEGIN SEQUENCE without other clauses.
LEMMA TryPart ==
  ASSUME NEW c \in Seq(Pcode), NEW K, Sums(c, K), NEW a \in Nat, NEW b \in Nat,
         1 <= a, a < b, b <= Len(c),
         c[a].op = "SEQBEGIN", b = a + c[a].to, c[b].op = "SEQEND", c[b].to = 1,
         Part(c, K, a + 1, b - 1), NoReturn(c, a + 1, b - 1)
  PROVE  Part(c, K, a, b)
<1>1. Len(c) \in Nat /\ a \in SeqOps(c)
  BY LenProperties DEF SeqOps
<1>2. Stop(c, a) = b /\ First(c, a) = b /\ Last(c, a) = b /\ End(c, a) = b
  BY DEF Stop, First, Last, End
<1>3. Shape(c, a)
  BY <1>2 DEF Shape
<1>4. Effect(c, a) = 2 /\ Effect(c, b) = -2 /\ a <= Len(c) /\ 1 <= b
  BY <1>1, Effects
<1>5. /\ K[a] \in Int /\ K[a + 1] = K[a] + 2 /\ K[a + 1] \in Int
      /\ K[b] \in Int /\ K[b + 1] = K[b] - 2
  BY <1>4, SumStep
<1>6. K[b] = K[a + 1]
  <2>1. K[(b - 1) + 1] = K[a + 1]
    BY DEF Part
  <2> QED BY <2>1
<1>61. /\ K[b] = K[a] + 2 /\ K[b + 1] = K[a] /\ K[b] >= K[a] + 2 /\ K[b + 1] >= K[a]
  <2> DEFINE k == K[a]  body == K[a + 1]  end == K[b]  behind == K[b + 1]
  <2>1. k \in Int /\ body = k + 2 /\ end = body /\ behind = end - 2
    BY <1>5, <1>6
  <2> HIDE DEF k, body, end, behind
  <2>2. end = k + 2 /\ behind = k /\ end >= k + 2 /\ behind >= k
    BY <2>1, TryHeights
  <2> QED BY <2>2 DEF k, end, behind
<1>62. \A p \in 1..Len(c) : K[p] \in Int
  BY SumInt
<1>7. \A p \in (a + 1)..b : K[p] >= K[a] + 2
  <2> TAKE p \in (a + 1)..b
  <2>1. CASE p = b
    BY <1>61, <2>1
  <2>2. CASE p \in (a + 1)..(b - 1)
    <3>1. K[p] >= K[a + 1] /\ p \in 1..Len(c)
      BY <1>1, <2>2 DEF Part
    <3> QED BY <1>5, <1>62, <3>1, GeTrans, Zenon
  <2> QED BY <2>1, <2>2
<1>8. Deep(c, K, a)
  BY <1>2, <1>7, <1>61 DEF Deep
<1>9. Part(c, K, b + 1, b)
  <2>1. b + 1 \in 1..(Len(c) + 1) /\ (b + 1) - 1 = b
    BY <1>1
  <2> QED BY <2>1, EmptyPart
<1>10. b < b + 1 /\ b <= b
  OBVIOUS
<1>11. \A p \in a..b : p \in {a, b} \/ p \in (a + 1)..(b - 1)
  OBVIOUS
<1> QED BY <1>1, <1>2, <1>3, <1>8, <1>9, <1>10, <1>61, <1>11, Wrapped

\* BEGIN SEQUENCE with a RECOVER clause.
LEMMA RecoverPart ==
  ASSUME NEW c \in Seq(Pcode), NEW K, Sums(c, K),
         NEW a \in Nat, NEW x \in Nat, NEW b \in Nat,
         1 <= a, a < x, x + 2 <= b, b <= Len(c),
         c[a].op = "SEQBEGIN", x + 1 = a + c[a].to,
         c[x].op = "SEQEND", b + 1 = x + c[x].to,
         c[x + 1].op = "SEQRECOVER", c[x + 2].op = "POP",
         Part(c, K, a + 1, x - 1), NoReturn(c, a + 1, x - 1), Part(c, K, x + 3, b)
  PROVE  Part(c, K, a, b)
<1>1. Len(c) \in Nat /\ a \in SeqOps(c)
  BY LenProperties DEF SeqOps
<1>0. c[x].to \in Nat
  <2>1. c[x] \in Pcode
    BY <1>1, ElementOfSeq
  <2> QED BY <2>1 DEF Pcode
<1>01. x + c[x].to - 1 = b /\ c[x].to > 1 /\ c[x].to # 1
  BY <1>0, JumpTo, Zenon
<1>2. Stop(c, a) = x /\ First(c, a) = x + 1 /\ Last(c, a) = x + 1 /\ End(c, a) = b
  <2>1. First(c, a) = x + 1 /\ (x + 1) - 1 = x
    BY DEF First
  <2>2. Stop(c, a) = x /\ Last(c, a) = x + 1
    BY <2>1 DEF Stop, Last
  <2>3. End(c, a) = x + c[x].to - 1
    BY <2>1, <2>2 DEF End
  <2> QED BY <1>01, <2>1, <2>2, <2>3
<1>3. Shape(c, a)
  <2>1. a < (x + 1) - 1 /\ (x + 1) - 1 = x /\ x + 1 <= Len(c)
    BY <1>1, SMTT(30)
  <2> QED BY <1>01, <1>2, <2>1 DEF Shape
<1>41. Effect(c, a) = 2 /\ Effect(c, x) = 0 /\ Effect(c, x + 1) = -1 /\ Effect(c, x + 2) = -1
  BY <1>01, Effects, SMTT(30)
<1>4. /\ a <= Len(c) /\ 1 <= x /\ x <= Len(c) /\ x + 1 <= Len(c) /\ x + 2 <= Len(c)
      /\ x + 1 \in Nat /\ x + 2 \in Nat /\ 1 <= x + 1 /\ 1 <= x + 2
      /\ (x + 1) + 1 = x + 2 /\ (x + 2) + 1 = x + 3
  BY <1>1
<1>51. K[a] \in Int /\ K[a + 1] = K[a] + 2 /\ K[a + 1] \in Int
  <2>1. K[a] \in Int /\ K[a + 1] \in Int /\ K[a + 1] = K[a] + Effect(c, a)
    BY <1>4, SumStep, Zenon
  <2> QED BY <1>41, <2>1
<1>52. K[x + 1] = K[x] + 0
  BY <1>4, <1>41, SumStep, Zenon
<1>50. K[x + 2] = K[x + 1] - 1 /\ K[x + 3] = K[x + 2] - 1
  <2>1. K[(x + 1) + 1] = K[x + 1] - 1
    <3>1. K[x + 1] \in Int /\ K[(x + 1) + 1] = K[x + 1] + Effect(c, x + 1)
      BY <1>4, SumStep, Zenon
    <3> QED BY <1>41, <3>1
  <2>2. K[(x + 2) + 1] = K[x + 2] - 1
    <3>1. K[x + 2] \in Int /\ K[(x + 2) + 1] = K[x + 2] + Effect(c, x + 2)
      BY <1>4, SumStep, Zenon
    <3> QED BY <1>41, <3>1
  <2> QED BY <1>4, <2>1, <2>2
<1>60. K[x] = K[a + 1] /\ K[b + 1] = K[x + 3]
  <2>1. K[(x - 1) + 1] = K[a + 1] /\ K[b + 1] = K[x + 3]
    BY DEF Part
  <2> QED BY <2>1
<1>6. /\ K[a + 1] = K[a] + 2 /\ K[x] = K[a] + 2 /\ K[x + 1] = K[a] + 2
      /\ K[x + 2] = K[a] + 1 /\ K[x + 3] = K[a] /\ K[b + 1] = K[a]
      /\ K[x] >= K[a] + 2 /\ K[x + 1] >= K[a] + 2 /\ K[x + 2] >= K[a] + 1 /\ K[x + 3] >= K[a]
  <2> DEFINE k == K[a]  body == K[a + 1]  end == K[x]  recover == K[x + 1]
             pop == K[x + 2]  clause == K[x + 3]  behind == K[b + 1]
  <2>1. /\ k \in Int /\ body = k + 2 /\ end = body /\ recover = end + 0
        /\ pop = recover - 1 /\ clause = pop - 1 /\ behind = clause
    BY <1>51, <1>52, <1>50, <1>60, Zenon
  <2> HIDE DEF k, body, end, recover, pop, clause, behind
  <2>2. /\ body = k + 2 /\ end = k + 2 /\ recover = k + 2 /\ pop = k + 1
        /\ clause = k /\ behind = k
        /\ end >= k + 2 /\ recover >= k + 2 /\ pop >= k + 1 /\ clause >= k
    BY <2>1, RecoverHeights
  <2> QED BY <2>2, Zenon DEF k, body, end, recover, pop, clause, behind
<1>62. \A p \in 1..Len(c) : K[p] \in Int
  BY SumInt
<1>7. \A p \in (a + 1)..(x + 1) : K[p] >= K[a] + 2
  <2> TAKE p \in (a + 1)..(x + 1)
  <2>1. CASE p = x \/ p = x + 1
    BY <1>6, <2>1
  <2>2. CASE p \in (a + 1)..(x - 1)
    <3>1. K[p] >= K[a + 1] /\ p \in 1..Len(c)
      BY <1>1, <2>2 DEF Part
    <3> QED BY <1>51, <1>62, <3>1, GeTrans, Zenon
  <2> QED BY <2>1, <2>2
<1>70. c[b].op # "RETVALUE"
  <2>1. CASE b = x + 2
    BY <2>1
  <2>2. CASE x + 3 <= b
    <3>1. OpFits(c, K, x + 3, b, b)
      BY <2>2 DEF Part
    <3> QED BY <3>1 DEF OpFits
  <2> QED BY <2>1, <2>2
<1>8. Deep(c, K, a)
  BY <1>2, <1>6, <1>7, <1>70 DEF Deep
<1>10. x + 1 < x + 3 /\ b <= b /\ x + 1 < x + 2
  BY SMTT(30)
<1>11. \A p \in a..b : \/ p \in {a, x, x + 1} \/ p \in (a + 1)..(x - 1)
                       \/ p \in (x + 3)..b
                       \/ x + 1 < p /\ c[p].op = "POP" /\ K[p] >= K[a] + 1
  <2> TAKE p \in a..b
  <2>1. p \in {a, x, x + 1} \/ p \in (a + 1)..(x - 1) \/ p \in (x + 3)..b \/ p = x + 2
    OBVIOUS
  <2> QED BY <1>10, <1>6, <2>1
<1> HIDE DEF Part, Shape, Deep, NoReturn
<1>12. /\ Part(c, K, a + 1, Stop(c, a) - 1) /\ NoReturn(c, a + 1, Stop(c, a) - 1)
       /\ End(c, a) <= Len(c) /\ First(c, a) < x + 3 /\ b <= End(c, a)
       /\ Last(c, a) < x + 3 /\ K[x + 3] >= K[a]
  BY <1>2, <1>6, <1>10
<1>13. \A p \in a..End(c, a) :
          \/ p \in {a, Stop(c, a), First(c, a), Last(c, a)}
          \/ p \in (a + 1)..(Stop(c, a) - 1)
          \/ p \in (x + 3)..b
          \/ Last(c, a) < p /\ c[p].op = "POP" /\ K[p] >= K[a] + 1
  BY <1>2, <1>11
<1>14. Part(c, K, a, End(c, a))
  BY <1>1, <1>3, <1>8, <1>12, <1>13, Wrapped
<1> QED BY <1>2, <1>14

\* A statement with an ALWAYS clause.
LEMMA AlwaysPart ==
  ASSUME NEW c \in Seq(Pcode), NEW K, Sums(c, K),
         NEW a \in Nat, NEW x \in Nat, NEW b \in Nat,
         1 <= a, a < x, x < b, b <= Len(c),
         c[a].op = "SEQALWAYS", x = a + c[a].to,
         c[x].op = "ALWAYSBEGIN", b = x + c[x].to, c[b].op = "ALWAYSEND",
         Part(c, K, a + 1, x - 1), Part(c, K, x + 1, b - 1)
  PROVE  Part(c, K, a, b)
<1>1. Len(c) \in Nat /\ a \in SeqOps(c)
  BY LenProperties DEF SeqOps
<1>2. Stop(c, a) = x /\ First(c, a) = x /\ Last(c, a) = b /\ End(c, a) = b
  <2>1. First(c, a) = x /\ First(c, x) = b
    BY DEF First
  <2> QED BY <2>1 DEF Stop, Last, End
<1>3. Shape(c, a)
  <2>1. x <= Len(c)
    BY <1>1
  <2> QED BY <1>2, <2>1 DEF Shape
<1>41. Effect(c, a) = 2 /\ Effect(c, x) = 0 /\ Effect(c, b) = -2
  BY Effects
<1>4. a <= Len(c) /\ 1 <= x /\ x <= Len(c) /\ 1 <= b
  BY <1>1, SMTT(30)
<1>51. K[a] \in Int /\ K[a + 1] = K[a] + 2 /\ K[a + 1] \in Int
  <2>1. K[a] \in Int /\ K[a + 1] \in Int /\ K[a + 1] = K[a] + Effect(c, a)
    BY <1>4, SumStep, Zenon
  <2> QED BY <1>41, <2>1
<1>52. K[x + 1] = K[x] + 0
  BY <1>4, <1>41, SumStep, Zenon
<1>53. K[b + 1] = K[b] - 2
  <2>1. K[b] \in Int /\ K[b + 1] = K[b] + Effect(c, b)
    BY <1>4, SumStep, Zenon
  <2> QED BY <1>41, <2>1
<1>60. K[x] = K[a + 1] /\ K[b] = K[x + 1]
  <2>1. K[(x - 1) + 1] = K[a + 1] /\ K[(b - 1) + 1] = K[x + 1]
    BY DEF Part
  <2> QED BY <2>1, SMTT(30)
<1>6. /\ K[a + 1] = K[a] + 2 /\ K[x] = K[a] + 2 /\ K[x + 1] = K[a] + 2
      /\ K[b] = K[a] + 2 /\ K[b + 1] = K[a] /\ K[x] >= K[a] + 2 /\ K[b] >= K[a] + 2
  <2> DEFINE k == K[a]  body == K[a + 1]  begin == K[x]  clause == K[x + 1]
             end == K[b]  behind == K[b + 1]
  <2>1. /\ k \in Int /\ body = k + 2 /\ begin = body /\ clause = begin + 0
        /\ end = clause /\ behind = end - 2
    BY <1>51, <1>52, <1>53, <1>60, Zenon
  <2> HIDE DEF k, body, begin, clause, end, behind
  <2>2. /\ body = k + 2 /\ begin = k + 2 /\ clause = k + 2 /\ end = k + 2 /\ behind = k
        /\ begin >= k + 2 /\ end >= k + 2
    BY <2>1, AlwaysHeights
  <2> QED BY <2>2, Zenon DEF k, body, begin, clause, end, behind
<1>62. \A p \in 1..Len(c) : K[p] \in Int
  BY SumInt
<1>7. \A p \in (a + 1)..b : K[p] >= K[a] + 2
  <2> TAKE p \in (a + 1)..b
  <2>0. p \in 1..Len(c)
    BY <1>1, SMTT(30)
  <2>1. CASE p = x \/ p = b
    BY <1>6, <2>1
  <2>2. CASE p \in (a + 1)..(x - 1)
    <3>1. K[p] >= K[a + 1]
      BY <2>2, SMTT(30) DEF Part
    <3> QED BY <1>51, <1>62, <2>0, <3>1, GeTrans, Zenon
  <2>3. CASE p \in (x + 1)..(b - 1)
    <3>1. K[p] >= K[x + 1]
      BY <2>3, SMTT(30) DEF Part
    <3> QED BY <1>51, <1>6, <1>62, <2>0, <3>1, GeTrans, Zenon
  <2> QED BY <2>1, <2>2, <2>3
<1>8. Deep(c, K, a)
  <2>1. c[b].op # "RETVALUE"
    OBVIOUS
  <2> QED BY <1>2, <1>6, <1>7, <2>1 DEF Deep
<1>10. x < x + 1 /\ b - 1 <= b /\ x + 1 <= b /\ b - 1 < b
  BY SMTT(30)
<1>11. \A p \in a..b : \/ p \in {a, x, b} \/ p \in (a + 1)..(x - 1) \/ p \in (x + 1)..(b - 1)
  BY SMTT(30)
<1>12. c[a].op # "SEQBEGIN"
  OBVIOUS
<1> QED BY <1>1, <1>2, <1>3, <1>8, <1>10, <1>11, <1>12, Wrapped

-----------------------------------------------------------------------------
(* The compiler: wherever its code is placed, it is a part.                *)

\* The code C has the code c at a.
Has(C, a, c) ==
    /\ a \in Nat /\ 1 <= a /\ a + Len(c) <= Len(C) + 1
    /\ \A p \in 1..Len(c) : C[a + p - 1] = c[p]

\* Code that is a part of whatever function it is placed in.
Fits(c) ==
    /\ c \in Seq(Pcode)
    /\ \A C \in Seq(Pcode) : \A K, a :
          Sums(C, K) /\ Has(C, a, c) => Part(C, K, a, a + Len(c) - 1)

\* What may stand in the body of a SEQUENCE.
Body(c) == \A p \in 1..Len(c) : c[p].op \notin {"RETVALUE", "ENDPROC"}

\* Code that has u \o v has v behind u.
LEMMA HasConcat ==
  ASSUME NEW C \in Seq(Pcode), NEW u \in Seq(Pcode), NEW v \in Seq(Pcode), NEW a, Has(C, a, u \o v)
  PROVE  Has(C, a, u) /\ Has(C, a + Len(u), v)
<1>1. /\ Len(C) \in Nat /\ Len(u) \in Nat /\ Len(v) \in Nat
      /\ Len(u \o v) = Len(u) + Len(v)
      /\ \A i \in 1 .. Len(u) + Len(v) :
            (u \o v)[i] = IF i <= Len(u) THEN u[i] ELSE v[i - Len(u)]
  BY LenProperties, ConcatProperties
<1>2. /\ a \in Nat /\ 1 <= a /\ a + Len(u) + Len(v) <= Len(C) + 1
      /\ \A p \in 1..(Len(u) + Len(v)) : C[a + p - 1] = (u \o v)[p]
  BY <1>1, SMTT(30) DEF Has
<1>3. \A p \in 1..Len(u) : C[a + p - 1] = u[p]
  BY <1>1, <1>2
<1>4. \A p \in 1..Len(v) : C[(a + Len(u)) + p - 1] = v[p]
  <2> TAKE p \in 1..Len(v)
  <2>1. /\ Len(u) + p \in 1..(Len(u) + Len(v)) /\ ~(Len(u) + p <= Len(u))
        /\ (Len(u) + p) - Len(u) = p /\ a + (Len(u) + p) - 1 = (a + Len(u)) + p - 1
    BY <1>1, <1>2
  <2>2. C[a + (Len(u) + p) - 1] = (u \o v)[Len(u) + p]
    BY <1>2, <2>1
  <2>3. (u \o v)[Len(u) + p] = v[p]
    BY <1>1, <2>1
  <2> QED BY <2>1, <2>2, <2>3
<1> QED BY <1>1, <1>2, <1>3, <1>4 DEF Has

\* Code without RETURN is made of code without RETURN.
LEMMA BodyConcat ==
  ASSUME NEW u \in Seq(Pcode), NEW v \in Seq(Pcode), Body(u), Body(v)
  PROVE  u \o v \in Seq(Pcode) /\ Body(u \o v)
<1>1. /\ Len(u) \in Nat /\ Len(v) \in Nat /\ u \o v \in Seq(Pcode)
      /\ Len(u \o v) = Len(u) + Len(v)
      /\ \A i \in 1 .. Len(u) + Len(v) :
            (u \o v)[i] = IF i <= Len(u) THEN u[i] ELSE v[i - Len(u)]
  BY LenProperties, ConcatProperties
<1>2. \A p \in 1..(Len(u) + Len(v)) :
         p <= Len(u) => p \in 1..Len(u)
  BY <1>1
<1>3. \A p \in 1..(Len(u) + Len(v)) :
         ~(p <= Len(u)) => p - Len(u) \in 1..Len(v)
  BY <1>1
<1>4. \A p \in 1..(Len(u) + Len(v)) : (u \o v)[p].op \notin {"RETVALUE", "ENDPROC"}
  BY <1>1, <1>2, <1>3 DEF Body
<1> QED BY <1>1, <1>4 DEF Body

\* It has no RETURN wherever it is placed.
LEMMA HasBody ==
  ASSUME NEW C \in Seq(Pcode), NEW c \in Seq(Pcode), NEW a, Has(C, a, c), Body(c)
  PROVE  NoReturn(C, a, a + Len(c) - 1)
<1>1. Len(c) \in Nat /\ a \in Nat
  BY LenProperties DEF Has
<1> SUFFICES ASSUME NEW p \in a..(a + Len(c) - 1) PROVE C[p].op \notin {"RETVALUE", "ENDPROC"}
  BY DEF NoReturn
<1>2. p - a + 1 \in 1..Len(c) /\ a + (p - a + 1) - 1 = p
  BY <1>1
<1>3. C[p] = c[p - a + 1]
  BY <1>2 DEF Has
<1> QED BY <1>2, <1>3 DEF Body

\* A single opcode.
LEMMA OneOp ==
  ASSUME NEW o \in Ops, NEW d \in Nat
  PROVE  /\ Jump(o, d) \in Seq(Pcode) /\ Len(Jump(o, d)) = 1
         /\ Jump(o, d)[1].op = o /\ Jump(o, d)[1].to = d
         /\ Op(o) = Jump(o, 0)
BY DEF Jump, Op, Pcode

\* Code that has a single opcode.
LEMMA HasOp ==
  ASSUME NEW C \in Seq(Pcode), NEW a, NEW o \in Ops, NEW d \in Nat, Has(C, a, Jump(o, d))
  PROVE  /\ C[a].op = o /\ C[a].to = d /\ a \in Nat /\ 1 <= a /\ a <= Len(C)
         /\ a \in 1..Len(C)
<1>1. Len(C) \in Nat /\ a \in Nat
  BY LenProperties DEF Has
<1>2. /\ 1 <= a /\ a + 1 <= Len(C) + 1 /\ C[a + 1 - 1] = Jump(o, d)[1]
  BY OneOp DEF Has
<1>3. a + 1 - 1 = a
  BY <1>1
<1> QED BY <1>1, <1>2, <1>3, OneOp

\* Parts in sequence are a part.
LEMMA FitsConcat ==
  ASSUME NEW u, NEW v, Fits(u), Fits(v)
  PROVE  Fits(u \o v)
<1>1. u \in Seq(Pcode) /\ v \in Seq(Pcode) /\ u \o v \in Seq(Pcode)
  BY ConcatProperties DEF Fits
<1>2. ASSUME NEW C \in Seq(Pcode), NEW K, NEW a, Sums(C, K), Has(C, a, u \o v)
      PROVE  Part(C, K, a, a + Len(u \o v) - 1)
  <2>1. Has(C, a, u) /\ Has(C, a + Len(u), v)
    BY <1>1, <1>2, HasConcat
  <2>2. Part(C, K, a, a + Len(u) - 1) /\ Part(C, K, a + Len(u), a + Len(u) + Len(v) - 1)
    BY <1>2, <2>1 DEF Fits
  <2>3. a \in Nat /\ Len(u) \in Nat /\ Len(v) \in Nat /\ Len(u \o v) = Len(u) + Len(v)
    BY <1>1, <2>1, LenProperties, ConcatProperties DEF Has
  <2>4. (a + Len(u) - 1) + 1 = a + Len(u) /\ a + Len(u \o v) - 1 = a + Len(u) + Len(v) - 1
    BY <2>3
  <2>5. Part(C, K, (a + Len(u) - 1) + 1, a + Len(u) + Len(v) - 1)
    BY <2>2, <2>4
  <2>6. Part(C, K, a, a + Len(u) + Len(v) - 1)
    BY <1>2, <2>2, <2>5, Joined
  <2> QED BY <2>4, <2>6
<1> QED BY <1>1, <1>2 DEF Fits

\* No code fits.
LEMMA EmptyFits == Fits(<<>>) /\ Body(<<>>)
<1>1. <<>> \in Seq(Pcode) /\ Len(<<>>) = 0
  BY EmptySeq
<1>2. ASSUME NEW C \in Seq(Pcode), NEW K, NEW a, Sums(C, K), Has(C, a, <<>>)
      PROVE  Part(C, K, a, a + Len(<<>>) - 1)
  <2>1. Len(C) \in Nat /\ a \in Nat /\ 1 <= a /\ a + 0 <= Len(C) + 1
    BY <1>1, <1>2, LenProperties DEF Has
  <2>2. a \in 1..(Len(C) + 1) /\ a + Len(<<>>) - 1 = a - 1
    BY <1>1, <2>1
  <2> QED BY <1>2, <2>2, EmptyPart
<1> QED BY <1>1, <1>2 DEF Fits, Body

\* Statements fit; all but RETURN may stand in a body.
LEMMA StatementFits ==
  ASSUME NEW s \in Statements \ {"none"}
  PROVE  Fits(Statement(s)) /\ (s # "return" => Body(Statement(s)))
<1>1. CASE s \in {"call", "safe"}
  <2>1. PICK o \in {"DO", "NOOP"} : Statement(s) = Jump(o, 0)
    BY <1>1, OneOp DEF Statement, Ops
  <2>2. o \in Ops /\ Jump(o, 0) \in Seq(Pcode) /\ Len(Jump(o, 0)) = 1 /\ Jump(o, 0)[1].op = o
    BY OneOp DEF Ops
  <2>3. ASSUME NEW C \in Seq(Pcode), NEW K, NEW a, Sums(C, K), Has(C, a, Jump(o, 0))
        PROVE  Part(C, K, a, a + Len(Jump(o, 0)) - 1)
    <3>1. C[a].op = o /\ a \in Nat /\ a \in 1..Len(C)
      BY <2>2, <2>3, HasOp
    <3>2. Part(C, K, a, a)
      BY <2>3, <3>1, CallPart
    <3>3. a + Len(Jump(o, 0)) - 1 = a
      <4>1. a + 1 - 1 = a
        BY <3>1
      <4> QED BY <2>2, <4>1
    <3> QED BY <3>2, <3>3
  <2>4. Body(Jump(o, 0))
    BY <2>2 DEF Body
  <2> QED BY <2>1, <2>2, <2>3, <2>4 DEF Fits
<1>2. CASE s = "operand"
  <2> DEFINE j1 == Jump("PUSH", 0)  j2 == Jump("FUNCTION", 0)  j3 == Jump("POP", 0)
             u == j1 \o j2  v == u \o j3  w == v \o j3
  <2>1. /\ {"PUSH", "FUNCTION", "POP"} \subseteq Ops
        /\ Statement(s) = Op("PUSH") \o Op("FUNCTION") \o Op("POP") \o Op("POP")
    BY <1>2 DEF Statement, Ops
  <2>2. /\ Statement(s) = w
        /\ j1 \in Seq(Pcode) /\ j2 \in Seq(Pcode) /\ j3 \in Seq(Pcode)
        /\ Len(j1) = 1 /\ Len(j2) = 1 /\ Len(j3) = 1
        /\ j1[1].op = "PUSH" /\ j2[1].op = "FUNCTION" /\ j3[1].op = "POP"
    BY <2>1, OneOp
  <2> HIDE DEF j1, j2, j3
  <2>3. Body(j1) /\ Body(j2) /\ Body(j3)
    BY <2>2 DEF Body
  <2>4. u \in Seq(Pcode) /\ v \in Seq(Pcode) /\ w \in Seq(Pcode) /\ Body(w)
    BY <2>2, <2>3, BodyConcat
  <2> HIDE DEF u, v, w
  <2>5. Len(u) = 2 /\ Len(v) = 3 /\ Len(w) = 4
    <3>1. Len(u) = 1 + 1
      BY <2>2, ConcatProperties DEF u
    <3>2. Len(v) = Len(u) + 1
      BY <2>2, <2>4, ConcatProperties, SMTT(30) DEF v
    <3>3. Len(w) = Len(v) + 1
      <4>1. Len(v \o j3) = Len(v) + Len(j3)
        BY <2>2, <2>4, ConcatProperties
      <4> QED BY <2>2, <4>1 DEF w
    <3> QED BY <3>1, <3>2, <3>3
  <2>6. ASSUME NEW C \in Seq(Pcode), NEW K, NEW a, Sums(C, K), Has(C, a, w)
        PROVE  Part(C, K, a, a + Len(w) - 1)
    <3>1. Has(C, a, v) /\ Has(C, a + 3, j3)
      BY <2>2, <2>4, <2>5, <2>6, HasConcat DEF w
    <3>2. Has(C, a, u) /\ Has(C, a + 2, j3)
      BY <2>2, <2>4, <2>5, <3>1, HasConcat DEF v
    <3>3. Has(C, a, j1) /\ Has(C, a + 1, j2)
      BY <2>2, <3>2, HasConcat DEF u
    <3>4. /\ C[a].op = "PUSH" /\ C[a + 1].op = "FUNCTION" /\ C[a + 2].op = "POP"
          /\ C[a + 3].op = "POP" /\ a \in Nat /\ 1 <= a /\ a + 3 <= Len(C)
      BY <2>1, <3>1, <3>2, <3>3, HasOp DEF j1, j2, j3
    <3>5. Part(C, K, a, a + 3)
      BY <2>6, <3>4, OperandPart
    <3>6. a + Len(w) - 1 = a + 3
      BY <2>5, <3>4
    <3> QED BY <3>5, <3>6
  <2> QED BY <2>2, <2>4, <2>6 DEF Fits
<1>3. CASE s = "return"
  <2> DEFINE j1 == Jump("RETVALUE", 0)  j2 == Jump("ENDPROC", 0)  w == j1 \o j2
  <2>1. {"RETVALUE", "ENDPROC"} \subseteq Ops /\ Statement(s) = Op("RETVALUE") \o Op("ENDPROC")
    BY <1>3 DEF Statement, Ops
  <2>2. /\ Statement(s) = w
        /\ j1 \in Seq(Pcode) /\ j2 \in Seq(Pcode) /\ Len(j1) = 1 /\ Len(j2) = 1
    BY <2>1, OneOp
  <2> HIDE DEF j1, j2
  <2>3. w \in Seq(Pcode) /\ Len(w) = 2
    BY <2>2, ConcatProperties
  <2> HIDE DEF w
  <2>6. ASSUME NEW C \in Seq(Pcode), NEW K, NEW a, Sums(C, K), Has(C, a, w)
        PROVE  Part(C, K, a, a + Len(w) - 1)
    <3>1. Has(C, a, j1) /\ Has(C, a + 1, j2)
      BY <2>2, <2>6, HasConcat DEF w
    <3>2. /\ C[a].op = "RETVALUE" /\ C[a + 1].op = "ENDPROC"
          /\ a \in Nat /\ 1 <= a /\ a + 1 <= Len(C)
      BY <2>1, <3>1, HasOp DEF j1, j2
    <3>3. Part(C, K, a, a + 1) /\ a + Len(w) - 1 = a + 1
      BY <2>3, <2>6, <3>2, ReturnPart
    <3> QED BY <3>3
  <2> QED BY <1>3, <2>2, <2>3, <2>6 DEF Fits
<1>4. CASE s = "empty"
  <2>1. Statement(s) = <<>>
    BY <1>4 DEF Statement
  <2> QED BY <2>1, EmptyFits
<1> QED BY <1>1, <1>2, <1>3, <1>4 DEF Statements

\* A clause that may be left out.
Clause(cl) == cl = {} \/ \E c : cl = {c} /\ Fits(c)

\* The code of a clause that is given.
LEMMA ClauseIs ==
  ASSUME NEW cl, Clause(cl), cl # {}
  PROVE  cl = {The(cl)} /\ Fits(The(cl))
BY DEF Clause, The

\* The length of two pieces of code.
LEMMA LenConcat ==
  ASSUME NEW u \in Seq(Pcode), NEW v \in Seq(Pcode)
  PROVE  Len(u \o v) = Len(u) + Len(v)
BY ConcatProperties

\* An opcode that is no RETURN.
LEMMA OpsBody ==
  ASSUME NEW o \in Ops \ {"RETVALUE", "ENDPROC"}, NEW d \in Nat
  PROVE  Jump(o, d) \in Seq(Pcode) /\ Body(Jump(o, d))
BY OneOp DEF Body

\* A SEQUENCE without RECOVER fits.
LEMMA TryFits ==
  ASSUME NEW body, Fits(body), Body(body)
  PROVE  /\ Fits(TrySeq(body, {})) /\ Body(TrySeq(body, {}))
         /\ TrySeq(body, {}) # <<>>
<1> DEFINE n == Len(body)  j1 == Jump("SEQBEGIN", n + 1)  j2 == Jump("SEQEND", 1)
           u == j1 \o body  w == u \o j2
<1>1. n \in Nat /\ body \in Seq(Pcode) /\ TrySeq(body, {}) = w
  BY LenProperties DEF Fits, TrySeq
<1> HIDE DEF n
<1>2. {"SEQBEGIN", "SEQEND"} \subseteq Ops \ {"RETVALUE", "ENDPROC"} /\ n + 1 \in Nat /\ 1 \in Nat
  BY <1>1 DEF Ops
<1>3. /\ j1 \in Seq(Pcode) /\ j2 \in Seq(Pcode) /\ Len(j1) = 1 /\ Len(j2) = 1
      /\ Body(j1) /\ Body(j2)
  BY <1>2, OneOp, OpsBody
<1> HIDE DEF j1, j2
<1>4. u \in Seq(Pcode) /\ w \in Seq(Pcode) /\ Body(w)
  BY <1>1, <1>3, BodyConcat
<1>5. Len(u) = n + 1
  <2>1. Len(u) = 1 + n
    <3>1. Len(j1 \o body) = Len(j1) + Len(body)
      BY <1>1, <1>3, LenConcat
    <3> QED BY <1>1, <1>3, <3>1 DEF n, u
  <2> QED BY <1>1, <2>1
<1> HIDE DEF u
<1>6. Len(w) = n + 2
  <2>1. Len(w) = (n + 1) + 1
    <3>1. Len(u \o j2) = Len(u) + Len(j2)
      BY <1>3, <1>4, <1>5, LenConcat
    <3> QED BY <1>3, <1>4, <1>5, <3>1 DEF w
  <2> QED BY <1>1, <2>1
<1> HIDE DEF w
<1>7. ASSUME NEW C \in Seq(Pcode), NEW K, NEW a, Sums(C, K), Has(C, a, w)
      PROVE  Part(C, K, a, a + Len(w) - 1)
  <2>1. Has(C, a, u) /\ Has(C, a + (n + 1), j2)
    BY <1>3, <1>4, <1>5, <1>7, HasConcat DEF w
  <2>2. Has(C, a, j1) /\ Has(C, a + 1, body)
    BY <1>1, <1>3, <2>1, HasConcat DEF u
  <2>3. /\ C[a].op = "SEQBEGIN" /\ C[a].to = n + 1 /\ a \in Nat /\ 1 <= a
        /\ C[a + (n + 1)].op = "SEQEND" /\ C[a + (n + 1)].to = 1
        /\ a + (n + 1) \in Nat /\ a + (n + 1) <= Len(C)
    <3>1. Has(C, a, Jump("SEQBEGIN", n + 1)) /\ Has(C, a + (n + 1), Jump("SEQEND", 1))
      BY <2>1, <2>2 DEF j1, j2
    <3>2. "SEQBEGIN" \in Ops /\ "SEQEND" \in Ops
      BY <1>2
    <3>3. C[a].op = "SEQBEGIN" /\ C[a].to = n + 1 /\ a \in Nat /\ 1 <= a
      BY <1>2, <3>1, <3>2, HasOp
    <3> QED BY <1>2, <3>1, <3>2, <3>3, HasOp, SMTT(30)
  <2>4. /\ Part(C, K, a + 1, (a + 1) + n - 1) /\ NoReturn(C, a + 1, (a + 1) + n - 1)
    BY <1>1, <1>7, <2>2, HasBody DEF Fits, n
  <2>5. /\ (a + 1) + n - 1 = (a + (n + 1)) - 1 /\ a < a + (n + 1)
    BY <1>1, <2>3
  <2>6. Part(C, K, a, a + (n + 1))
    BY <1>7, <2>3, <2>4, <2>5, TryPart
  <2>7. a + (n + 2) - 1 = a + (n + 1)
    BY <1>1, <2>3
  <2> QED BY <1>6, <2>6, <2>7
<1>8. w # <<>>
  BY <1>1, <1>6, EmptySeq
<1> QED BY <1>1, <1>4, <1>7, <1>8 DEF Fits

\* A SEQUENCE with RECOVER fits.
LEMMA RecoverFits ==
  ASSUME NEW body, Fits(body), Body(body), NEW recover, Clause(recover), recover # {}
  PROVE  /\ Fits(TrySeq(body, recover)) /\ TrySeq(body, recover) # <<>>
         /\ Body(The(recover)) => Body(TrySeq(body, recover))
<1> DEFINE n == Len(body)  r == The(recover)  m == Len(r)
           j1 == Jump("SEQBEGIN", n + 2)  j2 == Jump("SEQEND", m + 3)
           j3 == Jump("SEQRECOVER", 0)  j4 == Jump("POP", 0)
           t == j3 \o j4  s == t \o r
           u == j1 \o body  v == u \o j2  w == v \o s
<1>1. n \in Nat /\ body \in Seq(Pcode) /\ m \in Nat /\ r \in Seq(Pcode) /\ Fits(r)
  BY ClauseIs, LenProperties DEF Fits
<1> HIDE DEF n, r, m
<1>2. /\ {"SEQBEGIN", "SEQEND", "SEQRECOVER", "POP"} \subseteq Ops \ {"RETVALUE", "ENDPROC"}
      /\ n + 2 \in Nat /\ m + 3 \in Nat /\ 0 \in Nat
  BY <1>1 DEF Ops
<1>3. /\ j1 \in Seq(Pcode) /\ j2 \in Seq(Pcode) /\ j3 \in Seq(Pcode) /\ j4 \in Seq(Pcode)
      /\ Len(j1) = 1 /\ Len(j2) = 1 /\ Len(j3) = 1 /\ Len(j4) = 1
      /\ Body(j1) /\ Body(j2) /\ Body(j3) /\ Body(j4)
      /\ j3 = Op("SEQRECOVER") /\ j4 = Op("POP")
  BY <1>2, OneOp, OpsBody
<1>30. TrySeq(body, recover) = w
  <2> DEFINE q == Op("SEQRECOVER") \o Op("POP") \o The(recover)
  <2>1. TrySeq(body, recover) = Jump("SEQBEGIN", Len(body) + 2) \o body \o Jump("SEQEND", Len(q) + 1) \o q
    BY DEF TrySeq
  <2>2. q = s
    BY <1>3 DEF r
  <2>3. Len(s) = m + 2
    <3>1. t \in Seq(Pcode) /\ Len(t) = 1 + 1
      <4>1. Len(t) = 1 + 1
        <5>1. Len(j3 \o j4) = Len(j3) + Len(j4)
          BY <1>3, LenConcat
        <5> QED BY <1>3, <5>1 DEF t
      <4> QED BY <1>3, <4>1, ConcatProperties
    <3>2. Len(s) = (1 + 1) + m
      <4>1. Len(t \o r) = Len(t) + Len(r)
        BY <1>1, <3>1, LenConcat
      <4> QED BY <1>1, <3>1, <4>1 DEF s, m
    <3> QED BY <1>1, <3>2
  <2>4. (m + 2) + 1 = m + 3
    BY <1>1
  <2> QED BY <2>1, <2>2, <2>3, <2>4 DEF n
<1> HIDE DEF j1, j2, j3, j4
<1>4. /\ u \in Seq(Pcode) /\ v \in Seq(Pcode) /\ t \in Seq(Pcode) /\ s \in Seq(Pcode)
      /\ w \in Seq(Pcode) /\ Body(v) /\ Body(t)
  BY <1>1, <1>3, BodyConcat, ConcatProperties
<1>40. Body(r) => Body(w)
  BY <1>1, <1>4, BodyConcat
<1> HIDE DEF u, v, t, s, w
<1>5. Len(u) = n + 1
  <2>1. Len(u) = 1 + n
    <3>1. Len(j1 \o body) = Len(j1) + Len(body)
      BY <1>1, <1>3, LenConcat
    <3> QED BY <1>1, <1>3, <3>1 DEF n, u
  <2> QED BY <1>1, <2>1
<1>6. Len(v) = n + 2
  <2>1. Len(v) = (n + 1) + 1
    <3>1. Len(u \o j2) = Len(u) + Len(j2)
      BY <1>3, <1>4, <1>5, LenConcat
    <3> QED BY <1>3, <1>4, <1>5, <3>1 DEF v
  <2> QED BY <1>1, <2>1
<1>60. Len(t) = 2
  <2>1. Len(j3 \o j4) = Len(j3) + Len(j4)
    BY <1>3, LenConcat
  <2> QED BY <1>3, <2>1 DEF t
<1>61. Len(s) = m + 2
  <2>1. Len(s) = 2 + m
    <3>1. Len(t \o r) = Len(t) + Len(r)
      BY <1>1, <1>4, <1>60, LenConcat
    <3> QED BY <1>1, <1>4, <1>60, <3>1 DEF s, m
  <2> QED BY <1>1, <2>1
<1>62. Len(w) = n + m + 4
  <2>1. Len(w) = (n + 2) + (m + 2)
    <3>1. Len(v \o s) = Len(v) + Len(s)
      BY <1>4, <1>6, <1>61, LenConcat
    <3> QED BY <1>4, <1>6, <1>61, <3>1 DEF w
  <2> QED BY <1>1, <2>1
<1>7. ASSUME NEW C \in Seq(Pcode), NEW K, NEW a, Sums(C, K), Has(C, a, w)
      PROVE  Part(C, K, a, a + Len(w) - 1)
  <2>1. Has(C, a, v) /\ Has(C, a + (n + 2), s)
    BY <1>4, <1>6, <1>7, HasConcat DEF w
  <2>2. Has(C, a, u) /\ Has(C, a + (n + 1), j2)
    BY <1>3, <1>4, <1>5, <2>1, HasConcat DEF v
  <2>3. Has(C, a, j1) /\ Has(C, a + 1, body)
    BY <1>1, <1>3, <2>2, HasConcat DEF u
  <2>4. Has(C, a + (n + 2), t) /\ Has(C, a + (n + 2) + 2, r)
    BY <1>1, <1>4, <1>60, <2>1, HasConcat DEF s
  <2>5. Has(C, a + (n + 2), j3) /\ Has(C, a + (n + 2) + 1, j4)
    BY <1>3, <2>4, HasConcat DEF t
  <2> DEFINE x == a + (n + 1)  b == a + (n + m + 3)
  <2>6. /\ C[a].op = "SEQBEGIN" /\ C[a].to = n + 2 /\ a \in Nat /\ 1 <= a
        /\ C[x].op = "SEQEND" /\ C[x].to = m + 3
        /\ C[a + (n + 2)].op = "SEQRECOVER" /\ C[a + (n + 2) + 1].op = "POP"
    <3>1. /\ Has(C, a, Jump("SEQBEGIN", n + 2)) /\ Has(C, x, Jump("SEQEND", m + 3))
          /\ Has(C, a + (n + 2), Jump("SEQRECOVER", 0))
          /\ Has(C, a + (n + 2) + 1, Jump("POP", 0))
      BY <2>2, <2>3, <2>5, Zenon DEF j1, j2, j3, j4
    <3>2. "SEQBEGIN" \in Ops /\ "SEQEND" \in Ops /\ "SEQRECOVER" \in Ops /\ "POP" \in Ops
      BY <1>2
    <3>3. C[a].op = "SEQBEGIN" /\ C[a].to = n + 2 /\ a \in Nat /\ 1 <= a
      BY <1>2, <3>1, <3>2, HasOp
    <3>4. C[x].op = "SEQEND" /\ C[x].to = m + 3
      BY <1>2, <3>1, <3>2, HasOp
    <3>5. C[a + (n + 2)].op = "SEQRECOVER"
      <4> DEFINE y == a + (n + 2)
      <4>1. Has(C, y, Jump("SEQRECOVER", 0))
        BY <3>1
      <4> HIDE DEF y
      <4> QED BY <3>2, <4>1, HasOp DEF y
    <3>6. C[a + (n + 2) + 1].op = "POP"
      <4> DEFINE y == a + (n + 2) + 1
      <4>1. Has(C, y, Jump("POP", 0))
        BY <3>1
      <4> HIDE DEF y
      <4>2. C[y].op = "POP"
        BY <3>2, <4>1, HasOp
      <4> QED BY <4>2 DEF y
    <3> QED BY <3>3, <3>4, <3>5, <3>6
  <2>7. /\ x \in Nat /\ b \in Nat /\ a < x /\ x + 2 <= b /\ x + 1 = a + (n + 2)
        /\ b + 1 = x + (m + 3) /\ x + 2 = a + (n + 2) + 1 /\ x + 3 = a + (n + 2) + 2
        /\ (a + 1) + n - 1 = x - 1 /\ (a + (n + 2) + 2) + m - 1 = b
        /\ a + (n + m + 4) - 1 = b
    BY <1>1, <2>6
  <2>8. b <= Len(C)
    <3>1. a + (n + m + 4) <= Len(C) + 1 /\ Len(C) \in Nat
      BY <1>62, <1>7, LenProperties DEF Has
    <3> QED BY <1>1, <2>6, <3>1
  <2>9. /\ Part(C, K, a + 1, (a + 1) + n - 1) /\ NoReturn(C, a + 1, (a + 1) + n - 1)
    BY <1>1, <1>7, <2>3, HasBody DEF Fits, n
  <2>10. Part(C, K, a + (n + 2) + 2, (a + (n + 2) + 2) + m - 1)
    BY <1>1, <1>7, <2>4 DEF Fits, m
  <2> HIDE DEF x, b
  <2>11. Part(C, K, a + 1, x - 1) /\ NoReturn(C, a + 1, x - 1) /\ Part(C, K, x + 3, b)
    BY <2>7, <2>9, <2>10
  <2>12. /\ C[a].op = "SEQBEGIN" /\ x + 1 = a + C[a].to
         /\ C[x].op = "SEQEND" /\ b + 1 = x + C[x].to
         /\ C[x + 1].op = "SEQRECOVER" /\ C[x + 2].op = "POP"
    BY <2>6, <2>7
  <2>13. Part(C, K, a, b)
    BY <1>7, <2>6, <2>7, <2>8, <2>11, <2>12, RecoverPart
  <2> QED BY <1>62, <2>7, <2>13
<1>8. w # <<>>
  BY <1>1, <1>62, EmptySeq
<1> QED BY <1>30, <1>4, <1>40, <1>7, <1>8 DEF Fits, r

\* A body in a WITH clause fits.
LEMMA BlockFits ==
  ASSUME NEW body, Fits(body), Body(body)
  PROVE  Fits(Op("SEQBLOCK") \o body \o Op("POP")) /\ Body(Op("SEQBLOCK") \o body \o Op("POP"))
<1> DEFINE n == Len(body)  j1 == Op("SEQBLOCK")  j2 == Op("POP")  u == j1 \o body  w == u \o j2
<1>1. n \in Nat /\ body \in Seq(Pcode)
  BY LenProperties DEF Fits
<1> HIDE DEF n
<1>2. {"SEQBLOCK", "POP"} \subseteq Ops \ {"RETVALUE", "ENDPROC"} /\ 0 \in Nat
  BY DEF Ops
<1>3. /\ j1 \in Seq(Pcode) /\ j2 \in Seq(Pcode) /\ Len(j1) = 1 /\ Len(j2) = 1
      /\ Body(j1) /\ Body(j2) /\ j1 = Jump("SEQBLOCK", 0) /\ j2 = Jump("POP", 0)
  BY <1>2, OneOp, OpsBody
<1> HIDE DEF j1, j2
<1>4. u \in Seq(Pcode) /\ w \in Seq(Pcode) /\ Body(w)
  BY <1>1, <1>3, BodyConcat
<1>5. Len(u) = n + 1
  <2>1. Len(u) = 1 + n
    <3>1. Len(j1 \o body) = Len(j1) + Len(body)
      BY <1>1, <1>3, LenConcat
    <3> QED BY <1>1, <1>3, <3>1 DEF n, u
  <2> QED BY <1>1, <2>1
<1> HIDE DEF u
<1>6. Len(w) = n + 2
  <2>1. Len(w) = (n + 1) + 1
    <3>1. Len(u \o j2) = Len(u) + Len(j2)
      BY <1>3, <1>4, <1>5, LenConcat
    <3> QED BY <1>3, <1>4, <1>5, <3>1 DEF w
  <2> QED BY <1>1, <2>1
<1> HIDE DEF w
<1>7. ASSUME NEW C \in Seq(Pcode), NEW K, NEW a, Sums(C, K), Has(C, a, w)
      PROVE  Part(C, K, a, a + Len(w) - 1)
  <2>1. Has(C, a, u) /\ Has(C, a + (n + 1), j2)
    BY <1>3, <1>4, <1>5, <1>7, HasConcat DEF w
  <2>2. Has(C, a, j1) /\ Has(C, a + 1, body)
    BY <1>1, <1>3, <2>1, HasConcat DEF u
  <2>3. /\ C[a].op = "SEQBLOCK" /\ a \in Nat /\ 1 <= a
        /\ C[a + (n + 1)].op = "POP"
        /\ a + (n + 1) \in Nat /\ a + (n + 1) <= Len(C)
    <3>1. Has(C, a, Jump("SEQBLOCK", 0)) /\ Has(C, a + (n + 1), Jump("POP", 0))
      BY <1>3, <2>1, <2>2
    <3>2. "SEQBLOCK" \in Ops /\ "POP" \in Ops
      BY <1>2
    <3>3. C[a].op = "SEQBLOCK" /\ a \in Nat /\ 1 <= a
      BY <1>2, <3>1, <3>2, HasOp
    <3> QED BY <1>2, <3>1, <3>2, <3>3, HasOp
  <2>4. Part(C, K, a + 1, (a + 1) + n - 1)
    BY <1>1, <1>7, <2>2 DEF Fits, n
  <2>5. /\ (a + 1) + n - 1 = (a + (n + 1)) - 1 /\ a < a + (n + 1)
    BY <1>1, <2>3
  <2>6. Part(C, K, a, a + (n + 1))
    BY <1>7, <2>3, <2>4, <2>5, BlockPart
  <2>7. a + (n + 2) - 1 = a + (n + 1)
    BY <1>1, <2>3
  <2> QED BY <1>6, <2>6, <2>7
<1> QED BY <1>4, <1>7 DEF Fits, w, u, j1, j2

\* A SEQUENCE with ALWAYS fits.
LEMMA AlwaysFits ==
  ASSUME NEW try, Fits(try), NEW always, Fits(always)
  PROVE  LET c == Jump("SEQALWAYS", Len(try) + 1) \o try
                     \o Jump("ALWAYSBEGIN", Len(always) + 1) \o always \o Op("ALWAYSEND")
         IN  Fits(c) /\ (Body(try) /\ Body(always) => Body(c))
<1> DEFINE n == Len(try)  m == Len(always)
           j1 == Jump("SEQALWAYS", n + 1)  j2 == Jump("ALWAYSBEGIN", m + 1)
           j3 == Op("ALWAYSEND")
           u == j1 \o try  v == u \o j2  t == v \o always  w == t \o j3
<1>1. n \in Nat /\ try \in Seq(Pcode) /\ m \in Nat /\ always \in Seq(Pcode)
  BY LenProperties DEF Fits
<1> SUFFICES Fits(w) /\ (Body(try) /\ Body(always) => Body(w))
  OBVIOUS
<1>2. /\ {"SEQALWAYS", "ALWAYSBEGIN", "ALWAYSEND"} \subseteq Ops \ {"RETVALUE", "ENDPROC"}
      /\ n + 1 \in Nat /\ m + 1 \in Nat /\ 0 \in Nat
  BY <1>1 DEF Ops
<1>3. /\ j1 \in Seq(Pcode) /\ j2 \in Seq(Pcode) /\ j3 \in Seq(Pcode)
      /\ Len(j1) = 1 /\ Len(j2) = 1 /\ Len(j3) = 1
      /\ Body(j1) /\ Body(j2) /\ Body(j3) /\ j3 = Jump("ALWAYSEND", 0)
  <2> HIDE DEF n, m
  <2>0. "SEQALWAYS" \in Ops /\ "ALWAYSBEGIN" \in Ops /\ "ALWAYSEND" \in Ops
    BY <1>2
  <2>1. j1 \in Seq(Pcode) /\ Len(j1) = 1 /\ Body(j1)
    BY <1>2, <2>0, OneOp, OpsBody
  <2>2. j2 \in Seq(Pcode) /\ Len(j2) = 1 /\ Body(j2)
    BY <1>2, <2>0, OneOp, OpsBody
  <2>3. j3 \in Seq(Pcode) /\ Len(j3) = 1 /\ Body(j3) /\ j3 = Jump("ALWAYSEND", 0)
    BY <1>2, <2>0, OneOp, OpsBody, SMTT(30)
  <2> QED BY <2>1, <2>2, <2>3
<1> HIDE DEF n, m, j1, j2, j3
<1>4. /\ u \in Seq(Pcode) /\ v \in Seq(Pcode) /\ t \in Seq(Pcode) /\ w \in Seq(Pcode)
  BY <1>1, <1>3, ConcatProperties
<1>40. Body(try) /\ Body(always) => Body(w)
  <2> SUFFICES ASSUME Body(try), Body(always) PROVE Body(w)
    OBVIOUS
  <2>1. Body(u)
    BY <1>1, <1>3, BodyConcat
  <2>2. Body(v)
    BY <1>3, <1>4, <2>1, BodyConcat
  <2>3. Body(t)
    BY <1>1, <1>4, <2>2, BodyConcat
  <2> QED BY <1>3, <1>4, <2>3, BodyConcat
<1> HIDE DEF u, v, t, w
<1>5. Len(u) = n + 1
  <2>1. Len(j1 \o try) = Len(j1) + Len(try)
    BY <1>1, <1>3, LenConcat
  <2> QED BY <1>1, <1>3, <2>1 DEF n, u
<1>6. Len(v) = n + 2
  <2>1. Len(u \o j2) = Len(u) + Len(j2)
    BY <1>3, <1>4, LenConcat
  <2> QED BY <1>1, <1>3, <1>5, <2>1 DEF v
<1>60. Len(t) = n + 2 + m
  <2>1. Len(v \o always) = Len(v) + Len(always)
    BY <1>1, <1>4, LenConcat
  <2> QED BY <1>1, <1>6, <2>1 DEF t, m
<1>61. Len(w) = n + m + 3
  <2>1. Len(t \o j3) = Len(t) + Len(j3)
    BY <1>3, <1>4, LenConcat
  <2> QED BY <1>1, <1>3, <1>60, <2>1 DEF w
<1>7. ASSUME NEW C \in Seq(Pcode), NEW K, NEW a, Sums(C, K), Has(C, a, w)
      PROVE  Part(C, K, a, a + Len(w) - 1)
  <2>1. Has(C, a, t) /\ Has(C, a + (n + 2 + m), j3)
    BY <1>3, <1>4, <1>60, <1>7, HasConcat DEF w
  <2>2. Has(C, a, v) /\ Has(C, a + (n + 2), always)
    BY <1>1, <1>4, <1>6, <2>1, HasConcat DEF t
  <2>3. Has(C, a, u) /\ Has(C, a + (n + 1), j2)
    BY <1>3, <1>4, <1>5, <2>2, HasConcat DEF v
  <2>4. Has(C, a, j1) /\ Has(C, a + 1, try)
    BY <1>1, <1>3, <2>3, HasConcat DEF u
  <2> DEFINE x == a + (n + 1)  b == a + (n + 2 + m)
  <2>5. /\ Has(C, a, Jump("SEQALWAYS", n + 1)) /\ Has(C, x, Jump("ALWAYSBEGIN", m + 1))
        /\ Has(C, b, Jump("ALWAYSEND", 0))
    BY <1>3, <2>1, <2>3, <2>4 DEF j1, j2
  <2> HIDE DEF x, b
  <2>51. "SEQALWAYS" \in Ops /\ "ALWAYSBEGIN" \in Ops /\ "ALWAYSEND" \in Ops
    BY <1>2
  <2>52. C[a].op = "SEQALWAYS" /\ C[a].to = n + 1 /\ a \in Nat /\ 1 <= a
    BY <1>2, <2>5, <2>51, HasOp
  <2>53. C[x].op = "ALWAYSBEGIN" /\ C[x].to = m + 1
    <3>1. Has(C, x, Jump("ALWAYSBEGIN", m + 1)) /\ m + 1 \in Nat /\ "ALWAYSBEGIN" \in Ops
      BY <1>2, <2>5
    <3> QED BY <3>1, HasOp
  <2>54. C[b].op = "ALWAYSEND" /\ b <= Len(C)
    BY <2>5, <2>51, HasOp
  <2>6. /\ x \in Nat /\ b \in Nat /\ a < x /\ x < b /\ x = a + (n + 1) /\ b = x + (m + 1)
        /\ (a + 1) + n - 1 = x - 1 /\ x + 1 = a + (n + 2) /\ (a + (n + 2)) + m - 1 = b - 1
        /\ a + (n + m + 3) - 1 = b
    BY <1>1, <2>52 DEF x, b
  <2>7. Part(C, K, a + 1, (a + 1) + n - 1)
    BY <1>7, <2>4 DEF Fits, n
  <2>8. Part(C, K, a + (n + 2), (a + (n + 2)) + m - 1)
    BY <1>7, <2>2 DEF Fits, m
  <2>9. Part(C, K, a + 1, x - 1) /\ Part(C, K, x + 1, b - 1)
    BY <2>6, <2>7, <2>8
  <2>10. x = a + C[a].to /\ b = x + C[x].to
    BY <2>52, <2>53, <2>6
  <2>11. Part(C, K, a, b)
    BY <1>7, <2>52, <2>53, <2>54, <2>6, <2>9, <2>10, AlwaysPart
  <2> QED BY <1>61, <2>6, <2>11
<1> QED BY <1>4, <1>40, <1>7 DEF Fits

\* Every SEQUENCE that is compiled fits.
LEMMA SequenceFits ==
  ASSUME NEW with \in BOOLEAN, NEW stmts, Fits(stmts), Body(stmts),
         NEW recover, Clause(recover), NEW always, Clause(always)
  PROVE  /\ Fits(Sequence(with, stmts, recover, always))
         /\ (recover # {} => Body(The(recover))) /\ (always # {} => Body(The(always)))
              => Body(Sequence(with, stmts, recover, always))
<1> DEFINE body == IF with THEN Op("SEQBLOCK") \o stmts \o Op("POP") ELSE stmts
           try == IF always # {} /\ recover = {} THEN body ELSE TrySeq(body, recover)
           c == Jump("SEQALWAYS", Len(try) + 1) \o try
                   \o Jump("ALWAYSBEGIN", Len(The(always)) + 1)
                   \o The(always) \o Op("ALWAYSEND")
           S == Sequence(with, stmts, recover, always)
<1>1. Fits(body) /\ Body(body)
  BY BlockFits
<1>2. Fits(try) /\ ((recover # {} => Body(The(recover))) => Body(try))
  <2>1. CASE always # {} /\ recover = {}
    BY <1>1, <2>1
  <2>2. CASE always = {} /\ recover = {}
    <3>1. try = TrySeq(body, {})
      BY <2>2
    <3> HIDE DEF body, try
    <3> QED BY <1>1, <3>1, TryFits
  <2>3. CASE recover # {}
    <3>1. try = TrySeq(body, recover)
      BY <2>3
    <3> HIDE DEF body, try
    <3> QED BY <1>1, <2>3, <3>1, RecoverFits
  <2> QED BY <2>1, <2>2, <2>3
<1>3. always # {} => Fits(The(always))
  BY ClauseIs
<1>4. always # {} => Fits(c) /\ (Body(try) /\ Body(The(always)) => Body(c))
  <2> HIDE DEF try
  <2> QED BY <1>2, <1>3, AlwaysFits
<1>5. CASE stmts = <<>>
  <2>1. S = IF always = {} THEN <<>> ELSE The(always)
    BY <1>5 DEF Sequence
  <2> HIDE DEF S
  <2>2. Fits(S) /\ ((always # {} => Body(The(always))) => Body(S))
    BY <1>3, <2>1, EmptyFits
  <2> QED BY <2>2 DEF S
<1>6. CASE stmts # <<>> /\ always \in {{}, {<<>>}}
  <2>1. S = try
    BY <1>6 DEF Sequence
  <2> HIDE DEF S, try
  <2> QED BY <1>2, <2>1 DEF S
<1>7. CASE stmts # <<>> /\ always \notin {{}, {<<>>}}
  <2>1. S = c /\ always # {}
    BY <1>7 DEF Sequence
  <2> HIDE DEF S, c, try
  <2> QED BY <1>2, <1>4, <2>1 DEF S
<1> QED BY <1>5, <1>6, <1>7

\* Clauses made of statements fit.
LEMMA ClausesFit ==
  ASSUME NEW ss, ss \subseteq Statements, NEW cl \in Clauses(ss)
  PROVE  Clause(cl) /\ ("return" \notin ss /\ cl # {} => Body(The(cl)))
<1>1. CASE cl = {}
  BY <1>1 DEF Clause
<1>2. CASE cl # {}
  <2>1. PICK s \in ss \ {"none"} : cl = {Statement(s)}
    BY <1>2 DEF Clauses, Given
  <2>2. Fits(Statement(s)) /\ (s # "return" => Body(Statement(s)))
    BY <2>1, StatementFits
  <2>3. The(cl) = Statement(s)
    BY <2>1 DEF The
  <2> QED BY <2>1, <2>2, <2>3 DEF Clause
<1> QED BY <1>1, <1>2

\* The statements of a body fit.
LEMMA BodiesFit ==
  ASSUME NEW s \in Bodies \cup Tails
  PROVE  Fits(Statement(s)) /\ Body(Statement(s))
<1>1. s \in Statements \ {"none"} /\ s # "return"
  BY ProgramAssumption DEF Statements
<1> QED BY <1>1, StatementFits

\* A SEQUENCE fits if its parts do.
LEMMA SequencesFit ==
  ASSUME NEW bodies, \A b \in bodies : Fits(b) /\ Body(b),
         NEW recovers, \A r \in recovers : Clause(r),
         NEW alwayses, \A a \in alwayses : Clause(a),
         NEW x \in Sequences(bodies, recovers, alwayses)
  PROVE  /\ Fits(x)
         /\ /\ \A r \in recovers : r # {} => Body(The(r))
            /\ \A a \in alwayses : a # {} => Body(The(a))
            => Body(x)
<1>1. PICK w \in Withs, b \in bodies, r \in recovers, a \in alwayses :
             x = Sequence(w, b, r, a)
  BY DEF Sequences
<1>2. w \in BOOLEAN /\ Fits(b) /\ Body(b) /\ Clause(r) /\ Clause(a)
  BY ProgramAssumption
<1>3. /\ Fits(Sequence(w, b, r, a))
      /\ (r # {} => Body(The(r))) /\ (a # {} => Body(The(a))) => Body(Sequence(w, b, r, a))
  BY <1>2, SequenceFits
<1> QED BY <1>1, <1>3

\* A body without a SEQUENCE in it fits.
LEMMA FlatFits == \A b \in Flat : Fits(b) /\ Body(b)
BY BodiesFit DEF Flat

\* The nested SEQUENCEs.
LEMMA InnerFits ==
  ASSUME NEW ss, NEW x \in Inner(ss)
  PROVE  Fits(x) /\ ("return" \in ss => Body(x))
<1> DEFINE rs == Clauses(Recovers \ ss)  as == Clauses(Alwayses \ ss)
<1> DEFINE xs == Sequences(Flat, rs, as)
<1>0. x \in Followed(xs)
  BY DEF Inner
<1> HIDE DEF xs
<1>1. PICK s \in xs, t \in Tails : x = s \o Statement(t)
  BY <1>0 DEF Followed
<1>2. Recovers \ ss \subseteq Statements /\ Alwayses \ ss \subseteq Statements
  BY ProgramAssumption
<1>3. Fits(Statement(t)) /\ Body(Statement(t))
  BY BodiesFit
<1>4. /\ \A r \in rs : Clause(r) /\ ("return" \in ss /\ r # {} => Body(The(r)))
      /\ \A a \in as : Clause(a) /\ ("return" \in ss /\ a # {} => Body(The(a)))
  BY <1>2, ClausesFit
<1> HIDE DEF rs, as
<1>5. /\ Fits(s) /\ ("return" \in ss => Body(s))
  BY <1>4, FlatFits, SequencesFit DEF xs
<1>6. Fits(x)
  BY <1>1, <1>3, <1>5, FitsConcat
<1>7. "return" \in ss => Body(x)
  BY <1>1, <1>3, <1>5, BodyConcat DEF Fits
<1> QED BY <1>6, <1>7

\* A SEQUENCE with another in it fits.
LEMMA OuterFits == ASSUME NEW x \in Outer PROVE Fits(x)
<1> DEFINE rs == Clauses(Recovers)  as == Clauses(Alwayses)
<1>1. Recovers \subseteq Statements /\ Alwayses \subseteq Statements
  BY ProgramAssumption
<1>2. (\A r \in rs : Clause(r)) /\ \A a \in as : Clause(a)
  BY <1>1, ClausesFit
<1>3. \A b \in Inner({"return"}) : Fits(b) /\ Body(b)
  BY InnerFits
<1>4. \A b \in Given(Inner({})) : Clause(b)
  BY InnerFits DEF Clause, Given
<1>5. \/ x \in Sequences(Flat, rs, as)
      \/ x \in Sequences(Inner({"return"}), rs, as)
      \/ x \in Sequences(Flat, Given(Inner({})), as)
      \/ x \in Sequences(Flat, rs, Given(Inner({})))
  BY DEF Outer
<1> HIDE DEF rs, as
<1>6. CASE x \in Sequences(Flat, rs, as)
  BY <1>2, <1>6, FlatFits, SequencesFit
<1>7. CASE x \in Sequences(Inner({"return"}), rs, as)
  BY <1>2, <1>3, <1>7, SequencesFit
<1>8. CASE x \in Sequences(Flat, Given(Inner({})), as)
  BY <1>2, <1>4, <1>8, FlatFits, SequencesFit
<1>9. CASE x \in Sequences(Flat, rs, Given(Inner({})))
  BY <1>2, <1>4, <1>9, FlatFits, SequencesFit
<1> QED BY <1>5, <1>6, <1>7, <1>8, <1>9

\* The functions.
LEMMA ProgramsFit ==
  ASSUME NEW c \in Programs
  PROVE  /\ c \in Seq(Pcode) /\ Len(c) \in Nat /\ 2 <= Len(c)
         /\ c[Len(c)].op = "ENDPROC" /\ c[Len(c) - 1].op = "RETVALUE"
         /\ \A K : Sums(c, K) => Part(c, K, 1, Len(c))
         /\ \A K : Sums(c, K) => Part(c, K, 1, Len(c) - 2)
<1> DEFINE j1 == Jump("RETVALUE", 0)  j2 == Jump("ENDPROC", 0)  y == j1 \o j2
<1>1. PICK s \in Outer, t \in Tails : c = s \o Statement(t) \o Statement("return")
  <2>1. PICK x \in Followed(Outer) : c = x \o Statement("return")
    BY DEF Programs
  <2>2. PICK s \in Outer, t \in Tails : x = s \o Statement(t)
    BY DEF Followed
  <2> QED BY <2>1, <2>2
<1> DEFINE x == s \o Statement(t)
<1>2. {"RETVALUE", "ENDPROC"} \subseteq Ops /\ Statement("return") = Op("RETVALUE") \o Op("ENDPROC")
  BY DEF Statement, Ops
<1>3. /\ Statement("return") = y
      /\ j1 \in Seq(Pcode) /\ j2 \in Seq(Pcode) /\ Len(j1) = 1 /\ Len(j2) = 1
  BY <1>2, OneOp
<1>4. y \in Seq(Pcode) /\ Fits(y)
  <2>1. "return" \in Statements \ {"none"}
    BY DEF Statements
  <2>2. Fits(Statement("return"))
    BY <2>1, StatementFits
  <2> QED BY <1>3, <2>2 DEF Fits
<1> HIDE DEF j1, j2
<1>5. Len(y) = 2
  <2>1. Len(j1 \o j2) = Len(j1) + Len(j2)
    BY <1>3, LenConcat
  <2> QED BY <1>3, <2>1
<1>6. Fits(s) /\ Fits(Statement(t))
  BY OuterFits, BodiesFit
<1>7. Fits(x) /\ x \in Seq(Pcode) /\ Len(x) \in Nat
  BY <1>6, FitsConcat, LenProperties DEF Fits
<1> HIDE DEF x, y
<1>8. c = x \o y
  BY <1>1, <1>3 DEF x
<1>9. Fits(c) /\ c \in Seq(Pcode) /\ Len(c) = Len(x) + 2
  <2>1. Len(x \o y) = Len(x) + Len(y)
    BY <1>4, <1>7, LenConcat
  <2> QED BY <1>4, <1>5, <1>7, <1>8, <2>1, FitsConcat DEF Fits
<1>10. Has(c, 1, c)
  <2>1. \A p \in 1..Len(c) : 1 + p - 1 = p
    BY <1>7, <1>9
  <2> QED BY <1>7, <1>9, <2>1 DEF Has
<1>11. Has(c, 1, x) /\ Has(c, 1 + Len(x), y)
  <2>1. Has(c, 1, x \o y)
    BY <1>8, <1>10
  <2> QED BY <1>4, <1>7, <1>9, <2>1, HasConcat
<1>12. Has(c, 1 + Len(x), j1) /\ Has(c, 1 + Len(x) + 1, j2)
  BY <1>3, <1>9, <1>11, HasConcat DEF y
<1>13. c[1 + Len(x)].op = "RETVALUE" /\ c[1 + Len(x) + 1].op = "ENDPROC"
  <2>1. "RETVALUE" \in Ops /\ "ENDPROC" \in Ops
    BY <1>2
  <2> DEFINE p == 1 + Len(x)  q == 1 + Len(x) + 1
  <2>2. Has(c, p, Jump("RETVALUE", 0)) /\ Has(c, q, Jump("ENDPROC", 0))
    BY <1>12 DEF j1, j2
  <2> HIDE DEF p, q
  <2>3. c[p].op = "RETVALUE" /\ c[q].op = "ENDPROC"
    BY <1>9, <2>1, <2>2, HasOp
  <2> QED BY <2>3 DEF p, q
<1>14. 1 + Len(x) = Len(c) - 1 /\ 1 + Len(x) + 1 = Len(c) /\ 1 + Len(x) - 1 = Len(c) - 2
       /\ 1 + Len(c) - 1 = Len(c) /\ Len(c) \in Nat /\ 2 <= Len(c)
  BY <1>7, <1>9
<1>15. \A K : Sums(c, K) => Part(c, K, 1, 1 + Len(c) - 1) /\ Part(c, K, 1, 1 + Len(x) - 1)
  BY <1>7, <1>9, <1>10, <1>11 DEF Fits
<1> QED BY <1>9, <1>13, <1>14, <1>15

-----------------------------------------------------------------------------
(* The heights of a function.                                              *)

\* The effect of an opcode is an integer.
LEMMA EffectInt == ASSUME NEW c, NEW p PROVE Effect(c, p) \in Int
BY DEF Effect

\* There is a function that satisfies the recursive definition of Heights.
LEMMA HeightsExist ==
  ASSUME NEW c, NEW n \in Nat
  PROVE  \E f \in [1..n -> Int] : \A i \in 1..n :
            f[i] = IF i = 1 THEN 0 ELSE f[i - 1] + Effect(c, i - 1)
<1> DEFINE Good(f, m) == \A i \in 1..m : f[i] = IF i = 1 THEN 0 ELSE f[i - 1] + Effect(c, i - 1)
           T == {m \in Nat : \E f \in [1..m -> Int] : Good(f, m)}
<1>1. 0 \in T
  <2> DEFINE f == [i \in 1..0 |-> 0]
  <2>1. f \in [1..0 -> Int] /\ 1..0 = {}
    OBVIOUS
  <2> QED BY <2>1
<1>2. ASSUME NEW m \in Nat, m \in T
      PROVE  m + 1 \in T
  <2>1. PICK f \in [1..m -> Int] : Good(f, m)
    BY <1>2
  <2> DEFINE last == IF m = 0 THEN 0 ELSE f[m] + Effect(c, m)
             g == [i \in 1..(m + 1) |-> IF i = m + 1 THEN last ELSE f[i]]
  <2>2. last \in Int
    BY EffectInt
  <2> HIDE DEF last
  <2>3. g \in [1..(m + 1) -> Int]
    <3>1. \A i \in 1..(m + 1) : i = m + 1 \/ i \in 1..m
      OBVIOUS
    <3> QED BY <2>2, <3>1
  <2>4. \A i \in 1..m : g[i] = f[i]
    OBVIOUS
  <2>5. g[m + 1] = last
    OBVIOUS
  <2> HIDE DEF g
  <2>6. ASSUME NEW i \in 1..(m + 1)
        PROVE  g[i] = IF i = 1 THEN 0 ELSE g[i - 1] + Effect(c, i - 1)
    <3>1. CASE i \in 1..m
      <4>1. i # 1 => i - 1 \in 1..m
        BY <3>1
      <4>2. f[i] = IF i = 1 THEN 0 ELSE f[i - 1] + Effect(c, i - 1)
        BY <2>1, <3>1
      <4>3. g[i] = f[i] /\ (i # 1 => g[i - 1] = f[i - 1])
        BY <2>4, <3>1, <4>1
      <4> QED BY <4>2, <4>3, Zenon
    <3>2. CASE i = m + 1
      <4>1. /\ i = 1 <=> m = 0
            /\ i - 1 = m
            /\ m # 0 => m \in 1..m
        BY <3>2
      <4>2. m # 0 => g[m] = f[m]
        BY <2>4, <4>1
      <4>3. g[i] = IF m = 0 THEN 0 ELSE f[m] + Effect(c, m)
        BY <2>5, <3>2 DEF last
      <4> QED BY <4>1, <4>2, <4>3, Zenon
    <3>3. i = m + 1 \/ i \in 1..m
      OBVIOUS
    <3> QED BY <3>1, <3>2, <3>3
  <2>7. Good(g, m + 1)
    BY <2>6
  <2>8. \E h \in [1..(m + 1) -> Int] : Good(h, m + 1)
    <3> HIDE DEF Good
    <3> QED BY <2>3, <2>7
  <2>9. m + 1 \in Nat
    OBVIOUS
  <2> QED BY <2>8, <2>9, Zenon
<1>3. \A m \in Nat : m \in T
  <2> HIDE DEF T
  <2> QED BY <1>1, <1>2, Induction
<1> QED BY <1>3

\* So Heights satisfies it.
LEMMA HeightsAre ==
  ASSUME NEW c, NEW n \in Nat, Len(c) = n
  PROVE  /\ Heights(c) \in [1..n -> Int]
         /\ \A i \in 1..n : Heights(c)[i] = IF i = 1 THEN 0 ELSE Heights(c)[i - 1] + Effect(c, i - 1)
<1> DEFINE R(h) == [i \in 1..n |-> IF i = 1 THEN 0 ELSE h[i - 1] + Effect(c, i - 1)]
<1>1. PICK f \in [1..n -> Int] : \A i \in 1..n :
            f[i] = IF i = 1 THEN 0 ELSE f[i - 1] + Effect(c, i - 1)
  BY HeightsExist
<1>2. f = R(f)
  BY <1>1
<1>3. Heights(c) = CHOOSE h : h = R(h)
  BY DEF Heights
<1>4. Heights(c) = R(Heights(c))
  <2> HIDE DEF R
  <2> QED BY <1>2, <1>3
<1> DEFINE H == Heights(c)
<1>5. \A i \in 1..n : H[i] = IF i = 1 THEN 0 ELSE H[i - 1] + Effect(c, i - 1)
  <2> HIDE DEF H
  <2>1. H = R(H)
    BY <1>4 DEF H
  <2> QED BY <2>1
<1>6. \A i \in 1..n : H[i] = f[i]
  <2> DEFINE T == {i \in Nat : i + 1 \in 1..n => H[i + 1] = f[i + 1]}
  <2> HIDE DEF H
  <2>1. 0 \in T
    <3>1. 1 \in 1..n => H[1] = 0 /\ f[1] = 0
      BY <1>1, <1>5
    <3> QED BY <3>1
  <2>2. ASSUME NEW i \in Nat, i \in T PROVE i + 1 \in T
    <3> SUFFICES ASSUME (i + 1) + 1 \in 1..n PROVE H[(i + 1) + 1] = f[(i + 1) + 1]
      OBVIOUS
    <3> DEFINE j == (i + 1) + 1
    <3>1. j \in 1..n /\ j # 1 /\ j - 1 = i + 1 /\ i + 1 \in 1..n
      OBVIOUS
    <3>2. H[i + 1] = f[i + 1]
      BY <2>2, <3>1
    <3> HIDE DEF j
    <3>3. H[j] = H[j - 1] + Effect(c, j - 1) /\ f[j] = f[j - 1] + Effect(c, j - 1)
      BY <1>1, <1>5, <3>1
    <3>4. H[j] = f[j]
      BY <3>1, <3>2, <3>3, Zenon
    <3> QED BY <3>4 DEF j
  <2>3. \A i \in Nat : i \in T
    <3> HIDE DEF T
    <3> QED BY <2>1, <2>2, Induction
  <2> TAKE i \in 1..n
  <2>4. i - 1 \in Nat /\ (i - 1) + 1 = i
    OBVIOUS
  <2> QED BY <2>3, <2>4
<1>7. H \in [1..n -> Int]
  <2>1. H = R(H)
    BY <1>4
  <2>2. \A i \in 1..n : H[i] \in Int
    BY <1>6
  <2> HIDE DEF H
  <2>3. DOMAIN H = 1..n /\ H = [i \in DOMAIN H |-> H[i]]
    BY <2>1
  <2> QED BY <2>2, <2>3
<1> QED BY <1>5, <1>7

\* The heights, with that of the end of the function.
Extended(c) == [p \in 1..(Len(c) + 1) |-> IF p <= Len(c) THEN Heights(c)[p]
                                         ELSE Heights(c)[p - 1] + Effect(c, p - 1)]

\* Heights, with one more place at the end, sums up the effects.
LEMMA ExtendedSums ==
  ASSUME NEW c, Len(c) \in Nat, 1 <= Len(c)
  PROVE  Sums(c, Extended(c)) /\ \A p \in 1..Len(c) : Extended(c)[p] = Heights(c)[p]
<1> DEFINE n == Len(c)  H == Heights(c)  K == Extended(c)
<1>1. /\ H \in [1..n -> Int]
      /\ \A i \in 1..n : H[i] = IF i = 1 THEN 0 ELSE H[i - 1] + Effect(c, i - 1)
  BY HeightsAre
<1>0. K = [p \in 1..(n + 1) |-> IF p <= n THEN H[p] ELSE H[p - 1] + Effect(c, p - 1)]
  BY DEF Extended
<1> HIDE DEF n, H, K
<1>2. n \in Nat /\ 1 <= n
  BY DEF n
<1>3. \A p \in 1..n : K[p] = H[p]
  BY <1>0, <1>2
<1>4. K[n + 1] = H[n] + Effect(c, n)
  <2>1. n + 1 \in 1..(n + 1) /\ ~(n + 1 <= n) /\ (n + 1) - 1 = n
    BY <1>2
  <2> QED BY <1>0, <2>1
<1>5. K \in [1..(n + 1) -> Int]
  <2>1. \A p \in 1..n : K[p] \in Int
    BY <1>1, <1>3
  <2>2. K[n + 1] \in Int
    <3>1. H[n] \in Int /\ Effect(c, n) \in Int
      BY <1>1, <1>2, EffectInt
    <3> QED BY <1>4, <3>1
  <2>3. \A p \in 1..(n + 1) : p = n + 1 \/ p \in 1..n
    BY <1>2
  <2>4. \A p \in 1..(n + 1) : K[p] \in Int
    BY <2>1, <2>2, <2>3
  <2>5. DOMAIN K = 1..(n + 1) /\ K = [p \in DOMAIN K |-> K[p]]
    BY <1>0
  <2> QED BY <2>4, <2>5
<1>6. K[1] = 0
  BY <1>1, <1>2, <1>3
<1>7. \A p \in 1..n : K[p + 1] = K[p] + Effect(c, p)
  <2> TAKE p \in 1..n
  <2>1. CASE p = n
    BY <1>3, <1>4, <2>1, Zenon
  <2>2. CASE p # n
    <3> DEFINE q == p + 1
    <3>1. q \in 1..n /\ q # 1 /\ q - 1 = p
      BY <1>2, <2>2
    <3> HIDE DEF q
    <3>2. H[q] = H[q - 1] + Effect(c, q - 1)
      BY <1>1, <3>1
    <3>3. K[q] = K[p] + Effect(c, p)
      BY <1>3, <3>1, <3>2, Zenon
    <3> QED BY <3>3 DEF q
  <2> QED BY <2>1, <2>2
<1> QED BY <1>3, <1>5, <1>6, <1>7 DEF Sums, n, K, H

-----------------------------------------------------------------------------
(* What is known of the function that runs.                                *)

\* The function executed is one the compiler makes.
Compiled == code \in Programs /\ frame \in {0, 2}

\* Its opcodes and heights; it ends with a RETURN.
LEMMA CodeFacts ==
  ASSUME Compiled
  PROVE  /\ code \in Seq(Pcode) /\ Len(code) \in Nat /\ 2 <= Len(code)
         /\ code[Len(code)].op = "ENDPROC" /\ code[Len(code) - 1].op = "RETVALUE"
         /\ \A p \in 1..Len(code) : /\ code[p] \in Pcode /\ code[p].op \in Ops /\ code[p].to \in Nat
                                    /\ Height(p) \in Nat
         /\ Height(1) = 0
         /\ \A p \in 1..(Len(code) - 1) : Height(p + 1) = Height(p) + Effect(code, p)
         /\ \A i \in SeqOps(code) : i \in Nat /\ 1 <= i /\ i <= Len(code) - 2
<1> DEFINE n == Len(code)  K == Extended(code)
<1>1. /\ code \in Seq(Pcode) /\ n \in Nat /\ 2 <= n
      /\ code[n].op = "ENDPROC" /\ code[n - 1].op = "RETVALUE"
      /\ \A L : Sums(code, L) => Part(code, L, 1, n)
  BY ProgramsFit DEF Compiled
<1>2. Sums(code, K) /\ \A p \in 1..n : K[p] = Height(p)
  BY <1>1, ExtendedSums DEF Height
<1> HIDE DEF K, n
<1>3. Part(code, K, 1, n)
  BY <1>1, <1>2
<1>4. K[1] = 0 /\ \A p \in 1..n : K[p + 1] = K[p] + Effect(code, p) /\ K[p] \in Int
  BY <1>1, <1>2 DEF Sums, n
<1>5. \A p \in 1..n : K[p] >= 0
  BY <1>3, <1>4 DEF Part
<1>6. \A p \in 1..n : Height(p) \in Nat
  BY <1>2, <1>4, <1>5
<1>7. Height(1) = 0
  <2>1. 1 \in 1..n
    BY <1>1
  <2> QED BY <1>2, <1>4, <2>1
<1>8. \A p \in 1..(n - 1) : Height(p + 1) = Height(p) + Effect(code, p)
  <2> TAKE p \in 1..(n - 1)
  <2>1. p \in 1..n /\ p + 1 \in 1..n
    BY <1>1
  <2> QED BY <1>2, <1>4, <2>1
<1>9. \A p \in 1..n : code[p] \in Pcode /\ code[p].op \in Ops /\ code[p].to \in Nat
  <2>1. \A p \in 1..n : code[p] \in Pcode
    BY <1>1, ElementOfSeq DEF n
  <2> QED BY <2>1 DEF Pcode
<1>10. \A i \in SeqOps(code) : i \in Nat /\ 1 <= i /\ i <= n - 2
  <2> TAKE i \in SeqOps(code)
  <2>1. i \in 1..n /\ i # n /\ i # n - 1
    BY <1>1 DEF SeqOps, n
  <2> QED BY <1>1, <2>1
<1> QED BY <1>1, <1>6, <1>7, <1>8, <1>9, <1>10 DEF n

\* Where the opcodes of a SEQUENCE are.
LEMMA SeqFacts ==
  ASSUME Compiled, NEW i \in SeqOps(code)
  PROVE  /\ i \in Nat /\ Stop(code, i) \in Nat /\ First(code, i) \in Nat
         /\ Last(code, i) \in Nat /\ End(code, i) \in Nat
         /\ 1 <= i /\ i < Stop(code, i) /\ Stop(code, i) <= First(code, i)
         /\ First(code, i) <= Last(code, i) /\ Last(code, i) <= End(code, i)
         /\ End(code, i) <= Len(code) - 2
<1> DEFINE n == Len(code)  K == Extended(code)
<1>1. /\ code \in Seq(Pcode) /\ n \in Nat /\ 2 <= n
      /\ \A L : Sums(code, L) => Part(code, L, 1, n - 2)
  BY ProgramsFit DEF Compiled
<1>2. Sums(code, K)
  BY <1>1, ExtendedSums
<1>3. Part(code, K, 1, n - 2)
  BY <1>1, <1>2
<1>4. i \in Nat /\ 1 <= i /\ i <= n - 2
  BY CodeFacts
<1> HIDE DEF n, K
<1>5. Shape(code, i) /\ End(code, i) <= n - 2
  BY <1>3, <1>4 DEF Part
<1> QED BY <1>1, <1>5, ShapeFacts DEF n

\* A SEQUENCE has one of the three forms, and its envelope stays in place.
LEMMA SeqShape ==
  ASSUME Compiled, NEW i \in SeqOps(code)
  PROVE  Shape(code, i) /\ Deep(code, Extended(code), i)
<1> DEFINE n == Len(code)  K == Extended(code)
<1>1. /\ code \in Seq(Pcode) /\ n \in Nat /\ 2 <= n
      /\ \A L : Sums(code, L) => Part(code, L, 1, n)
  BY ProgramsFit DEF Compiled
<1>2. Sums(code, K)
  BY <1>1, ExtendedSums
<1>3. Part(code, K, 1, n)
  BY <1>1, <1>2
<1>4. i \in Nat /\ 1 <= i /\ i <= n
  BY <1>1, CodeFacts
<1> HIDE DEF n, K
<1> QED BY <1>3, <1>4 DEF Part, K

\* The opcodes of a SEQUENCE.
LEMMA SeqKinds ==
  ASSUME Compiled, NEW i \in SeqOps(code)
  PROVE  /\ code[i].op \in {"SEQBEGIN", "SEQALWAYS"}
         /\ code[i].op = "SEQALWAYS" =>
               /\ Stop(code, i) = First(code, i) /\ First(code, i) < Last(code, i)
               /\ End(code, i) = Last(code, i)
               /\ code[First(code, i)].op = "ALWAYSBEGIN" /\ code[Last(code, i)].op = "ALWAYSEND"
               /\ Last(code, i) = First(code, i) + code[First(code, i)].to
         /\ code[i].op = "SEQBEGIN" =>
               /\ Last(code, i) = First(code, i)
               /\ code[Stop(code, i)].op = "SEQEND"
               /\ Stop(code, i) + code[Stop(code, i)].to = End(code, i) + 1
               /\ code[First(code, i)].op \in {"SEQEND", "SEQRECOVER"}
               /\ code[First(code, i)].op = "SEQEND" => Stop(code, i) = First(code, i)
               /\ code[First(code, i)].op = "SEQRECOVER" => Stop(code, i) + 1 = First(code, i)
<1>1. /\ Shape(code, i) /\ code[i].op \in {"SEQBEGIN", "SEQALWAYS"}
  BY SeqShape DEF SeqOps
<1>2. /\ i \in Nat /\ Stop(code, i) \in Nat /\ First(code, i) \in Nat /\ Last(code, i) \in Nat
      /\ i < Stop(code, i) /\ Stop(code, i) <= First(code, i) /\ First(code, i) <= Last(code, i)
      /\ Last(code, i) <= End(code, i) /\ End(code, i) <= Len(code) - 2 /\ Len(code) \in Nat
      /\ End(code, i) \in Nat
  BY SeqFacts, CodeFacts
<1>3. CASE code[i].op = "SEQALWAYS"
  <2>1. /\ First(code, i) < Last(code, i)
        /\ code[First(code, i)].op = "ALWAYSBEGIN" /\ code[Last(code, i)].op = "ALWAYSEND"
    BY <1>1, <1>3 DEF Shape
  <2>2. Stop(code, i) = First(code, i) /\ End(code, i) = Last(code, i)
    BY <2>1 DEF Stop, End
  <2>3. Last(code, i) = First(code, First(code, i))
    BY <1>3 DEF Last
  <2>4. First(code, First(code, i)) = First(code, i) + code[First(code, i)].to
    BY DEF First
  <2> QED BY <1>3, <2>1, <2>2, <2>3, <2>4
<1>4. CASE code[i].op = "SEQBEGIN"
  <2>0. Last(code, i) = First(code, i)
    BY <1>4 DEF Last
  <2>1. CASE code[First(code, i)].op = "SEQEND" /\ code[First(code, i)].to = 1
    <3>1. Stop(code, i) = First(code, i) /\ End(code, i) = Last(code, i)
      BY <2>1 DEF Stop, End
    <3> QED BY <1>2, <1>4, <2>0, <2>1, <3>1
  <2>2. CASE /\ code[First(code, i)].op = "SEQRECOVER"
             /\ code[First(code, i) - 1].op = "SEQEND"
    <3>1. Stop(code, i) = First(code, i) - 1
      BY <2>2 DEF Stop
    <3>2. End(code, i) = Stop(code, i) + code[Stop(code, i)].to - 1
      BY <2>2 DEF End
    <3>3. Stop(code, i) \in 1..Len(code)
      BY <1>2
    <3>4. code[Stop(code, i)].to \in Nat
      BY <3>3, CodeFacts
    <3>5. Stop(code, i) + code[Stop(code, i)].to = End(code, i) + 1
      BY <1>2, <3>2, <3>4, SMTT(30)
    <3>6. Stop(code, i) + 1 = First(code, i)
      BY <1>2, <3>1
    <3> QED BY <1>4, <2>0, <2>2, <3>1, <3>5, <3>6
  <2> QED BY <1>1, <1>4, <2>1, <2>2 DEF Shape
<1> QED BY <1>1, <1>3, <1>4

\* The heights in a SEQUENCE.
LEMMA SeqHeights ==
  ASSUME Compiled, NEW i \in SeqOps(code)
  PROVE  /\ \A p \in (i + 1)..Last(code, i) : Height(p) >= Height(i) + 2
         /\ Height(Stop(code, i)) = Height(i) + 2 /\ Height(First(code, i)) = Height(i) + 2
         /\ Height(Last(code, i)) = Height(i) + 2
         /\ Height(End(code, i) + 1) = Height(i)
         /\ code[End(code, i)].op # "RETVALUE"
<1> DEFINE n == Len(code)  K == Extended(code)
<1>1. /\ n \in Nat /\ 2 <= n
  BY CodeFacts
<1>2. \A p \in 1..n : K[p] = Height(p)
  BY <1>1, ExtendedSums DEF Height
<1>3. /\ i \in Nat /\ Stop(code, i) \in Nat /\ First(code, i) \in Nat /\ Last(code, i) \in Nat
      /\ 1 <= i /\ i < Stop(code, i) /\ Stop(code, i) <= First(code, i) /\ First(code, i) <= Last(code, i)
      /\ Last(code, i) <= End(code, i) /\ End(code, i) <= n - 2 /\ End(code, i) \in Nat
  BY SeqFacts
<1> HIDE DEF n
<1>4. /\ i \in 1..n /\ Stop(code, i) \in 1..n /\ First(code, i) \in 1..n
      /\ Last(code, i) \in 1..n /\ End(code, i) + 1 \in 1..n
      /\ \A p \in (i + 1)..Last(code, i) : p \in 1..n
  BY <1>1, <1>3
<1>5. Deep(code, K, i)
  BY SeqShape
<1> HIDE DEF K
<1> QED BY <1>2, <1>4, <1>5 DEF Deep

\* SEQUENCEs do not overlap.
LEMMA SeqApart ==
  ASSUME Compiled, NEW i \in SeqOps(code), NEW j \in SeqOps(code), i < j
  PROVE  Apart(code, i, j)
<1> DEFINE n == Len(code)  K == Extended(code)
<1>1. /\ code \in Seq(Pcode) /\ n \in Nat /\ 2 <= n
      /\ \A L : Sums(code, L) => Part(code, L, 1, n)
  BY ProgramsFit DEF Compiled
<1>2. Sums(code, K)
  BY <1>1, ExtendedSums
<1>3. Part(code, K, 1, n)
  BY <1>1, <1>2
<1>4. i \in Nat /\ 1 <= i /\ i <= n /\ j \in Nat /\ 1 <= j /\ j <= n
  BY <1>1, CodeFacts
<1> HIDE DEF n, K
<1> QED BY <1>3, <1>4 DEF Part

\* What the opcodes rely on.
LEMMA OpFacts ==
  ASSUME Compiled, NEW p \in 1..Len(code)
  PROVE  /\ code[p].op = "SEQEND" =>
               \E i \in SeqOps(code) : code[i].op = "SEQBEGIN" /\ Stop(code, i) = p
         /\ code[p].op = "SEQRECOVER" =>
               \E i \in SeqOps(code) : code[i].op = "SEQBEGIN" /\ First(code, i) = p
         /\ code[p].op = "ALWAYSBEGIN" =>
               \E i \in SeqOps(code) : code[i].op = "SEQALWAYS" /\ First(code, i) = p
         /\ code[p].op = "ALWAYSEND" =>
               \E i \in SeqOps(code) : code[i].op = "SEQALWAYS" /\ Last(code, i) = p
         /\ code[p].op = "POP" =>
               /\ Height(p) >= 1
               /\ \A i \in Open(p) : Height(p) >= Height(i) + 3
         /\ code[p].op = "RETVALUE" => p < Len(code) /\ code[p + 1].op = "ENDPROC"
         /\ code[p].op = "ENDPROC" => 1 < p /\ code[p - 1].op = "RETVALUE"
         /\ code[p].op \in {"RETVALUE", "ENDPROC"} =>
               \A i \in Open(p) : code[i].op = "SEQALWAYS"
<1> DEFINE n == Len(code)  K == Extended(code)
<1>1. /\ code \in Seq(Pcode) /\ n \in Nat /\ 2 <= n
      /\ \A L : Sums(code, L) => Part(code, L, 1, n)
  BY ProgramsFit DEF Compiled
<1>2. Sums(code, K) /\ \A q \in 1..n : K[q] = Height(q)
  BY <1>1, ExtendedSums DEF Height
<1>3. Part(code, K, 1, n)
  BY <1>1, <1>2
<1>4. \A i \in SeqOps(code) : i \in Nat /\ 1 <= i /\ i <= n /\ i \in 1..n
  BY <1>1, CodeFacts
<1>5. Height(1) = 0 /\ 1 \in 1..n
  BY <1>1, CodeFacts
<1>6. K[1] = 0 /\ K[p] = Height(p)
  BY <1>2, <1>5
<1>7. OpFits(code, K, 1, n, p)
  BY <1>3 DEF Part
<1> HIDE DEF K
<1>8. \A i \in Open(p) : i \in SeqOps(code) /\ InSeq(code, i, p) /\ K[i] = Height(i)
  BY <1>2, <1>4 DEF Open, InSeq
<1>9. code[p].op = "POP" => /\ Height(p) >= 1
                            /\ \A i \in Open(p) : Height(p) >= Height(i) + 3
  <2> SUFFICES ASSUME code[p].op = "POP"
               PROVE  Height(p) >= 1 /\ \A i \in Open(p) : Height(p) >= Height(i) + 3
    OBVIOUS
  <2>1. /\ K[p] >= K[1] + 1
        /\ \A i \in SeqOps(code) : 1 <= i /\ i <= n /\ InSeq(code, i, p) => K[p] >= K[i] + 3
    BY <1>7 DEF OpFits
  <2>2. \A i \in Open(p) : K[p] >= K[i] + 3
    BY <1>4, <1>8, <2>1
  <2> QED BY <1>6, <1>8, <2>1, <2>2
<1>10. code[p].op \in {"RETVALUE", "ENDPROC"} =>
               \A i \in Open(p) : code[i].op = "SEQALWAYS"
  BY <1>4, <1>7, <1>8 DEF OpFits
<1> QED BY <1>7, <1>9, <1>10 DEF OpFits

-----------------------------------------------------------------------------
(* The SEQUENCEs open at an opcode.                                        *)

\* Where an open SEQUENCE begins and ends.
LEMMA OpenIs ==
  ASSUME Compiled, NEW p \in Nat, NEW i \in Open(p)
  PROVE  /\ i \in SeqOps(code) /\ i \in Nat /\ 1 <= i /\ i < p /\ p <= Last(code, i)
         /\ i <= Len(code)
         /\ p \in Nat /\ p <= Len(code) - 2 /\ p \in 1..Len(code) /\ p \in (i + 1)..Last(code, i)
<1>1. i \in SeqOps(code) /\ i < p /\ p <= Last(code, i)
  BY DEF Open
<1>2. i \in Nat /\ 1 <= i /\ Last(code, i) \in Nat /\ Last(code, i) <= Len(code) - 2 /\ Len(code) \in Nat
  BY <1>1, SeqFacts, CodeFacts
<1> QED BY <1>1, <1>2

\* From a SEQUENCE to its end those around it stay open, and as they were.
LEMMA Around ==
  ASSUME Compiled, NEW i \in SeqOps(code), NEW q \in Nat, i <= q, q <= End(code, i) + 1
  PROVE  /\ \A j \in Open(i) : j \in Open(q) /\ (Begun(j, q) <=> Begun(j, i))
         /\ \A j \in Open(q) : j < i => j \in Open(i)
<1>1. /\ i \in Nat /\ End(code, i) \in Nat
  BY SeqFacts
<1>2. ASSUME NEW j \in Open(i)
      PROVE  j \in Open(q) /\ (Begun(j, q) <=> Begun(j, i))
  <2>1. j \in SeqOps(code) /\ j < i /\ i <= Last(code, j) /\ j \in Nat
    BY <1>1, OpenIs
  <2>2. /\ Stop(code, j) \in Nat /\ First(code, j) \in Nat /\ Last(code, j) \in Nat /\ End(code, j) \in Nat
        /\ Stop(code, j) <= First(code, j) /\ First(code, j) <= Last(code, j)
        /\ Last(code, j) <= End(code, j)
    BY <2>1, SeqFacts
  <2>3. Apart(code, j, i)
    BY <2>1, SeqApart
  <2>4. \/ End(code, i) < Stop(code, j)
        \/ First(code, j) < i /\ End(code, i) < Last(code, j)
    BY <1>1, <2>1, <2>2, <2>3 DEF Apart
  <2>5. j < q /\ q <= Last(code, j)
    BY <1>1, <2>1, <2>2, <2>4
  <2>6. Begun(j, q) <=> Begun(j, i)
    BY <1>1, <2>1, <2>2, <2>4 DEF Begun
  <2> QED BY <2>1, <2>5, <2>6 DEF Open
<1>3. ASSUME NEW j \in Open(q), j < i
      PROVE  j \in Open(i)
  <2>1. j \in SeqOps(code) /\ q <= Last(code, j) /\ j \in Nat /\ Last(code, j) \in Nat
    BY OpenIs, SeqFacts
  <2> QED BY <1>1, <1>3, <2>1 DEF Open
<1> QED BY <1>2, <1>3

\* A SEQUENCE open around another is the outer one of the two.
LEMMA OpenOfOpen ==
  ASSUME Compiled, NEW p \in Nat, NEW i \in Open(p)
  PROVE  /\ Open(i) = {j \in Open(p) : j < i}
         /\ \A j \in Open(i) : Begun(j, i) <=> Begun(j, p)
         /\ Height(i) + 2 <= Height(p)
         /\ \A j \in Open(i) : Height(j) + 2 <= Height(i)
<1>1. /\ i \in SeqOps(code) /\ i \in Nat /\ i < p /\ p <= Last(code, i)
      /\ p \in (i + 1)..Last(code, i)
  BY OpenIs
<1>2. Last(code, i) \in Nat /\ End(code, i) \in Nat /\ Last(code, i) <= End(code, i)
  BY <1>1, SeqFacts
<1>3. i <= p /\ p <= End(code, i) + 1
  BY <1>1, <1>2
<1>4. /\ \A j \in Open(i) : j \in Open(p) /\ (Begun(j, p) <=> Begun(j, i))
      /\ \A j \in Open(p) : j < i => j \in Open(i)
  BY <1>1, <1>3, Around
<1>5. \A j \in Open(i) : j < i
  BY DEF Open
<1>6. Height(i) + 2 <= Height(p)
  <2>1. Height(p) >= Height(i) + 2
    BY <1>1, SeqHeights
  <2>2. p \in 1..Len(code) /\ i \in 1..Len(code)
    BY <1>1, OpenIs
  <2>3. Height(p) \in Nat /\ Height(i) \in Nat
    BY <2>2, CodeFacts
  <2> QED BY <2>1, <2>3
<1>7. \A j \in Open(i) : Height(j) + 2 <= Height(i)
  <2> TAKE j \in Open(i)
  <2>1. /\ j \in SeqOps(code) /\ i \in (j + 1)..Last(code, j) /\ j \in 1..Len(code)
        /\ i \in 1..Len(code)
    BY <1>1, OpenIs
  <2>2. Height(i) >= Height(j) + 2
    BY <2>1, SeqHeights
  <2>3. Height(i) \in Nat /\ Height(j) \in Nat
    BY <2>1, CodeFacts
  <2> QED BY <2>2, <2>3
<1> QED BY <1>4, <1>5, <1>6, <1>7

\* At the opcodes of a SEQUENCE it is the innermost.
LEMMA OpenAt ==
  ASSUME Compiled, NEW i \in SeqOps(code), NEW p,
         p \in {Stop(code, i), First(code, i), Last(code, i), i + 1}
  PROVE  /\ p \in 1..Len(code) /\ Open(p) = Open(i) \cup {i} /\ i \notin Open(i)
         /\ \A j \in Open(i) : Begun(j, p) <=> Begun(j, i)
<1>1. /\ i \in Nat /\ Stop(code, i) \in Nat /\ First(code, i) \in Nat /\ Last(code, i) \in Nat
      /\ 1 <= i /\ i < Stop(code, i) /\ Stop(code, i) <= First(code, i) /\ First(code, i) <= Last(code, i)
      /\ Last(code, i) <= End(code, i) /\ End(code, i) <= Len(code) - 2 /\ End(code, i) \in Nat
      /\ Len(code) \in Nat
  BY SeqFacts, CodeFacts
<1>2. p \in Nat /\ p \in 1..Len(code) /\ i < p /\ p <= Last(code, i) /\ i <= p /\ p <= End(code, i) + 1
  BY <1>1
<1>3. /\ \A j \in Open(i) : j \in Open(p) /\ (Begun(j, p) <=> Begun(j, i))
      /\ \A j \in Open(p) : j < i => j \in Open(i)
  BY <1>2, Around
<1>4. i \in Open(p) /\ i \notin Open(i)
  BY <1>1, <1>2 DEF Open
<1>5. ASSUME NEW j \in Open(p), i < j
      PROVE  FALSE
  <2>1. j \in SeqOps(code) /\ j \in Nat /\ j < p /\ p <= Last(code, j)
    BY <1>2, OpenIs
  <2>2. /\ Last(code, j) \in Nat /\ End(code, j) \in Nat /\ Last(code, j) <= End(code, j)
    BY <2>1, SeqFacts
  <2>3. Apart(code, i, j)
    BY <1>5, <2>1, SeqApart
  <2>4. CASE p = i + 1
    BY <1>1, <1>5, <2>1, <2>4
  <2>5. CASE p = Stop(code, i)
    BY <1>1, <2>1, <2>2, <2>3, <2>5 DEF Apart
  <2>6. CASE p = First(code, i)
    BY <1>1, <2>1, <2>2, <2>3, <2>6 DEF Apart
  <2>7. CASE p = Last(code, i)
    BY <1>1, <2>1, <2>2, <2>3, <2>7 DEF Apart
  <2> QED BY <2>4, <2>5, <2>6, <2>7
<1>6. \A j \in Open(p) : j < i \/ j = i
  <2>1. \A j \in Open(p) : j \in Nat
    BY <1>2, OpenIs
  <2> QED BY <1>1, <1>5, <2>1
<1> QED BY <1>2, <1>3, <1>4, <1>6

\* Behind a SEQUENCE it is open no more.
LEMMA OpenBehind ==
  ASSUME Compiled, NEW i \in SeqOps(code), NEW p, p \in {Last(code, i) + 1, End(code, i) + 1}
  PROVE  /\ p \in 1..Len(code) /\ Open(p) = Open(i)
         /\ \A j \in Open(i) : Begun(j, p) <=> Begun(j, i)
<1>1. /\ i \in Nat /\ Stop(code, i) \in Nat /\ First(code, i) \in Nat /\ Last(code, i) \in Nat
      /\ 1 <= i /\ i < Stop(code, i) /\ Stop(code, i) <= First(code, i) /\ First(code, i) <= Last(code, i)
      /\ Last(code, i) <= End(code, i) /\ End(code, i) <= Len(code) - 2 /\ End(code, i) \in Nat
      /\ Len(code) \in Nat
  BY SeqFacts, CodeFacts
<1>2. p \in Nat /\ p \in 1..Len(code) /\ i < p /\ Last(code, i) < p /\ i <= p /\ p <= End(code, i) + 1
  BY <1>1
<1>3. /\ \A j \in Open(i) : j \in Open(p) /\ (Begun(j, p) <=> Begun(j, i))
      /\ \A j \in Open(p) : j < i => j \in Open(i)
  BY <1>2, Around
<1>4. i \notin Open(p)
  BY <1>1, <1>2 DEF Open
<1>5. ASSUME NEW j \in Open(p), i < j
      PROVE  FALSE
  <2>1. j \in SeqOps(code) /\ j \in Nat /\ j < p /\ p <= Last(code, j)
    BY <1>2, OpenIs
  <2>2. /\ Last(code, j) \in Nat /\ End(code, j) \in Nat /\ Last(code, j) <= End(code, j)
    BY <2>1, SeqFacts
  <2>3. Apart(code, i, j)
    BY <1>5, <2>1, SeqApart
  <2> QED BY <1>1, <1>2, <2>1, <2>2, <2>3 DEF Apart
<1>6. \A j \in Open(p) : j < i
  <2>1. \A j \in Open(p) : j \in Nat
    BY <1>2, OpenIs
  <2> QED BY <1>1, <1>4, <1>5, <2>1
<1> QED BY <1>2, <1>3, <1>6

\* The other opcodes change nothing.
LEMMA OpenPlain ==
  ASSUME Compiled, NEW p \in 1..Len(code),
         code[p].op \notin {"SEQBEGIN", "SEQALWAYS", "SEQEND", "SEQRECOVER", "ALWAYSBEGIN", "ALWAYSEND"}
  PROVE  /\ Open(p + 1) = Open(p)
         /\ \A i \in Open(p) : /\ Begun(i, p + 1) <=> Begun(i, p)
                               /\ p # First(code, i) /\ p # Last(code, i)
<1>1. p \in Nat /\ p + 1 \in Nat
  BY CodeFacts
<1>2. \A i \in SeqOps(code) : /\ i \in Nat /\ First(code, i) \in Nat /\ Last(code, i) \in Nat
                              /\ i # p /\ p # First(code, i) /\ p # Last(code, i)
  BY SeqFacts, SeqKinds
<1>3. \A i \in SeqOps(code) : /\ i < p + 1 <=> i < p
                              /\ p + 1 <= Last(code, i) <=> p <= Last(code, i)
                              /\ First(code, i) < p + 1 <=> First(code, i) < p
  BY <1>1, <1>2
<1>4. \A i \in Open(p) : i \in SeqOps(code)
  BY DEF Open
<1> QED BY <1>2, <1>3, <1>4 DEF Open, Begun

\* The innermost of some open SEQUENCEs.
LEMMA InnermostIs ==
  ASSUME Compiled, NEW p \in Nat, NEW is \in SUBSET Open(p), is # {}
  PROVE  Innermost(is) \in is /\ \A j \in is : j <= Innermost(is)
<1>1. is \in SUBSET Nat /\ \A j \in is : j <= p
  BY OpenIs
<1> QED BY <1>1, Greatest

\* The innermost SEQUENCE behind the opcode that opens it.
LEMMA InnermostOf ==
  ASSUME Compiled, NEW i \in SeqOps(code)
  PROVE  Innermost(Open(i) \cup {i}) = i
<1>1. i \in Nat /\ \A j \in Open(i) : j \in Nat /\ j < i
  BY CodeFacts, OpenIs
<1>2. Open(i) \cup {i} \in SUBSET Nat /\ \A j \in Open(i) \cup {i} : j <= i
  BY <1>1
<1> DEFINE m == Innermost(Open(i) \cup {i})
<1>3. m \in Open(i) \cup {i} /\ \A j \in Open(i) \cup {i} : j <= m
  BY <1>1, <1>2, Greatest
<1> HIDE DEF m
<1>4. i <= m /\ m <= i /\ m \in Nat
  BY <1>2, <1>3
<1> QED BY <1>1, <1>4 DEF m

\* The innermost is open in all the others.
LEMMA OpenInnermost ==
  ASSUME Compiled, NEW p \in Nat, Open(p) # {}
  PROVE  /\ Innermost(Open(p)) \in Open(p)
         /\ Open(p) = Open(Innermost(Open(p))) \cup {Innermost(Open(p))}
<1> DEFINE m == Innermost(Open(p))
<1>1. m \in Open(p) /\ \A j \in Open(p) : j <= m
  BY InnermostIs
<1> HIDE DEF m
<1>2. Open(m) = {j \in Open(p) : j < m}
  BY <1>1, OpenOfOpen
<1>3. \A j \in Open(p) : j \in Nat
  BY OpenIs
<1>4. \A j \in Open(p) : j = m \/ j < m
  BY <1>1, <1>3
<1> QED BY <1>1, <1>2, <1>4 DEF m

\* What follows in sequence is no RECOVER clause, and no ENDPROC but that of a
\* RETURN.
LEMMA InSequence ==
  ASSUME Compiled, NEW p \in 1..Len(code), p + 1 \in 1..Len(code)
  PROVE  /\ code[p].op # "SEQEND" => code[p + 1].op # "SEQRECOVER"
         /\ code[p + 1].op = "ENDPROC" => code[p].op = "RETVALUE"
<1>1. p \in Nat /\ (p + 1) - 1 = p
  BY CodeFacts
<1>2. ASSUME code[p + 1].op = "SEQRECOVER"
      PROVE  code[p].op = "SEQEND"
  <2>1. PICK i \in SeqOps(code) : code[i].op = "SEQBEGIN" /\ First(code, i) = p + 1
    BY <1>2, OpFacts
  <2>2. Stop(code, i) + 1 = p + 1 /\ code[Stop(code, i)].op = "SEQEND" /\ Stop(code, i) \in Nat
    BY <1>2, <2>1, SeqKinds, SeqFacts
  <2>3. Stop(code, i) = p
    BY <1>1, <2>2
  <2> QED BY <2>2, <2>3
<1>3. ASSUME code[p + 1].op = "ENDPROC"
      PROVE  code[p].op = "RETVALUE"
  BY <1>1, <1>3, OpFacts
<1> QED BY <1>2, <1>3

\* What may be behind a SEQUENCE.
LEMMA BehindEnd ==
  ASSUME Compiled, NEW i \in SeqOps(code)
  PROVE  code[End(code, i) + 1].op \notin {"SEQRECOVER", "ENDPROC"}
<1> DEFINE q == End(code, i) + 1
<1>1. /\ i \in Nat /\ Stop(code, i) \in Nat /\ First(code, i) \in Nat /\ Last(code, i) \in Nat
      /\ 1 <= i /\ i < Stop(code, i) /\ Stop(code, i) <= First(code, i) /\ First(code, i) <= Last(code, i)
      /\ Last(code, i) <= End(code, i) /\ End(code, i) <= Len(code) - 2 /\ End(code, i) \in Nat
      /\ Len(code) \in Nat
  BY SeqFacts, CodeFacts
<1>2. q \in 1..Len(code) /\ q - 1 = End(code, i)
  BY <1>1
<1>3. code[q].op # "ENDPROC"
  <2>1. code[q].op = "ENDPROC" => code[q - 1].op = "RETVALUE"
    BY <1>2, OpFacts
  <2> QED BY <1>2, <2>1, SeqHeights
<1>4. ASSUME code[q].op = "SEQRECOVER"
      PROVE  FALSE
  <2>1. PICK k \in SeqOps(code) : code[k].op = "SEQBEGIN" /\ First(code, k) = q
    BY <1>2, <1>4, OpFacts
  <2>2. Stop(code, k) + 1 = First(code, k) /\ code[Stop(code, k)].op = "SEQEND" /\ First(code, k) = Last(code, k)
    BY <1>4, <2>1, SeqKinds
  <2>3. /\ k \in Nat /\ Stop(code, k) \in Nat /\ First(code, k) \in Nat /\ Last(code, k) \in Nat
        /\ End(code, k) \in Nat /\ k < Stop(code, k) /\ Last(code, k) <= End(code, k)
    BY SeqFacts
  <2>4. Stop(code, k) = End(code, i)
    BY <1>1, <2>1, <2>2, <2>3
  <2>5. CASE k = i
    BY <1>1, <2>1, <2>5
  <2>6. CASE i < k
    <3>1. Apart(code, i, k)
      BY <2>6, SeqApart
    <3> QED BY <1>1, <2>1, <2>2, <2>3, <2>4, <3>1 DEF Apart
  <2>7. CASE k < i
    <3>1. Apart(code, k, i)
      BY <2>7, SeqApart
    <3> QED BY <1>1, <2>1, <2>2, <2>3, <2>4, <3>1 DEF Apart
  <2> QED BY <1>1, <2>3, <2>5, <2>6, <2>7
<1> QED BY <1>3, <1>4

-----------------------------------------------------------------------------
(* The frame at an opcode.                                                 *)

\* What RETURN or BREAK may give, and what may be on the stack.
Values == {"nil", "other", "return", "break"} \X Nat
Items ==
    [kind : {"value"}, v : Values] \cup {Block}
      \cup [kind : {"envelope"}, recover : Nat, base : Nat,
            flags : SUBSET Flags, request : SUBSET RequestNames]

\* The envelope of the SEQUENCE opened at i, as it is at p, and its slot.
EnvelopeOf(stk, i, p) ==
    /\ stk[Place(i)].kind = "envelope" /\ stk[Place(i) - 1].kind = "value"
    /\ stk[Place(i)].recover = Handler(i, p)
    /\ stk[Place(i)].base = Base(Open(i))
    /\ "DOALWAYS" \in stk[Place(i)].flags <=> code[i].op = "SEQALWAYS"
    /\ "CANRECOVER" \in stk[Place(i)].flags <=> Open(i) # {}

\* The frame is the one the opcode at p was compiled for.  This is what every
\* opcode preserves: FrameAsCompiled, with what is below and between the
\* envelopes.
FrameAt(stk, base, can, p) ==
    /\ p \in 1..Len(code)
    /\ stk \in Seq(Items) /\ Len(stk) = frame + Height(p)
    /\ frame = 2 => stk[1].kind = "value" /\ stk[2] = Envelope(0, 0, {})
    /\ \A i \in Open(p) : EnvelopeOf(stk, i, p)
    /\ \A k \in 1..Len(stk) : stk[k].kind = "envelope" /\ frame < k => \E i \in Open(p) : k = Place(i)
    /\ base = Base(Open(p)) /\ can = (Open(p) # {})

\* From p to q some SEQUENCEs may be left, nothing else happens to any.
Move(p, q) ==
    /\ Open(q) \subseteq Open(p)
    /\ \A i \in Open(q) : Begun(i, q) <=> Begun(i, p)

\* Items that differ at most in their values and requests.
Alike(x, y) ==
    /\ x.kind = y.kind
    /\ y.kind = "envelope" => /\ x.recover = y.recover /\ x.base = y.base
                              /\ x.flags \ RequestNames = y.flags \ RequestNames

\* Where an envelope is on the stack.
LEMMA PlaceIs ==
  ASSUME Compiled, NEW p \in 1..Len(code), NEW i \in Open(p)
  PROVE  /\ Place(i) \in Nat /\ Place(i) - 1 \in Nat /\ frame + 2 <= Place(i) /\ frame \in Nat
         /\ frame < Place(i) - 1
         /\ Place(i) <= frame + Height(p) /\ Height(p) \in Nat /\ Height(i) \in Nat
         /\ Place(i) = frame + Height(i) + 2
         /\ Place(i) \in 1..(frame + Height(p)) /\ Place(i) - 1 \in 1..(frame + Height(p))
         /\ p \in Nat
<1>1. p \in Nat /\ frame \in Nat
  BY CodeFacts DEF Compiled
<1>2. i \in 1..Len(code)
  BY <1>1, OpenIs, CodeFacts
<1>3. Height(i) \in Nat /\ Height(p) \in Nat /\ Height(i) + 2 <= Height(p)
  BY <1>1, <1>2, OpenOfOpen, CodeFacts
<1>4. Place(i) = frame + Height(i) + 2
  BY DEF Place
<1> QED BY <1>1, <1>3, <1>4

\* The envelope and the slot of an inner SEQUENCE are above those of an outer one.
LEMMA PlaceLess ==
  ASSUME Compiled, NEW p \in 1..Len(code), NEW i \in Open(p), NEW j \in Open(p), j < i
  PROVE  Place(j) < Place(i) - 1
<1>1. p \in Nat
  BY CodeFacts
<1>2. j \in Open(i)
  BY <1>1, OpenOfOpen
<1>3. Height(j) + 2 <= Height(i)
  BY <1>1, <1>2, OpenOfOpen
<1>4. /\ Place(i) = frame + Height(i) + 2 /\ Place(j) = frame + Height(j) + 2
      /\ frame \in Nat /\ Height(i) \in Nat /\ Height(j) \in Nat
  BY PlaceIs
<1> QED BY <1>3, <1>4

\* Different SEQUENCEs have different envelopes and slots.
LEMMA PlaceSame ==
  ASSUME Compiled, NEW p \in 1..Len(code), NEW i \in Open(p), NEW j \in Open(p),
         Place(i) = Place(j) \/ Place(i) - 1 = Place(j) - 1
  PROVE  i = j
<1>1. p \in Nat
  BY CodeFacts
<1>2. i \in Nat /\ j \in Nat /\ Place(i) \in Nat /\ Place(j) \in Nat
  BY <1>1, OpenIs, PlaceIs
<1>3. CASE i < j
  <2>1. Place(i) < Place(j) - 1
    BY <1>3, PlaceLess
  <2> QED BY <1>2, <2>1
<1>4. CASE j < i
  <2>1. Place(j) < Place(i) - 1
    BY <1>4, PlaceLess
  <2> QED BY <1>2, <2>1
<1> QED BY <1>2, <1>3, <1>4

\* The stack of p made the one of q.
Carried(stk, p, stk2, q) ==
    /\ q \in 1..Len(code) /\ Move(p, q)
    /\ stk2 \in Seq(Items) /\ Len(stk2) = frame + Height(q)
    /\ \A k \in 1..Len(stk2) : k <= Len(stk) => Alike(stk2[k], stk[k])
    /\ \A k \in 1..Len(stk2) : Len(stk) < k => stk2[k].kind # "envelope"
    /\ \A i \in Open(p) : i \notin Open(q) => Len(stk2) < Place(i)
    /\ frame = 2 => stk2[2] = stk[2]

\* A stack that carries the envelopes from p to q is as compiled at q.
LEMMA Reframe ==
  ASSUME Compiled, NEW stk, NEW base, NEW can, NEW p, FrameAt(stk, base, can, p),
         NEW stk2, NEW q, Carried(stk, p, stk2, q)
  PROVE  FrameAt(stk2, Base(Open(q)), Open(q) # {}, q)
<1>0. /\ q \in 1..Len(code) /\ Move(p, q)
      /\ stk2 \in Seq(Items) /\ Len(stk2) = frame + Height(q)
      /\ \A k \in 1..Len(stk2) : k <= Len(stk) => Alike(stk2[k], stk[k])
      /\ \A k \in 1..Len(stk2) : Len(stk) < k => stk2[k].kind # "envelope"
      /\ \A i \in Open(p) : i \notin Open(q) => Len(stk2) < Place(i)
      /\ frame = 2 => stk2[2] = stk[2]
  BY DEF Carried
<1>1. /\ p \in 1..Len(code) /\ Len(stk) = frame + Height(p)
      /\ Len(stk) \in Nat /\ Len(stk2) \in Nat /\ frame \in {0, 2} /\ frame \in Nat
      /\ Height(p) \in Nat /\ Height(q) \in Nat
  BY <1>0, CodeFacts, LenProperties DEF FrameAt, Compiled
<1>2. ASSUME NEW i \in Open(q)
      PROVE  EnvelopeOf(stk2, i, q)
  <2>1. i \in Open(p) /\ (Begun(i, q) <=> Begun(i, p))
    BY <1>0 DEF Move
  <2>2. EnvelopeOf(stk, i, p)
    BY <2>1 DEF FrameAt
  <2>3. /\ Place(i) \in 1..Len(stk2) /\ Place(i) - 1 \in 1..Len(stk2)
        /\ Place(i) \in 1..Len(stk) /\ Place(i) - 1 \in 1..Len(stk)
        /\ Place(i) <= Len(stk) /\ Place(i) - 1 <= Len(stk)
    BY <1>0, <1>1, <2>1, PlaceIs
  <2>4. Alike(stk2[Place(i)], stk[Place(i)]) /\ Alike(stk2[Place(i) - 1], stk[Place(i) - 1])
    BY <1>0, <2>3
  <2>5. Handler(i, q) = Handler(i, p)
    BY <2>1 DEF Handler
  <2>6. "DOALWAYS" \notin RequestNames /\ "CANRECOVER" \notin RequestNames
    BY DEF RequestNames
  <2> QED BY <2>2, <2>4, <2>5, <2>6 DEF EnvelopeOf, Alike
<1>3. ASSUME NEW k \in 1..Len(stk2), stk2[k].kind = "envelope", frame < k
      PROVE  \E i \in Open(q) : k = Place(i)
  <2>1. k <= Len(stk) /\ k \in 1..Len(stk)
    BY <1>0, <1>1, <1>3
  <2>2. stk[k].kind = "envelope"
    BY <1>0, <1>3, <2>1 DEF Alike
  <2>3. PICK i \in Open(p) : k = Place(i)
    BY <1>3, <2>1, <2>2 DEF FrameAt
  <2>4. i \in Open(q)
    <3>1. CASE i \notin Open(q)
      <4>1. Len(stk2) < k
        BY <1>0, <2>3, <3>1
      <4> QED BY <1>1, <4>1
    <3> QED BY <3>1
  <2> QED BY <2>3, <2>4
<1>4. frame = 2 => stk2[1].kind = "value" /\ stk2[2] = Envelope(0, 0, {})
  <2> SUFFICES ASSUME frame = 2 PROVE stk2[1].kind = "value" /\ stk2[2] = Envelope(0, 0, {})
    OBVIOUS
  <2>1. 1 \in 1..Len(stk2) /\ 1 <= Len(stk)
    BY <1>0, <1>1
  <2>2. Alike(stk2[1], stk[1])
    BY <1>0, <2>1
  <2> QED BY <1>0, <2>2 DEF FrameAt, Alike
<1> QED BY <1>0, <1>2, <1>3, <1>4 DEF FrameAt

\* The frame behind SEQBEGIN or SEQALWAYS.
Entered(stk, to, base, flags) == stk \o <<Value(Nil), Envelope(to, base, flags)>>

\* The flags of a new envelope.
EnterFlags(p, can) == (IF code[p].op = "SEQALWAYS" THEN {"DOALWAYS"} ELSE {})
                         \cup (IF can THEN {"CANRECOVER"} ELSE {})

\* The stack with a new envelope and its slot.
Grown(stk, stk2, p, base, flags) ==
    /\ Len(stk2) = Len(stk) + 2 /\ Len(stk) \in Nat /\ Place(p) = Len(stk2)
    /\ \A k \in 1..Len(stk) : stk2[k] = stk[k]
    /\ stk2[Place(p)] = Envelope(First(code, p), base, flags)

\* The opcode that opens a SEQUENCE leaves the frame as compiled.
LEMMA EnterFrame ==
  ASSUME Compiled, NEW stk, NEW base, NEW can, NEW p, FrameAt(stk, base, can, p), p \in SeqOps(code),
         NEW flags, flags = EnterFlags(p, can),
         NEW stk2, stk2 = Entered(stk, First(code, p), base, flags)
  PROVE  FrameAt(stk2, Len(stk2), TRUE, p + 1) /\ Grown(stk, stk2, p, base, flags)
<1> DEFINE two == <<Value(Nil), Envelope(First(code, p), base, flags)>>
           n == Len(stk)
<1>1. /\ p \in 1..Len(code) /\ n = frame + Height(p) /\ stk \in Seq(Items)
      /\ n \in Nat /\ frame \in {0, 2} /\ frame \in Nat /\ Height(p) \in Nat /\ p \in Nat
      /\ base = Base(Open(p)) /\ can = (Open(p) # {})
  BY CodeFacts, LenProperties DEF FrameAt, Compiled
<1>2. base \in Nat
  <2>1. Base({}) = frame
    BY DEF Base
  <2>2. Open(p) # {} => Base(Open(p)) = Place(Innermost(Open(p))) /\ Innermost(Open(p)) \in Open(p)
    BY <1>1, OpenInnermost DEF Base
  <2> QED BY <1>1, <2>1, <2>2, PlaceIs
<1>3. two \in Seq(Items) /\ Len(two) = 2 /\ two[1] = Value(Nil) /\ two[2] = Envelope(First(code, p), base, flags)
  <2>1. Value(Nil) \in Items
    <3>1. Nil \in Values
      BY DEF Nil, Values
    <3> HIDE DEF Values
    <3>2. Value(Nil) \in [kind : {"value"}, v : Values]
      BY <3>1 DEF Value
    <3> QED BY <3>2 DEF Items
  <2>2. First(code, p) \in Nat /\ flags \in SUBSET Flags
    BY SeqFacts DEF Flags, EnterFlags
  <2>3. Envelope(First(code, p), base, flags) \in Items
    BY <1>2, <2>2 DEF Envelope, Items
  <2> QED BY <2>1, <2>3
<1> HIDE DEF two
<1>4. /\ stk2 \in Seq(Items) /\ Len(stk2) = n + 2
      /\ \A k \in 1..n : stk2[k] = stk[k]
      /\ stk2[n + 1] = Value(Nil) /\ stk2[n + 2] = Envelope(First(code, p), base, flags)
  <2>1. /\ stk \o two \in Seq(Items) /\ Len(stk \o two) = n + 2
        /\ \A k \in 1..(n + 2) : (stk \o two)[k] = IF k <= n THEN stk[k] ELSE two[k - n]
    <3>1. /\ stk \o two \in Seq(Items) /\ Len(stk \o two) = Len(stk) + Len(two)
          /\ \A k \in 1..(Len(stk) + Len(two)) :
                (stk \o two)[k] = IF k <= Len(stk) THEN stk[k] ELSE two[k - Len(stk)]
      BY <1>1, <1>3, ConcatProperties
    <3> QED BY <1>3, <3>1
  <2>2. stk2 = stk \o two
    BY DEF two, Entered
  <2>3. /\ n + 1 \in 1..(n + 2) /\ n + 2 \in 1..(n + 2) /\ ~(n + 1 <= n) /\ ~(n + 2 <= n)
        /\ (n + 1) - n = 1 /\ (n + 2) - n = 2
    BY <1>1, SMTT(30)
  <2>4. \A k \in 1..n : k \in 1..(n + 2) /\ k <= n
    BY <1>1
  <2> HIDE DEF n
  <2> QED BY <1>3, <2>1, <2>2, <2>3, <2>4
<1> HIDE DEF n
<1>5. /\ p + 1 \in 1..Len(code) /\ Open(p + 1) = Open(p) \cup {p} /\ p \notin Open(p)
      /\ \A j \in Open(p) : Begun(j, p + 1) <=> Begun(j, p)
  BY OpenAt
<1>6. Height(p + 1) = Height(p) + 2 /\ Place(p) = n + 2
  <2>1. p \in 1..(Len(code) - 1)
    BY <1>1, <1>5, CodeFacts
  <2>2. Height(p + 1) = Height(p) + Effect(code, p)
    BY <2>1, CodeFacts
  <2>3. Effect(code, p) = 2
    BY Effects DEF SeqOps
  <2> QED BY <1>1, <2>2, <2>3 DEF Place
<1>7. ASSUME NEW i \in Open(p)
      PROVE  EnvelopeOf(stk2, i, p + 1)
  <2>1. Place(i) \in 1..n /\ Place(i) - 1 \in 1..n
    BY <1>1, PlaceIs
  <2>2. EnvelopeOf(stk, i, p)
    BY DEF FrameAt
  <2>3. Handler(i, p + 1) = Handler(i, p)
    BY <1>5 DEF Handler
  <2>4. stk2[Place(i)] = stk[Place(i)] /\ stk2[Place(i) - 1] = stk[Place(i) - 1]
    BY <1>4, <2>1
  <2> QED BY <2>2, <2>3, <2>4 DEF EnvelopeOf
<1>8. EnvelopeOf(stk2, p, p + 1)
  <2>1. Handler(p, p + 1) = First(code, p)
    <3>1. ~Begun(p, p + 1)
      BY SeqFacts DEF Begun
    <3> QED BY <3>1 DEF Handler
  <2>2. Place(p) - 1 = n + 1
    BY <1>1, <1>6
  <2>3. code[p].op \in {"SEQBEGIN", "SEQALWAYS"}
    BY DEF SeqOps
  <2>4. stk2[Place(p) - 1].kind = "value"
    <3>1. stk2[Place(p) - 1] = Value(Nil)
      BY <1>4, <2>2
    <3>2. Value(Nil).kind = "value"
      BY DEF Value
    <3> QED BY <3>1, <3>2
  <2>5. stk2[Place(p)] = Envelope(First(code, p), base, flags)
    BY <1>4, <1>6
  <2>6. /\ Envelope(First(code, p), base, flags).kind = "envelope"
        /\ Envelope(First(code, p), base, flags).recover = First(code, p)
        /\ Envelope(First(code, p), base, flags).base = base
        /\ Envelope(First(code, p), base, flags).flags = flags
    BY DEF Envelope
  <2>7. /\ "DOALWAYS" \in flags <=> code[p].op = "SEQALWAYS"
        /\ "CANRECOVER" \in flags <=> Open(p) # {}
    BY <1>1 DEF EnterFlags
  <2> QED BY <1>1, <2>1, <2>4, <2>5, <2>6, <2>7 DEF EnvelopeOf
<1>9. ASSUME NEW k \in 1..Len(stk2), stk2[k].kind = "envelope", frame < k
      PROVE  \E i \in Open(p + 1) : k = Place(i)
  <2>1. CASE k \in 1..n
    <3>1. stk[k].kind = "envelope"
      BY <1>4, <1>9, <2>1
    <3> QED BY <1>5, <1>9, <2>1, <3>1 DEF FrameAt, n
  <2>2. CASE k = n + 1
    <3>1. stk2[k] = Value(Nil)
      BY <1>4, <2>2
    <3> QED BY <1>9, <3>1 DEF Value
  <2>3. CASE k = n + 2
    BY <1>5, <1>6, <2>3
  <2>4. k \in 1..n \/ k = n + 1 \/ k = n + 2
    <3>1. k \in 1..(n + 2)
      BY <1>4
    <3>2. n \in Nat
      BY <1>1
    <3> QED BY <3>1, <3>2
  <2> QED BY <2>1, <2>2, <2>3, <2>4
<1>10. Base(Open(p + 1)) = Len(stk2)
  <2>1. Innermost(Open(p) \cup {p}) = p
    BY InnermostOf
  <2> QED BY <1>4, <1>5, <1>6, <2>1 DEF Base
<1>11. frame = 2 => stk2[1].kind = "value" /\ stk2[2] = Envelope(0, 0, {})
  <2> SUFFICES ASSUME frame = 2 PROVE stk2[1].kind = "value" /\ stk2[2] = Envelope(0, 0, {})
    OBVIOUS
  <2>1. 1 \in 1..n /\ 2 \in 1..n
    BY <1>1
  <2>2. stk2[1] = stk[1] /\ stk2[2] = stk[2]
    BY <1>4, <2>1
  <2> QED BY <2>2 DEF FrameAt
<1>12. Len(stk2) = frame + Height(p + 1)
  BY <1>1, <1>4, <1>6, SMTT(30)
<1>13. FrameAt(stk2, Len(stk2), TRUE, p + 1)
  BY <1>4, <1>5, <1>7, <1>8, <1>9, <1>10, <1>11, <1>12 DEF FrameAt
<1>14. Grown(stk, stk2, p, base, flags)
  BY <1>1, <1>4, <1>6 DEF Grown, n
<1> QED BY <1>13, <1>14

-----------------------------------------------------------------------------
(* Where BREAK, ENDPROC and QUIT go.                                       *)

\* The SEQUENCEs that a BREAK is meant for, and those that an ALWAYS clause ends.
Begins(is) == {j \in is : code[j].op = "SEQBEGIN"}
Alwaysed(is) == {j \in is : code[j].op = "SEQALWAYS"}

\* The envelope that gets the value of BREAK, that of the caller if there is no
\* other.
Dest(is) == IF Begins(is) = {} THEN frame ELSE Place(Innermost(Begins(is)))

\* Where ENDPROC and QUIT stop.
Stops(is) == IF Alwaysed(is) = {} THEN [base |-> frame, found |-> FALSE]
                                  ELSE [base |-> Place(Innermost(Alwaysed(is))), found |-> TRUE]

\* A function defined by recursion down a set of naturals is defined by it.
Descends(D, S, N) == D \in SUBSET Nat /\ \A b \in D : b \notin S => N[b] \in D /\ N[b] < b

\* f follows the chain N from each element of D to one in S, and has its value v.
Computes(f, D, S, N, v) == \A b \in D : f[b] = IF b \in S THEN v[b] ELSE f[N[b]]

\* There is one such function, for a chain that descends.
LEMMA Descent ==
  ASSUME NEW D, NEW S, NEW N, Descends(D, S, N), NEW v,
         NEW f, NEW g, Computes(f, D, S, N, v), Computes(g, D, S, N, v)
  PROVE  \A b \in D : f[b] = g[b]
<1> DEFINE T == {b \in D : f[b] # g[b]}
<1> SUFFICES ASSUME T # {} PROVE FALSE
  OBVIOUS
<1>1. T \in SUBSET Nat
  BY DEF Descends
<1>2. PICK b \in T : \A c \in T : b <= c
  <2> HIDE DEF T
  <2> QED BY <1>1, Least
<1>3. b \in D /\ b \notin S /\ f[b] # g[b]
  BY DEF Computes
<1>4. N[b] \in D /\ N[b] < b /\ N[b] \in Nat /\ b \in Nat
  BY <1>3 DEF Descends
<1>5. N[b] \notin T
  BY <1>2, <1>4
<1>6. f[N[b]] = g[N[b]]
  BY <1>4, <1>5
<1> QED BY <1>3, <1>6 DEF Computes

\* The recover base where these SEQUENCEs are open.
LEMMA BaseIs ==
  ASSUME Compiled, NEW q \in 1..Len(code)
  PROVE  /\ Open(q) = {} => Base(Open(q)) = frame
         /\ Open(q) # {} => \E k \in Open(q) : /\ k = Innermost(Open(q)) /\ Base(Open(q)) = Place(k)
                                               /\ Open(q) = Open(k) \cup {k}
<1>1. q \in Nat
  BY CodeFacts
<1> QED BY <1>1, OpenInnermost DEF Base

\* Where BREAK, ENDPROC and QUIT go behind the opcode that opens a SEQUENCE.
LEMMA DestIs ==
  ASSUME Compiled, NEW i \in SeqOps(code)
  PROVE  /\ code[i].op = "SEQALWAYS" => Dest(Open(i) \cup {i}) = Dest(Open(i))
         /\ code[i].op = "SEQBEGIN" => Dest(Open(i) \cup {i}) = Place(i)
         /\ code[i].op = "SEQALWAYS" => Stops(Open(i) \cup {i}) = [base |-> Place(i), found |-> TRUE]
         /\ code[i].op = "SEQBEGIN" => Stops(Open(i) \cup {i}) = Stops(Open(i))
<1>1. i \in Nat /\ (\A j \in Open(i) : j \in Nat /\ j < i) /\ i \notin Open(i)
  BY CodeFacts, OpenIs
<1>2. ASSUME NEW s \in SUBSET (Open(i) \cup {i}), i \in s
      PROVE  Innermost(s) = i
  <2>1. s \in SUBSET Nat /\ s # {} /\ \A j \in s : j <= i
    BY <1>1, <1>2
  <2> DEFINE m == Innermost(s)
  <2>2. m \in s /\ \A j \in s : j <= m
    BY <1>1, <2>1, Greatest
  <2> HIDE DEF m
  <2>3. i <= m /\ m <= i /\ m \in Nat
    BY <1>2, <2>1, <2>2
  <2> QED BY <1>1, <2>3 DEF m
<1>3. CASE code[i].op = "SEQALWAYS"
  <2>1. Begins(Open(i) \cup {i}) = Begins(Open(i))
    BY <1>3 DEF Begins
  <2>2. /\ Alwaysed(Open(i) \cup {i}) \in SUBSET (Open(i) \cup {i})
        /\ i \in Alwaysed(Open(i) \cup {i})
    BY <1>3 DEF Alwaysed
  <2>3. Innermost(Alwaysed(Open(i) \cup {i})) = i
    BY <1>2, <2>2
  <2> QED BY <1>3, <2>1, <2>2, <2>3 DEF Dest, Stops
<1>4. CASE code[i].op = "SEQBEGIN"
  <2>1. Alwaysed(Open(i) \cup {i}) = Alwaysed(Open(i))
    BY <1>4 DEF Alwaysed
  <2>2. /\ Begins(Open(i) \cup {i}) \in SUBSET (Open(i) \cup {i})
        /\ i \in Begins(Open(i) \cup {i})
    BY <1>4 DEF Begins
  <2>3. Innermost(Begins(Open(i) \cup {i})) = i
    BY <1>2, <2>2
  <2> QED BY <1>4, <2>1, <2>2, <2>3 DEF Dest, Stops
<1> QED BY <1>3, <1>4, SeqKinds

\* The envelopes of this function, and that of the caller.
LEMMA ChainIs ==
  ASSUME Compiled, NEW stk, NEW base, NEW can, NEW p, FrameAt(stk, base, can, p)
  PROVE  /\ \A b \in Chain(stk) : b \in Nat /\ b # 0
         /\ \A b \in Chain(stk) : b <= frame => b = 2 /\ frame = 2 /\ stk[b] = Envelope(0, 0, {})
         /\ \A b \in Chain(stk) : ~(b <= frame) => \E i \in Open(p) : b = Place(i)
         /\ frame # 0 => frame \in Chain(stk)
         /\ \A i \in Open(p) : Place(i) \in Chain(stk) /\ ~(Place(i) <= frame) /\ Place(i) # 0
<1>1. /\ p \in 1..Len(code) /\ Len(stk) = frame + Height(p)
      /\ Len(stk) \in Nat /\ frame \in {0, 2} /\ frame \in Nat
      /\ Height(p) \in Nat
  BY CodeFacts, LenProperties DEF FrameAt, Compiled
<1>2. \A b \in Chain(stk) : b \in 1..Len(stk) /\ stk[b].kind = "envelope" /\ b \in Nat /\ b # 0
  BY <1>1 DEF Chain
<1>3. ASSUME NEW b \in Chain(stk), b <= frame
      PROVE  b = 2 /\ frame = 2 /\ stk[b] = Envelope(0, 0, {})
  <2>1. frame = 2 /\ (b = 1 \/ b = 2)
    BY <1>1, <1>2, <1>3
  <2>2. stk[1].kind = "value" /\ stk[2] = Envelope(0, 0, {})
    BY <2>1 DEF FrameAt
  <2>3. b # 1
    BY <1>2, <2>2
  <2> QED BY <2>1, <2>2, <2>3
<1>4. ASSUME NEW b \in Chain(stk), ~(b <= frame)
      PROVE  \E i \in Open(p) : b = Place(i)
  <2>1. frame < b
    BY <1>1, <1>2, <1>4
  <2> QED BY <1>2, <2>1 DEF FrameAt
<1>5. frame # 0 => frame \in Chain(stk)
  <2> SUFFICES ASSUME frame = 2 PROVE 2 \in Chain(stk)
    BY <1>1
  <2>1. 2 \in 1..Len(stk)
    BY <1>1
  <2>2. stk[2] = Envelope(0, 0, {})
    BY DEF FrameAt
  <2> QED BY <2>1, <2>2 DEF Chain, Envelope
<1>6. \A i \in Open(p) : Place(i) \in Chain(stk) /\ ~(Place(i) <= frame) /\ Place(i) # 0
  <2> TAKE i \in Open(p)
  <2>1. Place(i) \in 1..Len(stk) /\ ~(Place(i) <= frame) /\ Place(i) # 0
    BY <1>1, PlaceIs, SMTT(30)
  <2>2. stk[Place(i)].kind = "envelope"
    BY DEF FrameAt, EnvelopeOf
  <2> QED BY <2>1, <2>2 DEF Chain
<1> QED BY <1>2, <1>3, <1>4, <1>5, <1>6

\* The envelope of an open SEQUENCE and the one its base leads to.
LEMMA EnvelopeIs ==
  ASSUME Compiled, NEW stk, NEW base, NEW can, NEW p, FrameAt(stk, base, can, p), NEW i \in Open(p)
  PROVE  /\ i \in SeqOps(code) /\ i \in 1..Len(code) /\ stk[Place(i)].base = Base(Open(i))
         /\ "DOALWAYS" \in stk[Place(i)].flags <=> code[i].op = "SEQALWAYS"
         /\ "CANRECOVER" \in stk[Place(i)].flags <=> Open(i) # {}
         /\ Open(i) \subseteq Open(p)
         /\ Base(Open(i)) < Place(i)
<1>1. p \in 1..Len(code) /\ p \in Nat
  BY CodeFacts DEF FrameAt
<1>2. i \in SeqOps(code) /\ i \in 1..Len(code)
  BY <1>1, OpenIs DEF SeqOps
<1>3. /\ stk[Place(i)].base = Base(Open(i))
      /\ "DOALWAYS" \in stk[Place(i)].flags <=> code[i].op = "SEQALWAYS"
      /\ "CANRECOVER" \in stk[Place(i)].flags <=> Open(i) # {}
  BY DEF FrameAt, EnvelopeOf
<1>4. Open(i) \subseteq Open(p)
  BY <1>1, OpenOfOpen
<1>5. Base(Open(i)) < Place(i)
  <2>1. CASE Open(i) = {}
    <3>1. Base(Open(i)) = frame
      BY <1>2, <2>1, BaseIs
    <3>2. frame + 2 <= Place(i) /\ frame \in Nat /\ Place(i) \in Nat
      BY <1>1, PlaceIs
    <3> QED BY <3>1, <3>2
  <2>2. CASE Open(i) # {}
    <3>1. PICK k \in Open(i) : Base(Open(i)) = Place(k)
      BY <1>2, <2>2, BaseIs
    <3>2. k \in Open(p) /\ k < i
      BY <1>4 DEF Open
    <3>3. Place(k) < Place(i) - 1 /\ Place(i) \in Nat /\ Place(k) \in Nat
      BY <1>1, <3>2, PlaceLess, PlaceIs
    <3> QED BY <3>1, <3>3
  <2> QED BY <2>1, <2>2
<1> QED BY <1>2, <1>3, <1>4, <1>5

\* hb_vmRequestBreak finds the innermost SEQUENCE that is no ALWAYS one.
LEMMA BreakGoes ==
  ASSUME Compiled, NEW stk, NEW base, NEW can, NEW p, FrameAt(stk, base, can, p)
  PROVE  BreakBase(stk, base) = Dest(Open(p))
<1> DEFINE D == {0} \cup Chain(stk)
           R(f) == [b \in D |-> IF b # 0 /\ "DOALWAYS" \in stk[b].flags THEN f[stk[b].base] ELSE b]
           S == {b \in D : ~(b # 0 /\ "DOALWAYS" \in stk[b].flags)}
           N == [b \in D |-> stk[b].base]
           v == [b \in D |-> b]
           owner(b) == CHOOSE i \in Open(p) : Place(i) = b
           g == [b \in D |-> IF b <= frame THEN b ELSE Dest(Open(owner(b)) \cup {owner(b)})]
<1>1. p \in 1..Len(code) /\ base = Base(Open(p)) /\ frame \in {0, 2} /\ p \in Nat
  BY CodeFacts DEF FrameAt, Compiled
<1>2. /\ \A b \in Chain(stk) : b \in Nat /\ b # 0
      /\ \A b \in Chain(stk) : b <= frame => b = 2 /\ frame = 2 /\ stk[b] = Envelope(0, 0, {})
      /\ \A b \in Chain(stk) : ~(b <= frame) => \E i \in Open(p) : b = Place(i)
      /\ frame # 0 => frame \in Chain(stk)
      /\ \A i \in Open(p) : Place(i) \in Chain(stk) /\ ~(Place(i) <= frame) /\ Place(i) # 0
  BY ChainIs
<1>3. \A i \in Open(p) : owner(Place(i)) = i
  BY <1>1, PlaceSame
<1>4. \A i \in Open(p) : Place(i) \in D /\ g[Place(i)] = Dest(Open(i) \cup {i})
  BY <1>2, <1>3
<1>5. frame \in D /\ g[frame] = frame /\ 0 \in D /\ g[0] = 0
  BY <1>1, <1>2
<1> HIDE DEF g, owner
<1>6. ASSUME NEW q \in 1..Len(code), Open(q) \subseteq Open(p)
      PROVE  Base(Open(q)) \in D /\ g[Base(Open(q))] = Dest(Open(q))
  <2>1. CASE Open(q) = {}
    <3>1. Dest(Open(q)) = frame /\ Base(Open(q)) = frame
      BY <2>1, BaseIs DEF Dest, Begins
    <3> QED BY <1>5, <3>1
  <2>2. CASE Open(q) # {}
    <3>1. PICK k \in Open(q) : Base(Open(q)) = Place(k) /\ Open(q) = Open(k) \cup {k}
      BY <2>2, BaseIs
    <3>2. k \in Open(p)
      BY <1>6
    <3> QED BY <1>4, <3>1, <3>2
  <2> QED BY <2>1, <2>2
<1>7. ASSUME NEW i \in Open(p)
      PROVE  /\ i \in SeqOps(code) /\ stk[Place(i)].base = Base(Open(i))
             /\ "DOALWAYS" \in stk[Place(i)].flags <=> code[i].op = "SEQALWAYS"
             /\ Base(Open(i)) \in D /\ g[Base(Open(i))] = Dest(Open(i))
             /\ Base(Open(i)) < Place(i)
  BY <1>6, EnvelopeIs
<1>8. \A b \in D : b = 0 \/ (b = 2 /\ frame = 2 /\ stk[b] = Envelope(0, 0, {})) \/ \E i \in Open(p) : b = Place(i)
  BY <1>2
<1>9. Envelope(0, 0, {}).flags = {}
  BY DEF Envelope
<1>10. \A b \in D : b \in S <=> ~\E i \in Open(p) : b = Place(i) /\ code[i].op = "SEQALWAYS"
  <2> TAKE b \in D
  <2>1. CASE b = 0
    BY <1>2, <2>1
  <2>2. CASE b = 2 /\ frame = 2 /\ stk[b] = Envelope(0, 0, {})
    BY <1>2, <1>9, <2>2
  <2>3. ASSUME NEW i \in Open(p), b = Place(i)
        PROVE  b \in S <=> ~\E k \in Open(p) : b = Place(k) /\ code[k].op = "SEQALWAYS"
    <3>1. \A k \in Open(p) : b = Place(k) => k = i
      BY <1>1, <2>3, PlaceSame
    <3> QED BY <1>2, <1>7, <2>3, <3>1
  <2> QED BY <1>8, <2>1, <2>2, <2>3
<1>11. \A b \in D : b \notin S => N[b] \in D /\ N[b] < b
  BY <1>7, <1>10
<1>12. \A b \in D : g[b] = IF b \in S THEN v[b] ELSE g[N[b]]
  <2> TAKE b \in D
  <2>1. CASE b = 0
    BY <1>5, <2>1
  <2>2. CASE b = 2 /\ frame = 2 /\ stk[b] = Envelope(0, 0, {})
    BY <1>5, <1>9, <2>2
  <2>3. ASSUME NEW i \in Open(p), b = Place(i)
        PROVE  g[b] = IF b \in S THEN v[b] ELSE g[N[b]]
    <3>1. g[b] = Dest(Open(i) \cup {i}) /\ i \in SeqOps(code)
      BY <1>4, <1>7, <2>3
    <3>2. CASE code[i].op = "SEQALWAYS"
      <4>1. b \notin S /\ N[b] = Base(Open(i))
        BY <1>7, <1>10, <2>3, <3>2
      <4>2. g[N[b]] = Dest(Open(i))
        BY <1>7, <4>1
      <4> HIDE DEF S, N
      <4> QED BY <3>1, <3>2, <4>1, <4>2, DestIs
    <3>3. CASE code[i].op = "SEQBEGIN"
      <4>1. b \in S
        BY <1>7, <2>3, <3>3
      <4>2. v[b] = Place(i)
        BY <2>3
      <4> HIDE DEF S, N, v
      <4> QED BY <3>1, <3>3, <4>1, <4>2, DestIs
    <3> QED BY <1>7, <3>2, <3>3, SeqKinds
  <2> QED BY <1>8, <2>1, <2>2, <2>3
<1>13. g = R(g)
  <2>1. \A b \in D : g[b] = IF b # 0 /\ "DOALWAYS" \in stk[b].flags THEN g[stk[b].base] ELSE b
    BY <1>12
  <2>2. g = [b \in D |-> g[b]]
    BY DEF g
  <2> QED BY <2>1, <2>2
<1> DEFINE f == CHOOSE h : h = R(h)
<1>14. BreakBase(stk, base) = f[base]
  BY DEF BreakBase
<1>15. f = R(f)
  <2> HIDE DEF R
  <2> QED BY <1>13
<1> HIDE DEF f
<1>16. \A b \in D : f[b] = IF b \in S THEN v[b] ELSE f[N[b]]
  <2>1. \A b \in D : f[b] = IF b # 0 /\ "DOALWAYS" \in stk[b].flags THEN f[stk[b].base] ELSE b
    BY <1>15
  <2> QED BY <2>1
<1>17. /\ Descends(D, S, N) /\ Computes(f, D, S, N, v) /\ Computes(g, D, S, N, v)
  <2>1. D \in SUBSET Nat
    BY <1>2
  <2> HIDE DEF D, S, N, v
  <2> QED BY <1>11, <1>12, <1>16, <2>1 DEF Descends, Computes
<1> HIDE DEF D, S, N, v
<1>18. \A b \in D : f[b] = g[b]
  BY <1>17, Descent
<1> QED BY <1>1, <1>6, <1>14, <1>18

\* ENDPROC and QUIT find the innermost ALWAYS one.
LEMMA UnwindGoes ==
  ASSUME Compiled, NEW stk, NEW base, NEW can, NEW p, FrameAt(stk, base, can, p)
  PROVE  Unwind(stk, base, can) = Stops(Open(p))
<1> DEFINE D == Chain(stk)
           out(b) == [base |-> stk[b].base, found |-> FALSE]
           here(b) == [base |-> b, found |-> TRUE]
           R(f) == [b \in D |->
                      IF "DOALWAYS" \in stk[b].flags THEN [base |-> b, found |-> TRUE]
                      ELSE IF "CANRECOVER" \in stk[b].flags THEN f[stk[b].base]
                      ELSE [base |-> stk[b].base, found |-> FALSE]]
           S == {b \in D : "DOALWAYS" \in stk[b].flags \/ "CANRECOVER" \notin stk[b].flags}
           N == [b \in D |-> stk[b].base]
           v == [b \in D |-> IF "DOALWAYS" \in stk[b].flags THEN here(b) ELSE out(b)]
           owner(b) == CHOOSE i \in Open(p) : Place(i) = b
           g == [b \in D |-> IF b <= frame THEN [base |-> 0, found |-> FALSE]
                                           ELSE Stops(Open(owner(b)) \cup {owner(b)})]
<1>1. p \in 1..Len(code) /\ base = Base(Open(p)) /\ can = (Open(p) # {}) /\ frame \in {0, 2} /\ p \in Nat
  BY CodeFacts DEF FrameAt, Compiled
<1>2. /\ \A b \in D : b \in Nat /\ b # 0
      /\ \A b \in D : b <= frame => b = 2 /\ frame = 2 /\ stk[b] = Envelope(0, 0, {})
      /\ \A b \in D : ~(b <= frame) => \E i \in Open(p) : b = Place(i)
      /\ \A i \in Open(p) : Place(i) \in D /\ ~(Place(i) <= frame) /\ Place(i) # 0
  BY ChainIs
<1>3. \A i \in Open(p) : owner(Place(i)) = i
  BY <1>1, PlaceSame
<1>4. \A i \in Open(p) : Place(i) \in D /\ g[Place(i)] = Stops(Open(i) \cup {i})
  BY <1>2, <1>3
<1>5. \A b \in D : b <= frame => g[b] = [base |-> 0, found |-> FALSE]
  OBVIOUS
<1> HIDE DEF g, owner
<1>6. ASSUME NEW q \in 1..Len(code), Open(q) \subseteq Open(p), Open(q) # {}
      PROVE  Base(Open(q)) \in D /\ g[Base(Open(q))] = Stops(Open(q))
  <2>1. PICK k \in Open(q) : Base(Open(q)) = Place(k) /\ Open(q) = Open(k) \cup {k}
    BY <1>6, BaseIs
  <2>2. k \in Open(p)
    BY <1>6
  <2> QED BY <1>4, <2>1, <2>2
<1>7. ASSUME NEW i \in Open(p)
      PROVE  /\ i \in SeqOps(code) /\ stk[Place(i)].base = Base(Open(i))
             /\ "DOALWAYS" \in stk[Place(i)].flags <=> code[i].op = "SEQALWAYS"
             /\ "CANRECOVER" \in stk[Place(i)].flags <=> Open(i) # {}
             /\ Open(i) # {} => Base(Open(i)) \in D /\ g[Base(Open(i))] = Stops(Open(i))
             /\ Open(i) = {} => Base(Open(i)) = frame
             /\ Base(Open(i)) < Place(i)
  <2>1. i \in SeqOps(code) /\ i \in 1..Len(code) /\ Open(i) \subseteq Open(p)
    BY EnvelopeIs
  <2> QED BY <1>6, <2>1, EnvelopeIs, BaseIs
<1>8. \A b \in D : (b <= frame /\ stk[b] = Envelope(0, 0, {})) \/ \E i \in Open(p) : b = Place(i)
  BY <1>2
<1>9. Envelope(0, 0, {}).flags = {} /\ Envelope(0, 0, {}).base = 0
  BY DEF Envelope
<1>10. \A b \in D : b \notin S => N[b] \in D /\ N[b] < b
  <2> TAKE b \in D
  <2>1. CASE b <= frame /\ stk[b] = Envelope(0, 0, {})
    BY <1>9, <2>1
  <2>2. ASSUME NEW i \in Open(p), b = Place(i)
        PROVE  b \notin S => N[b] \in D /\ N[b] < b
    BY <1>7, <2>2
  <2> QED BY <1>8, <2>1, <2>2
<1>11. \A b \in D : g[b] = IF b \in S THEN v[b] ELSE g[N[b]]
  <2> TAKE b \in D
  <2>1. CASE b <= frame /\ stk[b] = Envelope(0, 0, {})
    <3>1. b \in S /\ v[b] = [base |-> 0, found |-> FALSE]
      BY <1>9, <2>1
    <3> QED BY <1>5, <2>1, <3>1
  <2>2. ASSUME NEW i \in Open(p), b = Place(i)
        PROVE  g[b] = IF b \in S THEN v[b] ELSE g[N[b]]
    <3>1. g[b] = Stops(Open(i) \cup {i}) /\ i \in SeqOps(code)
      BY <1>4, <1>7, <2>2
    <3>2. CASE code[i].op = "SEQALWAYS"
      <4>1. b \in S /\ v[b] = [base |-> Place(i), found |-> TRUE]
        BY <1>7, <2>2, <3>2
      <4> HIDE DEF S, v
      <4> QED BY <3>1, <3>2, <4>1, DestIs
    <3>3. CASE code[i].op = "SEQBEGIN" /\ Open(i) # {}
      <4>1. b \notin S /\ N[b] = Base(Open(i))
        BY <1>7, <2>2, <3>3
      <4>2. g[N[b]] = Stops(Open(i))
        BY <1>7, <3>3, <4>1
      <4> HIDE DEF S, N
      <4> QED BY <3>1, <3>3, <4>1, <4>2, DestIs
    <3>4. CASE code[i].op = "SEQBEGIN" /\ Open(i) = {}
      <4>1. b \in S /\ v[b] = [base |-> frame, found |-> FALSE]
        BY <1>7, <2>2, <3>4
      <4>2. Stops(Open(i)) = [base |-> frame, found |-> FALSE]
        BY <3>4 DEF Stops, Alwaysed
      <4> HIDE DEF S, v
      <4> QED BY <3>1, <3>4, <4>1, <4>2, DestIs
    <3> QED BY <1>7, <3>2, <3>3, <3>4, SeqKinds
  <2> QED BY <1>8, <2>1, <2>2
<1>12. \A h : (\A b \in D : h[b] = IF b \in S THEN v[b] ELSE h[N[b]])
                 <=> \A b \in D : h[b] = R(h)[b]
  <2> TAKE h
  <2>1. ASSUME NEW b \in D
        PROVE  R(h)[b] = IF b \in S THEN v[b] ELSE h[N[b]]
    <3>1. CASE "DOALWAYS" \in stk[b].flags
      BY <3>1
    <3>2. CASE "DOALWAYS" \notin stk[b].flags /\ "CANRECOVER" \in stk[b].flags
      BY <3>2
    <3>3. CASE "DOALWAYS" \notin stk[b].flags /\ "CANRECOVER" \notin stk[b].flags
      BY <3>3
    <3> QED BY <3>1, <3>2, <3>3
  <2> QED BY <2>1
<1>13. g = R(g)
  <2>1. \A b \in D : g[b] = R(g)[b]
    BY <1>11, <1>12
  <2>2. g = [b \in D |-> g[b]]
    BY DEF g
  <2>3. R(g) = [b \in D |-> R(g)[b]]
    OBVIOUS
  <2> HIDE DEF R
  <2> QED BY <2>1, <2>2, <2>3
<1> DEFINE f == CHOOSE h : h = R(h)
<1>14. Unwind(stk, base, can) = IF can THEN f[base] ELSE [base |-> base, found |-> FALSE]
  BY DEF Unwind
<1>15. f = R(f)
  <2> HIDE DEF R
  <2> QED BY <1>13
<1> HIDE DEF f
<1>16. \A b \in D : f[b] = IF b \in S THEN v[b] ELSE f[N[b]]
  <2>1. \A b \in D : f[b] = R(f)[b]
    BY <1>15
  <2> HIDE DEF R, S, v, N, D
  <2> QED BY <1>12, <2>1
<1>17. /\ Descends(D, S, N) /\ Computes(f, D, S, N, v) /\ Computes(g, D, S, N, v)
  <2>1. D \in SUBSET Nat
    BY <1>2
  <2> HIDE DEF D, S, N, v
  <2> QED BY <1>10, <1>11, <1>16, <2>1 DEF Descends, Computes
<1> HIDE DEF D, S, N, v
<1>18. \A b \in D : f[b] = g[b]
  BY <1>17, Descent
<1>19. CASE Open(p) # {}
  BY <1>1, <1>6, <1>14, <1>18, <1>19
<1>20. CASE Open(p) = {}
  <2>1. base = frame
    BY <1>1, <1>20, BaseIs
  <2>2. Stops(Open(p)) = [base |-> frame, found |-> FALSE]
    BY <1>20 DEF Stops, Alwaysed
  <2> QED BY <1>1, <1>14, <1>20, <2>1, <2>2
<1> QED BY <1>19, <1>20

-----------------------------------------------------------------------------
(* The end of the loop.                                                    *)

\* The handler of an open SEQUENCE finds the same SEQUENCEs open.
LEMMA HandlerIs ==
  ASSUME Compiled, NEW p \in Nat, NEW i \in Open(p)
  PROVE  /\ Handler(i, p) \in 1..Len(code) /\ Handler(i, p) \in Nat
         /\ Open(Handler(i, p)) = Open(i) \cup {i} /\ i \notin Open(i)
         /\ Move(p, Handler(i, p))
         /\ Height(Handler(i, p)) = Height(i) + 2
         /\ code[i].op = "SEQALWAYS" => code[Handler(i, p)].op = (IF Begun(i, p) THEN "ALWAYSEND" ELSE "ALWAYSBEGIN")
         /\ code[i].op = "SEQBEGIN" => code[Handler(i, p)].op \in {"SEQEND", "SEQRECOVER"} /\ ~Begun(i, p)
<1> DEFINE h == Handler(i, p)
<1>1. /\ i \in SeqOps(code) /\ i < p /\ p <= Last(code, i)
  BY OpenIs
<1>2. /\ First(code, i) \in Nat /\ Last(code, i) \in Nat
      /\ First(code, i) <= Last(code, i)
  BY <1>1, SeqFacts
<1>3. \/ h = First(code, i) /\ ~Begun(i, p)
      \/ h = Last(code, i) /\ Begun(i, p)
  BY DEF Handler
<1>4. Begun(i, p) => code[i].op = "SEQALWAYS"
  <2>1. Begun(i, p) => First(code, i) # Last(code, i)
    BY <1>1, <1>2 DEF Begun
  <2> QED BY <1>1, <2>1, SeqKinds
<1> HIDE DEF h
<1>5. /\ h \in 1..Len(code) /\ Open(h) = Open(i) \cup {i} /\ i \notin Open(i)
      /\ \A j \in Open(i) : Begun(j, h) <=> Begun(j, i)
  BY <1>1, <1>3, OpenAt
<1>6. /\ Open(i) = {j \in Open(p) : j < i}
      /\ \A j \in Open(i) : Begun(j, i) <=> Begun(j, p)
  BY OpenOfOpen
<1>7. Begun(i, h) <=> Begun(i, p)
  <2>1. CASE h = First(code, i) /\ ~Begun(i, p)
    BY <1>2, <2>1 DEF Begun
  <2>2. CASE h = Last(code, i) /\ Begun(i, p)
    <3>1. First(code, i) < Last(code, i)
      BY <1>1, <1>4, <2>2, SeqKinds
    <3> QED BY <2>2, <3>1 DEF Begun
  <2> QED BY <1>3, <2>1, <2>2
<1>8. Move(p, h)
  BY <1>5, <1>6, <1>7 DEF Move
<1>9. Height(h) = Height(i) + 2
  BY <1>1, <1>3, SeqHeights
<1>10. /\ code[i].op = "SEQALWAYS" => code[h].op = (IF Begun(i, p) THEN "ALWAYSEND" ELSE "ALWAYSBEGIN")
       /\ code[i].op = "SEQBEGIN" => code[h].op \in {"SEQEND", "SEQRECOVER"} /\ ~Begun(i, p)
  BY <1>1, <1>3, <1>4, SeqKinds
<1>11. h \in Nat
  BY <1>5, CodeFacts
<1> QED BY <1>5, <1>8, <1>9, <1>10, <1>11 DEF h

\* A request put into an envelope.
LEMMA Requested ==
  ASSUME NEW e \in Items, e.kind = "envelope", NEW act \in SUBSET RequestNames
  PROVE  /\ [e EXCEPT !.request = act] \in Items
         /\ [e EXCEPT !.request = act].kind = "envelope" /\ [e EXCEPT !.request = act].recover = e.recover
         /\ [e EXCEPT !.request = act].base = e.base /\ [e EXCEPT !.request = act].flags = e.flags
         /\ [e EXCEPT !.request = act].request = act
<1>1. e \in [kind : {"envelope"}, recover : Nat, base : Nat,
             flags : SUBSET Flags, request : SUBSET RequestNames]
  BY DEF Items, Block
<1>2. [e EXCEPT !.request = act] \in [kind : {"envelope"}, recover : Nat, base : Nat,
                                      flags : SUBSET Flags, request : SUBSET RequestNames]
  BY <1>1
<1> QED BY <1>1, <1>2 DEF Items

\* The stack cut at an envelope that gets a request.
Landed(stk, b, act) == [Cut(stk, b) EXCEPT ![b].request = act]

\* What is left of the stack.
CutAt(stk, stk2, b, act) ==
    /\ Len(stk2) = b /\ b <= Len(stk) /\ b \in Nat /\ Len(stk) \in Nat
    /\ \A k \in 1..Len(stk2) : k # b => stk2[k] = stk[k]
    /\ stk2[b].flags = stk[b].flags /\ stk2[b].request = act

\* In a handler the frame is as compiled.
LEMMA LandFrame ==
  ASSUME Compiled, NEW stk, NEW base, NEW can, NEW p, FrameAt(stk, base, can, p),
         NEW i \in Open(p), NEW act \in SUBSET RequestNames,
         NEW stk2, stk2 = Landed(stk, Place(i), act)
  PROVE  /\ FrameAt(stk2, Place(i), TRUE, Handler(i, p))
         /\ stk[Place(i)].recover = Handler(i, p)
         /\ CutAt(stk, stk2, Place(i), act)
<1> DEFINE n == Place(i)  h == Handler(i, p)  e == [stk[n] EXCEPT !.request = act]
<1>1. /\ p \in 1..Len(code) /\ Len(stk) = frame + Height(p) /\ stk \in Seq(Items)
      /\ Len(stk) \in Nat /\ frame \in {0, 2} /\ frame \in Nat /\ Height(p) \in Nat /\ p \in Nat
  BY CodeFacts, LenProperties DEF FrameAt, Compiled
<1>2. /\ n \in Nat /\ n \in 1..Len(stk) /\ frame + 2 <= n /\ n = frame + Height(i) + 2
  BY <1>1, PlaceIs
<1>3. EnvelopeOf(stk, i, p) /\ stk[n].kind = "envelope" /\ stk[n].recover = h
  BY DEF FrameAt, EnvelopeOf
<1>4. stk[n] \in Items
  BY <1>1, <1>2, ElementOfSeq
<1> HIDE DEF n
<1>5. /\ e \in Items /\ e.kind = "envelope" /\ e.recover = stk[n].recover
      /\ e.base = stk[n].base /\ e.flags = stk[n].flags /\ e.request = act
  BY <1>3, <1>4, Requested
<1>6. /\ Cut(stk, n) \in Seq(Items) /\ Len(Cut(stk, n)) = n
      /\ \A k \in 1..n : Cut(stk, n)[k] = stk[k]
  <2>1. \A k \in 1..n : stk[k] \in Items
    BY <1>1, <1>2, ElementOfSeq
  <2>2. 1 \in Int /\ n \in Int
    BY <1>2
  <2>3. /\ SubSeq(stk, 1, n) \in Seq(Items)
        /\ Len(SubSeq(stk, 1, n)) = IF 1 <= n THEN n - 1 + 1 ELSE 0
        /\ \A k \in 1..(n - 1 + 1) : SubSeq(stk, 1, n)[k] = stk[1 + k - 1]
    BY <2>1, <2>2, SubSeqProperties
  <2>4. 1 <= n /\ n - 1 + 1 = n /\ \A k \in 1..n : 1 + k - 1 = k
    BY <1>2
  <2> QED BY <2>3, <2>4 DEF Cut
<1>7. stk2 = [Cut(stk, n) EXCEPT ![n] = e]
  <2>1. n \in 1..n
    BY <1>2
  <2>2. Cut(stk, n)[n] = stk[n]
    BY <1>6, <2>1
  <2> QED BY <2>2 DEF n, Landed
<1> HIDE DEF e
<1>8. /\ stk2 \in Seq(Items) /\ Len(stk2) = n
      /\ \A k \in 1..n : stk2[k] = IF k = n THEN e ELSE stk[k]
  <2>1. n \in 1..Len(Cut(stk, n))
    BY <1>2, <1>6
  <2>2. /\ [Cut(stk, n) EXCEPT ![n] = e] \in Seq(Items)
        /\ Len([Cut(stk, n) EXCEPT ![n] = e]) = Len(Cut(stk, n))
        /\ \A k \in 1..Len(Cut(stk, n)) : [Cut(stk, n) EXCEPT ![n] = e][k] = IF k = n THEN e ELSE Cut(stk, n)[k]
    BY <1>5, <1>6, <2>1, ExceptSeq
  <2> QED BY <1>6, <1>7, <2>2
<1>9. /\ h \in 1..Len(code) /\ Open(h) = Open(i) \cup {i} /\ i \notin Open(i)
      /\ Move(p, h) /\ Height(h) = Height(i) + 2
  BY <1>1, HandlerIs
<1> HIDE DEF h
<1>10. \A k \in 1..Len(stk2) : k <= Len(stk) => Alike(stk2[k], stk[k])
  <2> TAKE k \in 1..Len(stk2)
  <2>1. CASE k = n
    <3>1. stk2[k] = e
      BY <1>8, <2>1
    <3> QED BY <1>3, <1>5, <2>1, <3>1 DEF Alike
  <2>2. CASE k # n
    <3>1. stk2[k] = stk[k]
      BY <1>8, <2>2
    <3> QED BY <3>1 DEF Alike
  <2> QED BY <2>1, <2>2
<1>11. \A j \in Open(p) : j \notin Open(h) => Len(stk2) < Place(j)
  <2> TAKE j \in Open(p)
  <2> HAVE j \notin Open(h)
  <2>1. j # i /\ j \notin Open(i)
    BY <1>9
  <2>2. Open(i) = {k \in Open(p) : k < i}
    BY <1>1, OpenOfOpen
  <2>3. i < j
    BY <1>1, <2>1, <2>2, OpenIs
  <2>4. Place(i) < Place(j) - 1 /\ Place(j) \in Nat
    BY <1>1, <2>3, PlaceLess, PlaceIs
  <2> QED BY <1>2, <1>8, <2>4 DEF n
<1>12. frame = 2 => stk2[2] = stk[2]
  <2>1. frame = 2 => 2 \in 1..n /\ 2 # n
    BY <1>2
  <2> QED BY <1>8, <2>1
<1>13. \A k \in 1..Len(stk2) : Len(stk) < k => stk2[k].kind # "envelope"
  BY <1>1, <1>2, <1>8
<1>14. Len(stk2) = frame + Height(h)
  <2>1. i \in 1..Len(code)
    BY <1>1, OpenIs DEF SeqOps
  <2>2. Height(i) \in Nat
    BY <2>1, CodeFacts
  <2> QED BY <1>1, <1>2, <1>8, <1>9, <2>2
<1>15. FrameAt(stk2, Base(Open(h)), Open(h) # {}, h)
  <2>1. Carried(stk, p, stk2, h)
    BY <1>8, <1>9, <1>10, <1>11, <1>12, <1>13, <1>14 DEF Carried
  <2> QED BY <2>1, Reframe
<1>16. Base(Open(h)) = n
  <2>1. i \in SeqOps(code)
    BY <1>1, OpenIs
  <2>2. Innermost(Open(i) \cup {i}) = i
    BY <2>1, InnermostOf
  <2> QED BY <1>9, <2>2 DEF Base, n
<1>17. (Open(h) # {}) = TRUE
  BY <1>9
<1>18. n \in 1..n
  BY <1>2
<1>19. FrameAt(stk2, n, TRUE, h)
  BY <1>15, <1>16, <1>17
<1>20. stk2[n].flags = stk[n].flags /\ stk2[n].request = act
  BY <1>5, <1>8, <1>18
<1>21. \A k \in 1..Len(stk2) : k # n => stk2[k] = stk[k]
  BY <1>8
<1>22. n <= Len(stk)
  BY <1>1, <1>2
<1>23. CutAt(stk, stk2, n, act)
  BY <1>1, <1>2, <1>8, <1>20, <1>21, <1>22 DEF CutAt
<1>24. stk[n].recover = h
  BY <1>3
<1> QED BY <1>19, <1>23, <1>24 DEF n, h

\* The envelope at i gets the request made at the end of a turn whose opcode
\* left things as they are at q; nobody does.
Serves(act, i, q) ==
    \/ act = {"BREAK"} /\ i \in Open(q) /\ i = Innermost(Open(q))
    \/ /\ act \in {{"ENDPROC"}, {"QUIT"}}
       /\ i \in Alwaysed(Open(q)) /\ i = Innermost(Alwaysed(Open(q)))

\* No SEQUENCE of this function serves the request.
Unserved(act, q) ==
    \/ act = {"BREAK"} /\ Open(q) = {}
    \/ act \in {{"ENDPROC"}, {"QUIT"}} /\ Alwaysed(Open(q)) = {}

\* The end of the loop goes on, lands in the handler of the SEQUENCE that serves
\* the request, or leaves the function.
Goes(stk, base, can, act, q) ==
    \/ /\ act = {} /\ pc' = q /\ action' = {}
       /\ stack' = stk /\ recoverBase' = base /\ bCanRecover' = can
    \/ \E i \in Open(q) :
          /\ Serves(act, i, q) /\ pc' = Handler(i, q) /\ action' = {}
          /\ stack' = Landed(stk, Place(i), act)
          /\ recoverBase' = Place(i) /\ bCanRecover' = TRUE
    \/ /\ Unserved(act, q) /\ pc' = Done /\ action' = act \ {"ENDPROC"}
       /\ stack' = Cut(stk, frame) /\ recoverBase' = frame /\ bCanRecover' = FALSE

\* The end of the loop does one of these.
LEMMA EndIs ==
  ASSUME Compiled, NEW stk, NEW base, NEW can, NEW q, FrameAt(stk, base, can, q),
         NEW act, EndOfLoop(stk, base, can, act, q)
  PROVE  Goes(stk, base, can, act, q)
<1>1. q \in 1..Len(code) /\ q \in Nat /\ base = Base(Open(q)) /\ can = (Open(q) # {})
  BY CodeFacts DEF FrameAt
<1>2. Unwind(stk, base, can) = Stops(Open(q))
  BY UnwindGoes
<1>3. \A i \in Open(q) : stk[Place(i)].recover = Handler(i, q)
  BY DEF FrameAt, EnvelopeOf
<1> DEFINE u == Unwind(stk, base, can)
<1>4. \/ act = {} /\ Continue(stk, base, can, q)
      \/ act = {"BREAK"} /\ can /\ Land(stk, base, act)
      \/ act = {"BREAK"} /\ ~can /\ Leave(stk, base, act)
      \/ act \in {{"ENDPROC"}, {"QUIT"}} /\ u.found /\ Land(stk, u.base, act)
      \/ act \in {{"ENDPROC"}, {"QUIT"}} /\ ~u.found /\ Leave(stk, u.base, act \ {"ENDPROC"})
  BY DEF EndOfLoop
<1> HIDE DEF u
<1>5. u = Stops(Open(q))
  BY <1>2 DEF u
<1>6. CASE act = {} /\ Continue(stk, base, can, q)
  BY <1>6 DEF Continue, Goes
<1>7. CASE act = {"BREAK"} /\ can /\ Land(stk, base, act)
  <2>1. PICK i \in Open(q) : i = Innermost(Open(q)) /\ base = Place(i)
    BY <1>1, <1>7, BaseIs
  <2>2. Serves(act, i, q)
    BY <1>7, <2>1 DEF Serves
  <2> QED BY <1>3, <1>7, <2>1, <2>2 DEF Land, Landed, Goes
<1>8. CASE act = {"BREAK"} /\ ~can /\ Leave(stk, base, act)
  <2>1. Open(q) = {} /\ base = frame
    BY <1>1, <1>8, BaseIs
  <2>2. Unserved(act, q) /\ act \ {"ENDPROC"} = act
    BY <1>8, <2>1 DEF Unserved
  <2> QED BY <1>8, <2>1, <2>2 DEF Leave, Goes
<1>9. CASE act \in {{"ENDPROC"}, {"QUIT"}} /\ u.found /\ Land(stk, u.base, act)
  <2>1. Alwaysed(Open(q)) # {} /\ u.base = Place(Innermost(Alwaysed(Open(q))))
    BY <1>5, <1>9 DEF Stops
  <2>2. Alwaysed(Open(q)) \in SUBSET Open(q)
    BY DEF Alwaysed
  <2> DEFINE i == Innermost(Alwaysed(Open(q)))
  <2>3. i \in Alwaysed(Open(q)) /\ i \in Open(q)
    BY <1>1, <2>1, <2>2, InnermostIs
  <2>4. Serves(act, i, q)
    BY <1>9, <2>3 DEF Serves
  <2>5. u.base = Place(i)
    BY <2>1
  <2> HIDE DEF i
  <2> QED BY <1>3, <1>9, <2>3, <2>4, <2>5 DEF Land, Landed, Goes
<1>10. CASE act \in {{"ENDPROC"}, {"QUIT"}} /\ ~u.found /\ Leave(stk, u.base, act \ {"ENDPROC"})
  <2>1. Alwaysed(Open(q)) = {} /\ u.base = frame
    BY <1>5, <1>10 DEF Stops
  <2>2. Unserved(act, q)
    BY <1>10, <2>1 DEF Unserved
  <2> QED BY <1>10, <2>1, <2>2 DEF Leave, Goes
<1> QED BY <1>4, <1>6, <1>7, <1>8, <1>9, <1>10

-----------------------------------------------------------------------------
(* The frame at every step.                                                *)

\* The ALWAYS clauses that have not begun.
OwedAt(p) == {First(code, i) : i \in {j \in Open(p) : code[j].op = "SEQALWAYS" /\ ~Begun(j, p)}}

\* The inductive invariant: the frame as compiled at the next opcode, and the
\* ALWAYS clauses owed are those open that have not begun.
Framed ==
    /\ Compiled /\ requests \in Nat /\ ret \in Values
    /\ pc # Done => /\ FrameAt(stack, recoverBase, bCanRecover, pc)
                    /\ owed = OwedAt(pc)
    /\ pc = Done => /\ recoverBase = frame /\ Len(stack) = frame /\ owed = {}
                    /\ frame = 2 => stack[2] = Envelope(0, 0, {})

\* Nothing but the code and the height of its frame matters to it.
LEMMA Unmoved ==
  ASSUME UNCHANGED <<code, frame>>
  PROVE  /\ FrameAt(stack, recoverBase, bCanRecover, pc)' <=> FrameAt(stack', recoverBase', bCanRecover', pc')
         /\ OwedAt(pc)' = OwedAt(pc')
<1>1. code' = code /\ frame' = frame
  OBVIOUS
<1>2. FrameAt(stack, recoverBase, bCanRecover, pc)' <=> FrameAt(stack', recoverBase', bCanRecover', pc')
  BY <1>1 DEF FrameAt, EnvelopeOf, Place, Height, Base, Open, Handler, Begun
<1>3. OwedAt(pc)' = OwedAt(pc')
  BY <1>1 DEF OwedAt, Open, Begun
<1> QED BY <1>2, <1>3

\* If the opcode leaves the frame as compiled, so does the end of the loop.
LEMMA Settle ==
  ASSUME Compiled, NEW stk, NEW base, NEW can, NEW q, FrameAt(stk, base, can, q),
         NEW act, EndOfLoop(stk, base, can, act, q),
         owed' = OwedAt(q), requests' \in Nat, ret' \in Values, UNCHANGED <<code, frame>>
  PROVE  Framed'
<1>1. /\ q \in 1..Len(code) /\ q \in Nat /\ Len(code) \in Nat /\ frame \in Nat /\ frame \in {0, 2}
      /\ Len(stk) = frame + Height(q) /\ Height(q) \in Nat /\ stk \in Seq(Items)
      /\ Len(stk) \in Nat
      /\ frame = 2 => stk[2] = Envelope(0, 0, {})
  BY CodeFacts, LenProperties DEF FrameAt, Compiled
<1>2. Compiled' /\ Done' = Done /\ Done = Len(code) + 1
  BY DEF Compiled, Done
<1>3. /\ FrameAt(stack, recoverBase, bCanRecover, pc)' <=> FrameAt(stack', recoverBase', bCanRecover', pc')
      /\ OwedAt(pc)' = OwedAt(pc')
  BY Unmoved
<1>4. CASE /\ act = {} /\ pc' = q /\ action' = {}
           /\ stack' = stk /\ recoverBase' = base /\ bCanRecover' = can
  <2>1. FrameAt(stack', recoverBase', bCanRecover', pc') /\ owed' = OwedAt(pc')
    BY <1>4
  <2>2. pc' # Done'
    BY <1>1, <1>2, <1>4
  <2> QED BY <1>2, <1>3, <2>1, <2>2 DEF Framed
<1>5. ASSUME NEW i \in Open(q), Serves(act, i, q), pc' = Handler(i, q),
             stack' = Landed(stk, Place(i), act),
             recoverBase' = Place(i), bCanRecover' = TRUE
      PROVE  Framed'
  <2>1. act \in SUBSET RequestNames
    BY <1>5 DEF Serves, RequestNames
  <2>2. FrameAt(stack', Place(i), TRUE, Handler(i, q))
    BY <1>5, <2>1, LandFrame
  <2>3. FrameAt(stack', recoverBase', bCanRecover', pc')
    BY <1>5, <2>2
  <2> DEFINE h == Handler(i, q)
  <2>4. /\ h \in 1..Len(code) /\ Open(h) = Open(i) \cup {i} /\ Move(q, h)
    BY <1>1, HandlerIs
  <2>5. pc' # Done'
    BY <1>1, <1>2, <1>5, <2>4
  <2> HIDE DEF h
  <2>6. \A j \in Open(q) : code[j].op = "SEQALWAYS" => j \in Open(h)
    <3> TAKE j \in Open(q)
    <3> HAVE code[j].op = "SEQALWAYS"
    <3>1. j <= i /\ j \in Nat /\ i \in Nat
      <4>1. Alwaysed(Open(q)) \in SUBSET Open(q) /\ j \in Alwaysed(Open(q))
        BY DEF Alwaysed
      <4>2. Open(q) \in SUBSET Open(q) /\ Open(q) # {} /\ Alwaysed(Open(q)) # {}
        BY <4>1
      <4>3. j <= Innermost(Open(q)) /\ j <= Innermost(Alwaysed(Open(q)))
        BY <1>1, <4>1, <4>2, InnermostIs
      <4> QED BY <1>1, <1>5, <4>3, OpenIs DEF Serves
    <3>2. Open(i) = {k \in Open(q) : k < i}
      BY <1>1, OpenOfOpen
    <3> QED BY <2>4, <3>1, <3>2
  <2>7. \A j \in Open(h) : j \in Open(q) /\ (Begun(j, h) <=> Begun(j, q))
    BY <2>4 DEF Move
  <2>8. OwedAt(h) = OwedAt(q)
    BY <2>6, <2>7 DEF OwedAt
  <2>9. owed' = OwedAt(pc')
    BY <1>5, <2>8 DEF h
  <2> QED BY <1>2, <1>3, <2>3, <2>5, <2>9 DEF Framed
<1>6. CASE /\ Unserved(act, q) /\ pc' = Done
           /\ stack' = Cut(stk, frame) /\ recoverBase' = frame
  <2>1. OwedAt(q) = {}
    <3>1. Alwaysed(Open(q)) = {}
      BY <1>6 DEF Unserved, Alwaysed
    <3> QED BY <3>1 DEF OwedAt, Alwaysed
  <2>2. /\ Len(Cut(stk, frame)) = frame
        /\ frame = 2 => Cut(stk, frame)[2] = stk[2]
    <3>1. \A k \in 1..frame : stk[k] \in Items
      <4>1. \A k \in 1..frame : k \in 1..Len(stk)
        BY <1>1
      <4> QED BY <1>1, <4>1, ElementOfSeq
    <3>2. 1 \in Int /\ frame \in Int
      BY <1>1
    <3>3. /\ Len(SubSeq(stk, 1, frame)) = IF 1 <= frame THEN frame - 1 + 1 ELSE 0
          /\ \A k \in 1..(frame - 1 + 1) : SubSeq(stk, 1, frame)[k] = stk[1 + k - 1]
      BY <3>1, <3>2, SubSeqProperties
    <3>4. frame = 2 => 2 \in 1..(frame - 1 + 1) /\ 1 + 2 - 1 = 2
      OBVIOUS
    <3>5. Len(SubSeq(stk, 1, frame)) = frame
      BY <1>1, <3>3
    <3>6. frame = 2 => SubSeq(stk, 1, frame)[2] = stk[2]
      BY <3>3, <3>4
    <3> QED BY <3>5, <3>6 DEF Cut
  <2>3. Envelope(0, 0, {})' = Envelope(0, 0, {})
    BY DEF Envelope
  <2> QED BY <1>1, <1>2, <1>6, <2>1, <2>2, <2>3 DEF Framed
<1>7. Goes(stk, base, can, act, q)
  BY EndIs
<1> QED BY <1>4, <1>5, <1>6, <1>7 DEF Goes

-----------------------------------------------------------------------------
(* The frame after each opcode, before the end of the loop.                *)

\* The opcodes of SEQUENCE.
SeqOpcodes == {"SEQBEGIN", "SEQALWAYS", "SEQEND", "SEQRECOVER", "ALWAYSBEGIN", "ALWAYSEND"}

\* An opcode that has no part in SEQUENCE and touches no envelope.
LEMMA PlainFrame ==
  ASSUME Compiled, NEW stk, NEW base, NEW can, NEW p, FrameAt(stk, base, can, p),
         code[p].op \notin SeqOpcodes, code[p].op # "ENDPROC",
         NEW stk2 \in Seq(Items), Len(stk2) = Len(stk) + Effect(code, p),
         \A k \in 1..Len(stk2) : k <= Len(stk) => Alike(stk2[k], stk[k]),
         \A k \in 1..Len(stk2) : Len(stk) < k => stk2[k].kind # "envelope",
         frame = 2 => stk2[2] = stk[2]
  PROVE  /\ FrameAt(stk2, base, can, p + 1) /\ OwedAt(p + 1) = OwedAt(p)
         /\ p + 1 \in 1..Len(code) /\ Move(p, p + 1) /\ Open(p + 1) = Open(p)
<1>1. /\ p \in 1..Len(code) /\ Len(stk) = frame + Height(p) /\ frame \in Nat
      /\ Height(p) \in Nat /\ base = Base(Open(p)) /\ can = (Open(p) # {})
  BY CodeFacts DEF FrameAt, Compiled
<1>2. p # Len(code) /\ Len(code) \in Nat
  BY CodeFacts
<1>3. p \in 1..(Len(code) - 1) /\ p + 1 \in 1..Len(code)
  BY <1>1, <1>2
<1>4. Height(p + 1) = Height(p) + Effect(code, p) /\ Effect(code, p) \in Int
  BY <1>3, CodeFacts, EffectInt
<1>5. /\ Open(p + 1) = Open(p)
      /\ \A i \in Open(p) : Begun(i, p + 1) <=> Begun(i, p)
  BY <1>1, OpenPlain DEF SeqOpcodes
<1>6. Move(p, p + 1)
  BY <1>5 DEF Move
<1>7. Len(stk2) = frame + Height(p + 1)
  BY <1>1, <1>4
<1>8. Carried(stk, p, stk2, p + 1)
  BY <1>3, <1>5, <1>6, <1>7 DEF Carried
<1>9. FrameAt(stk2, Base(Open(p + 1)), Open(p + 1) # {}, p + 1)
  BY <1>8, Reframe
<1>10. OwedAt(p + 1) = OwedAt(p)
  BY <1>5 DEF OwedAt
<1> QED BY <1>1, <1>3, <1>5, <1>6, <1>9, <1>10

\* An item more, an item less.
LEMMA AppendFrame ==
  ASSUME Compiled, NEW stk, NEW base, NEW can, NEW p, FrameAt(stk, base, can, p),
         NEW stk1 \in Seq(Items), Len(stk1) = Len(stk), \A k \in 1..Len(stk) : Alike(stk1[k], stk[k]),
         frame = 2 => stk1[2] = stk[2],
         code[p].op \in {"PUSH", "FUNCTION", "SEQBLOCK"},
         NEW x \in Items, x.kind # "envelope"
  PROVE  /\ FrameAt(Append(stk1, x), base, can, p + 1) /\ OwedAt(p + 1) = OwedAt(p)
         /\ p + 1 \in 1..Len(code) /\ Move(p, p + 1) /\ Open(p + 1) = Open(p)
         /\ Len(Append(stk1, x)) = Len(stk) + 1
         /\ \A k \in 1..Len(stk) : Append(stk1, x)[k] = stk1[k]
         /\ Append(stk1, x)[Len(stk) + 1] = x
<1> DEFINE stk2 == Append(stk1, x)  n == Len(stk)
<1>1. /\ p \in 1..Len(code) /\ n = frame + Height(p) /\ frame \in Nat /\ frame \in {0, 2}
      /\ n \in Nat /\ Height(p) \in Nat
  BY CodeFacts, LenProperties DEF FrameAt, Compiled
<1>2. /\ stk2 \in Seq(Items) /\ Len(stk2) = n + 1
      /\ \A k \in 1..n : stk2[k] = stk1[k]
      /\ stk2[n + 1] = x
  BY AppendProperties
<1> HIDE DEF stk2
<1>3. code[p].op \notin SeqOpcodes /\ code[p].op # "ENDPROC" /\ Effect(code, p) = 1
  <2>1. Effect(code, p) = 1
    BY Effects
  <2> QED BY <2>1 DEF SeqOpcodes
<1>4. \A k \in 1..Len(stk2) : k <= n => Alike(stk2[k], stk[k])
  <2>1. \A k \in 1..Len(stk2) : k <= n => k \in 1..n
    BY <1>1, <1>2
  <2> QED BY <1>2, <2>1
<1>5. \A k \in 1..Len(stk2) : n < k => stk2[k].kind # "envelope"
  <2>1. \A k \in 1..Len(stk2) : n < k => k = n + 1
    BY <1>1, <1>2
  <2> QED BY <1>2, <2>1
<1>6. frame = 2 => stk2[2] = stk[2]
  <2>1. frame = 2 => 2 \in 1..n
    BY <1>1
  <2> QED BY <1>2, <2>1
<1>7. Len(stk2) = Len(stk) + Effect(code, p)
  BY <1>2, <1>3
<1>8. /\ FrameAt(stk2, base, can, p + 1) /\ OwedAt(p + 1) = OwedAt(p)
      /\ p + 1 \in 1..Len(code) /\ Move(p, p + 1) /\ Open(p + 1) = Open(p)
  BY <1>2, <1>3, <1>4, <1>5, <1>6, <1>7, PlainFrame
<1> QED BY <1>2, <1>8 DEF stk2

\* The stack without the topmost items.
LEMMA DropIs ==
  ASSUME NEW stk \in Seq(Items), NEW d \in Nat, d <= Len(stk)
  PROVE  /\ Drop(stk, d) \in Seq(Items) /\ Len(Drop(stk, d)) = Len(stk) - d
         /\ Len(stk) \in Nat /\ Len(stk) - d \in Nat
         /\ \A k \in 1..(Len(stk) - d) : Drop(stk, d)[k] = stk[k]
<1> DEFINE n == Len(stk)  m == n - d
<1>1. n \in Nat /\ m \in Nat /\ m <= n /\ m \in Int /\ 1 \in Int
  BY LenProperties
<1>2. \A k \in 1..m : stk[k] \in Items
  <2>1. \A k \in 1..m : k \in 1..n
    BY <1>1
  <2> QED BY <2>1, ElementOfSeq
<1> HIDE DEF m
<1>3. /\ SubSeq(stk, 1, m) \in Seq(Items)
      /\ Len(SubSeq(stk, 1, m)) = IF 1 <= m THEN m - 1 + 1 ELSE 0
      /\ \A k \in 1..(m - 1 + 1) : SubSeq(stk, 1, m)[k] = stk[1 + k - 1]
  BY <1>1, <1>2, SubSeqProperties
<1>4. m - 1 + 1 = m /\ (1 <= m \/ m = 0) /\ \A k \in 1..m : 1 + k - 1 = k
  BY <1>1
<1>5. Len(SubSeq(stk, 1, m)) = m /\ \A k \in 1..m : SubSeq(stk, 1, m)[k] = stk[k]
  BY <1>3, <1>4
<1> QED BY <1>1, <1>3, <1>5 DEF Drop, m, n

\* POP leaves the frame as compiled.
LEMMA PopFrame ==
  ASSUME Compiled, NEW stk, NEW base, NEW can, NEW p, FrameAt(stk, base, can, p), code[p].op = "POP"
  PROVE  /\ FrameAt(Drop(stk, 1), base, can, p + 1) /\ OwedAt(p + 1) = OwedAt(p)
         /\ p + 1 \in 1..Len(code) /\ Move(p, p + 1) /\ Open(p + 1) = Open(p)
         /\ Len(Drop(stk, 1)) = Len(stk) - 1 /\ Len(stk) \in Nat
         /\ \A k \in 1..Len(Drop(stk, 1)) : Drop(stk, 1)[k] = stk[k]
<1> DEFINE stk2 == Drop(stk, 1)  n == Len(stk)
<1>1. /\ p \in 1..Len(code) /\ n = frame + Height(p) /\ frame \in Nat /\ frame \in {0, 2}
      /\ n \in Nat /\ Height(p) \in Nat /\ stk \in Seq(Items)
  BY CodeFacts, LenProperties DEF FrameAt, Compiled
<1>2. 1 <= Height(p) /\ 1 <= n
  BY <1>1, OpFacts
<1>3. /\ stk2 \in Seq(Items) /\ Len(stk2) = n - 1
      /\ \A k \in 1..(n - 1) : stk2[k] = stk[k]
  BY <1>1, <1>2, DropIs
<1> HIDE DEF stk2
<1>4. code[p].op \notin SeqOpcodes /\ code[p].op # "ENDPROC" /\ Effect(code, p) = -1
  <2>1. Effect(code, p) = -1
    BY Effects
  <2> QED BY <2>1 DEF SeqOpcodes
<1>5. \A k \in 1..Len(stk2) : k <= n => Alike(stk2[k], stk[k])
  BY <1>3 DEF Alike
<1>6. \A k \in 1..Len(stk2) : n < k => stk2[k].kind # "envelope"
  BY <1>1, <1>3
<1>7. frame = 2 => stk2[2] = stk[2]
  <2>1. frame = 2 => 2 \in 1..(n - 1)
    BY <1>1, <1>2
  <2> QED BY <1>3, <2>1
<1>8. Len(stk2) = Len(stk) + Effect(code, p)
  BY <1>1, <1>3, <1>4
<1>9. /\ FrameAt(stk2, base, can, p + 1) /\ OwedAt(p + 1) = OwedAt(p)
      /\ p + 1 \in 1..Len(code) /\ Move(p, p + 1) /\ Open(p + 1) = Open(p)
  BY <1>3, <1>4, <1>5, <1>6, <1>7, <1>8, PlainFrame, SMTT(30)
<1> QED BY <1>1, <1>3, <1>9 DEF stk2

\* So does an opcode that only changes values on the stack.
LEMMA SameFrame ==
  ASSUME Compiled, NEW stk, NEW base, NEW can, NEW p, FrameAt(stk, base, can, p),
         NEW stk1 \in Seq(Items), Len(stk1) = Len(stk), \A k \in 1..Len(stk) : Alike(stk1[k], stk[k]),
         frame = 2 => stk1[2] = stk[2],
         code[p].op \in {"NOOP", "DO", "RETVALUE"}
  PROVE  /\ FrameAt(stk1, base, can, p + 1) /\ OwedAt(p + 1) = OwedAt(p)
         /\ p + 1 \in 1..Len(code) /\ Move(p, p + 1) /\ Open(p + 1) = Open(p)
<1>1. Len(stk) \in Nat
  BY LenProperties DEF FrameAt
<1>2. code[p].op \notin SeqOpcodes /\ code[p].op # "ENDPROC" /\ Effect(code, p) = 0
  <2>1. Effect(code, p) = 0
    BY Effects
  <2> QED BY <2>1 DEF SeqOpcodes
<1>3. \A k \in 1..Len(stk1) : Len(stk) < k => stk1[k].kind # "envelope"
  BY <1>1
<1>4. Len(stk1) = Len(stk) + Effect(code, p)
  BY <1>1, <1>2
<1>5. \A k \in 1..Len(stk1) : k <= Len(stk) => Alike(stk1[k], stk[k])
  OBVIOUS
<1> QED BY <1>2, <1>3, <1>4, <1>5, PlainFrame

\* The envelope on top of the stack when its SEQUENCE is left, at p, for q.
LEMMA LeaveFrame ==
  ASSUME Compiled, NEW stk, NEW base, NEW can, NEW p, FrameAt(stk, base, can, p),
         NEW i \in SeqOps(code), p \in {Stop(code, i), First(code, i), Last(code, i)},
         NEW q \in {Last(code, i) + 1, End(code, i) + 1},
         NEW d \in {1, 2}, Height(q) = Height(i) + 2 - d
  PROVE  /\ FrameAt(Drop(stk, d), stk[Len(stk)].base, "CANRECOVER" \in stk[Len(stk)].flags, q)
         /\ i \in Open(p) /\ i = Innermost(Open(p)) /\ Len(stk) = Place(i) /\ Len(stk) \in Nat
         /\ Open(p) = Open(i) \cup {i} /\ i \notin Open(i) /\ Open(q) = Open(i) /\ Move(p, q) /\ q \in 1..Len(code)
         /\ Len(Drop(stk, d)) = Len(stk) - d
         /\ \A k \in 1..Len(Drop(stk, d)) : Drop(stk, d)[k] = stk[k]
         /\ code[i].op = "SEQBEGIN" \/ Begun(i, p) => OwedAt(q) = OwedAt(p)
<1> DEFINE n == Len(stk)  stk2 == Drop(stk, d)
<1>1. /\ p \in 1..Len(code) /\ n = frame + Height(p) /\ frame \in {0, 2} /\ frame \in Nat
      /\ n \in Nat /\ stk \in Seq(Items) /\ p \in Nat /\ Height(p) \in Nat
  BY CodeFacts, LenProperties DEF FrameAt, Compiled
<1>2. /\ i \in Nat /\ i \in 1..Len(code) /\ Height(i) \in Nat
  BY CodeFacts DEF SeqOps
<1>3. /\ Open(p) = Open(i) \cup {i} /\ i \notin Open(i)
      /\ \A j \in Open(i) : Begun(j, p) <=> Begun(j, i)
  <2>1. p \in {Stop(code, i), First(code, i), Last(code, i), i + 1}
    OBVIOUS
  <2> QED BY <2>1, OpenAt, SMTT(30)
<1>4. /\ q \in 1..Len(code) /\ Open(q) = Open(i)
      /\ \A j \in Open(i) : Begun(j, q) <=> Begun(j, i)
  BY OpenBehind
<1>5. Height(p) = Height(i) + 2
  BY SeqHeights
<1>6. n = Place(i) /\ 2 <= n
  BY <1>1, <1>2, <1>5, SMTT(30) DEF Place
<1>7. i = Innermost(Open(p))
  BY <1>3, InnermostOf
<1>8. /\ stk2 \in Seq(Items) /\ Len(stk2) = n - d
      /\ \A k \in 1..(n - d) : stk2[k] = stk[k]
  <2>1. d \in Nat /\ d <= n
    BY <1>1, <1>6
  <2> QED BY <1>1, <2>1, DropIs
<1> HIDE DEF stk2
<1>9. Move(p, q)
  BY <1>3, <1>4 DEF Move
<1>10. Len(stk2) = frame + Height(q)
  BY <1>1, <1>2, <1>5, <1>8, SMTT(30)
<1>11. \A j \in Open(p) : j \notin Open(q) => Len(stk2) < Place(j)
  <2>1. \A j \in Open(p) : j \notin Open(q) => j = i
    BY <1>3, <1>4
  <2>2. Len(stk2) < Place(i)
    BY <1>1, <1>6, <1>8, SMTT(30)
  <2> QED BY <2>1, <2>2
<1>12. \A k \in 1..Len(stk2) : /\ k <= n => Alike(stk2[k], stk[k])
                               /\ ~(n < k)
  BY <1>1, <1>8, SMTT(30) DEF Alike
<1>13. frame = 2 => stk2[2] = stk[2]
  <2>1. frame = 2 => 2 \in 1..(n - d)
    BY <1>1, <1>2, <1>5, SMTT(30)
  <2> QED BY <1>8, <2>1
<1>14. Carried(stk, p, stk2, q)
  BY <1>4, <1>8, <1>9, <1>10, <1>11, <1>12, <1>13 DEF Carried
<1>15. FrameAt(stk2, Base(Open(q)), Open(q) # {}, q)
  BY <1>14, Reframe
<1>16. /\ stk[n].base = Base(Open(q))
       /\ "CANRECOVER" \in stk[n].flags <=> Open(q) # {}
  <2>1. EnvelopeOf(stk, i, p)
    BY <1>3 DEF FrameAt
  <2> QED BY <1>4, <1>6, <2>1 DEF EnvelopeOf
<1>17. FrameAt(stk2, stk[n].base, "CANRECOVER" \in stk[n].flags, q)
  <2>1. ("CANRECOVER" \in stk[n].flags) = (Open(q) # {})
    BY <1>16
  <2> QED BY <1>15, <1>16, <2>1
<1>18. code[i].op = "SEQBEGIN" \/ Begun(i, p) => OwedAt(q) = OwedAt(p)
  <2> HAVE code[i].op = "SEQBEGIN" \/ Begun(i, p)
  <2>1. {j \in Open(q) : code[j].op = "SEQALWAYS" /\ ~Begun(j, q)}
           = {j \in Open(p) : code[j].op = "SEQALWAYS" /\ ~Begun(j, p)}
    BY <1>3, <1>4
  <2> QED BY <2>1 DEF OwedAt
<1> QED BY <1>1, <1>3, <1>4, <1>6, <1>7, <1>8, <1>9, <1>17, <1>18 DEF stk2

\* What the three opcodes that leave a SEQUENCE leave.
LEMMA SeqEndIs ==
  ASSUME Compiled, NEW p \in 1..Len(code), code[p].op = "SEQEND"
  PROVE  \E i \in SeqOps(code) : /\ code[i].op = "SEQBEGIN" /\ p = Stop(code, i)
                                 /\ p + code[p].to = End(code, i) + 1
                                 /\ Height(End(code, i) + 1) = Height(i) + 2 - 2
                                 /\ code[p + code[p].to].op \notin {"SEQRECOVER", "ENDPROC"}
<1>1. PICK i \in SeqOps(code) : code[i].op = "SEQBEGIN" /\ Stop(code, i) = p
  BY OpFacts
<1>2. p + code[p].to = End(code, i) + 1
  BY <1>1, SeqKinds
<1>3. Height(End(code, i) + 1) = Height(i) /\ Height(i) \in Nat
  <2>1. i \in 1..Len(code)
    BY DEF SeqOps
  <2> QED BY <2>1, SeqHeights, CodeFacts
<1>4. code[End(code, i) + 1].op \notin {"SEQRECOVER", "ENDPROC"}
  BY BehindEnd
<1>5. Height(End(code, i) + 1) = Height(i) + 2 - 2
  BY <1>3
<1> QED BY <1>1, <1>2, <1>4, <1>5

\* The SEQUENCE of a SEQRECOVER.
LEMMA SeqRecoverIs ==
  ASSUME Compiled, NEW p \in 1..Len(code), code[p].op = "SEQRECOVER"
  PROVE  \E i \in SeqOps(code) : /\ code[i].op = "SEQBEGIN" /\ p = First(code, i)
                                 /\ p + 1 = Last(code, i) + 1
                                 /\ Height(Last(code, i) + 1) = Height(i) + 2 - 1
                                 /\ code[p + 1].op \notin {"SEQRECOVER", "ENDPROC"}
<1>1. PICK i \in SeqOps(code) : code[i].op = "SEQBEGIN" /\ First(code, i) = p
  BY OpFacts
<1>2. p = Last(code, i)
  BY <1>1, SeqKinds
<1>3. /\ Height(p) = Height(i) + 2 /\ i \in 1..Len(code) /\ Height(i) \in Nat
  <2>1. i \in 1..Len(code)
    BY DEF SeqOps
  <2> QED BY <1>2, <2>1, SeqHeights, CodeFacts
<1>4. p \in Nat /\ Len(code) \in Nat /\ p \in 1..(Len(code) - 1) /\ p + 1 \in 1..Len(code)
  <2>1. p # Len(code) /\ Len(code) \in Nat
    BY CodeFacts
  <2> QED BY <2>1
<1>5. Height(p + 1) = Height(p) + Effect(code, p) /\ Effect(code, p) = -1
  BY <1>4, CodeFacts, Effects
<1>6. Height(Last(code, i) + 1) = Height(i) + 2 - 1
  BY <1>2, <1>3, <1>5
<1>7. code[p + 1].op \notin {"SEQRECOVER", "ENDPROC"}
  BY <1>4, InSequence
<1> QED BY <1>1, <1>2, <1>6, <1>7

\* The SEQUENCE of an ALWAYSEND.
LEMMA AlwaysEndIs ==
  ASSUME Compiled, NEW p \in 1..Len(code), code[p].op = "ALWAYSEND"
  PROVE  \E i \in SeqOps(code) : /\ code[i].op = "SEQALWAYS" /\ p = Last(code, i) /\ Begun(i, p)
                                 /\ p + 1 = End(code, i) + 1
                                 /\ Height(End(code, i) + 1) = Height(i) + 2 - 2
                                 /\ code[p + 1].op \notin {"SEQRECOVER", "ENDPROC"}
<1>1. PICK i \in SeqOps(code) : code[i].op = "SEQALWAYS" /\ Last(code, i) = p
  BY OpFacts
<1>2. p = End(code, i) /\ First(code, i) < Last(code, i)
  BY <1>1, SeqKinds
<1>3. Height(End(code, i) + 1) = Height(i) /\ Height(i) \in Nat
  <2>1. i \in 1..Len(code)
    BY DEF SeqOps
  <2> QED BY <2>1, SeqHeights, CodeFacts
<1>4. code[End(code, i) + 1].op \notin {"SEQRECOVER", "ENDPROC"}
  BY BehindEnd
<1>5. Height(End(code, i) + 1) = Height(i) + 2 - 2
  BY <1>3
<1>6. Begun(i, p)
  BY <1>1, <1>2 DEF Begun
<1> QED BY <1>1, <1>2, <1>4, <1>5, <1>6

\* An ALWAYS clause begins.
LEMMA AlwaysBeginIs ==
  ASSUME Compiled, NEW p \in 1..Len(code), code[p].op = "ALWAYSBEGIN"
  PROVE  \E i \in SeqOps(code) :
           /\ code[i].op = "SEQALWAYS" /\ p = First(code, i) /\ p + code[p].to = Last(code, i)
           /\ p + 1 \in 1..Len(code) /\ Open(p + 1) = Open(p)
           /\ Open(p) = Open(i) \cup {i} /\ i \notin Open(i)
           /\ \A j \in Open(i) : Begun(j, p + 1) <=> Begun(j, p)
           /\ Begun(i, p + 1) /\ ~Begun(i, p)
           /\ Height(p + 1) = Height(p) /\ Height(p) = Height(i) + 2
           /\ code[p + 1].op \notin {"SEQRECOVER", "ENDPROC"}
           /\ OwedAt(p + 1) = OwedAt(p) \ {p}
<1>1. PICK i \in SeqOps(code) : code[i].op = "SEQALWAYS" /\ First(code, i) = p
  BY OpFacts
<1>2. /\ i \in Nat /\ First(code, i) \in Nat /\ Last(code, i) \in Nat /\ End(code, i) \in Nat
      /\ i < First(code, i) /\ First(code, i) < Last(code, i) /\ Last(code, i) = End(code, i)
      /\ End(code, i) <= Len(code) - 2 /\ Len(code) \in Nat
      /\ Last(code, i) = p + code[p].to
  BY <1>1, SeqFacts, SeqKinds, CodeFacts
<1>3. /\ p \in Nat /\ p + 1 \in 1..Len(code) /\ p + 1 \in Nat /\ i <= p + 1 /\ p + 1 <= End(code, i) + 1
      /\ p \in 1..(Len(code) - 1) /\ p + 1 <= Last(code, i) /\ i < p + 1
  BY <1>1, <1>2
<1>4. /\ Open(p) = Open(i) \cup {i} /\ i \notin Open(i)
      /\ \A j \in Open(i) : Begun(j, p) <=> Begun(j, i)
  BY <1>1, OpenAt
<1>5. /\ \A j \in Open(i) : j \in Open(p + 1) /\ (Begun(j, p + 1) <=> Begun(j, i))
      /\ \A j \in Open(p + 1) : j < i => j \in Open(i)
  BY <1>3, Around
<1>6. i \in Open(p + 1)
  BY <1>3 DEF Open
<1>7. ASSUME NEW j \in Open(p + 1), i < j
      PROVE  FALSE
  <2>1. j \in SeqOps(code) /\ j < p + 1 /\ p + 1 <= Last(code, j) /\ j \in Nat /\ Last(code, j) \in Nat
    BY <1>3, OpenIs, SeqFacts
  <2>2. j # p
    BY <2>1 DEF SeqOps
  <2>3. j < p /\ p <= Last(code, j)
    BY <1>3, <2>1, <2>2
  <2>4. j \in Open(p)
    BY <2>1, <2>3 DEF Open
  <2>5. j \in Open(i)
    BY <1>2, <1>4, <1>7, <2>1, <2>4
  <2> QED BY <1>2, <1>7, <2>1, <2>5, OpenIs
<1>8. Open(p + 1) = Open(p)
  <2>1. \A j \in Open(p + 1) : j = i \/ j < i \/ i < j
    BY <1>2, <1>3, OpenIs
  <2> QED BY <1>4, <1>5, <1>6, <1>7, <2>1
<1>9. \A j \in Open(i) : Begun(j, p + 1) <=> Begun(j, p)
  BY <1>4, <1>5
<1>10. Begun(i, p + 1) /\ ~Begun(i, p)
  BY <1>1, <1>2, <1>3 DEF Begun
<1>11. Height(p) = Height(i) + 2
  BY <1>1, SeqHeights
<1>12. Height(p + 1) = Height(p)
  <2>1. Height(p + 1) = Height(p) + Effect(code, p) /\ Effect(code, p) = 0
    BY <1>3, CodeFacts, Effects
  <2>2. Height(p) \in Nat
    BY CodeFacts
  <2> QED BY <2>1, <2>2
<1>13. code[p + 1].op \notin {"SEQRECOVER", "ENDPROC"}
  BY <1>3, InSequence
<1>14. OwedAt(p + 1) = OwedAt(p) \ {p}
  <2>1. \A j \in Open(p) : code[j].op = "SEQALWAYS" /\ ~Begun(j, p) /\ First(code, j) = p => j = i
    <3> TAKE j \in Open(p)
    <3> HAVE code[j].op = "SEQALWAYS" /\ ~Begun(j, p) /\ First(code, j) = p
    <3>1. Begun(j, p + 1)
      BY <1>3 DEF Begun
    <3> QED BY <1>4, <1>9, <3>1
  <2> DEFINE A == {j \in Open(p) : code[j].op = "SEQALWAYS" /\ ~Begun(j, p)}
             B == {j \in Open(p + 1) : code[j].op = "SEQALWAYS" /\ ~Begun(j, p + 1)}
  <2>2. B = A \ {i} /\ i \in A
    BY <1>1, <1>4, <1>8, <1>9, <1>10
  <2>3. \A j \in A : First(code, j) = p <=> j = i
    BY <1>1, <2>1
  <2>4. OwedAt(p) = {First(code, j) : j \in A} /\ OwedAt(p + 1) = {First(code, j) : j \in B}
    BY DEF OwedAt
  <2> HIDE DEF A, B
  <2> QED BY <2>2, <2>3, <2>4
<1> QED BY <1>1, <1>2, <1>3, <1>4, <1>8, <1>9, <1>10, <1>11, <1>12, <1>13, <1>14

\* The stack behind ALWAYSBEGIN.
Began(stk, to, slot) ==
    [stk EXCEPT ![Len(stk)] = [stk[Len(stk)] EXCEPT
                                 !.recover = to,
                                 !.flags = stk[Len(stk)].flags \cup stk[Len(stk)].request,
                                 !.request = {}],
                ![Len(stk) - 1] = slot]

\* What is changed by it.
Changed(stk, stk2, p, slot) ==
    /\ Len(stk2) = Len(stk) /\ Len(stk) \in Nat
    /\ Open(p) # {} /\ Len(stk) = Place(Innermost(Open(p)))
    /\ \A k \in 1..Len(stk) : k # Len(stk) /\ k # Len(stk) - 1 => stk2[k] = stk[k]
    /\ stk2[Len(stk)].flags = stk[Len(stk)].flags \cup stk[Len(stk)].request
    /\ stk2[Len(stk)].request = {}
    /\ stk2[Len(stk) - 1] = slot

\* ALWAYSBEGIN leaves the frame as compiled.
LEMMA AlwaysBeginFrame ==
  ASSUME Compiled, NEW stk, NEW base, NEW can, NEW p, FrameAt(stk, base, can, p),
         code[p].op = "ALWAYSBEGIN",
         NEW slot \in Items, slot.kind = "value",
         NEW stk2, stk2 = Began(stk, p + code[p].to, slot)
  PROVE  FrameAt(stk2, base, can, p + 1) /\ Changed(stk, stk2, p, slot)
<1> DEFINE n == Len(stk)  t == p + code[p].to  f == stk[n].flags \cup stk[n].request
           e == [stk[n] EXCEPT !.recover = t, !.flags = f, !.request = {}]
<1>1. /\ p \in 1..Len(code) /\ n = frame + Height(p) /\ frame \in {0, 2} /\ frame \in Nat
      /\ n \in Nat /\ stk \in Seq(Items) /\ p \in Nat /\ Height(p) \in Nat
      /\ base = Base(Open(p)) /\ can = (Open(p) # {})
  BY CodeFacts, LenProperties DEF FrameAt, Compiled
<1>2. PICK i \in SeqOps(code) :
           /\ code[i].op = "SEQALWAYS" /\ p = First(code, i) /\ t = Last(code, i)
           /\ p + 1 \in 1..Len(code) /\ Open(p + 1) = Open(p)
           /\ Open(p) = Open(i) \cup {i} /\ i \notin Open(i)
           /\ \A j \in Open(i) : Begun(j, p + 1) <=> Begun(j, p)
           /\ Begun(i, p + 1) /\ ~Begun(i, p)
           /\ Height(p + 1) = Height(p) /\ Height(p) = Height(i) + 2
  BY <1>1, AlwaysBeginIs
<1>3. /\ i \in 1..Len(code) /\ Height(i) \in Nat /\ t \in Nat
  BY <1>2, CodeFacts, SeqFacts DEF SeqOps
<1>4. n = Place(i) /\ i = Innermost(Open(p)) /\ n \in 1..n /\ n - 1 \in 1..n /\ n # n - 1 /\ frame + 2 <= n
  <2>1. i = Innermost(Open(p))
    BY <1>2, InnermostOf
  <2>2. n = Place(i) /\ frame + 2 <= n
    BY <1>1, <1>2, <1>3, SMTT(30) DEF Place
  <2>3. n \in 1..n /\ n - 1 \in 1..n /\ n # n - 1
    BY <1>1, <2>2
  <2> QED BY <2>1, <2>2, <2>3
<1>5. EnvelopeOf(stk, i, p)
  BY <1>2 DEF FrameAt
<1>6. /\ stk[n].kind = "envelope" /\ stk[n].base = Base(Open(i)) /\ stk[n - 1].kind = "value"
      /\ "DOALWAYS" \in stk[n].flags <=> code[i].op = "SEQALWAYS"
      /\ "CANRECOVER" \in stk[n].flags <=> Open(i) # {}
  BY <1>4, <1>5 DEF EnvelopeOf
<1>7. stk[n] \in Items /\ stk[n - 1] \in Items
  BY <1>1, <1>4, ElementOfSeq
<1>8. stk[n] \in [kind : {"envelope"}, recover : Nat, base : Nat,
                  flags : SUBSET Flags, request : SUBSET RequestNames]
  BY <1>6, <1>7 DEF Items, Block
<1> HIDE DEF t
<1>9. /\ f \in SUBSET Flags /\ stk[n].request \cap {"DOALWAYS", "CANRECOVER"} = {}
  <2>1. stk[n].flags \in SUBSET Flags /\ stk[n].request \in SUBSET RequestNames
    BY <1>8
  <2> QED BY <2>1 DEF Flags, RequestNames
<1>10. "DOALWAYS" \in f <=> code[i].op = "SEQALWAYS"
  BY <1>6, <1>9
<1>11. "CANRECOVER" \in f <=> Open(i) # {}
  BY <1>6, <1>9
<1> HIDE DEF f
<1>12. /\ e \in [kind : {"envelope"}, recover : Nat, base : Nat,
                 flags : SUBSET Flags, request : SUBSET RequestNames]
       /\ e.kind = "envelope" /\ e.recover = t /\ e.base = stk[n].base /\ e.flags = f /\ e.request = {}
  BY <1>3, <1>8, <1>9
<1>13. e \in Items
  BY <1>12 DEF Items
<1>14. stk2 = [[stk EXCEPT ![n] = e] EXCEPT ![n - 1] = slot]
  BY DEF e, t, f, Began
<1> HIDE DEF e
<1>15. /\ [stk EXCEPT ![n] = e] \in Seq(Items) /\ Len([stk EXCEPT ![n] = e]) = n
       /\ \A k \in 1..n : [stk EXCEPT ![n] = e][k] = IF k = n THEN e ELSE stk[k]
  BY <1>1, <1>4, <1>13, ExceptSeq
<1> DEFINE s == [stk EXCEPT ![n] = e]
<1> HIDE DEF s
<1>16. /\ s \in Seq(Items) /\ Len(s) = n
       /\ \A k \in 1..n : s[k] = IF k = n THEN e ELSE stk[k]
       /\ stk2 = [s EXCEPT ![n - 1] = slot]
  BY <1>14, <1>15 DEF s
<1>17. /\ [s EXCEPT ![n - 1] = slot] \in Seq(Items) /\ Len([s EXCEPT ![n - 1] = slot]) = Len(s)
       /\ \A k \in 1..Len(s) : [s EXCEPT ![n - 1] = slot][k] = IF k = n - 1 THEN slot ELSE s[k]
  <2>1. n - 1 \in 1..Len(s)
    BY <1>4, <1>16
  <2>2. s \in Seq(Items) /\ slot \in Items
    BY <1>16
  <2> HIDE DEF Items
  <2> QED BY <2>1, <2>2, ExceptSeq
<1>18. /\ stk2 \in Seq(Items) /\ Len(stk2) = n
       /\ \A k \in 1..n : k # n /\ k # n - 1 => stk2[k] = stk[k]
       /\ stk2[n] = e /\ stk2[n - 1] = slot
  BY <1>4, <1>16, <1>17
<1>19. ASSUME NEW j \in Open(p + 1)
       PROVE  EnvelopeOf(stk2, j, p + 1)
  <2>1. CASE j = i
    <3>1. Handler(j, p + 1) = t
      BY <1>2, <2>1 DEF Handler
    <3>2. stk2[Place(j)] = e /\ stk2[Place(j) - 1] = slot
      BY <1>4, <1>18, <2>1
    <3> QED BY <1>6, <1>10, <1>11, <1>12, <2>1, <3>1, <3>2 DEF EnvelopeOf
  <2>2. CASE j # i
    <3>1. j \in Open(i) /\ j \in Open(p) /\ i \in Open(p)
      BY <1>2, <2>2
    <3>2. j < i
      BY <1>3, <3>1, OpenIs
    <3>3. Place(j) < Place(i) - 1 /\ Place(j) \in 1..n /\ Place(j) - 1 \in 1..n /\ Place(j) \in Nat
      BY <1>1, <3>1, <3>2, PlaceLess, PlaceIs
    <3>4. stk2[Place(j)] = stk[Place(j)] /\ stk2[Place(j) - 1] = stk[Place(j) - 1]
      <4>1. /\ Place(j) # n /\ Place(j) # n - 1
            /\ Place(j) - 1 # n /\ Place(j) - 1 # n - 1
        BY <1>1, <1>4, <3>3, SMTT(30)
      <4> QED BY <1>18, <3>3, <4>1
    <3>5. Handler(j, p + 1) = Handler(j, p)
      BY <1>2, <3>1 DEF Handler
    <3>6. EnvelopeOf(stk, j, p)
      BY <3>1 DEF FrameAt
    <3> QED BY <3>4, <3>5, <3>6 DEF EnvelopeOf
  <2> QED BY <2>1, <2>2
<1>20. ASSUME NEW k \in 1..Len(stk2), stk2[k].kind = "envelope", frame < k
       PROVE  \E j \in Open(p + 1) : k = Place(j)
  <2>1. CASE k = n
    BY <1>2, <1>4, <2>1
  <2>2. CASE k = n - 1
    BY <1>18, <1>20, <2>2
  <2>3. CASE k # n /\ k # n - 1
    BY <1>2, <1>18, <1>20, <2>3 DEF FrameAt
  <2> QED BY <2>1, <2>2, <2>3
<1>21. frame = 2 => stk2[1].kind = "value" /\ stk2[2] = Envelope(0, 0, {})
  <2> SUFFICES ASSUME frame = 2 PROVE stk2[1].kind = "value" /\ stk2[2] = Envelope(0, 0, {})
    OBVIOUS
  <2>1. 1 \in 1..n /\ 2 \in 1..n /\ 1 # n /\ 2 # n /\ 1 # n - 1 /\ 2 # n - 1
    BY <1>1, <1>4
  <2>2. stk2[1] = stk[1] /\ stk2[2] = stk[2]
    BY <1>18, <2>1
  <2> QED BY <2>2 DEF FrameAt
<1>22. FrameAt(stk2, base, can, p + 1)
  BY <1>1, <1>2, <1>18, <1>19, <1>20, <1>21 DEF FrameAt
<1>23. Open(p) # {} /\ n = Place(Innermost(Open(p)))
  BY <1>2, <1>4
<1>24. stk2[n].flags = f /\ stk2[n].request = {} /\ stk2[n].kind = "envelope"
  BY <1>12, <1>18
<1>25. Changed(stk, stk2, p, slot)
  BY <1>1, <1>18, <1>23, <1>24 DEF Changed, f
<1> QED BY <1>22, <1>25

\* The value of BREAK goes to the slot of an envelope.
LEMMA DestFacts ==
  ASSUME Compiled, NEW stk, NEW base, NEW can, NEW p, FrameAt(stk, base, can, p), Dest(Open(p)) # 0
  PROVE  /\ Dest(Open(p)) \in Nat /\ Dest(Open(p)) - 1 \in 1..Len(stk) /\ Dest(Open(p)) \in 1..Len(stk)
         /\ stk[Dest(Open(p)) - 1].kind = "value" /\ stk[Dest(Open(p)) - 1] \in Items
         /\ frame = 2 => Dest(Open(p)) - 1 # 2
         /\ \/ Dest(Open(p)) = frame /\ frame = 2 /\ Begins(Open(p)) = {}
            \/ \E j \in Begins(Open(p)) : j = Innermost(Begins(Open(p))) /\ Dest(Open(p)) = Place(j)
<1>1. /\ p \in 1..Len(code) /\ Len(stk) = frame + Height(p) /\ frame \in {0, 2} /\ frame \in Nat
      /\ Len(stk) \in Nat /\ stk \in Seq(Items) /\ p \in Nat /\ Height(p) \in Nat
  BY CodeFacts, LenProperties DEF FrameAt, Compiled
<1>2. CASE Begins(Open(p)) = {}
  <2>1. Dest(Open(p)) = frame /\ frame = 2
    BY <1>1, <1>2 DEF Dest
  <2>2. stk[1].kind = "value"
    BY <2>1 DEF FrameAt
  <2>3. 1 \in 1..Len(stk) /\ 2 \in 1..Len(stk)
    BY <1>1, <2>1
  <2>4. stk[1] \in Items
    BY <1>1, <2>3, ElementOfSeq
  <2> QED BY <1>2, <2>1, <2>2, <2>3, <2>4
<1>3. CASE Begins(Open(p)) # {}
  <2>1. Begins(Open(p)) \in SUBSET Open(p)
    BY DEF Begins
  <2>2. PICK j \in Begins(Open(p)) : j = Innermost(Begins(Open(p))) /\ Dest(Open(p)) = Place(j)
    BY <1>1, <1>3, <2>1, InnermostIs DEF Dest
  <2>3. j \in Open(p)
    BY <2>1
  <2>4. /\ Place(j) \in Nat /\ Place(j) - 1 \in 1..Len(stk) /\ Place(j) \in 1..Len(stk)
        /\ frame = 2 => Place(j) - 1 # 2
    BY <1>1, <2>3, PlaceIs
  <2>5. stk[Place(j) - 1].kind = "value"
    BY <2>3 DEF FrameAt, EnvelopeOf
  <2>6. stk[Place(j) - 1] \in Items
    BY <1>1, <2>4, ElementOfSeq
  <2> QED BY <2>2, <2>4, <2>5, <2>6
<1> QED BY <1>2, <1>3

\* The stack with a value given to BREAK in the slot below an envelope.
SentTo(stk, d, x) == [stk EXCEPT ![d - 1].v = x]

\* A BREAK leaves the frame as compiled.
LEMMA Sent ==
  ASSUME Compiled, NEW stk, NEW base, NEW can, NEW p, FrameAt(stk, base, can, p), Dest(Open(p)) # 0,
         NEW x \in Values, NEW stk2, stk2 = SentTo(stk, Dest(Open(p)), x)
  PROVE  /\ stk2 \in Seq(Items) /\ Len(stk2) = Len(stk)
         /\ \A k \in 1..Len(stk) : k # Dest(Open(p)) - 1 => stk2[k] = stk[k]
         /\ stk2[Dest(Open(p)) - 1].kind = "value" /\ stk2[Dest(Open(p)) - 1].v = x
         /\ \A k \in 1..Len(stk) : Alike(stk2[k], stk[k])
         /\ frame = 2 => stk2[2] = stk[2]
<1> DEFINE d == Dest(Open(p)) - 1  y == [stk[d] EXCEPT !.v = x]
<1>1. /\ d \in 1..Len(stk) /\ stk[d].kind = "value" /\ stk[d] \in Items
      /\ frame = 2 => d # 2
  BY DestFacts
<1>2. stk2 = [stk EXCEPT ![d] = y]
  BY DEF SentTo
<1> HIDE DEF d
<1>3. stk[d] \in [kind : {"value"}, v : Values]
  BY <1>1 DEF Items, Block
<1>4. y \in [kind : {"value"}, v : Values] /\ y.kind = "value" /\ y.v = x
  BY <1>3
<1>5. y \in Items
  BY <1>4 DEF Items
<1> HIDE DEF y
<1>6. stk \in Seq(Items) /\ Len(stk) \in Nat /\ Len(stk) = frame + Height(p) /\ frame \in Nat /\ Height(p) \in Nat
  BY CodeFacts, LenProperties DEF FrameAt, Compiled
<1>7. /\ [stk EXCEPT ![d] = y] \in Seq(Items) /\ Len([stk EXCEPT ![d] = y]) = Len(stk)
      /\ \A k \in 1..Len(stk) : [stk EXCEPT ![d] = y][k] = IF k = d THEN y ELSE stk[k]
  <2> HIDE DEF Items
  <2> QED BY <1>1, <1>5, <1>6, ExceptSeq
<1>8. /\ stk2 \in Seq(Items) /\ Len(stk2) = Len(stk)
      /\ \A k \in 1..Len(stk) : stk2[k] = IF k = d THEN y ELSE stk[k]
  BY <1>2, <1>7
<1>9. \A k \in 1..Len(stk) : Alike(stk2[k], stk[k])
  <2> TAKE k \in 1..Len(stk)
  <2>1. CASE k = d
    BY <1>1, <1>4, <1>8, <2>1 DEF Alike
  <2>2. CASE k # d
    BY <1>8, <2>2 DEF Alike
  <2> QED BY <2>1, <2>2
<1>10. frame = 2 => stk2[2] = stk[2]
  <2>1. frame = 2 => 2 \in 1..Len(stk)
    BY <1>6
  <2> QED BY <1>1, <1>8, <2>1
<1>11. stk2[d] = y
  BY <1>1, <1>8
<1>12. \A k \in 1..Len(stk) : k # d => stk2[k] = stk[k]
  BY <1>8
<1> QED BY <1>4, <1>8, <1>9, <1>10, <1>11, <1>12 DEF d

\* What a function called leaves.
Sends(stk, o, p) ==
    /\ o.action = {"BREAK"} /\ Dest(Open(p)) # 0
    /\ o.stack = SentTo(stk, Dest(Open(p)), <<"break", requests + 1>>)

\* A function called leaves the frame as compiled.
LEMMA OutcomeIs ==
  ASSUME Compiled, requests \in Nat, FrameAt(stack, recoverBase, bCanRecover, pc), NEW o \in CallOutcomes
  PROVE  /\ o.stack \in Seq(Items) /\ Len(o.stack) = Len(stack)
         /\ \A k \in 1..Len(stack) : Alike(o.stack[k], stack[k])
         /\ frame = 2 => o.stack[2] = stack[2]
         /\ requests + o.n \in Nat
         /\ \/ o.stack = stack /\ o.action \in {action, {}, {"QUIT"}}
            \/ Sends(stack, o, pc)
<1>1. stack \in Seq(Items)
  BY DEF FrameAt
<1>2. ASSUME o.stack = stack, o.action \in {action, {}, {"QUIT"}}, o.n \in {0, 1}
      PROVE  /\ o.stack \in Seq(Items) /\ Len(o.stack) = Len(stack)
             /\ \A k \in 1..Len(stack) : Alike(o.stack[k], stack[k])
             /\ frame = 2 => o.stack[2] = stack[2]
             /\ requests + o.n \in Nat
             /\ \/ o.stack = stack /\ o.action \in {action, {}, {"QUIT"}}
                \/ Sends(stack, o, pc)
  BY <1>1, <1>2 DEF Alike
<1>3. /\ \/ o = Returns(stack, action)
         \/ o = Breaks(stack, recoverBase)
         \/ o = Quits(stack)
         \/ o = Returns(stack, {})
  BY DEF CallOutcomes, Outcomes
<1>4. CASE o = Returns(stack, action) \/ o = Quits(stack) \/ o = Returns(stack, {})
  <2>1. o.stack = stack /\ o.action \in {action, {}, {"QUIT"}} /\ o.n \in {0, 1}
    BY <1>4 DEF Returns, Quits
  <2> QED BY <1>2, <2>1
<1>5. CASE o = Breaks(stack, recoverBase)
  <2>1. BreakBase(stack, recoverBase) = Dest(Open(pc))
    BY BreakGoes
  <2>2. CASE Dest(Open(pc)) = 0
    <3>1. o = [stack |-> stack, action |-> {"QUIT"}, n |-> 1]
      BY <1>5, <2>1, <2>2 DEF Breaks
    <3>2. o.stack = stack /\ o.action \in {action, {}, {"QUIT"}} /\ o.n \in {0, 1}
      BY <3>1
    <3> QED BY <1>2, <3>2
  <2>3. CASE Dest(Open(pc)) # 0
    <3> DEFINE x == <<"break", requests + 1>>
    <3>1. o = [stack |-> SentTo(stack, Dest(Open(pc)), x), action |-> {"BREAK"}, n |-> 1]
      BY <1>5, <2>1, <2>3 DEF Breaks, SentTo
    <3>2. x \in Values
      BY DEF Values
    <3> HIDE DEF x
    <3> DEFINE s == SentTo(stack, Dest(Open(pc)), x)
    <3>3. /\ o.stack = s /\ o.action = {"BREAK"} /\ o.n = 1
      BY <3>1
    <3>4. /\ s \in Seq(Items) /\ Len(s) = Len(stack)
          /\ \A k \in 1..Len(stack) : Alike(s[k], stack[k])
          /\ frame = 2 => s[2] = stack[2]
      BY <2>3, <3>2, Sent
    <3>5. Sends(stack, o, pc)
      BY <2>3, <3>3 DEF Sends, x
    <3>6. requests + o.n \in Nat
      BY <3>3
    <3> HIDE DEF s
    <3> QED BY <3>3, <3>4, <3>5, <3>6
  <2> QED BY <2>2, <2>3
<1> QED BY <1>3, <1>4, <1>5

-----------------------------------------------------------------------------
(* The frame is always as compiled.                                        *)

\* Values and blocks are items.
LEMMA ItemsAre ==
  /\ \A v \in Values : Value(v) \in Items /\ Value(v).kind = "value" /\ Value(v).v = v
  /\ Block \in Items /\ Block.kind = "block"
  /\ Nil \in Values /\ Other \in Values /\ \A n \in Nat : <<"return", n>> \in Values
<1>1. \A v \in Values : Value(v) \in Items /\ Value(v).kind = "value" /\ Value(v).v = v
  BY DEF Value, Items
<1>2. Block \in Items /\ Block.kind = "block"
  BY DEF Block, Items
<1>3. Nil \in Values /\ Other \in Values /\ \A n \in Nat : <<"return", n>> \in Values
  BY DEF Nil, Other, Values
<1> QED BY <1>1, <1>2, <1>3

\* The frame is as compiled at the start.
LEMMA FramedInit == VMInit => Framed
<1> SUFFICES ASSUME VMInit PROVE Framed
  OBVIOUS
<1>1. Compiled /\ requests \in Nat /\ ret \in Values /\ pc = 1
  BY ItemsAre DEF VMInit, Init, Compiled
<1>2. 1 \in 1..Len(code) /\ Len(code) \in Nat /\ Height(1) = 0 /\ pc # Done
  BY <1>1, CodeFacts DEF Done
<1>3. Open(1) = {}
  <2>1. \A i \in SeqOps(code) : ~(i < 1)
    BY <1>1, CodeFacts
  <2> QED BY <2>1 DEF Open
<1>4. OwedAt(1) = {}
  BY <1>3 DEF OwedAt
<1>5. recoverBase = Base(Open(1)) /\ bCanRecover = (Open(1) # {}) /\ owed = {}
  BY <1>1, <1>2, <1>3, BaseIs DEF VMInit, Init
<1>6. CASE frame = 0
  <2>1. stack = <<>>
    BY <1>6 DEF VMInit, Init
  <2>2. FrameAt(stack, recoverBase, bCanRecover, 1)
    BY <1>2, <1>3, <1>5, <1>6, <2>1 DEF FrameAt
  <2> QED BY <1>1, <1>2, <1>4, <1>5, <2>2 DEF Framed
<1>7. CASE frame = 2
  <2>1. stack = <<Value(Nil), Envelope(0, 0, {})>>
    BY <1>7 DEF VMInit, Init
  <2>2. Value(Nil) \in Items /\ Value(Nil).kind = "value" /\ Envelope(0, 0, {}) \in Items
    <3>1. Envelope(0, 0, {}) \in Items
      BY DEF Items, Envelope
    <3> QED BY <3>1, ItemsAre
  <2>3. /\ stack \in Seq(Items) /\ Len(stack) = 2 /\ stack[1] = Value(Nil) /\ stack[2] = Envelope(0, 0, {})
    <3> HIDE DEF Items
    <3> QED BY <2>1, <2>2
  <2>4. FrameAt(stack, recoverBase, bCanRecover, 1)
    BY <1>2, <1>3, <1>5, <1>7, <2>2, <2>3 DEF FrameAt
  <2> QED BY <1>1, <1>2, <1>4, <1>5, <2>4 DEF Framed
<1> QED BY <1>1, <1>6, <1>7 DEF Compiled

\* Every opcode leaves the frame as compiled, with what follows at the end of
\* the loop.
LEMMA FramedOpcode ==
  ASSUME Framed, Opcode, UNCHANGED <<code, frame, quitState>>
  PROVE  Framed'
<1> DEFINE p == pc
<1>1. pc # Done
  BY DEF Opcode, Noop, Push, Pop, Do, Function, RetValue, EndProc, SeqBlock, SeqBegin, SeqAlways,
         SeqEnd, SeqRecover, AlwaysBegin, AlwaysEnd, At
<1>2. /\ Compiled /\ requests \in Nat /\ ret \in Values
      /\ FrameAt(stack, recoverBase, bCanRecover, pc) /\ owed = OwedAt(pc)
  BY <1>1 DEF Framed
<1>3. /\ pc \in 1..Len(code) /\ pc \in Nat /\ stack \in Seq(Items) /\ Len(stack) \in Nat
      /\ recoverBase \in Nat
  <2>1. pc \in 1..Len(code) /\ pc \in Nat /\ stack \in Seq(Items) /\ Len(stack) \in Nat
    BY <1>2, CodeFacts, LenProperties DEF FrameAt
  <2>2. recoverBase = Base(Open(pc)) /\ frame \in Nat
    BY <1>2 DEF FrameAt, Compiled
  <2>3. Open(pc) # {} => \E k \in Open(pc) : Base(Open(pc)) = Place(k) /\ Place(k) \in Nat
    BY <1>2, <2>1, BaseIs, PlaceIs
  <2>4. Open(pc) = {} => Base(Open(pc)) = frame
    BY <1>2, <2>1, BaseIs
  <2> QED BY <2>1, <2>2, <2>3, <2>4
<1>4. \A k \in 1..Len(stack) : Alike(stack[k], stack[k])
  BY DEF Alike
<1>5. CASE Noop
  <2>1. code[pc].op \in {"NOOP", "DO", "RETVALUE"}
    BY <1>5 DEF Noop, At
  <2>2. FrameAt(stack, recoverBase, bCanRecover, pc + 1) /\ OwedAt(pc + 1) = OwedAt(pc)
    BY <1>2, <1>3, <1>4, <2>1, SameFrame
  <2>3. EndOfLoop(stack, recoverBase, bCanRecover, action, pc + 1) /\ UNCHANGED <<ret, requests, owed>>
    BY <1>5 DEF Noop, Plain
  <2> QED BY <1>2, <2>2, <2>3, Settle
<1>6. CASE Push
  <2>1. code[pc].op \in {"PUSH", "FUNCTION", "SEQBLOCK"} /\ Value(Other) \in Items /\ Value(Other).kind # "envelope"
    BY <1>6, ItemsAre DEF Push, At
  <2> DEFINE x == Value(Other)
  <2>2. EndOfLoop(Append(stack, x), recoverBase, bCanRecover, action, pc + 1) /\ UNCHANGED <<ret, requests, owed>>
    BY <1>6 DEF Push, Plain
  <2> HIDE DEF x
  <2>3. FrameAt(Append(stack, x), recoverBase, bCanRecover, pc + 1) /\ OwedAt(pc + 1) = OwedAt(pc)
    BY <1>2, <1>3, <1>4, <2>1, AppendFrame DEF x
  <2> QED BY <1>2, <2>2, <2>3, Settle
<1>7. CASE Pop
  <2>1. FrameAt(Drop(stack, 1), recoverBase, bCanRecover, pc + 1) /\ OwedAt(pc + 1) = OwedAt(pc)
    BY <1>2, <1>7, PopFrame DEF Pop, At
  <2>2. EndOfLoop(Drop(stack, 1), recoverBase, bCanRecover, action, pc + 1) /\ UNCHANGED <<ret, requests, owed>>
    BY <1>7 DEF Pop, Plain
  <2> QED BY <1>2, <2>1, <2>2, Settle
<1>8. CASE Do
  <2>1. code[pc].op \in {"NOOP", "DO", "RETVALUE"} /\ ret' \in Values /\ owed' = owed
    BY <1>8, ItemsAre DEF Do, At
  <2>2. PICK o \in CallOutcomes :
          /\ Admitted(o)
          /\ EndOfLoop(o.stack, recoverBase, bCanRecover, o.action, pc + 1)
    BY <1>8 DEF Do
  <2>3. /\ o.stack \in Seq(Items) /\ Len(o.stack) = Len(stack)
        /\ \A k \in 1..Len(stack) : Alike(o.stack[k], stack[k])
        /\ frame = 2 => o.stack[2] = stack[2]
        /\ requests' \in Nat
    BY <1>2, <2>2, OutcomeIs DEF Admitted
  <2> DEFINE s == o.stack  a == o.action
  <2>4. EndOfLoop(s, recoverBase, bCanRecover, a, pc + 1)
    BY <2>2
  <2> HIDE DEF s, a
  <2>5. FrameAt(s, recoverBase, bCanRecover, pc + 1) /\ OwedAt(pc + 1) = OwedAt(pc)
    BY <1>2, <1>3, <2>1, <2>3, SameFrame DEF s
  <2> QED BY <1>2, <2>1, <2>3, <2>4, <2>5, Settle
<1>9. CASE Function
  <2>1. /\ code[pc].op \in {"PUSH", "FUNCTION", "SEQBLOCK"} /\ ret' \in Values /\ owed' = owed
        /\ Value(Other) \in Items /\ Value(Other).kind # "envelope"
    BY <1>9, ItemsAre DEF Function, At
  <2> DEFINE x == Value(Other)
  <2>2. PICK o \in CallOutcomes :
          /\ Admitted(o)
          /\ EndOfLoop(Append(o.stack, x), recoverBase, bCanRecover, o.action, pc + 1)
    BY <1>9 DEF Function
  <2>3. /\ o.stack \in Seq(Items) /\ Len(o.stack) = Len(stack)
        /\ \A k \in 1..Len(stack) : Alike(o.stack[k], stack[k])
        /\ frame = 2 => o.stack[2] = stack[2]
        /\ requests' \in Nat
    BY <1>2, <2>2, OutcomeIs DEF Admitted
  <2> DEFINE t == o.stack  s == Append(t, x)  a == o.action
  <2>4. EndOfLoop(s, recoverBase, bCanRecover, a, pc + 1)
    BY <2>2
  <2> HIDE DEF x, t, a
  <2>5. FrameAt(Append(t, x), recoverBase, bCanRecover, pc + 1) /\ OwedAt(pc + 1) = OwedAt(pc)
    BY <1>2, <1>3, <2>1, <2>3, AppendFrame DEF x, t
  <2> HIDE DEF s
  <2>6. FrameAt(s, recoverBase, bCanRecover, pc + 1)
    BY <2>5 DEF s
  <2> QED BY <1>2, <2>1, <2>3, <2>4, <2>5, <2>6, Settle
<1>10. CASE RetValue
  <2>1. code[pc].op \in {"NOOP", "DO", "RETVALUE"} /\ ret' \in Values
    BY <1>3, <1>10, ItemsAre DEF RetValue, At
  <2>2. FrameAt(stack, recoverBase, bCanRecover, pc + 1) /\ OwedAt(pc + 1) = OwedAt(pc)
    BY <1>2, <1>3, <1>4, <2>1, SameFrame
  <2>3. EndOfLoop(stack, recoverBase, bCanRecover, action, pc + 1) /\ UNCHANGED <<requests, owed>>
    BY <1>10 DEF RetValue, Plain
  <2> QED BY <1>2, <2>1, <2>2, <2>3, Settle
<1>11. CASE EndProc
  <2>1. EndOfLoop(stack, recoverBase, bCanRecover, {"ENDPROC"}, pc) /\ UNCHANGED <<ret, requests, owed>>
    BY <1>11 DEF EndProc
  <2> DEFINE a == {"ENDPROC"}
  <2>2. EndOfLoop(stack, recoverBase, bCanRecover, a, pc)
    BY <2>1
  <2> HIDE DEF a
  <2> QED BY <1>2, <2>1, <2>2, Settle
<1>12. CASE SeqBlock
  <2>1. code[pc].op \in {"PUSH", "FUNCTION", "SEQBLOCK"} /\ Block \in Items /\ Block.kind # "envelope"
    BY <1>12, ItemsAre DEF SeqBlock, At
  <2>2. EndOfLoop(Append(stack, Block), recoverBase, bCanRecover, action, pc + 1) /\ UNCHANGED <<ret, requests, owed>>
    BY <1>12 DEF SeqBlock, Plain
  <2>3. FrameAt(Append(stack, Block), recoverBase, bCanRecover, pc + 1) /\ OwedAt(pc + 1) = OwedAt(pc)
    BY <1>2, <1>3, <1>4, <2>1, AppendFrame
  <2> QED BY <1>2, <2>2, <2>3, Settle
<1>13. ASSUME NEW f, Enter(f), code[pc].op \in {"SEQBEGIN", "SEQALWAYS"},
              f = (IF code[pc].op = "SEQALWAYS" THEN {"DOALWAYS"} ELSE {}),
              UNCHANGED <<ret, requests>>,
              owed' = (IF code[pc].op = "SEQALWAYS" THEN owed \cup {Target} ELSE owed)
       PROVE  Framed'
  <2> DEFINE g == f \cup (IF bCanRecover THEN {"CANRECOVER"} ELSE {})
             s == Entered(stack, First(code, pc), recoverBase, g)
             n == Len(s)
             can == TRUE
  <2>0. Target = First(code, pc)
    BY DEF Target, First
  <2>1. EndOfLoop(s, n, can, action, pc + 1)
    BY <1>13, <2>0 DEF Enter, Entered
  <2>2. pc \in SeqOps(code)
    BY <1>3, <1>13 DEF SeqOps
  <2>3. s = Entered(stack, First(code, pc), recoverBase, g)
    OBVIOUS
  <2>4. g = EnterFlags(pc, bCanRecover)
    BY <1>13 DEF EnterFlags
  <2> HIDE DEF s, g
  <2>5. FrameAt(s, Len(s), TRUE, pc + 1)
    BY <1>2, <2>2, <2>3, <2>4, EnterFrame
  <2>6. /\ Open(pc + 1) = Open(pc) \cup {pc} /\ pc \notin Open(pc)
        /\ \A j \in Open(pc) : Begun(j, pc + 1) <=> Begun(j, pc)
    BY <1>2, <2>2, OpenAt
  <2>7. ~Begun(pc, pc + 1)
    BY <1>2, <1>3, <2>2, SeqFacts DEF Begun
  <2>8. owed' = OwedAt(pc + 1)
    <3> DEFINE A == {j \in Open(pc) : code[j].op = "SEQALWAYS" /\ ~Begun(j, pc)}
               B == {j \in Open(pc + 1) : code[j].op = "SEQALWAYS" /\ ~Begun(j, pc + 1)}
    <3>1. OwedAt(pc) = {First(code, j) : j \in A} /\ OwedAt(pc + 1) = {First(code, j) : j \in B}
      BY DEF OwedAt
    <3>2. B = IF code[pc].op = "SEQALWAYS" THEN A \cup {pc} ELSE A
      BY <1>13, <2>6, <2>7
    <3> HIDE DEF A, B
    <3> QED BY <1>2, <1>13, <2>0, <3>1, <3>2
  <2>9. FrameAt(s, n, can, pc + 1)
    BY <2>5
  <2> HIDE DEF n, can
  <2> QED BY <1>2, <1>13, <2>1, <2>8, <2>9, Settle
<1>14. CASE SeqBegin
  <2>1. /\ Enter({}) /\ code[pc].op = "SEQBEGIN" /\ UNCHANGED <<ret, requests, owed>>
    BY <1>14 DEF SeqBegin, At
  <2> DEFINE f == {}
  <2>2. Enter(f) /\ f = (IF code[pc].op = "SEQALWAYS" THEN {"DOALWAYS"} ELSE {})
    BY <2>1
  <2> HIDE DEF f
  <2> QED BY <1>13, <2>1, <2>2
<1>15. CASE SeqAlways
  <2>1. /\ Enter({"DOALWAYS"}) /\ code[pc].op = "SEQALWAYS" /\ UNCHANGED <<ret, requests>>
        /\ owed' = owed \cup {Target}
    BY <1>15 DEF SeqAlways, At
  <2> DEFINE f == {"DOALWAYS"}
  <2>2. Enter(f) /\ f = (IF code[pc].op = "SEQALWAYS" THEN {"DOALWAYS"} ELSE {})
    BY <2>1
  <2> HIDE DEF f
  <2> QED BY <1>13, <2>1, <2>2
<1>16. ASSUME NEW i \in SeqOps(code), pc \in {Stop(code, i), First(code, i), Last(code, i)},
              NEW q \in {Last(code, i) + 1, End(code, i) + 1},
              NEW d \in {1, 2}, Height(q) = Height(i) + 2 - d,
              code[i].op = "SEQBEGIN" \/ Begun(i, pc),
              NEW act,
              EndOfLoop(Drop(stack, d), Top.base, "CANRECOVER" \in Top.flags, act, q),
              ret' \in Values, UNCHANGED <<requests, owed>>
       PROVE  Framed'
  <2> DEFINE s == Drop(stack, d)  b == stack[Len(stack)].base  can == "CANRECOVER" \in stack[Len(stack)].flags
  <2>1. FrameAt(s, b, can, q) /\ OwedAt(q) = OwedAt(pc)
    BY <1>2, <1>16, LeaveFrame
  <2>2. EndOfLoop(s, b, can, act, q)
    BY <1>16 DEF Top
  <2> HIDE DEF s, b, can
  <2> QED BY <1>2, <1>16, <2>1, <2>2, Settle
<1>17. CASE SeqEnd
  <2>1. /\ code[pc].op = "SEQEND" /\ UNCHANGED <<ret, requests, owed>>
        /\ EndOfLoop(Drop(stack, 2), Top.base, "CANRECOVER" \in Top.flags, action, pc + code[pc].to)
    BY <1>17 DEF SeqEnd, At, Target
  <2>2. PICK i \in SeqOps(code) : /\ code[i].op = "SEQBEGIN" /\ pc = Stop(code, i)
                                  /\ pc + code[pc].to = End(code, i) + 1
                                  /\ Height(End(code, i) + 1) = Height(i) + 2 - 2
    BY <1>2, <1>3, <2>1, SeqEndIs
  <2> DEFINE q == End(code, i) + 1  d == 2
  <2>3. /\ q \in {Last(code, i) + 1, End(code, i) + 1} /\ d \in {1, 2} /\ Height(q) = Height(i) + 2 - d
        /\ EndOfLoop(Drop(stack, d), Top.base, "CANRECOVER" \in Top.flags, action, q)
    BY <2>1, <2>2
  <2> HIDE DEF q, d
  <2> QED BY <1>2, <1>16, <2>1, <2>2, <2>3
<1>18. CASE SeqRecover
  <2>1. /\ code[pc].op = "SEQRECOVER" /\ UNCHANGED <<ret, requests, owed>>
        /\ EndOfLoop(Drop(stack, 1), Top.base, "CANRECOVER" \in Top.flags, action, pc + 1)
    BY <1>18 DEF SeqRecover, At
  <2>2. PICK i \in SeqOps(code) : /\ code[i].op = "SEQBEGIN" /\ pc = First(code, i)
                                  /\ pc + 1 = Last(code, i) + 1
                                  /\ Height(Last(code, i) + 1) = Height(i) + 2 - 1
    BY <1>2, <1>3, <2>1, SeqRecoverIs
  <2> DEFINE q == Last(code, i) + 1  d == 1
  <2>3. /\ q \in {Last(code, i) + 1, End(code, i) + 1} /\ d \in {1, 2} /\ Height(q) = Height(i) + 2 - d
        /\ EndOfLoop(Drop(stack, d), Top.base, "CANRECOVER" \in Top.flags, action, q)
    BY <2>1, <2>2
  <2> HIDE DEF q, d
  <2> QED BY <1>2, <1>16, <2>1, <2>2, <2>3
<1>19. CASE AlwaysEnd
  <2>1. /\ code[pc].op = "ALWAYSEND" /\ UNCHANGED <<requests, owed>>
        /\ ret' = IF Restores(Top) THEN stack[Len(stack) - 1].v ELSE ret
        /\ EndOfLoop(Drop(stack, 2), Top.base, "CANRECOVER" \in Top.flags,
                     Strongest(Top.flags \cup Top.request), pc + 1)
    BY <1>19 DEF AlwaysEnd, At
  <2>2. PICK i \in SeqOps(code) : /\ code[i].op = "SEQALWAYS" /\ pc = Last(code, i) /\ Begun(i, pc)
                                  /\ pc + 1 = End(code, i) + 1
                                  /\ Height(End(code, i) + 1) = Height(i) + 2 - 2
    BY <1>2, <1>3, <2>1, AlwaysEndIs
  <2> DEFINE q == End(code, i) + 1  d == 2  a == Strongest(Top.flags \cup Top.request)
  <2>3. /\ q \in {Last(code, i) + 1, End(code, i) + 1} /\ d \in {1, 2} /\ Height(q) = Height(i) + 2 - d
        /\ EndOfLoop(Drop(stack, d), Top.base, "CANRECOVER" \in Top.flags, a, q)
    BY <2>1, <2>2
  <2>4. ret' \in Values
    <3>1. Open(pc) = Open(i) \cup {i} /\ Len(stack) = Place(i)
      BY <1>2, <2>2, <2>3, LeaveFrame
    <3>2. EnvelopeOf(stack, i, pc)
      BY <1>2, <3>1 DEF FrameAt
    <3>3. stack[Len(stack) - 1].kind = "value"
      BY <3>1, <3>2 DEF EnvelopeOf
    <3>4. Len(stack) - 1 \in 1..Len(stack)
      BY <1>2, <1>3, <3>1, PlaceIs
    <3>5. stack[Len(stack) - 1] \in Items
      BY <1>3, <3>4, ElementOfSeq
    <3>6. stack[Len(stack) - 1] \in [kind : {"value"}, v : Values]
      BY <3>3, <3>5 DEF Items, Block
    <3>7. stack[Len(stack) - 1].v \in Values
      BY <3>6
    <3> QED BY <1>2, <2>1, <3>7
  <2> HIDE DEF q, d, a
  <2> QED BY <1>2, <1>16, <2>1, <2>2, <2>3, <2>4
<1>20. CASE AlwaysBegin
  <2> DEFINE keeps == "ENDPROC" \in Top.flags \cup Top.request
             slot == IF keeps THEN Value(ret) ELSE stack[Len(stack) - 1]
             s == Began(stack, pc + code[pc].to, slot)
  <2>1. /\ code[pc].op = "ALWAYSBEGIN" /\ requests' = requests /\ owed' = owed \ {pc}
        /\ ret' = IF keeps THEN Nil ELSE ret
    BY <1>20 DEF AlwaysBegin, At
  <2>2. EndOfLoop(s, recoverBase, bCanRecover, action, pc + 1)
    BY <1>20 DEF AlwaysBegin, Plain, Top, Target, Began
  <2>3. OwedAt(pc + 1) = OwedAt(pc) \ {pc}
    BY <1>2, <1>3, <2>1, AlwaysBeginIs
  <2>4. slot \in Items /\ slot.kind = "value"
    <3>1. PICK i \in SeqOps(code) : /\ code[i].op = "SEQALWAYS" /\ pc = First(code, i)
                                    /\ Open(pc) = Open(i) \cup {i} /\ Height(pc) = Height(i) + 2
      BY <1>2, <1>3, <2>1, AlwaysBeginIs
    <3>2. EnvelopeOf(stack, i, pc) /\ i \in Open(pc)
      BY <1>2, <3>1 DEF FrameAt
    <3>3. Len(stack) = Place(i) /\ Len(stack) - 1 \in 1..Len(stack)
      <4>1. Len(stack) = frame + Height(pc)
        BY <1>2 DEF FrameAt
      <4>2. /\ Place(i) = frame + Height(i) + 2 /\ Height(i) \in Nat /\ frame \in Nat
            /\ Place(i) - 1 \in 1..(frame + Height(pc))
        BY <1>2, <1>3, <3>2, PlaceIs
      <4>3. Len(stack) = Place(i)
        BY <3>1, <4>1, <4>2
      <4> QED BY <4>1, <4>2, <4>3
    <3>4. stack[Len(stack) - 1].kind = "value" /\ stack[Len(stack) - 1] \in Items
      BY <1>3, <3>2, <3>3, ElementOfSeq DEF EnvelopeOf
    <3>5. Value(ret) \in Items /\ Value(ret).kind = "value"
      BY <1>2, ItemsAre
    <3> QED BY <3>4, <3>5
  <2> HIDE DEF slot
  <2>5. s = Began(stack, pc + code[pc].to, slot)
    OBVIOUS
  <2> HIDE DEF s
  <2>6. FrameAt(s, recoverBase, bCanRecover, pc + 1)
    BY <1>2, <2>1, <2>4, <2>5, AlwaysBeginFrame
  <2>7. ret' \in Values /\ requests' \in Nat /\ owed' = OwedAt(pc + 1)
    BY <1>2, <2>1, <2>3, ItemsAre
  <2> QED BY <1>2, <2>2, <2>6, <2>7, Settle
<1> QED BY <1>5, <1>6, <1>7, <1>8, <1>9, <1>10, <1>11, <1>12, <1>14, <1>15, <1>17, <1>18, <1>19, <1>20 DEF Opcode

\* So does every step.
LEMMA FramedStep == Framed /\ [Next]_vars => Framed'
<1> SUFFICES ASSUME Framed, [Next]_vars PROVE Framed'
  OBVIOUS
<1>1. CASE Opcode /\ UNCHANGED <<code, frame, quitState>>
  BY <1>1, FramedOpcode
<1>2. CASE Poll \/ UNCHANGED vars
  <2>1. UNCHANGED <<code, frame, pc, stack, recoverBase, ret, requests, owed, bCanRecover>>
    BY <1>2 DEF Poll, vars, frameVars
  <2>2. /\ FrameAt(stack, recoverBase, bCanRecover, pc)' <=> FrameAt(stack', recoverBase', bCanRecover', pc')
        /\ OwedAt(pc)' = OwedAt(pc')
    BY <2>1, Unmoved
  <2>3. Compiled' /\ Done' = Done /\ Compiled /\ Envelope(0, 0, {})' = Envelope(0, 0, {})
    BY <2>1 DEF Compiled, Done, Framed, Envelope
  <2> QED BY <2>1, <2>2, <2>3 DEF Framed
<1> QED BY <1>1, <1>2 DEF Next

\* The frame, the recover base and the ALWAYS clauses to come, in every state.
THEOREM AlwaysFramed == Spec => []Framed
<1>1. VMInit => Framed
  BY FramedInit
<1>2. Framed /\ [Next]_vars => Framed'
  BY FramedStep
<1> QED BY <1>1, <1>2, PTL DEF Spec

\* FrameAsCompiled: before every opcode, however it was reached, the stack has
\* the height it was compiled for, and on it the envelopes of the SEQUENCEs open.
THEOREM AlwaysFrameAsCompiled == Spec => []FrameAsCompiled
<1>1. Framed => FrameAsCompiled
  <2> SUFFICES ASSUME Framed, Settled PROVE Len(stack) = frame + Height(pc) /\ EnvelopesAsOpen
    BY DEF FrameAsCompiled
  <2>1. Compiled /\ FrameAt(stack, recoverBase, bCanRecover, pc) /\ pc \in 1..Len(code)
    BY DEF Framed, Settled, FrameAt
  <2>2. /\ Len(stack) = frame + Height(pc) /\ recoverBase = Base(Open(pc)) /\ Len(stack) \in Nat
        /\ frame \in Nat
    BY <2>1, LenProperties DEF FrameAt, Compiled
  <2>3. \A i \in Open(pc) : EnvelopeOf(stack, i, pc)
    BY <2>1 DEF FrameAt
  <2>4. Envelopes(stack) = {Place(i) : i \in Open(pc)}
    <3>1. \A k \in Envelopes(stack) : \E i \in Open(pc) : k = Place(i)
      BY <2>1 DEF FrameAt, Envelopes, Chain
    <3>2. ASSUME NEW i \in Open(pc)
          PROVE  Place(i) \in Envelopes(stack)
      <4>1. Place(i) \in 1..Len(stack) /\ frame < Place(i)
        BY <2>1, <2>2, PlaceIs
      <4>2. stack[Place(i)].kind = "envelope"
        BY <2>3 DEF EnvelopeOf
      <4> QED BY <4>1, <4>2 DEF Envelopes, Chain
    <3> QED BY <3>1, <3>2
  <2> QED BY <2>2, <2>3, <2>4 DEF EnvelopesAsOpen, EnvelopeOf
<1> QED BY <1>1, AlwaysFramed, PTL

\* AlwaysOnce: an ALWAYS clause that begins has not begun before, and none is
\* left that has not when the function returns.
THEOREM AlwaysAlwaysOnce == Spec => []AlwaysOnce
<1>1. Framed => AlwaysOnce
  <2> SUFFICES ASSUME Framed PROVE AlwaysOnce
    OBVIOUS
  <2>1. ASSUME At("ALWAYSBEGIN")
        PROVE  pc \in owed
    <3>1. Compiled /\ pc \in 1..Len(code) /\ code[pc].op = "ALWAYSBEGIN" /\ owed = OwedAt(pc)
      BY <2>1 DEF Framed, At, FrameAt
    <3>2. PICK i \in SeqOps(code) : /\ code[i].op = "SEQALWAYS" /\ pc = First(code, i)
                                    /\ Open(pc) = Open(i) \cup {i} /\ ~Begun(i, pc)
      BY <3>1, AlwaysBeginIs
    <3>3. i \in {j \in Open(pc) : code[j].op = "SEQALWAYS" /\ ~Begun(j, pc)}
      BY <3>2
    <3> QED BY <3>1, <3>2, <3>3 DEF OwedAt
  <2>2. Return => owed = {}
    BY DEF Framed, Return
  <2> QED BY <2>1, <2>2 DEF AlwaysOnce
<1> QED BY <1>1, AlwaysFramed, PTL

-----------------------------------------------------------------------------
(* What the envelopes remember of the requests.                            *)

\* The value of BREAK waits where RECOVER USING will look for it.
Receives(stk, is) == Dest(is) # 0 /\ stk[Dest(is) - 1].v[1] = "break"

\* The value of RETURN put aside at i will not be restored: a request made in
\* an ALWAYS clause since then, or under way, takes its place.
Void(stk, i, p, act) ==
    \/ \E m \in Open(p) :
         /\ i <= m
         /\ \A j \in Open(p) : i < j /\ j <= m => code[j].op = "SEQALWAYS"
         /\ stk[Place(m)].request # {} \/ (i < m /\ stk[Place(m)].flags \cap RequestNames # {})
    \/ /\ act # {} \/ code[p].op = "ENDPROC"
       /\ \A j \in Open(p) : i < j => code[j].op = "SEQALWAYS"

\* What the envelope at i says at p, with act under way, rt the return value
\* and rtd that of the last RETURN.
MarkedBy(stk, i, p, act, rt, rtd) ==
    /\ stk[Place(i)].request # {} => p = Handler(i, p) /\ \A j \in Open(p) : j <= i
    /\ stk[Place(i)].flags \cap RequestNames # {} => code[i].op = "SEQALWAYS" /\ Begun(i, p)
    /\ code[i].op = "SEQBEGIN" => stk[Place(i)].request \subseteq {"BREAK"}
    /\ "BREAK" \in stk[Place(i)].flags \cup stk[Place(i)].request => Receives(stk, Open(i) \cup {i})
    /\ "ENDPROC" \in stk[Place(i)].request => rt = rtd
    /\ "ENDPROC" \in stk[Place(i)].flags => stk[Place(i) - 1].v = rtd \/ Void(stk, i, p, act)

\* The marks of requests on the stack: what is put aside in each open SEQUENCE
\* has its value with it.
Marks(stk, p, rt, rtd) ==
    /\ \A i \in Open(p) : MarkedBy(stk, i, p, {}, rt, rtd)
    /\ code[p].op = "ENDPROC" => rt = rtd
    /\ code[p].op = "SEQRECOVER" => "BREAK" \in stk[Place(Innermost(Open(p)))].request

\* The same when the opcode has done its work and the loop has not ended.
Sketch(stk, p, act, rt, rtd) ==
    /\ \A i \in Open(p) : stk[Place(i)].request = {} /\ MarkedBy(stk, i, p, act, rt, rtd)
    /\ code[p].op = "ENDPROC" \/ act = {"ENDPROC"} => rt = rtd
    /\ code[p].op # "SEQRECOVER"
    /\ act = {"BREAK"} => Receives(stk, Open(p))

\* The requests put aside in the open SEQUENCEs.
Held(stk, p) ==
    {r \in RequestNames : \E i \in Open(p) : r \in stk[Place(i)].flags \cup stk[Place(i)].request}

\* What had been put aside still is, or is under way, or something stronger is,
\* or the SEQUENCE that a BREAK was meant for has ended.
HandsOn(stk, p, stk2, q, act) ==
    \A r \in Held(stk, p) :
       \/ r \in Held(stk2, q) \cup act
       \/ act = {"QUIT"}
       \/ (act = {"BREAK"} /\ r = "ENDPROC")
       \/ r = "BREAK" /\ code[p].op \in {"SEQEND", "SEQRECOVER"}

\* The opcode has done its work, and this is left for the end of the loop.
Turned(stk, base, can, act, q) ==
    /\ FrameAt(stk, base, can, q) /\ EndOfLoop(stk, base, can, act, q)
    /\ Sketch(stk, q, act, ret', returned') /\ HandsOn(stack, pc, stk, q, act)
Turn == \E stk, base, can, act, q : Turned(stk, base, can, act, q)

\* The second inductive invariant: the marks are in order, and a request that
\* left the function left its value.
Marked ==
    /\ pc # Done => Marks(stack, pc, ret, returned) /\ action \in {{}, {"QUIT"}}
    /\ pc = Done => /\ action = {"BREAK"} => frame # 0 /\ stack[1].v[1] = "break"
                    /\ action = {} => ret = returned

\* The marks are about the next state alone once the code is the same.
LEMMA UnmovedMarks ==
  ASSUME UNCHANGED <<code, frame>>
  PROVE  Marks(stack, pc, ret, returned)' <=> Marks(stack', pc', ret', returned')
<1>1. code' = code /\ frame' = frame
  OBVIOUS
<1> QED BY <1>1 DEF Marks, MarkedBy, Void, Receives, Dest, Begins, Place, Height, Open, Handler, Begun

\* Where the value of BREAK waits for those open around i, and i itself.
LEMMA DestAround ==
  ASSUME Compiled, NEW stk, NEW base, NEW can, NEW p, FrameAt(stk, base, can, p), NEW i \in Open(p),
         Dest(Open(i) \cup {i}) # 0
  PROVE  /\ Dest(Open(i) \cup {i}) \in Nat /\ Dest(Open(i) \cup {i}) <= Place(i)
         /\ Dest(Open(i) \cup {i}) - 1 \in 1..Len(stk) /\ Dest(Open(i) \cup {i}) - 1 < Place(i)
         /\ Place(i) \in Nat /\ Place(i) <= Len(stk) /\ Len(stk) \in Nat
         /\ code[i].op = "SEQALWAYS" => Dest(Open(i) \cup {i}) < Place(i) - 1
<1> DEFINE is == Open(i) \cup {i}
<1>1. /\ p \in 1..Len(code) /\ Len(stk) = frame + Height(p) /\ frame \in {0, 2} /\ frame \in Nat
      /\ Len(stk) \in Nat /\ p \in Nat /\ Height(p) \in Nat
  BY CodeFacts, LenProperties DEF FrameAt, Compiled
<1>2. /\ Place(i) \in Nat /\ Place(i) <= Len(stk) /\ frame + 2 <= Place(i) /\ i \in SeqOps(code)
      /\ frame < Place(i) - 1
  BY <1>1, PlaceIs, OpenIs
<1>3. /\ is = {j \in Open(p) : j < i} \cup {i} /\ is \in SUBSET Open(p)
  BY <1>1, OpenOfOpen
<1> HIDE DEF is
<1>4. CASE Begins(is) = {}
  <2>1. Dest(is) = frame /\ frame = 2
    BY <1>1, <1>4 DEF Dest, is
  <2> QED BY <1>1, <1>2, <2>1 DEF is
<1>5. CASE Begins(is) # {}
  <2>1. Begins(is) \in SUBSET Open(p) /\ Begins(is) \in SUBSET is
    BY <1>3 DEF Begins
  <2>2. PICK j \in Begins(is) : Dest(is) = Place(j)
    BY <1>1, <1>5, <2>1, InnermostIs DEF Dest
  <2>3. j \in Open(p) /\ (j = i \/ j < i) /\ code[j].op = "SEQBEGIN"
    BY <1>3, <2>1 DEF Begins
  <2>4. j < i => Place(j) < Place(i) - 1
    BY <1>1, <2>3, PlaceLess
  <2>5. Place(j) \in Nat /\ Place(j) - 1 \in 1..Len(stk)
    BY <1>1, <2>3, PlaceIs
  <2>6. Place(j) <= Place(i)
    BY <1>2, <2>3, <2>4, <2>5
  <2>7. Place(j) - 1 < Place(i)
    BY <1>2, <2>5, <2>6
  <2>8. code[i].op = "SEQALWAYS" => Place(j) < Place(i) - 1
    BY <2>3, <2>4
  <2> QED BY <1>1, <1>2, <2>2, <2>5, <2>6, <2>7, <2>8 DEF is
<1> QED BY <1>4, <1>5

\* A request put into the envelope at i.
LEMMA LandMarks ==
  ASSUME Compiled, NEW stk, NEW base, NEW can, NEW q, FrameAt(stk, base, can, q),
         NEW act, NEW rt, NEW rtd, Sketch(stk, q, act, rt, rtd),
         NEW i \in Open(q), Serves(act, i, q),
         NEW stk2, stk2 = Landed(stk, Place(i), act)
  PROVE  Marks(stk2, Handler(i, q), rt, rtd)
<1> DEFINE h == Handler(i, q)
<1>1. /\ q \in 1..Len(code) /\ q \in Nat
  BY CodeFacts DEF FrameAt
<1>2. /\ h \in 1..Len(code) /\ h \in Nat /\ Open(h) = Open(i) \cup {i} /\ i \notin Open(i) /\ Move(q, h)
      /\ code[i].op = "SEQALWAYS" => code[h].op = (IF Begun(i, q) THEN "ALWAYSEND" ELSE "ALWAYSBEGIN")
      /\ code[i].op = "SEQBEGIN" => code[h].op \in {"SEQEND", "SEQRECOVER"}
  BY <1>1, HandlerIs
<1>3. act \in SUBSET RequestNames /\ act # {}
  BY DEF Serves, RequestNames
<1>4. /\ FrameAt(stk2, Place(i), TRUE, h)
      /\ Len(stk2) = Place(i) /\ Place(i) <= Len(stk) /\ Place(i) \in Nat /\ Len(stk) \in Nat
      /\ \A k \in 1..Len(stk2) : k # Place(i) => stk2[k] = stk[k]
      /\ stk2[Place(i)].flags = stk[Place(i)].flags /\ stk2[Place(i)].request = act
  <2>1. act \in SUBSET RequestNames
    BY <1>3
  <2>2. FrameAt(stk2, Place(i), TRUE, Handler(i, q))
    BY <2>1, LandFrame
  <2>3. CutAt(stk, stk2, Place(i), act)
    BY <2>1, LandFrame
  <2> QED BY <2>2, <2>3 DEF CutAt
<1>5. \A j \in Open(h) : j \in Open(q) /\ j \in Nat /\ (Begun(j, h) <=> Begun(j, q)) /\ j <= i /\ (j = i \/ j < i)
  <2>1. \A j \in Open(h) : j \in Open(q) /\ (Begun(j, h) <=> Begun(j, q)) /\ (j = i \/ j \in Open(i))
    BY <1>2 DEF Move
  <2>2. i \in Nat /\ \A j \in Open(i) : j < i /\ j \in Nat
    BY <1>1, OpenIs
  <2> QED BY <2>1, <2>2
<1>6. Handler(i, h) = h
  <2>1. i \in Open(h)
    BY <1>2
  <2>2. Begun(i, h) <=> Begun(i, q)
    BY <1>5, <2>1
  <2> QED BY <2>2 DEF Handler
<1> HIDE DEF h
<1>7. \A j \in Open(h) : j # i => /\ Place(j) \in 1..Len(stk2) /\ Place(j) # Place(i)
                                  /\ stk2[Place(j)] = stk[Place(j)] /\ stk2[Place(j)].request = {}
  <2> TAKE j \in Open(h)
  <2> HAVE j # i
  <2>1. j \in Open(q) /\ j < i
    BY <1>5
  <2>2. Place(j) < Place(i) - 1 /\ Place(j) \in 1..(frame + Height(q)) /\ Place(j) \in Nat
    BY <1>1, <2>1, PlaceLess, PlaceIs
  <2>3. Place(j) \in 1..Len(stk2) /\ Place(j) # Place(i)
    BY <1>4, <2>2
  <2>4. stk[Place(j)].request = {}
    BY <2>1 DEF Sketch
  <2> QED BY <1>4, <2>3, <2>4
<1>8. \A j \in Open(h) : stk2[Place(j) - 1] = stk[Place(j) - 1]
  <2> TAKE j \in Open(h)
  <2>1. j \in Open(q) /\ (j = i \/ j < i)
    BY <1>5
  <2>2. j # i => Place(j) < Place(i) - 1
    BY <1>1, <2>1, PlaceLess
  <2>3. Place(j) \in Nat /\ Place(j) - 1 \in 1..(frame + Height(q))
    BY <1>1, <2>1, PlaceIs
  <2>4. Place(j) - 1 \in 1..Len(stk2) /\ Place(j) - 1 # Place(i)
    BY <1>4, <2>2, <2>3
  <2> QED BY <1>4, <2>4
<1>9. ASSUME NEW j \in Open(h), Receives(stk, Open(j) \cup {j})
      PROVE  Receives(stk2, Open(j) \cup {j})
  <2>1. j \in Open(q) /\ Dest(Open(j) \cup {j}) # 0
    BY <1>5, <1>9 DEF Receives
  <2> DEFINE d == Dest(Open(j) \cup {j})
  <2>2. d \in Nat /\ d - 1 \in 1..Len(stk) /\ d - 1 < Place(j) /\ Place(j) \in Nat
    BY <2>1, DestAround
  <2>3. Place(j) <= Place(i)
    <3>1. CASE j = i
      BY <1>4, <3>1
    <3>2. CASE j # i
      <4>1. Place(j) < Place(i) - 1
        BY <1>1, <1>5, <2>1, <3>2, PlaceLess, OpenIs
      <4> QED BY <1>4, <2>2, <4>1
    <3> QED BY <3>1, <3>2
  <2> HIDE DEF d
  <2>4. d - 1 \in 1..Len(stk2) /\ d - 1 # Place(i)
    BY <1>4, <2>2, <2>3
  <2>5. stk2[d - 1] = stk[d - 1]
    BY <1>4, <2>4
  <2> QED BY <1>9, <2>5 DEF Receives, d
<1>10. ASSUME NEW j \in Open(h), Void(stk, j, q, act)
       PROVE  Void(stk2, j, h, {})
  <2>1. CASE \A k \in Open(q) : j < k => code[k].op = "SEQALWAYS"
    <3>1. i \in Open(h) /\ j <= i
      BY <1>2, <1>5
    <3>2. \A k \in Open(h) : j < k /\ k <= i => code[k].op = "SEQALWAYS"
      BY <1>5, <2>1
    <3>3. stk2[Place(i)].request # {}
      BY <1>3, <1>4
    <3> QED BY <3>1, <3>2, <3>3 DEF Void
  <2>2. ASSUME NEW m \in Open(q), j <= m, \A k \in Open(q) : j < k /\ k <= m => code[k].op = "SEQALWAYS",
               stk[Place(m)].request # {} \/ (j < m /\ stk[Place(m)].flags \cap RequestNames # {})
        PROVE  Void(stk2, j, h, {})
    <3>1. stk[Place(m)].request = {}
      BY DEF Sketch
    <3>2. j < m /\ stk[Place(m)].flags \cap RequestNames # {} /\ m \in Nat
      BY <1>1, <2>2, <3>1, OpenIs
    <3>3. code[m].op = "SEQALWAYS"
      BY <2>2, <3>2
    <3>4. m <= i
      <4>1. CASE act = {"BREAK"}
        <5>1. i = Innermost(Open(q))
          BY <4>1 DEF Serves
        <5>2. Open(q) \in SUBSET Open(q) /\ Open(q) # {}
          OBVIOUS
        <5> QED BY <1>1, <5>1, <5>2, InnermostIs
      <4>2. CASE act # {"BREAK"}
        <5>1. i = Innermost(Alwaysed(Open(q))) /\ i \in Alwaysed(Open(q))
          BY <4>2 DEF Serves
        <5>2. Alwaysed(Open(q)) \in SUBSET Open(q) /\ m \in Alwaysed(Open(q))
          BY <3>3 DEF Alwaysed
        <5> QED BY <1>1, <5>1, <5>2, InnermostIs
      <4> QED BY <4>1, <4>2
    <3>5. m \in Open(h)
      <4>1. Open(i) = {k \in Open(q) : k < i}
        BY <1>1, OpenOfOpen
      <4>2. i \in Nat
        BY <1>1, OpenIs
      <4> QED BY <1>2, <3>2, <3>4, <4>1, <4>2
    <3>6. stk2[Place(m)].flags = stk[Place(m)].flags
      BY <1>4, <1>7, <3>5
    <3>7. \A k \in Open(h) : j < k /\ k <= m => code[k].op = "SEQALWAYS"
      BY <1>5, <2>2
    <3> QED BY <2>2, <3>2, <3>5, <3>6, <3>7 DEF Void
  <2> QED BY <1>10, <2>1, <2>2 DEF Void
<1>11. ASSUME NEW j \in Open(h)
       PROVE  MarkedBy(stk2, j, h, {}, rt, rtd)
  <2>1. j \in Open(q) /\ MarkedBy(stk, j, q, act, rt, rtd) /\ stk[Place(j)].request = {}
    BY <1>5 DEF Sketch
  <2>2. stk2[Place(j)].flags = stk[Place(j)].flags
    BY <1>4, <1>7
  <2>3. stk2[Place(j)].request # {} => j = i /\ h = Handler(j, h) /\ \A k \in Open(h) : k <= j
    BY <1>5, <1>6, <1>7
  <2>4. stk2[Place(j)].flags \cap RequestNames # {} => code[j].op = "SEQALWAYS" /\ Begun(j, h)
    BY <1>5, <2>1, <2>2 DEF MarkedBy
  <2>5. "BREAK" \in stk2[Place(j)].flags \cup stk2[Place(j)].request => Receives(stk2, Open(j) \cup {j})
    <3>1. CASE "BREAK" \in stk2[Place(j)].flags
      BY <1>9, <2>1, <2>2, <3>1 DEF MarkedBy
    <3>2. CASE "BREAK" \in stk2[Place(j)].request
      <4>1. j = i /\ "BREAK" \in act
        BY <1>4, <1>7, <3>2
      <4>2. act = {"BREAK"} /\ i = Innermost(Open(q))
        BY <4>1 DEF Serves
      <4>3. Open(q) = Open(i) \cup {i}
        BY <1>1, <4>2, OpenInnermost
      <4>4. Receives(stk, Open(i) \cup {i})
        BY <4>2, <4>3 DEF Sketch
      <4> QED BY <1>9, <4>1, <4>4
    <3> QED BY <3>1, <3>2
  <2>6. "ENDPROC" \in stk2[Place(j)].request => rt = rtd
    <3> HAVE "ENDPROC" \in stk2[Place(j)].request
    <3>1. "ENDPROC" \in act
      BY <1>4, <1>7
    <3>2. act = {"ENDPROC"}
      BY <3>1 DEF Serves
    <3> QED BY <3>2 DEF Sketch
  <2>7. "ENDPROC" \in stk2[Place(j)].flags => stk2[Place(j) - 1].v = rtd \/ Void(stk2, j, h, {})
    BY <1>8, <1>10, <2>1, <2>2 DEF MarkedBy
  <2>8. code[j].op = "SEQBEGIN" => stk2[Place(j)].request \subseteq {"BREAK"}
    <3> HAVE code[j].op = "SEQBEGIN"
    <3>1. CASE j = i
      <4>1. code[i].op # "SEQALWAYS"
        BY <3>1
      <4>2. act = {"BREAK"}
        BY <4>1 DEF Serves, Alwaysed
      <4> QED BY <1>4, <3>1, <4>2
    <3>2. CASE j # i
      BY <1>7, <3>2
    <3> QED BY <3>1, <3>2
  <2> QED BY <2>3, <2>4, <2>5, <2>6, <2>7, <2>8 DEF MarkedBy
<1>12. code[h].op # "ENDPROC"
  <2>1. i \in SeqOps(code)
    BY <1>1, OpenIs
  <2> QED BY <1>2, <2>1, SeqKinds
<1>13. code[h].op = "SEQRECOVER" => "BREAK" \in stk2[Place(Innermost(Open(h)))].request
  <2> HAVE code[h].op = "SEQRECOVER"
  <2>1. i \in SeqOps(code)
    BY <1>1, OpenIs
  <2>2. Innermost(Open(h)) = i
    BY <1>2, <2>1, InnermostOf
  <2>3. code[i].op # "SEQALWAYS"
    BY <1>2
  <2>4. act = {"BREAK"}
    BY <2>3 DEF Serves, Alwaysed
  <2> QED BY <1>4, <2>2, <2>4
<1>14. Marks(stk2, h, rt, rtd)
  BY <1>11, <1>12, <1>13 DEF Marks
<1> QED BY <1>14 DEF h

\* If the opcode leaves the marks in order, so does the end of the loop.
LEMMA SettleMarks ==
  ASSUME Compiled, NEW stk, NEW base, NEW can, NEW q, FrameAt(stk, base, can, q),
         NEW act, EndOfLoop(stk, base, can, act, q),
         Sketch(stk, q, act, ret', returned'), UNCHANGED <<code, frame>>
  PROVE  Marked'
<1>1. /\ q \in 1..Len(code) /\ q \in Nat /\ Len(code) \in Nat /\ frame \in Nat /\ frame \in {0, 2}
      /\ Len(stk) = frame + Height(q) /\ Height(q) \in Nat /\ stk \in Seq(Items)
      /\ Len(stk) \in Nat
  BY CodeFacts, LenProperties DEF FrameAt, Compiled
<1>2. Done' = Done /\ Done = Len(code) + 1 /\ frame' = frame
  BY DEF Done
<1>3. Marks(stack, pc, ret, returned)' <=> Marks(stack', pc', ret', returned')
  BY UnmovedMarks
<1>4. Goes(stk, base, can, act, q)
  BY EndIs
<1>5. CASE act = {} /\ pc' = q /\ action' = {} /\ stack' = stk
  <2>1. Marks(stk, q, ret', returned')
    BY <1>5 DEF Sketch, Marks
  <2>2. pc' # Done'
    BY <1>1, <1>2, <1>5
  <2>3. Marks(stack', pc', ret', returned') /\ action' = {}
    BY <1>5, <2>1
  <2> QED BY <1>3, <2>2, <2>3 DEF Marked
<1>6. ASSUME NEW i \in Open(q), Serves(act, i, q), pc' = Handler(i, q), action' = {},
             stack' = Landed(stk, Place(i), act)
      PROVE  Marked'
  <2>1. Marks(stack', Handler(i, q), ret', returned')
    BY <1>6, LandMarks
  <2>2. Handler(i, q) \in 1..Len(code)
    BY <1>1, HandlerIs
  <2>3. pc' # Done'
    BY <1>1, <1>2, <1>6, <2>2
  <2>4. Marks(stack', pc', ret', returned')
    BY <1>6, <2>1
  <2> QED BY <1>3, <1>6, <2>3, <2>4 DEF Marked
<1>7. CASE Unserved(act, q) /\ pc' = Done /\ action' = act \ {"ENDPROC"} /\ stack' = Cut(stk, frame)
  <2>1. pc' = Done'
    BY <1>2, <1>7
  <2>2. action' = {} => ret' = returned'
    <3> HAVE action' = {}
    <3>1. act = {"ENDPROC"}
      BY <1>7 DEF Unserved
    <3> QED BY <3>1 DEF Sketch
  <2>3. action' = {"BREAK"} => frame' # 0 /\ stack'[1].v[1] = "break"
    <3> HAVE action' = {"BREAK"}
    <3>1. act = {"BREAK"} /\ Open(q) = {}
      BY <1>7 DEF Unserved
    <3>2. Receives(stk, {}) /\ Dest({}) = frame
      BY <3>1 DEF Sketch, Dest, Begins
    <3>3. frame = 2 /\ stk[1].v[1] = "break"
      BY <1>1, <3>2 DEF Receives
    <3>4. \A k \in 1..2 : stk[k] \in Items
      <4>1. \A k \in 1..2 : k \in 1..Len(stk)
        BY <1>1, <3>3
      <4> QED BY <1>1, <4>1, ElementOfSeq
    <3>5. \A k \in 1..(2 - 1 + 1) : SubSeq(stk, 1, 2)[k] = stk[1 + k - 1]
      BY <3>4, SubSeqProperties
    <3>6. 1 \in 1..(2 - 1 + 1) /\ 1 + 1 - 1 = 1
      OBVIOUS
    <3>7. SubSeq(stk, 1, 2)[1] = stk[1]
      BY <3>5, <3>6
    <3>8. stack' = SubSeq(stk, 1, 2)
      BY <1>7, <3>3 DEF Cut
    <3> QED BY <1>2, <3>3, <3>7, <3>8
  <2> QED BY <2>1, <2>2, <2>3 DEF Marked
<1> QED BY <1>4, <1>5, <1>6, <1>7 DEF Goes

\* The stack below, with the value of BREAK where it may have been put.
Kept(stk, stk2, p) ==
    \A k \in 1..Len(stk2) : k <= Len(stk) =>
       \/ stk2[k] = stk[k]
       \/ /\ Dest(Open(p)) # 0 /\ k = Dest(Open(p)) - 1
          /\ stk2[k].kind = "value" /\ stk2[k].v[1] = "break"

\* No open SEQUENCE is asked for anything.
Unasked(stk, q) == \A i \in Open(q) : stk[Place(i)].request = {}

\* A request that had taken the place of a RETURN goes on, and so does a RETURN.
Resumes(stk, p, q, act, rtd, rtd2) ==
    /\ \/ rtd2 = rtd
       \/ /\ act # {} \/ code[q].op = "ENDPROC"
          /\ \A j \in Open(q) : code[j].op = "SEQALWAYS"
    /\ code[p].op = "ENDPROC" => act # {}
    /\ \A m \in Open(p) :
          /\ m \notin Open(q) /\ code[m].op = "SEQALWAYS"
          /\ stk[Place(m)].request # {} \/ stk[Place(m)].flags \cap RequestNames # {}
          => act # {} /\ \A j \in Open(q) : j < m

\* That, and what was put aside has its value.
Sketched(stk, q, act, rt, rtd) ==
    \A i \in Open(q) : stk[Place(i)].request = {} /\ MarkedBy(stk, i, q, act, rt, rtd)

\* What the envelopes say of those who stay open.
LEMMA MovedMarks ==
  ASSUME Compiled, NEW stk, NEW base, NEW can, NEW p, FrameAt(stk, base, can, p),
         NEW rt, NEW rtd, Marks(stk, p, rt, rtd),
         NEW stk2, NEW base2, NEW can2, NEW q, FrameAt(stk2, base2, can2, q),
         Move(p, q), Kept(stk, stk2, p), Unasked(stk, q),
         NEW act, NEW rt2, NEW rtd2, Resumes(stk, p, q, act, rtd, rtd2)
  PROVE  Sketched(stk2, q, act, rt2, rtd2)
<1>1. /\ p \in 1..Len(code) /\ q \in 1..Len(code) /\ p \in Nat /\ q \in Nat
      /\ Len(stk) = frame + Height(p) /\ Len(stk2) = frame + Height(q)
      /\ Len(stk) \in Nat /\ Len(stk2) \in Nat /\ frame \in Nat
      /\ frame = 2 \/ frame = 0
  BY CodeFacts, LenProperties, SMTT(30) DEF FrameAt, Compiled
<1>2. \A i \in Open(q) : i \in Open(p) /\ (Begun(i, q) <=> Begun(i, p)) /\ i \in Nat
  BY <1>1, OpenIs DEF Move
<1>3. ASSUME NEW i \in Open(q)
      PROVE  stk2[Place(i)] = stk[Place(i)]
  <2>1. i \in Open(p)
    BY <1>2
  <2>2. Place(i) \in 1..Len(stk2) /\ Place(i) \in Nat
    BY <1>1, PlaceIs
  <2>3. Place(i) <= Len(stk)
    BY <1>1, <2>1, PlaceIs
  <2>4. stk2[Place(i)].kind = "envelope"
    BY DEF FrameAt, EnvelopeOf
  <2> QED BY <2>2, <2>3, <2>4 DEF Kept
<1>4. ASSUME NEW i \in Open(q), code[i].op = "SEQALWAYS"
      PROVE  stk2[Place(i) - 1] = stk[Place(i) - 1]
  <2>1. i \in Open(p)
    BY <1>2
  <2>2. Place(i) - 1 \in 1..Len(stk2) /\ Place(i) \in Nat /\ frame < Place(i) - 1
    BY <1>1, PlaceIs
  <2>3. Place(i) - 1 <= Len(stk)
    BY <1>1, <2>1, PlaceIs
  <2>4. ASSUME Dest(Open(p)) # 0, Place(i) - 1 = Dest(Open(p)) - 1
        PROVE  FALSE
    <3>1. CASE Dest(Open(p)) = frame /\ frame = 2
      BY <1>1, <2>2, <2>4, <3>1
    <3>2. ASSUME NEW j \in Begins(Open(p)), Dest(Open(p)) = Place(j)
          PROVE  FALSE
      <4>1. j \in Open(p) /\ code[j].op = "SEQBEGIN"
        BY DEF Begins
      <4>2. Place(i) - 1 = Place(j) - 1
        BY <2>4, <3>2
      <4>3. i = j
        BY <1>1, <2>1, <4>1, <4>2, PlaceSame
      <4> QED BY <1>4, <4>1, <4>3
    <3> QED BY <2>4, <3>1, <3>2, DestFacts
  <2> QED BY <2>2, <2>3, <2>4 DEF Kept
<1>5. ASSUME NEW i \in Open(q), Receives(stk, Open(i) \cup {i})
      PROVE  Receives(stk2, Open(i) \cup {i})
  <2> DEFINE d == Dest(Open(i) \cup {i})
  <2>1. i \in Open(p) /\ d # 0
    BY <1>2, <1>5 DEF Receives
  <2>2. d - 1 \in 1..Len(stk)
    BY <2>1, DestAround
  <2>3. d - 1 \in 1..Len(stk2)
    BY <2>1, DestAround
  <2>4. stk[d - 1].v[1] = "break"
    BY <1>5 DEF Receives
  <2> HIDE DEF d
  <2>5. d - 1 <= Len(stk)
    BY <1>1, <2>2
  <2>6. stk2[d - 1].v[1] = "break"
    BY <2>3, <2>4, <2>5 DEF Kept
  <2> QED BY <2>1, <2>6 DEF Receives, d
<1>6. ASSUME NEW i \in Open(q), Void(stk, i, p, {})
      PROVE  Void(stk2, i, q, act)
  <2>1. CASE code[p].op = "ENDPROC" /\ \A j \in Open(p) : i < j => code[j].op = "SEQALWAYS"
    <3>1. act # {}
      BY <2>1 DEF Resumes
    <3>2. \A j \in Open(q) : i < j => code[j].op = "SEQALWAYS"
      BY <1>2, <2>1
    <3> QED BY <3>1, <3>2 DEF Void
  <2>2. ASSUME NEW m \in Open(p), i <= m, \A j \in Open(p) : i < j /\ j <= m => code[j].op = "SEQALWAYS",
               stk[Place(m)].request # {} \/ (i < m /\ stk[Place(m)].flags \cap RequestNames # {})
        PROVE  Void(stk2, i, q, act)
    <3>1. \A j \in Open(q) : i < j /\ j <= m => code[j].op = "SEQALWAYS"
      BY <1>2, <2>2
    <3>2. CASE m \in Open(q)
      <4>1. stk[Place(m)].request = {}
        BY <3>2 DEF Unasked
      <4>2. i < m /\ stk2[Place(m)].flags \cap RequestNames # {}
        BY <1>3, <2>2, <3>2, <4>1
      <4> QED BY <2>2, <3>1, <3>2, <4>2 DEF Void
    <3>3. CASE m \notin Open(q)
      <4>1. i < m /\ m \in Nat
        <5>1. i # m
          BY <3>3
        <5>2. m \in Nat /\ i \in Nat
          BY <1>1, <1>2, OpenIs
        <5> QED BY <2>2, <5>1, <5>2
      <4>2. code[m].op = "SEQALWAYS"
        BY <2>2, <4>1
      <4>3. act # {} /\ \A j \in Open(q) : j < m
        BY <2>2, <3>3, <4>2 DEF Resumes
      <4>4. \A j \in Open(q) : i < j => code[j].op = "SEQALWAYS"
        BY <1>2, <3>1, <4>1, <4>3
      <4> QED BY <4>3, <4>4 DEF Void
    <3> QED BY <3>2, <3>3
  <2> QED BY <1>6, <2>1, <2>2 DEF Void
<1>7. ASSUME NEW i \in Open(q)
      PROVE  stk2[Place(i)].request = {} /\ MarkedBy(stk2, i, q, act, rt2, rtd2)
  <2>1. i \in Open(p) /\ MarkedBy(stk, i, p, {}, rt, rtd)
    BY <1>2 DEF Marks
  <2>2. stk2[Place(i)].request = {} /\ stk2[Place(i)].flags = stk[Place(i)].flags
    BY <1>3 DEF Unasked
  <2>3. stk2[Place(i)].flags \cap RequestNames # {} => code[i].op = "SEQALWAYS" /\ Begun(i, q)
    BY <1>2, <2>1, <2>2 DEF MarkedBy
  <2>4. "BREAK" \in stk2[Place(i)].flags => Receives(stk2, Open(i) \cup {i})
    BY <1>5, <2>1, <2>2 DEF MarkedBy
  <2>5. "ENDPROC" \in stk2[Place(i)].flags => stk2[Place(i) - 1].v = rtd2 \/ Void(stk2, i, q, act)
    <3> HAVE "ENDPROC" \in stk2[Place(i)].flags
    <3>1. code[i].op = "SEQALWAYS"
      BY <2>3 DEF RequestNames
    <3>2. stk2[Place(i) - 1] = stk[Place(i) - 1]
      BY <1>4, <3>1
    <3>3. stk[Place(i) - 1].v = rtd \/ Void(stk, i, p, {})
      BY <2>1, <2>2 DEF MarkedBy
    <3>4. CASE rtd2 = rtd
      BY <1>6, <3>2, <3>3, <3>4
    <3>5. CASE (act # {} \/ code[q].op = "ENDPROC") /\ \A j \in Open(q) : code[j].op = "SEQALWAYS"
      BY <3>5 DEF Void
    <3> QED BY <3>4, <3>5 DEF Resumes
  <2> QED BY <2>2, <2>3, <2>4, <2>5 DEF MarkedBy
<1> QED BY <1>7 DEF Sketched

\* An envelope that stays on the stack.
LEMMA KeptEnvelope ==
  ASSUME Compiled, NEW stk, NEW base, NEW can, NEW p, FrameAt(stk, base, can, p),
         NEW stk2, NEW base2, NEW can2, NEW q, FrameAt(stk2, base2, can2, q),
         Kept(stk, stk2, p), NEW i \in Open(p), i \in Open(q)
  PROVE  stk2[Place(i)] = stk[Place(i)]
<1>1. /\ p \in 1..Len(code) /\ q \in 1..Len(code)
      /\ Len(stk) = frame + Height(p) /\ Len(stk2) = frame + Height(q)
  BY DEF FrameAt
<1>2. Place(i) \in 1..Len(stk2) /\ Place(i) <= Len(stk)
  BY <1>1, PlaceIs
<1>3. stk2[Place(i)].kind = "envelope"
  BY DEF FrameAt, EnvelopeOf
<1> QED BY <1>2, <1>3 DEF Kept

\* What was put aside in envelopes that stay on the stack.
LEMMA KeptHeld ==
  ASSUME Compiled, NEW stk, NEW base, NEW can, NEW p, FrameAt(stk, base, can, p),
         NEW stk2, NEW base2, NEW can2, NEW q, FrameAt(stk2, base2, can2, q),
         Kept(stk, stk2, p), Open(p) \subseteq Open(q), NEW act
  PROVE  HandsOn(stk, p, stk2, q, act)
<1>1. \A i \in Open(p) : i \in Open(q) /\ stk2[Place(i)] = stk[Place(i)]
  BY KeptEnvelope
<1> QED BY <1>1 DEF HandsOn, Held

\* A request waits only for the handler at hand.
LEMMA UnaskedPlain ==
  ASSUME Compiled, NEW p \in 1..Len(code), NEW stk, NEW rt, NEW rtd, Marks(stk, p, rt, rtd),
         code[p].op \notin {"SEQEND", "SEQRECOVER", "ALWAYSBEGIN", "ALWAYSEND"},
         NEW q, Open(q) \subseteq Open(p)
  PROVE  Unasked(stk, q)
<1> SUFFICES ASSUME NEW i \in Open(q), stk[Place(i)].request # {} PROVE FALSE
  BY DEF Unasked
<1>1. i \in Open(p) /\ p \in Nat
  BY CodeFacts
<1>2. p = Handler(i, p)
  BY <1>1 DEF Marks, MarkedBy
<1>3. i \in SeqOps(code)
  BY <1>1, OpenIs
<1>4. code[i].op \in {"SEQBEGIN", "SEQALWAYS"}
  BY <1>3, SeqKinds
<1>5. /\ code[i].op = "SEQALWAYS" => code[Handler(i, p)].op = (IF Begun(i, p) THEN "ALWAYSEND" ELSE "ALWAYSBEGIN")
      /\ code[i].op = "SEQBEGIN" => code[Handler(i, p)].op \in {"SEQEND", "SEQRECOVER"}
  BY <1>1, HandlerIs
<1> QED BY <1>2, <1>4, <1>5

\* Below a SEQUENCE with marks no other is asked for anything.
LEMMA UnaskedBelow ==
  ASSUME Compiled, NEW p \in 1..Len(code), NEW stk, NEW rt, NEW rtd, Marks(stk, p, rt, rtd),
         NEW i \in Open(p), NEW q, Open(q) = Open(i)
  PROVE  Unasked(stk, q)
<1> SUFFICES ASSUME NEW j \in Open(i), stk[Place(j)].request # {} PROVE FALSE
  BY DEF Unasked
<1>1. p \in Nat /\ Open(i) = {k \in Open(p) : k < i}
  BY CodeFacts, OpenOfOpen
<1>2. j \in Open(p) /\ j < i
  BY <1>1
<1>3. i <= j
  BY <1>2 DEF Marks, MarkedBy
<1>4. i \in Nat /\ j \in Nat
  BY <1>1, <1>2, OpenIs
<1> QED BY <1>2, <1>3, <1>4

\* An opcode that has no part in SEQUENCE.
LEMMA PlainMarks ==
  ASSUME Compiled, NEW stk, NEW base, NEW can, NEW p, FrameAt(stk, base, can, p),
         NEW rt, NEW rtd, Marks(stk, p, rt, rtd),
         code[p].op \notin SeqOpcodes, code[p].op # "ENDPROC",
         p + 1 \in 1..Len(code), Move(p, p + 1), Open(p + 1) = Open(p),
         NEW stk2, NEW base2, NEW can2, FrameAt(stk2, base2, can2, p + 1), Kept(stk, stk2, p),
         NEW act, act # {"ENDPROC"}, act = {"BREAK"} => Receives(stk2, Open(p)),
         NEW rt2, NEW rtd2,
         IF code[p].op = "RETVALUE" THEN rt2 = rtd2 ELSE rtd2 = rtd
  PROVE  Sketch(stk2, p + 1, act, rt2, rtd2) /\ HandsOn(stk, p, stk2, p + 1, act)
<1> DEFINE q == p + 1
<1>1. p \in 1..Len(code) /\ q \in 1..Len(code)
  BY DEF FrameAt
<1>2. Unasked(stk, q)
  BY <1>1, UnaskedPlain DEF SeqOpcodes
<1>3. Resumes(stk, p, q, act, rtd, rtd2)
  <2>1. code[p].op = "RETVALUE" => code[q].op = "ENDPROC" /\ \A j \in Open(q) : code[j].op = "SEQALWAYS"
    BY <1>1, OpFacts
  <2> QED BY <2>1 DEF Resumes
<1>4. code[p].op # "SEQEND" => code[q].op # "SEQRECOVER"
  BY <1>1, InSequence
<1>5. code[q].op = "ENDPROC" => code[p].op = "RETVALUE"
  BY <1>1, InSequence
<1>6. FrameAt(stk2, base2, can2, q) /\ Move(p, q) /\ Open(q) = Open(p)
  OBVIOUS
<1> HIDE DEF q
<1>7. Sketched(stk2, q, act, rt2, rtd2)
  BY <1>2, <1>3, <1>6, MovedMarks
<1>8. Sketch(stk2, q, act, rt2, rtd2)
  BY <1>4, <1>5, <1>6, <1>7 DEF Sketch, Sketched, SeqOpcodes
<1>9. HandsOn(stk, p, stk2, q, act)
  BY <1>6, KeptHeld
<1> QED BY <1>8, <1>9 DEF q

\* ENDPROC.
LEMMA ReturnMarks ==
  ASSUME Compiled, NEW stk, NEW base, NEW can, NEW p, FrameAt(stk, base, can, p),
         NEW rt, NEW rtd, Marks(stk, p, rt, rtd), code[p].op = "ENDPROC"
  PROVE  Sketch(stk, p, {"ENDPROC"}, rt, rtd) /\ HandsOn(stk, p, stk, p, {"ENDPROC"})
<1> DEFINE act == {"ENDPROC"}
<1>1. p \in 1..Len(code)
  BY DEF FrameAt
<1>2. Unasked(stk, p)
  BY <1>1, UnaskedPlain
<1>3. Kept(stk, stk, p) /\ Move(p, p) /\ act # {}
  BY DEF Kept, Move
<1>4. act = {"ENDPROC"}
  OBVIOUS
<1> HIDE DEF act
<1>5. Resumes(stk, p, p, act, rtd, rtd)
  BY <1>3 DEF Resumes
<1>6. Sketched(stk, p, act, rt, rtd)
  BY <1>2, <1>3, <1>5, MovedMarks
<1>7. rt = rtd
  BY DEF Marks
<1>8. act # {"BREAK"}
  BY <1>4
<1>9. Sketch(stk, p, act, rt, rtd)
  BY <1>6, <1>7, <1>8 DEF Sketch, Sketched
<1>10. HandsOn(stk, p, stk, p, act)
  BY DEF HandsOn
<1> QED BY <1>9, <1>10 DEF act

\* A SEQUENCE is left.
LEMMA LeaveMarks ==
  ASSUME Compiled, NEW stk, NEW base, NEW can, NEW p, FrameAt(stk, base, can, p),
         NEW rt, NEW rtd, Marks(stk, p, rt, rtd), code[p].op # "ENDPROC",
         NEW i \in Open(p), i = Innermost(Open(p)),
         NEW q, Open(q) = Open(i), Move(p, q), code[q].op \notin {"SEQRECOVER", "ENDPROC"},
         NEW stk2, NEW base2, NEW can2, FrameAt(stk2, base2, can2, q),
         Len(stk2) <= Len(stk), \A k \in 1..Len(stk2) : stk2[k] = stk[k],
         NEW act, NEW rt2, act = {"BREAK"} => Receives(stk, Open(i)),
         act = {"ENDPROC"} => rt2 = rtd,
         code[i].op = "SEQALWAYS" /\ stk[Place(i)].flags \cup stk[Place(i)].request \notin SUBSET (Flags \ RequestNames)
            => act # {},
         \A r \in RequestNames : r \in stk[Place(i)].flags \cup stk[Place(i)].request =>
            \/ r \in act \/ act = {"QUIT"} \/ (act = {"BREAK"} /\ r = "ENDPROC")
            \/ r = "BREAK" /\ code[p].op \in {"SEQEND", "SEQRECOVER"}
  PROVE  Sketch(stk2, q, act, rt2, rtd) /\ HandsOn(stk, p, stk2, q, act)
<1>1. p \in 1..Len(code) /\ q \in 1..Len(code) /\ p \in Nat
  BY CodeFacts DEF FrameAt
<1>2. Unasked(stk, q)
  BY <1>1, UnaskedBelow
<1>3. Kept(stk, stk2, p)
  BY DEF Kept
<1>4. Resumes(stk, p, q, act, rtd, rtd)
  <2>1. Open(p) = Open(i) \cup {i}
    BY <1>1, OpenInnermost
  <2>2. \A j \in Open(q) : j < i
    BY <1>1, OpenOfOpen
  <2>3. /\ code[i].op = "SEQALWAYS"
        /\ stk[Place(i)].request # {} \/ stk[Place(i)].flags \cap RequestNames # {}
        => act # {}
    <3>1. stk[Place(i)] \in Items /\ stk[Place(i)].kind = "envelope"
      <4>1. Place(i) \in 1..Len(stk) /\ stk \in Seq(Items)
        BY <1>1, PlaceIs DEF FrameAt
      <4> QED BY <4>1, ElementOfSeq DEF FrameAt, EnvelopeOf
    <3>2. stk[Place(i)].request \in SUBSET RequestNames /\ stk[Place(i)].flags \in SUBSET Flags
      BY <3>1 DEF Items, Block
    <3> QED BY <3>2
  <2> QED BY <2>1, <2>2, <2>3 DEF Resumes
<1>5. Sketched(stk2, q, act, rt2, rtd)
  BY <1>2, <1>3, <1>4, MovedMarks
<1>6. act = {"BREAK"} => Receives(stk2, Open(q))
  <2> HAVE act = {"BREAK"}
  <2>1. Receives(stk, Open(q)) /\ Dest(Open(q)) # 0
    BY DEF Receives
  <2>2. Dest(Open(q)) - 1 \in 1..Len(stk2)
    BY <2>1, DestFacts
  <2>3. stk2[Dest(Open(q)) - 1] = stk[Dest(Open(q)) - 1]
    BY <2>2
  <2> QED BY <2>1, <2>3 DEF Receives
<1>7. HandsOn(stk, p, stk2, q, act)
  <2>1. Open(p) = Open(q) \cup {i}
    BY <1>1, OpenInnermost
  <2>2. ASSUME NEW j \in Open(q)
        PROVE  stk2[Place(j)] = stk[Place(j)]
    <3>1. j \in Open(p)
      BY <2>1
    <3> QED BY <1>3, <3>1, KeptEnvelope
  <2> QED BY <2>1, <2>2 DEF HandsOn, Held
<1>8. Sketch(stk2, q, act, rt2, rtd)
  BY <1>5, <1>6 DEF Sketch, Sketched
<1> QED BY <1>7, <1>8

\* A SEQUENCE is entered.
LEMMA EnterMarks ==
  ASSUME Compiled, NEW stk, NEW base, NEW can, NEW p, FrameAt(stk, base, can, p), p \in SeqOps(code),
         NEW rt, NEW rtd, Marks(stk, p, rt, rtd),
         NEW flags, flags = EnterFlags(p, can),
         NEW stk2, stk2 = Entered(stk, First(code, p), base, flags),
         NEW act, act \in {{}, {"QUIT"}}
  PROVE  Sketch(stk2, p + 1, act, rt, rtd) /\ HandsOn(stk, p, stk2, p + 1, act)
<1> DEFINE q == p + 1
<1>1. /\ p \in 1..Len(code) /\ p \in Nat /\ Len(code) \in Nat
      /\ Len(stk) = frame + Height(p) /\ Len(stk) \in Nat
  BY CodeFacts, LenProperties DEF FrameAt
<1>2. FrameAt(stk2, Len(stk2), TRUE, q) /\ Grown(stk, stk2, p, base, flags)
  BY EnterFrame
<1>3. Place(p) = Len(stk2) /\ Len(stk2) = Len(stk) + 2 /\ \A k \in 1..Len(stk) : stk2[k] = stk[k]
  BY <1>2 DEF Grown
<1>4. stk2[Place(p)] = Envelope(First(code, p), base, flags)
  BY <1>2 DEF Grown
<1>5. q \in 1..Len(code)
  BY <1>2 DEF FrameAt
<1>6. /\ Open(q) = Open(p) \cup {p} /\ p \notin Open(p)
      /\ \A j \in Open(p) : (Begun(j, q) <=> Begun(j, p)) /\ j \in Nat /\ j < p
  <2>1. Open(q) = Open(p) \cup {p} /\ p \notin Open(p) /\ \A j \in Open(p) : Begun(j, q) <=> Begun(j, p)
    BY OpenAt
  <2> QED BY <1>1, <2>1, OpenIs
<1>7. code[p].op \in {"SEQBEGIN", "SEQALWAYS"}
  BY SeqKinds
<1>8. code[q].op \notin {"SEQRECOVER", "ENDPROC"}
  BY <1>1, <1>5, <1>7, InSequence
<1>9. Unasked(stk, p)
  BY <1>1, <1>7, UnaskedPlain
<1> HIDE DEF q
<1>10. stk2[Place(p)].request = {} /\ stk2[Place(p)].flags \cap RequestNames = {}
  <2>1. stk2[Place(p)].request = {} /\ stk2[Place(p)].flags = EnterFlags(p, can)
    BY <1>4 DEF Envelope
  <2> QED BY <2>1 DEF EnterFlags, RequestNames
<1>11. ASSUME NEW j \in Open(p)
       PROVE  /\ stk2[Place(j)] = stk[Place(j)] /\ stk2[Place(j) - 1] = stk[Place(j) - 1]
              /\ stk[Place(j)].request = {}
  <2>1. Place(j) \in 1..Len(stk) /\ Place(j) - 1 \in 1..Len(stk)
    BY <1>1, PlaceIs
  <2> QED BY <1>3, <1>9, <2>1 DEF Unasked
<1>12. ASSUME NEW j \in Open(p), Receives(stk, Open(j) \cup {j})
       PROVE  Receives(stk2, Open(j) \cup {j})
  <2>1. Dest(Open(j) \cup {j}) # 0
    BY <1>12 DEF Receives
  <2>2. Dest(Open(j) \cup {j}) - 1 \in 1..Len(stk)
    BY <2>1, DestAround
  <2> QED BY <1>3, <1>12, <2>2 DEF Receives
<1>13. ASSUME NEW j \in Open(p), Void(stk, j, p, {})
       PROVE  Void(stk2, j, q, act)
  <2>1. PICK m \in Open(p) : /\ j <= m
                             /\ \A k \in Open(p) : j < k /\ k <= m => code[k].op = "SEQALWAYS"
                             /\ stk[Place(m)].request # {} \/ (j < m /\ stk[Place(m)].flags \cap RequestNames # {})
    BY <1>7, <1>13 DEF Void
  <2>2. j < m /\ stk2[Place(m)].flags \cap RequestNames # {}
    BY <1>11, <2>1
  <2>3. \A k \in Open(q) : j < k /\ k <= m => code[k].op = "SEQALWAYS"
    <3>1. ~(p <= m)
      BY <1>1, <1>6
    <3> QED BY <1>6, <2>1, <3>1
  <2> QED BY <1>6, <2>1, <2>2, <2>3 DEF Void
<1>14. ASSUME NEW j \in Open(q)
       PROVE  stk2[Place(j)].request = {} /\ MarkedBy(stk2, j, q, act, rt, rtd)
  <2>1. CASE j = p
    BY <1>10, <2>1 DEF MarkedBy, RequestNames
  <2>2. CASE j \in Open(p)
    <3>1. MarkedBy(stk, j, p, {}, rt, rtd)
      BY <2>2 DEF Marks
    <3>2. stk2[Place(j)].request = {} /\ stk2[Place(j)].flags = stk[Place(j)].flags
      BY <1>11, <2>2
    <3>3. stk2[Place(j)].flags \cap RequestNames # {} => code[j].op = "SEQALWAYS" /\ Begun(j, q)
      BY <1>6, <2>2, <3>1, <3>2 DEF MarkedBy
    <3>4. "BREAK" \in stk2[Place(j)].flags => Receives(stk2, Open(j) \cup {j})
      BY <1>12, <2>2, <3>1, <3>2 DEF MarkedBy
    <3>5. "ENDPROC" \in stk2[Place(j)].flags => stk2[Place(j) - 1].v = rtd \/ Void(stk2, j, q, act)
      BY <1>11, <1>13, <2>2, <3>1, <3>2 DEF MarkedBy
    <3> QED BY <3>2, <3>3, <3>4, <3>5 DEF MarkedBy
  <2> QED BY <1>6, <2>1, <2>2
<1>15. act # {"BREAK"} /\ act # {"ENDPROC"}
  OBVIOUS
<1>16. Sketch(stk2, q, act, rt, rtd)
  BY <1>8, <1>14, <1>15 DEF Sketch
<1>17. HandsOn(stk, p, stk2, q, act)
  BY <1>6, <1>11 DEF HandsOn, Held
<1> QED BY <1>16, <1>17 DEF q

\* An ALWAYS clause begins: every request that was put aside still is.
LEMMA AlwaysHolds ==
  ASSUME Compiled, NEW stk, NEW base, NEW can, NEW p, FrameAt(stk, base, can, p),
         code[p].op = "ALWAYSBEGIN",
         NEW rt, NEW rtd, Marks(stk, p, rt, rtd),
         NEW slot \in Items, slot.kind = "value",
         NEW stk2, stk2 = Began(stk, p + code[p].to, slot)
  PROVE  Held(stk, p) \subseteq Held(stk2, p + 1)
<1>1. p \in 1..Len(code) /\ p \in Nat /\ Len(stk) \in Nat
  BY CodeFacts, LenProperties DEF FrameAt
<1>2. PICK i \in SeqOps(code) : Open(p + 1) = Open(p) /\ Open(p) = Open(i) \cup {i} /\ i \notin Open(i)
  BY <1>1, AlwaysBeginIs
<1>3. i \in Open(p) /\ Innermost(Open(p)) = i
  BY <1>2, InnermostOf
<1>4. Changed(stk, stk2, p, slot)
  BY AlwaysBeginFrame
<1>5. /\ Len(stk2) = Len(stk) /\ Len(stk) = Place(i)
      /\ \A k \in 1..Len(stk) : k # Len(stk) /\ k # Len(stk) - 1 => stk2[k] = stk[k]
      /\ stk2[Len(stk)].flags = stk[Len(stk)].flags \cup stk[Len(stk)].request
  BY <1>3, <1>4 DEF Changed
<1>6. ASSUME NEW j \in Open(i)
      PROVE  stk2[Place(j)] = stk[Place(j)] /\ stk[Place(j)].request = {}
  <2>1. j \in Open(p) /\ j < i /\ j \in Nat /\ i \in Nat
    BY <1>1, <1>2, <1>3, OpenIs, OpenOfOpen
  <2>2. Place(j) < Place(i) - 1 /\ Place(j) \in Nat /\ frame < Place(j) - 1 /\ frame \in Nat
    <3>1. Place(j) < Place(i) - 1
      BY <1>1, <1>3, <2>1, PlaceLess
    <3> QED BY <1>1, <2>1, <3>1, PlaceIs
  <2>3. Place(j) \in 1..Len(stk) /\ Place(j) # Len(stk) /\ Place(j) # Len(stk) - 1
    BY <1>1, <1>5, <2>2
  <2>4. Unasked(stk, i)
    BY <1>1, <1>3, UnaskedBelow
  <2> QED BY <1>5, <2>3, <2>4 DEF Unasked
<1>7. \A j \in Open(p) : stk[Place(j)].flags \cup stk[Place(j)].request \subseteq stk2[Place(j)].flags
  BY <1>2, <1>5, <1>6
<1> QED BY <1>2, <1>7 DEF Held

\* The value of RETURN is put aside.
Saves(stk, slot, rt) ==
    "ENDPROC" \in stk[Len(stk)].flags \cup stk[Len(stk)].request => slot.v = rt

\* An ALWAYS clause begins: what the request said is now for the flags to say.
LEMMA AlwaysMarks ==
  ASSUME Compiled, NEW stk, NEW base, NEW can, NEW p, FrameAt(stk, base, can, p),
         code[p].op = "ALWAYSBEGIN",
         NEW rt \in Values, NEW rtd, Marks(stk, p, rt, rtd),
         NEW slot \in Items, slot.kind = "value",
         Saves(stk, slot, rt),
         NEW stk2, stk2 = Began(stk, p + code[p].to, slot),
         NEW rt2, NEW act, act \in {{}, {"QUIT"}}
  PROVE  Sketch(stk2, p + 1, act, rt2, rtd)
<1> DEFINE q == p + 1
<1>1. p \in 1..Len(code) /\ p \in Nat /\ Len(stk) \in Nat
  BY CodeFacts, LenProperties DEF FrameAt
<1>2. PICK i \in SeqOps(code) :
        /\ code[i].op = "SEQALWAYS" /\ q \in 1..Len(code) /\ Open(q) = Open(p)
        /\ Open(p) = Open(i) \cup {i} /\ i \notin Open(i)
        /\ \A j \in Open(i) : Begun(j, q) <=> Begun(j, p)
        /\ Begun(i, q) /\ ~Begun(i, p)
        /\ code[q].op \notin {"SEQRECOVER", "ENDPROC"}
  BY <1>1, AlwaysBeginIs
<1>3. i \in Open(p) /\ Innermost(Open(p)) = i
  BY <1>2, InnermostOf
<1>4. Changed(stk, stk2, p, slot)
  BY AlwaysBeginFrame
<1>5. /\ Len(stk2) = Len(stk) /\ Len(stk) = Place(i)
      /\ \A k \in 1..Len(stk) : k # Len(stk) /\ k # Len(stk) - 1 => stk2[k] = stk[k]
  BY <1>3, <1>4 DEF Changed
<1>6. /\ stk2[Len(stk)].flags = stk[Len(stk)].flags \cup stk[Len(stk)].request
      /\ stk2[Len(stk)].request = {} /\ stk2[Len(stk) - 1] = slot
  BY <1>4 DEF Changed
<1> HIDE DEF q
<1>7. \A j \in Open(i) : j \in Open(p) /\ j < i /\ j \in Nat /\ i \in Nat
  BY <1>1, <1>2, <1>3, OpenIs, OpenOfOpen
<1>8. Unasked(stk, i)
  BY <1>1, <1>3, UnaskedBelow
<1>9. ASSUME NEW j \in Open(i)
      PROVE  /\ stk2[Place(j)] = stk[Place(j)] /\ stk2[Place(j) - 1] = stk[Place(j) - 1]
             /\ stk[Place(j)].request = {}
  <2>1. Place(j) < Place(i) - 1 /\ Place(j) \in Nat /\ Place(j) - 1 \in Nat /\ frame < Place(j) - 1 /\ frame \in Nat
    BY <1>1, <1>3, <1>7, PlaceLess, PlaceIs
  <2>2. /\ Place(j) \in 1..Len(stk) /\ Place(j) # Len(stk) /\ Place(j) # Len(stk) - 1
        /\ Place(j) - 1 \in 1..Len(stk) /\ Place(j) - 1 # Len(stk) /\ Place(j) - 1 # Len(stk) - 1
    BY <1>1, <1>5, <2>1
  <2> QED BY <1>5, <1>8, <2>2 DEF Unasked
<1>10. ASSUME NEW j \in Open(p), Receives(stk, Open(j) \cup {j})
       PROVE  Receives(stk2, Open(j) \cup {j})
  <2>1. Dest(Open(j) \cup {j}) # 0
    BY <1>10 DEF Receives
  <2> DEFINE d == Dest(Open(j) \cup {j})
  <2>2. /\ d \in Nat /\ d <= Place(j) /\ d - 1 \in 1..Len(stk) /\ d - 1 < Place(j) /\ Place(j) \in Nat
        /\ code[j].op = "SEQALWAYS" => d < Place(j) - 1
    BY <2>1, DestAround
  <2>3. d - 1 # Len(stk) /\ d - 1 # Len(stk) - 1
    <3>1. CASE j = i
      <4>1. d < Place(i) - 1 /\ Place(i) \in Nat
        BY <1>2, <2>2, <3>1
      <4> QED BY <1>1, <1>5, <2>2, <4>1
    <3>2. CASE j \in Open(i)
      <4>1. Place(j) < Place(i) - 1
        BY <1>1, <1>3, <1>7, <3>2, PlaceLess
      <4> HIDE DEF d
      <4> QED BY <1>1, <1>5, <2>2, <4>1
    <3> QED BY <1>2, <3>1, <3>2
  <2> HIDE DEF d
  <2>4. stk2[d - 1] = stk[d - 1]
    BY <1>5, <2>2, <2>3
  <2> QED BY <1>10, <2>4 DEF Receives, d
<1>11. ASSUME NEW j \in Open(i), Void(stk, j, p, {})
       PROVE  Void(stk2, j, q, act)
  <2>1. PICK m \in Open(p) : /\ j <= m
                             /\ \A k \in Open(p) : j < k /\ k <= m => code[k].op = "SEQALWAYS"
                             /\ stk[Place(m)].request # {} \/ (j < m /\ stk[Place(m)].flags \cap RequestNames # {})
    BY <1>11 DEF Void
  <2>2. j < m /\ stk2[Place(m)].flags \cap RequestNames # {}
    <3>1. CASE m = i
      <4>1. stk[Place(i)] \in Items /\ stk[Place(i)].kind = "envelope"
        <5>1. Place(i) \in 1..Len(stk) /\ stk \in Seq(Items)
          BY <1>1, <1>3, PlaceIs DEF FrameAt
        <5> QED BY <1>3, <5>1, ElementOfSeq DEF FrameAt, EnvelopeOf
      <4>2. stk[Place(i)].request \in SUBSET RequestNames
        BY <4>1 DEF Items, Block
      <4>3. stk2[Place(i)].flags \cap RequestNames # {}
        BY <1>5, <1>6, <2>1, <3>1, <4>2
      <4> QED BY <1>7, <3>1, <4>3
    <3>2. CASE m \in Open(i)
      BY <1>9, <2>1, <3>2
    <3> QED BY <1>2, <3>1, <3>2
  <2>3. \A k \in Open(q) : j < k /\ k <= m => code[k].op = "SEQALWAYS"
    BY <1>2, <2>1
  <2> QED BY <1>2, <2>1, <2>2, <2>3 DEF Void
<1>12. ASSUME NEW j \in Open(q)
       PROVE  stk2[Place(j)].request = {} /\ MarkedBy(stk2, j, q, act, rt2, rtd)
  <2>1. MarkedBy(stk, j, p, {}, rt, rtd) /\ j \in Open(p)
    BY <1>2 DEF Marks
  <2>2. CASE j = i
    <3>1. stk2[Place(j)].request = {} /\ stk2[Place(j)].flags = stk[Place(j)].flags \cup stk[Place(j)].request
      BY <1>5, <1>6, <2>2
    <3>2. "BREAK" \in stk2[Place(j)].flags => Receives(stk2, Open(j) \cup {j})
      BY <1>10, <2>1, <3>1 DEF MarkedBy
    <3>3. "ENDPROC" \in stk2[Place(j)].flags => stk2[Place(j) - 1].v = rtd
      <4> HAVE "ENDPROC" \in stk2[Place(j)].flags
      <4>1. "ENDPROC" \notin stk[Place(j)].flags
        BY <1>2, <2>1, <2>2 DEF MarkedBy, RequestNames
      <4>2. "ENDPROC" \in stk[Place(j)].request
        BY <3>1, <4>1
      <4>3. rt = rtd
        BY <2>1, <4>2 DEF MarkedBy
      <4>4. slot.v = rt
        BY <1>5, <2>2, <4>2 DEF Saves
      <4> QED BY <1>5, <1>6, <2>2, <4>3, <4>4
    <3> QED BY <1>2, <2>2, <3>1, <3>2, <3>3 DEF MarkedBy
  <2>3. CASE j \in Open(i)
    <3>1. stk2[Place(j)].request = {} /\ stk2[Place(j)].flags = stk[Place(j)].flags
      BY <1>9, <2>3
    <3>2. stk2[Place(j)].flags \cap RequestNames # {} => code[j].op = "SEQALWAYS" /\ Begun(j, q)
      BY <1>2, <2>1, <2>3, <3>1 DEF MarkedBy
    <3>3. "BREAK" \in stk2[Place(j)].flags => Receives(stk2, Open(j) \cup {j})
      BY <1>10, <2>1, <3>1 DEF MarkedBy
    <3>4. "ENDPROC" \in stk2[Place(j)].flags => stk2[Place(j) - 1].v = rtd \/ Void(stk2, j, q, act)
      BY <1>9, <1>11, <2>1, <2>3, <3>1 DEF MarkedBy
    <3> QED BY <3>1, <3>2, <3>3, <3>4 DEF MarkedBy
  <2> QED BY <1>2, <2>2, <2>3
<1>13. act # {"BREAK"} /\ act # {"ENDPROC"}
  OBVIOUS
<1>14. Sketch(stk2, q, act, rt2, rtd)
  BY <1>2, <1>12, <1>13 DEF Sketch
<1> QED BY <1>14 DEF q

\* The stronger of two requests.
LEMMA StrongestIs ==
  ASSUME NEW acts
  PROVE  /\ Strongest(acts) = {"BREAK"} => "BREAK" \in acts
         /\ Strongest(acts) = {"ENDPROC"} => "ENDPROC" \in acts /\ acts \cap RequestNames = {"ENDPROC"}
         /\ acts \cap RequestNames # {} => Strongest(acts) # {}
         /\ \A r \in RequestNames : r \in acts =>
               r \in Strongest(acts) \/ Strongest(acts) = {"QUIT"} \/ (Strongest(acts) = {"BREAK"} /\ r = "ENDPROC")
<1>1. CASE "QUIT" \in acts
  BY <1>1 DEF Strongest
<1>2. CASE "QUIT" \notin acts /\ "BREAK" \in acts
  <2>1. Strongest(acts) = {"BREAK"}
    BY <1>2 DEF Strongest
  <2> QED BY <1>2, <2>1 DEF RequestNames
<1>3. CASE acts \cap {"QUIT", "BREAK"} = {}
  <2>1. Strongest(acts) = acts \cap {"ENDPROC"}
    BY <1>3 DEF Strongest
  <2> QED BY <1>3, <2>1 DEF RequestNames
<1> QED BY <1>1, <1>2, <1>3

\* The marks are in order at the start.
LEMMA MarkedInit == VMInit => Marked
<1> SUFFICES ASSUME VMInit PROVE Marked
  OBVIOUS
<1>1. Compiled /\ pc = 1 /\ action = {}
  BY DEF VMInit, Init, Compiled
<1>2. pc \in 1..Len(code) /\ pc # Done
  BY <1>1, CodeFacts DEF Done
<1>3. Open(pc) = {}
  <2> SUFFICES ASSUME NEW i \in Open(pc) PROVE FALSE
    OBVIOUS
  <2>1. 1 <= i /\ i < 1 /\ i \in Nat
    BY <1>1, OpenIs
  <2> QED BY <2>1
<1>4. code[pc].op # "ENDPROC"
  BY <1>1, <1>2, OpFacts
<1>5. code[pc].op # "SEQRECOVER"
  <2> SUFFICES ASSUME NEW i \in SeqOps(code), First(code, i) = 1 PROVE FALSE
    BY <1>1, <1>2, OpFacts
  <2>1. 1 <= i /\ i \in Nat /\ First(code, i) \in Nat /\ i < First(code, i)
    BY <1>1, SeqFacts
  <2> QED BY <2>1
<1> QED BY <1>1, <1>2, <1>3, <1>4, <1>5 DEF Marked, Marks

\* Where the value of BREAK was put it is found.
LEMMA SentKept ==
  ASSUME Compiled, NEW stk, NEW base, NEW can, NEW p, FrameAt(stk, base, can, p),
         NEW o, Sends(stk, o, p), requests \in Nat
  PROVE  Kept(stk, o.stack, p) /\ Receives(o.stack, Open(p))
<1> DEFINE x == <<"break", requests + 1>>  s == o.stack
<1>1. x \in Values /\ Dest(Open(p)) # 0 /\ s = SentTo(stk, Dest(Open(p)), x) /\ x[1] = "break"
  BY DEF Sends, Values
<1> HIDE DEF x, s
<1>2. /\ Len(s) = Len(stk) /\ \A k \in 1..Len(stk) : k # Dest(Open(p)) - 1 => s[k] = stk[k]
      /\ s[Dest(Open(p)) - 1].kind = "value" /\ s[Dest(Open(p)) - 1].v = x
  BY <1>1, Sent
<1> QED BY <1>1, <1>2 DEF Kept, Receives, s

\* Every opcode leaves the frame and the marks in order for the end of the loop.
LEMMA OpcodeTurns ==
  ASSUME Framed, Marked, Opcode, UNCHANGED <<code, frame, quitState>>
  PROVE  Turn
<1>1. pc # Done
  BY DEF Opcode, Noop, Push, Pop, Do, Function, RetValue, EndProc, SeqBlock, SeqBegin, SeqAlways,
         SeqEnd, SeqRecover, AlwaysBegin, AlwaysEnd, At
<1>2. /\ Compiled /\ requests \in Nat /\ ret \in Values
      /\ FrameAt(stack, recoverBase, bCanRecover, pc) /\ owed = OwedAt(pc)
  BY <1>1 DEF Framed
<1>3. /\ pc \in 1..Len(code) /\ pc \in Nat /\ stack \in Seq(Items) /\ Len(stack) \in Nat
  BY <1>2, CodeFacts, LenProperties DEF FrameAt
<1>4. Marks(stack, pc, ret, returned) /\ action \in {{}, {"QUIT"}}
  BY <1>1 DEF Marked
<1>5. /\ \A k \in 1..Len(stack) : Alike(stack[k], stack[k])
      /\ action # {"ENDPROC"} /\ action # {"BREAK"}
  BY <1>4 DEF Alike
\* An opcode that has no part in SEQUENCE.
<1>6. ASSUME code[pc].op \notin SeqOpcodes, code[pc].op # "ENDPROC",
             pc + 1 \in 1..Len(code), Move(pc, pc + 1), Open(pc + 1) = Open(pc),
             NEW s, FrameAt(s, recoverBase, bCanRecover, pc + 1), Kept(stack, s, pc),
             NEW a, a # {"ENDPROC"}, a = {"BREAK"} => Receives(s, Open(pc)),
             EndOfLoop(s, recoverBase, bCanRecover, a, pc + 1),
             IF code[pc].op = "RETVALUE" THEN ret' = returned' ELSE returned' = returned
      PROVE  Turn
  <2>1. Sketch(s, pc + 1, a, ret', returned') /\ HandsOn(stack, pc, s, pc + 1, a)
    BY <1>2, <1>4, <1>6, PlainMarks
  <2>2. Turned(s, recoverBase, bCanRecover, a, pc + 1)
    BY <1>6, <2>1 DEF Turned
  <2> QED BY <2>2 DEF Turn
<1>7. CASE Noop \/ RetValue
  <2>1. /\ code[pc].op \in {"NOOP", "RETVALUE"}
        /\ IF code[pc].op = "RETVALUE" THEN ret' = returned' ELSE returned' = returned
    BY <1>7 DEF Noop, RetValue, At
  <2>2. code[pc].op \in {"NOOP", "DO", "RETVALUE"}
    BY <2>1
  <2>3. /\ FrameAt(stack, recoverBase, bCanRecover, pc + 1)
        /\ pc + 1 \in 1..Len(code) /\ Move(pc, pc + 1) /\ Open(pc + 1) = Open(pc)
    BY <1>2, <1>3, <1>5, <2>2, SameFrame
  <2>4. EndOfLoop(stack, recoverBase, bCanRecover, action, pc + 1)
    BY <1>7 DEF Noop, RetValue, Plain
  <2>5. Kept(stack, stack, pc)
    BY DEF Kept
  <2>6. code[pc].op \notin SeqOpcodes /\ code[pc].op # "ENDPROC"
    BY <2>1 DEF SeqOpcodes
  <2> QED BY <1>5, <1>6, <2>1, <2>3, <2>4, <2>5, <2>6
<1>8. ASSUME NEW x \in Items, x.kind # "envelope", code[pc].op \in {"PUSH", "SEQBLOCK"},
             EndOfLoop(Append(stack, x), recoverBase, bCanRecover, action, pc + 1), returned' = returned
      PROVE  Turn
  <2> DEFINE s == Append(stack, x)
  <2>1. code[pc].op \in {"PUSH", "FUNCTION", "SEQBLOCK"}
    BY <1>8
  <2>2. /\ FrameAt(s, recoverBase, bCanRecover, pc + 1)
        /\ pc + 1 \in 1..Len(code) /\ Move(pc, pc + 1) /\ Open(pc + 1) = Open(pc)
        /\ \A k \in 1..Len(stack) : s[k] = stack[k]
    BY <1>2, <1>3, <1>5, <1>8, <2>1, AppendFrame
  <2>3. Len(s) \in Nat
    BY <1>3, <1>8, AppendProperties
  <2>4. EndOfLoop(s, recoverBase, bCanRecover, action, pc + 1)
    BY <1>8
  <2> HIDE DEF s
  <2>5. Kept(stack, s, pc)
    BY <1>3, <2>2, <2>3 DEF Kept
  <2>6. code[pc].op \notin SeqOpcodes /\ code[pc].op # "ENDPROC" /\ code[pc].op # "RETVALUE"
    BY <1>8 DEF SeqOpcodes
  <2> QED BY <1>5, <1>6, <1>8, <2>2, <2>4, <2>5, <2>6
<1>9. CASE Push
  <2>1. /\ code[pc].op \in {"PUSH", "SEQBLOCK"} /\ Value(Other) \in Items /\ Value(Other).kind # "envelope"
        /\ returned' = returned
    BY <1>9, ItemsAre DEF Push, At
  <2> DEFINE x == Value(Other)
  <2>2. EndOfLoop(Append(stack, x), recoverBase, bCanRecover, action, pc + 1)
    BY <1>9 DEF Push, Plain
  <2>3. x \in Items /\ x.kind # "envelope"
    BY <2>1
  <2> HIDE DEF x
  <2> QED BY <1>8, <2>1, <2>2, <2>3
<1>10. CASE SeqBlock
  <2>1. code[pc].op \in {"PUSH", "SEQBLOCK"} /\ Block \in Items /\ Block.kind # "envelope" /\ returned' = returned
    BY <1>10, ItemsAre DEF SeqBlock, At
  <2>2. EndOfLoop(Append(stack, Block), recoverBase, bCanRecover, action, pc + 1)
    BY <1>10 DEF SeqBlock, Plain
  <2> QED BY <1>8, <2>1, <2>2
<1>11. CASE Pop
  <2> DEFINE s == Drop(stack, 1)
  <2>1. code[pc].op = "POP" /\ returned' = returned
    BY <1>11 DEF Pop, At
  <2>2. /\ FrameAt(s, recoverBase, bCanRecover, pc + 1)
        /\ pc + 1 \in 1..Len(code) /\ Move(pc, pc + 1) /\ Open(pc + 1) = Open(pc)
        /\ \A k \in 1..Len(s) : s[k] = stack[k]
    BY <1>2, <2>1, PopFrame
  <2>3. EndOfLoop(s, recoverBase, bCanRecover, action, pc + 1)
    BY <1>11 DEF Pop, Plain
  <2> HIDE DEF s
  <2>4. Kept(stack, s, pc)
    BY <2>2 DEF Kept
  <2>5. code[pc].op \notin SeqOpcodes /\ code[pc].op # "ENDPROC" /\ code[pc].op # "RETVALUE"
    BY <2>1 DEF SeqOpcodes
  <2> QED BY <1>5, <1>6, <2>1, <2>2, <2>3, <2>4, <2>5
\* What a function called leaves.
<1>12. ASSUME NEW o \in CallOutcomes
       PROVE  /\ o.stack \in Seq(Items) /\ Len(o.stack) = Len(stack)
              /\ \A k \in 1..Len(stack) : Alike(o.stack[k], stack[k])
              /\ frame = 2 => o.stack[2] = stack[2]
              /\ Kept(stack, o.stack, pc) /\ o.action # {"ENDPROC"}
              /\ o.action = {"BREAK"} => Receives(o.stack, Open(pc))
  <2>1. /\ o.stack \in Seq(Items) /\ Len(o.stack) = Len(stack)
        /\ \A k \in 1..Len(stack) : Alike(o.stack[k], stack[k])
        /\ frame = 2 => o.stack[2] = stack[2]
    BY <1>2, OutcomeIs
  <2>2. \/ o.stack = stack /\ o.action \in {action, {}, {"QUIT"}}
        \/ Sends(stack, o, pc)
    BY <1>2, OutcomeIs
  <2>3. CASE o.stack = stack /\ o.action \in {action, {}, {"QUIT"}}
    <3>1. Kept(stack, o.stack, pc)
      BY <2>3 DEF Kept
    <3>2. o.action # {"ENDPROC"} /\ o.action # {"BREAK"}
      BY <1>5, <2>3
    <3> QED BY <2>1, <3>1, <3>2
  <2>4. CASE Sends(stack, o, pc)
    <3>1. Kept(stack, o.stack, pc) /\ Receives(o.stack, Open(pc))
      BY <1>2, <2>4, SentKept
    <3>2. o.action = {"BREAK"}
      BY <2>4 DEF Sends
    <3>3. o.action # {"ENDPROC"}
      BY <3>2
    <3> QED BY <2>1, <3>1, <3>3
  <2> QED BY <2>2, <2>3, <2>4
<1>13. CASE Do
  <2>1. code[pc].op \in {"NOOP", "DO", "RETVALUE"} /\ code[pc].op = "DO" /\ returned' = returned
    BY <1>13 DEF Do, At
  <2>2. PICK o \in CallOutcomes :
          EndOfLoop(o.stack, recoverBase, bCanRecover, o.action, pc + 1)
    BY <1>13 DEF Do
  <2> DEFINE s == o.stack  a == o.action
  <2>3. /\ s \in Seq(Items) /\ Len(s) = Len(stack) /\ \A k \in 1..Len(stack) : Alike(s[k], stack[k])
        /\ frame = 2 => s[2] = stack[2]
        /\ Kept(stack, s, pc) /\ a # {"ENDPROC"}
        /\ a = {"BREAK"} => Receives(s, Open(pc))
    BY <1>12
  <2>4. EndOfLoop(s, recoverBase, bCanRecover, a, pc + 1)
    BY <2>2
  <2> HIDE DEF s, a
  <2>5. /\ FrameAt(s, recoverBase, bCanRecover, pc + 1)
        /\ pc + 1 \in 1..Len(code) /\ Move(pc, pc + 1) /\ Open(pc + 1) = Open(pc)
    BY <1>2, <1>3, <2>1, <2>3, SameFrame
  <2>6. code[pc].op \notin SeqOpcodes /\ code[pc].op # "ENDPROC" /\ code[pc].op # "RETVALUE"
    BY <2>1 DEF SeqOpcodes
  <2> QED BY <1>6, <2>1, <2>3, <2>4, <2>5, <2>6
<1>14. CASE Function
  <2>1. /\ code[pc].op \in {"PUSH", "FUNCTION", "SEQBLOCK"} /\ code[pc].op = "FUNCTION" /\ returned' = returned
        /\ Value(Other) \in Items /\ Value(Other).kind # "envelope"
    BY <1>14, ItemsAre DEF Function, At
  <2> DEFINE x == Value(Other)
  <2>2. PICK o \in CallOutcomes :
          EndOfLoop(Append(o.stack, x), recoverBase, bCanRecover, o.action, pc + 1)
    BY <1>14 DEF Function
  <2>3. x \in Items /\ x.kind # "envelope"
    BY <2>1
  <2> HIDE DEF x
  <2> DEFINE t == o.stack  s == Append(t, x)  a == o.action
  <2>4. /\ t \in Seq(Items) /\ Len(t) = Len(stack) /\ \A k \in 1..Len(stack) : Alike(t[k], stack[k])
        /\ frame = 2 => t[2] = stack[2]
        /\ Kept(stack, t, pc) /\ a # {"ENDPROC"}
        /\ a = {"BREAK"} => Receives(t, Open(pc))
    BY <1>12
  <2>5. EndOfLoop(s, recoverBase, bCanRecover, a, pc + 1)
    BY <2>2
  <2> HIDE DEF t, a
  <2>6. /\ FrameAt(Append(t, x), recoverBase, bCanRecover, pc + 1)
        /\ pc + 1 \in 1..Len(code) /\ Move(pc, pc + 1) /\ Open(pc + 1) = Open(pc)
        /\ Len(Append(t, x)) = Len(stack) + 1
        /\ \A k \in 1..Len(stack) : Append(t, x)[k] = t[k]
    BY <1>2, <1>3, <2>1, <2>3, <2>4, AppendFrame
  <2> HIDE DEF s
  <2>7. /\ FrameAt(s, recoverBase, bCanRecover, pc + 1) /\ Len(s) = Len(stack) + 1
        /\ \A k \in 1..Len(stack) : s[k] = t[k]
    BY <2>6 DEF s
  <2>8. Kept(stack, s, pc)
    <3> SUFFICES ASSUME NEW k \in 1..Len(s), k <= Len(stack)
                 PROVE  \/ s[k] = stack[k]
                        \/ /\ Dest(Open(pc)) # 0 /\ k = Dest(Open(pc)) - 1
                           /\ s[k].kind = "value" /\ s[k].v[1] = "break"
      BY DEF Kept
    <3>1. k \in 1..Len(stack) /\ k \in 1..Len(t) /\ k <= Len(stack)
      BY <1>3, <2>4, <2>7
    <3>2. s[k] = t[k]
      BY <2>7, <3>1
    <3> QED BY <2>4, <3>1, <3>2 DEF Kept
  <2>9. a = {"BREAK"} => Receives(s, Open(pc))
    <3> HAVE a = {"BREAK"}
    <3>1. Receives(t, Open(pc)) /\ Dest(Open(pc)) # 0
      BY <2>4 DEF Receives
    <3>2. Dest(Open(pc)) - 1 \in 1..Len(stack)
      BY <1>2, <3>1, DestFacts
    <3> QED BY <2>7, <3>1, <3>2 DEF Receives
  <2>10. code[pc].op \notin SeqOpcodes /\ code[pc].op # "ENDPROC" /\ code[pc].op # "RETVALUE"
    BY <2>1 DEF SeqOpcodes
  <2> QED BY <1>6, <2>1, <2>4, <2>5, <2>6, <2>7, <2>8, <2>9, <2>10
<1>15. CASE EndProc
  <2>1. /\ EndOfLoop(stack, recoverBase, bCanRecover, {"ENDPROC"}, pc) /\ ret' = ret /\ returned' = returned
        /\ code[pc].op = "ENDPROC"
    BY <1>15 DEF EndProc, At
  <2>2. Sketch(stack, pc, {"ENDPROC"}, ret, returned) /\ HandsOn(stack, pc, stack, pc, {"ENDPROC"})
    BY <1>2, <1>4, <2>1, ReturnMarks
  <2> DEFINE a == {"ENDPROC"}
  <2>3. /\ EndOfLoop(stack, recoverBase, bCanRecover, a, pc) /\ Sketch(stack, pc, a, ret', returned')
        /\ HandsOn(stack, pc, stack, pc, a)
    BY <2>1, <2>2
  <2> HIDE DEF a
  <2>4. Turned(stack, recoverBase, bCanRecover, a, pc)
    BY <1>2, <2>3 DEF Turned
  <2> QED BY <2>4 DEF Turn
\* SEQUENCEs entered and left.
<1>16. ASSUME NEW f, Enter(f), code[pc].op \in {"SEQBEGIN", "SEQALWAYS"},
              f = (IF code[pc].op = "SEQALWAYS" THEN {"DOALWAYS"} ELSE {}),
              UNCHANGED <<ret, returned>>
       PROVE  Turn
  <2> DEFINE g == f \cup (IF bCanRecover THEN {"CANRECOVER"} ELSE {})
             s == Entered(stack, First(code, pc), recoverBase, g)
             n == Len(s)
             can == TRUE
  <2>0. Target = First(code, pc)
    BY DEF Target, First
  <2>1. EndOfLoop(s, n, can, action, pc + 1)
    BY <1>16, <2>0 DEF Enter, Entered
  <2>2. pc \in SeqOps(code)
    BY <1>3, <1>16 DEF SeqOps
  <2>3. s = Entered(stack, First(code, pc), recoverBase, g)
    OBVIOUS
  <2>4. g = EnterFlags(pc, bCanRecover)
    BY <1>16 DEF EnterFlags
  <2> HIDE DEF s, g
  <2>5. FrameAt(s, Len(s), TRUE, pc + 1)
    BY <1>2, <2>2, <2>3, <2>4, EnterFrame
  <2>6. Sketch(s, pc + 1, action, ret, returned) /\ HandsOn(stack, pc, s, pc + 1, action)
    BY <1>2, <1>4, <2>2, <2>3, <2>4, EnterMarks
  <2>7. FrameAt(s, n, can, pc + 1) /\ Sketch(s, pc + 1, action, ret', returned')
    BY <1>16, <2>5, <2>6
  <2> HIDE DEF n, can
  <2>8. Turned(s, n, can, action, pc + 1)
    BY <2>1, <2>6, <2>7 DEF Turned
  <2> QED BY <2>8 DEF Turn
<1>17. CASE SeqBegin
  <2>1. /\ Enter({}) /\ code[pc].op = "SEQBEGIN" /\ UNCHANGED <<ret, returned>>
    BY <1>17 DEF SeqBegin, At
  <2> DEFINE f == {}
  <2>2. Enter(f) /\ f = (IF code[pc].op = "SEQALWAYS" THEN {"DOALWAYS"} ELSE {})
    BY <2>1
  <2> HIDE DEF f
  <2> QED BY <1>16, <2>1, <2>2
<1>18. CASE SeqAlways
  <2>1. /\ Enter({"DOALWAYS"}) /\ code[pc].op = "SEQALWAYS" /\ UNCHANGED <<ret, returned>>
    BY <1>18 DEF SeqAlways, At
  <2> DEFINE f == {"DOALWAYS"}
  <2>2. Enter(f) /\ f = (IF code[pc].op = "SEQALWAYS" THEN {"DOALWAYS"} ELSE {})
    BY <2>1
  <2> HIDE DEF f
  <2> QED BY <1>16, <2>1, <2>2
<1>19. ASSUME NEW i \in SeqOps(code), pc \in {Stop(code, i), First(code, i), Last(code, i)},
              code[pc].op # "ENDPROC",
              NEW q \in {Last(code, i) + 1, End(code, i) + 1}, code[q].op \notin {"SEQRECOVER", "ENDPROC"},
              NEW d \in {1, 2}, Height(q) = Height(i) + 2 - d,
              NEW act, act = {"BREAK"} => Receives(stack, Open(i)),
              act = {"ENDPROC"} => ret' = returned,
              code[i].op = "SEQALWAYS" /\ Top.flags \cup Top.request \notin SUBSET (Flags \ RequestNames) => act # {},
              \A r \in RequestNames : r \in Top.flags \cup Top.request =>
                 \/ r \in act \/ act = {"QUIT"} \/ (act = {"BREAK"} /\ r = "ENDPROC")
                 \/ r = "BREAK" /\ code[pc].op \in {"SEQEND", "SEQRECOVER"},
              EndOfLoop(Drop(stack, d), Top.base, "CANRECOVER" \in Top.flags, act, q), returned' = returned
       PROVE  Turn
  <2> DEFINE s == Drop(stack, d)  b == stack[Len(stack)].base  can == "CANRECOVER" \in stack[Len(stack)].flags
  <2>1. /\ FrameAt(s, b, can, q)
        /\ i \in Open(pc) /\ i = Innermost(Open(pc)) /\ Len(stack) = Place(i)
        /\ Open(q) = Open(i) /\ Move(pc, q)
        /\ Len(s) = Len(stack) - d
        /\ \A k \in 1..Len(s) : s[k] = stack[k]
    BY <1>2, <1>19, LeaveFrame
  <2>2. EndOfLoop(s, b, can, act, q)
    BY <1>19 DEF Top
  <2>3. Top = stack[Place(i)]
    BY <2>1 DEF Top
  <2> HIDE DEF s, b, can
  <2>4. Len(s) <= Len(stack)
    BY <1>3, <2>1
  <2>5. code[i].op = "SEQALWAYS" /\ stack[Place(i)].flags \cup stack[Place(i)].request \notin SUBSET (Flags \ RequestNames)
          => act # {}
    BY <1>19, <2>3
  <2>6. \A r \in RequestNames : r \in stack[Place(i)].flags \cup stack[Place(i)].request =>
           \/ r \in act \/ act = {"QUIT"} \/ (act = {"BREAK"} /\ r = "ENDPROC")
           \/ r = "BREAK" /\ code[pc].op \in {"SEQEND", "SEQRECOVER"}
    BY <1>19, <2>3
  <2>7. Sketch(s, q, act, ret', returned) /\ HandsOn(stack, pc, s, q, act)
    BY <1>2, <1>4, <1>19, <2>1, <2>4, <2>5, <2>6, LeaveMarks
  <2>8. Turned(s, b, can, act, q)
    BY <1>19, <2>1, <2>2, <2>7 DEF Turned
  <2> QED BY <2>8 DEF Turn
<1>24. ASSUME NEW i \in Open(pc), code[i].op = "SEQBEGIN", Len(stack) = Place(i)
        PROVE  \A r \in RequestNames : r \in Top.flags \cup Top.request => r = "BREAK"
  <2>1. MarkedBy(stack, i, pc, {}, ret, returned) /\ Top = stack[Place(i)] /\ code[i].op # "SEQALWAYS"
    BY <1>4, <1>24 DEF Marks, Top
  <2>2. Top.flags \cap RequestNames = {} /\ Top.request \subseteq {"BREAK"}
    BY <1>24, <2>1 DEF MarkedBy
  <2> QED BY <2>2
<1>20. CASE SeqEnd
  <2>1. /\ code[pc].op = "SEQEND" /\ returned' = returned
        /\ EndOfLoop(Drop(stack, 2), Top.base, "CANRECOVER" \in Top.flags, action, pc + code[pc].to)
    BY <1>20 DEF SeqEnd, At, Target
  <2>2. PICK i \in SeqOps(code) : /\ code[i].op = "SEQBEGIN" /\ pc = Stop(code, i)
                                  /\ pc + code[pc].to = End(code, i) + 1
                                  /\ Height(End(code, i) + 1) = Height(i) + 2 - 2
                                  /\ code[pc + code[pc].to].op \notin {"SEQRECOVER", "ENDPROC"}
    BY <1>2, <1>3, <2>1, SeqEndIs
  <2> DEFINE q == End(code, i) + 1  d == 2
  <2>3. /\ q \in {Last(code, i) + 1, End(code, i) + 1} /\ d \in {1, 2} /\ Height(q) = Height(i) + 2 - d
        /\ EndOfLoop(Drop(stack, d), Top.base, "CANRECOVER" \in Top.flags, action, q)
        /\ code[q].op \notin {"SEQRECOVER", "ENDPROC"}
    BY <2>1, <2>2
  <2>4. code[pc].op # "ENDPROC" /\ code[i].op # "SEQALWAYS" /\ pc \in {Stop(code, i), First(code, i), Last(code, i)}
    BY <2>1, <2>2
  <2> HIDE DEF q, d
  <2>5. i \in Open(pc) /\ Len(stack) = Place(i)
    BY <1>2, <2>3, <2>4, LeaveFrame
  <2>6. \A r \in RequestNames : r \in Top.flags \cup Top.request =>
           r = "BREAK" /\ code[pc].op \in {"SEQEND", "SEQRECOVER"}
    BY <1>24, <2>1, <2>2, <2>5
  <2> QED BY <1>5, <1>19, <2>1, <2>3, <2>4, <2>6
<1>21. CASE SeqRecover
  <2>1. /\ code[pc].op = "SEQRECOVER" /\ returned' = returned
        /\ EndOfLoop(Drop(stack, 1), Top.base, "CANRECOVER" \in Top.flags, action, pc + 1)
    BY <1>21 DEF SeqRecover, At
  <2>2. PICK i \in SeqOps(code) : /\ code[i].op = "SEQBEGIN" /\ pc = First(code, i)
                                  /\ pc + 1 = Last(code, i) + 1
                                  /\ Height(Last(code, i) + 1) = Height(i) + 2 - 1
                                  /\ code[pc + 1].op \notin {"SEQRECOVER", "ENDPROC"}
    BY <1>2, <1>3, <2>1, SeqRecoverIs
  <2> DEFINE q == Last(code, i) + 1  d == 1
  <2>3. /\ q \in {Last(code, i) + 1, End(code, i) + 1} /\ d \in {1, 2} /\ Height(q) = Height(i) + 2 - d
        /\ EndOfLoop(Drop(stack, d), Top.base, "CANRECOVER" \in Top.flags, action, q)
        /\ code[q].op \notin {"SEQRECOVER", "ENDPROC"}
    BY <2>1, <2>2
  <2>4. code[pc].op # "ENDPROC" /\ code[i].op # "SEQALWAYS" /\ pc \in {Stop(code, i), First(code, i), Last(code, i)}
    BY <2>1, <2>2
  <2> HIDE DEF q, d
  <2>5. i \in Open(pc) /\ Len(stack) = Place(i)
    BY <1>2, <2>3, <2>4, LeaveFrame
  <2>6. \A r \in RequestNames : r \in Top.flags \cup Top.request =>
           r = "BREAK" /\ code[pc].op \in {"SEQEND", "SEQRECOVER"}
    BY <1>24, <2>1, <2>2, <2>5
  <2> QED BY <1>5, <1>19, <2>1, <2>3, <2>4, <2>6
<1>22. CASE AlwaysEnd
  <2>1. /\ code[pc].op = "ALWAYSEND" /\ returned' = returned
        /\ ret' = IF Restores(Top) THEN stack[Len(stack) - 1].v ELSE ret
        /\ EndOfLoop(Drop(stack, 2), Top.base, "CANRECOVER" \in Top.flags,
                     Strongest(Top.flags \cup Top.request), pc + 1)
    BY <1>22 DEF AlwaysEnd, At
  <2>2. PICK i \in SeqOps(code) : /\ code[i].op = "SEQALWAYS" /\ pc = Last(code, i)
                                  /\ pc + 1 = End(code, i) + 1
                                  /\ Height(End(code, i) + 1) = Height(i) + 2 - 2
                                  /\ code[pc + 1].op \notin {"SEQRECOVER", "ENDPROC"}
    BY <1>2, <1>3, <2>1, AlwaysEndIs
  <2> DEFINE q == End(code, i) + 1  d == 2  a == Strongest(Top.flags \cup Top.request)
  <2>3. /\ q \in {Last(code, i) + 1, End(code, i) + 1} /\ d \in {1, 2} /\ Height(q) = Height(i) + 2 - d
        /\ EndOfLoop(Drop(stack, d), Top.base, "CANRECOVER" \in Top.flags, a, q)
        /\ code[q].op \notin {"SEQRECOVER", "ENDPROC"}
    BY <2>1, <2>2
  <2>4. i \in Open(pc) /\ i = Innermost(Open(pc)) /\ Len(stack) = Place(i)
    BY <1>2, <2>2, <2>3, LeaveFrame
  <2> HIDE DEF q, d, a
  <2>5. Top = stack[Place(i)] /\ Top.request \in SUBSET RequestNames /\ Top.flags \in SUBSET Flags
    <3>1. Place(i) \in 1..Len(stack)
      BY <1>2, <1>3, <2>4, PlaceIs DEF FrameAt
    <3>2. stack[Place(i)] \in Items /\ stack[Place(i)].kind = "envelope"
      BY <1>2, <1>3, <2>4, <3>1, ElementOfSeq DEF FrameAt, EnvelopeOf
    <3> QED BY <2>4, <3>2 DEF Top, Items, Block
  <2>6. MarkedBy(stack, i, pc, {}, ret, returned)
    BY <1>4, <2>4 DEF Marks
  <2>7. a = {"BREAK"} => Receives(stack, Open(i))
    <3> HAVE a = {"BREAK"}
    <3>1. "BREAK" \in Top.flags \cup Top.request
      BY StrongestIs DEF a
    <3>2. Receives(stack, Open(i) \cup {i})
      BY <2>5, <2>6, <3>1 DEF MarkedBy
    <3>3. Dest(Open(i) \cup {i}) = Dest(Open(i))
      BY <1>2, <2>2, DestIs
    <3> QED BY <3>2, <3>3 DEF Receives
  <2>8. a = {"ENDPROC"} => ret' = returned
    <3> HAVE a = {"ENDPROC"}
    <3>1. "ENDPROC" \in Top.flags \cup Top.request /\ (Top.flags \cup Top.request) \cap RequestNames = {"ENDPROC"}
      BY StrongestIs DEF a
    <3>2. CASE "ENDPROC" \in Top.request
      <4>1. ret = returned
        BY <2>5, <2>6, <3>2 DEF MarkedBy
      <4>2. ~Restores(Top)
        BY <3>2 DEF Restores
      <4> QED BY <2>1, <4>1, <4>2
    <3>3. CASE "ENDPROC" \notin Top.request
      <4>1. Restores(Top) /\ "ENDPROC" \in stack[Place(i)].flags /\ stack[Place(i)].request = {}
        BY <2>5, <3>1, <3>3 DEF Restores
      <4>2. ~Void(stack, i, pc, {})
        <5> SUFFICES ASSUME Void(stack, i, pc, {}) PROVE FALSE
          OBVIOUS
        <5>1. PICK m \in Open(pc) : i <= m /\ (stack[Place(m)].request # {} \/ i < m)
          BY <2>1 DEF Void
        <5>2. m <= i
          BY <1>2, <1>3, <2>4, <5>1, InnermostIs
        <5>3. m \in Nat /\ i \in Nat
          BY <1>2, <1>3, <2>4, <5>1, OpenIs
        <5>4. m = i
          BY <5>1, <5>2, <5>3
        <5> QED BY <4>1, <5>1, <5>3, <5>4
      <4>3. stack[Len(stack) - 1].v = returned
        BY <2>4, <2>6, <4>1, <4>2 DEF MarkedBy
      <4> QED BY <2>1, <4>1, <4>3
    <3> QED BY <3>2, <3>3
  <2>9. Top.flags \cup Top.request \notin SUBSET (Flags \ RequestNames) => a # {}
    <3> HAVE Top.flags \cup Top.request \notin SUBSET (Flags \ RequestNames)
    <3>1. (Top.flags \cup Top.request) \cap RequestNames # {}
      BY <2>5 DEF Flags
    <3> QED BY <3>1, StrongestIs DEF a
  <2>10. code[pc].op # "ENDPROC" /\ pc \in {Stop(code, i), First(code, i), Last(code, i)}
    BY <2>1, <2>2
  <2>11. \A r \in RequestNames : r \in Top.flags \cup Top.request =>
            r \in a \/ a = {"QUIT"} \/ (a = {"BREAK"} /\ r = "ENDPROC")
    BY StrongestIs DEF a
  <2> QED BY <1>19, <2>1, <2>3, <2>7, <2>8, <2>9, <2>10, <2>11
<1>23. CASE AlwaysBegin
  <2> DEFINE keeps == "ENDPROC" \in Top.flags \cup Top.request
             slot == IF keeps THEN Value(ret) ELSE stack[Len(stack) - 1]
             s == Began(stack, pc + code[pc].to, slot)
  <2>1. code[pc].op = "ALWAYSBEGIN" /\ returned' = returned
    BY <1>23 DEF AlwaysBegin, At
  <2>2. EndOfLoop(s, recoverBase, bCanRecover, action, pc + 1)
    BY <1>23 DEF AlwaysBegin, Plain, Top, Target, Began
  <2>3. slot \in Items /\ slot.kind = "value"
    <3>1. PICK i \in SeqOps(code) : Open(pc) = Open(i) \cup {i} /\ Height(pc) = Height(i) + 2
      BY <1>2, <1>3, <2>1, AlwaysBeginIs
    <3>2. EnvelopeOf(stack, i, pc) /\ i \in Open(pc)
      BY <1>2, <3>1 DEF FrameAt
    <3>3. Len(stack) = Place(i) /\ Len(stack) - 1 \in 1..Len(stack)
      <4>1. Len(stack) = frame + Height(pc)
        BY <1>2 DEF FrameAt
      <4>2. /\ Place(i) = frame + Height(i) + 2 /\ Height(i) \in Nat /\ frame \in Nat
            /\ Place(i) - 1 \in 1..(frame + Height(pc))
        BY <1>2, <1>3, <3>2, PlaceIs
      <4>3. Len(stack) = Place(i)
        BY <3>1, <4>1, <4>2
      <4> QED BY <4>1, <4>2, <4>3
    <3>4. stack[Len(stack) - 1].kind = "value" /\ stack[Len(stack) - 1] \in Items
      BY <1>3, <3>2, <3>3, ElementOfSeq DEF EnvelopeOf
    <3>5. Value(ret) \in Items /\ Value(ret).kind = "value"
      BY <1>2, ItemsAre
    <3> QED BY <3>4, <3>5
  <2>4. Saves(stack, slot, ret)
    BY <1>2, ItemsAre DEF Top, Saves
  <2> HIDE DEF slot
  <2>5. s = Began(stack, pc + code[pc].to, slot)
    OBVIOUS
  <2> HIDE DEF s
  <2>6. FrameAt(s, recoverBase, bCanRecover, pc + 1)
    BY <1>2, <2>1, <2>3, <2>5, AlwaysBeginFrame
  <2>7. Sketch(s, pc + 1, action, ret', returned') /\ HandsOn(stack, pc, s, pc + 1, action)
    <3>1. Sketch(s, pc + 1, action, ret', returned)
      BY <1>2, <1>4, <2>1, <2>3, <2>4, <2>5, AlwaysMarks
    <3>2. Held(stack, pc) \subseteq Held(s, pc + 1)
      BY <1>2, <1>4, <2>1, <2>3, <2>5, AlwaysHolds
    <3>3. HandsOn(stack, pc, s, pc + 1, action)
      BY <3>2 DEF HandsOn
    <3> QED BY <2>1, <3>1, <3>3
  <2>8. Turned(s, recoverBase, bCanRecover, action, pc + 1)
    BY <2>1, <2>2, <2>6, <2>7 DEF Turned
  <2> QED BY <2>8 DEF Turn
<1> QED BY <1>7, <1>9, <1>10, <1>11, <1>13, <1>14, <1>15, <1>17, <1>18, <1>20, <1>21, <1>22, <1>23 DEF Opcode

\* Every step keeps the marks in order.
LEMMA MarkedStep == Framed /\ Marked /\ [Next]_vars => Marked'
<1> SUFFICES ASSUME Framed, Marked, [Next]_vars PROVE Marked'
  OBVIOUS
<1>1. CASE Opcode /\ UNCHANGED <<code, frame, quitState>>
  <2>1. PICK stk, base, can, act, q : Turned(stk, base, can, act, q)
    BY <1>1, OpcodeTurns DEF Turn
  <2>2. Compiled
    BY DEF Framed
  <2> QED BY <1>1, <2>1, <2>2, SettleMarks DEF Turned
<1>2. CASE Poll \/ UNCHANGED vars
  <2>1. /\ UNCHANGED <<code, frame, pc, stack, ret, returned>>
        /\ (pc # Done /\ action' = {"QUIT"}) \/ action' = action
    BY <1>2 DEF Poll, vars, frameVars
  <2>2. Marks(stack, pc, ret, returned)' <=> Marks(stack', pc', ret', returned')
    BY <2>1, UnmovedMarks
  <2>3. Done' = Done
    BY <2>1 DEF Done
  <2> QED BY <2>1, <2>2, <2>3 DEF Marked
<1> QED BY <1>1, <1>2 DEF Next

\* Who waits for a BREAK, and what a RETURN returns, in every state.
THEOREM AlwaysMarked == Spec => []Marked
<1>1. Framed /\ Marked /\ [Next]_vars => Marked'
  BY MarkedStep
<1> QED BY <1>1, MarkedInit, AlwaysFramed, PTL DEF Spec

\* ReturnClean: a function gives back the stack and the recover base of its
\* caller however it is left, and returns the value of its last RETURN.
THEOREM AlwaysReturnClean == Spec => []ReturnClean
<1>1. Framed /\ Marked => ReturnClean
  BY DEF Framed, Marked, ReturnClean, Return, Compiled
<1> QED BY <1>1, AlwaysFramed, AlwaysMarked, PTL

\* BreakDelivered: RECOVER USING finds the value given to BREAK, and so does
\* that of a caller when a BREAK leaves the function.
THEOREM AlwaysBreakDelivered == Spec => []BreakDelivered
<1>1. Framed /\ Marked => BreakDelivered
  <2> SUFFICES ASSUME Framed, Marked PROVE BreakDelivered
    OBVIOUS
  <2>1. Return /\ action = {"BREAK"} => frame # 0 /\ stack[1].v[1] = "break"
    BY DEF Marked, Return
  <2>2. ASSUME At("SEQRECOVER")
        PROVE  stack[Len(stack) - 1].v[1] = "break"
    <3>1. /\ pc # Done /\ code[pc].op = "SEQRECOVER" /\ Compiled
          /\ FrameAt(stack, recoverBase, bCanRecover, pc) /\ Marks(stack, pc, ret, returned)
      BY <2>2 DEF At, Framed, Marked
    <3>2. pc \in 1..Len(code) /\ pc \in Nat
      BY <3>1, CodeFacts DEF FrameAt
    <3>3. PICK i \in SeqOps(code) : /\ code[i].op = "SEQBEGIN" /\ pc = First(code, i)
                                    /\ pc + 1 = Last(code, i) + 1
                                    /\ Height(Last(code, i) + 1) = Height(i) + 2 - 1
      BY <3>1, <3>2, SeqRecoverIs
    <3> DEFINE q == Last(code, i) + 1  d == 1
    <3>4. q \in {Last(code, i) + 1, End(code, i) + 1} /\ d \in {1, 2} /\ Height(q) = Height(i) + 2 - d
      BY <3>3
    <3> HIDE DEF q, d
    <3>5. i \in Open(pc) /\ i = Innermost(Open(pc)) /\ Len(stack) = Place(i)
      BY <3>1, <3>3, <3>4, LeaveFrame
    <3>6. "BREAK" \in stack[Place(i)].request
      BY <3>1, <3>5 DEF Marks
    <3>7. Receives(stack, Open(i) \cup {i})
      BY <3>1, <3>5, <3>6 DEF Marks, MarkedBy
    <3>8. Dest(Open(i) \cup {i}) = Place(i)
      BY <3>1, <3>3, DestIs
    <3> QED BY <3>5, <3>7, <3>8 DEF Receives
  <2> QED BY <2>1, <2>2 DEF BreakDelivered
<1> QED BY <1>1, AlwaysFramed, AlwaysMarked, PTL

-----------------------------------------------------------------------------
(* Requests are kept.                                                      *)

\* The requests that wait: those put aside and the one under way.
Waiting(stk, p, act) == IF p = Done THEN act ELSE Held(stk, p) \cup act

\* Nothing is under way between opcodes until another thread's QUIT is noticed.
Quiet == pc # Done /\ ~quitState => action = {}

\* Pending, read off the stack, is what waits.
LEMMA PendingIs == Framed => Pending = RequestNames \cap Waiting(stack, pc, action)
<1> SUFFICES ASSUME Framed PROVE Pending = RequestNames \cap Waiting(stack, pc, action)
  OBVIOUS
<1> DEFINE held(k) == IF stack[k].kind = "envelope" THEN stack[k].flags \cup stack[k].request ELSE {}
<1>1. Pending = RequestNames \cap (action \cup UNION {held(k) : k \in (frame + 1)..Len(stack)})
  BY DEF Pending
<1>2. CASE pc = Done
  <2>1. Len(stack) = frame /\ frame \in {0, 2}
    BY <1>2 DEF Framed, Compiled
  <2>2. (frame + 1)..Len(stack) = {}
    BY <2>1
  <2>3. {held(k) : k \in (frame + 1)..Len(stack)} = {}
    BY <2>2
  <2> HIDE DEF held
  <2>4. Pending = RequestNames \cap action
    BY <1>1, <2>3
  <2> QED BY <1>2, <2>4 DEF Waiting
<1>3. CASE pc # Done
  <2>1. /\ Compiled /\ FrameAt(stack, recoverBase, bCanRecover, pc) /\ pc \in 1..Len(code)
        /\ Len(stack) = frame + Height(pc) /\ frame \in {0, 2}
    BY <1>3 DEF Framed, FrameAt, Compiled
  <2>2. Height(pc) \in Nat /\ Len(stack) \in Nat
    BY <2>1, CodeFacts
  <2>3. ASSUME NEW k \in (frame + 1)..Len(stack), NEW r \in held(k), r \in RequestNames
        PROVE  r \in Held(stack, pc)
    <3>1. stack[k].kind = "envelope" /\ r \in stack[k].flags \cup stack[k].request
      BY <2>3
    <3>2. k \in 1..Len(stack) /\ frame < k
      BY <2>1, <2>2
    <3>3. PICK i \in Open(pc) : k = Place(i)
      BY <2>1, <3>1, <3>2 DEF FrameAt
    <3> QED BY <2>3, <3>1, <3>3 DEF Held
  <2>4. ASSUME NEW r \in Held(stack, pc)
        PROVE  \E k \in (frame + 1)..Len(stack) : r \in held(k)
    <3>1. PICK i \in Open(pc) : r \in stack[Place(i)].flags \cup stack[Place(i)].request
      BY DEF Held
    <3>2. Place(i) \in 1..Len(stack) /\ frame < Place(i) - 1
      BY <2>1, PlaceIs
    <3>3. Place(i) \in (frame + 1)..Len(stack)
      BY <2>1, <2>2, <3>2
    <3>4. stack[Place(i)].kind = "envelope"
      BY <2>1 DEF FrameAt, EnvelopeOf
    <3> QED BY <3>1, <3>3, <3>4
  <2>5. Held(stack, pc) \subseteq RequestNames
    BY DEF Held
  <2> HIDE DEF held
  <2>6. RequestNames \cap UNION {held(k) : k \in (frame + 1)..Len(stack)} = Held(stack, pc)
    BY <2>3, <2>4, <2>5
  <2> QED BY <1>1, <1>3, <2>6 DEF Waiting
<1> QED BY <1>2, <1>3

\* What waits in the next state, by the same code.
LEMMA UnmovedWaiting ==
  ASSUME UNCHANGED <<code, frame>>
  PROVE  Waiting(stack, pc, action)' = Waiting(stack', pc', action')
<1>1. code' = code /\ frame' = frame
  OBVIOUS
<1> QED BY <1>1 DEF Waiting, Held, Done, Place, Height, Open

\* What is cut off with the stack when a request lands or leaves has nothing
\* put aside, unless the request is a QUIT.
LEMMA SettleHeld ==
  ASSUME Compiled, NEW stk, NEW base, NEW can, NEW q, FrameAt(stk, base, can, q),
         NEW act, EndOfLoop(stk, base, can, act, q),
         NEW rt, NEW rtd, Sketch(stk, q, act, rt, rtd)
  PROVE  /\ act # {"QUIT"} => Held(stk, q) \subseteq Waiting(stack', pc', action')
         /\ act \in {{"QUIT"}, {"BREAK"}} => act \subseteq Waiting(stack', pc', action')
         /\ act = {"ENDPROC"} => act \subseteq Waiting(stack', pc', action') \/ pc' = Done
<1>1. q \in 1..Len(code) /\ Len(code) \in Nat /\ q \in Nat /\ Done = Len(code) + 1
  BY CodeFacts DEF FrameAt, Done
<1>2. Goes(stk, base, can, act, q)
  BY EndIs
<1>3. \A j \in Open(q) : /\ stk[Place(j)].request = {}
                         /\ stk[Place(j)].flags \cap RequestNames # {} => code[j].op = "SEQALWAYS"
  BY DEF Sketch, MarkedBy
<1>4. CASE act = {} /\ pc' = q /\ action' = {} /\ stack' = stk
  <2>1. pc' # Done
    BY <1>1, <1>4
  <2> QED BY <1>4, <2>1 DEF Waiting
<1>5. ASSUME NEW i \in Open(q), Serves(act, i, q), pc' = Handler(i, q), action' = {},
             stack' = Landed(stk, Place(i), act)
      PROVE  /\ act \subseteq Waiting(stack', pc', action')
             /\ act # {"QUIT"} => Held(stk, q) \subseteq Waiting(stack', pc', action')
  <2> DEFINE h == Handler(i, q)
  <2>1. h \in 1..Len(code) /\ h \in Nat /\ Open(h) = Open(i) \cup {i} /\ Open(i) = {j \in Open(q) : j < i}
    BY <1>1, HandlerIs, OpenOfOpen
  <2>2. act \in SUBSET RequestNames
    BY <1>5 DEF Serves, RequestNames
  <2>3. CutAt(stk, stack', Place(i), act)
    BY <1>5, <2>2, LandFrame
  <2>4. pc' # Done /\ pc' = h
    BY <1>1, <1>5, <2>1
  <2> HIDE DEF h
  <2>5. Waiting(stack', pc', action') = Held(stack', h)
    BY <1>5, <2>4 DEF Waiting
  <2>6. act \subseteq Held(stack', h)
    BY <2>1, <2>2, <2>3 DEF CutAt, Held
  <2>7. ASSUME act # {"QUIT"}, NEW r \in Held(stk, q)
        PROVE  r \in Held(stack', h)
    <3>1. PICK j \in Open(q) : r \in stk[Place(j)].flags /\ r \in RequestNames
      BY <1>3 DEF Held
    <3>2. code[j].op = "SEQALWAYS"
      BY <1>3, <3>1
    <3>3. i \in Nat /\ j \in Nat /\ i \in Open(q)
      BY <1>1, OpenIs
    <3>4. j <= i
      <4>1. CASE act = {"BREAK"}
        <5>1. i = Innermost(Open(q))
          BY <1>5, <4>1 DEF Serves
        <5>2. Open(q) \in SUBSET Open(q) /\ Open(q) # {}
          OBVIOUS
        <5> QED BY <1>1, <5>1, <5>2, InnermostIs
      <4>2. CASE act # {"BREAK"}
        <5>1. i = Innermost(Alwaysed(Open(q)))
          BY <1>5, <4>2 DEF Serves
        <5>2. Alwaysed(Open(q)) \in SUBSET Open(q) /\ j \in Alwaysed(Open(q))
          BY <3>2 DEF Alwaysed
        <5> QED BY <1>1, <5>1, <5>2, InnermostIs
      <4> QED BY <4>1, <4>2
    <3>5. j \in Open(h)
      BY <2>1, <3>3, <3>4
    <3>6. stack'[Place(j)].flags = stk[Place(j)].flags
      <4>1. CASE j = i
        BY <2>3, <4>1 DEF CutAt
      <4>2. CASE j # i
        <5>1. j < i
          BY <3>3, <3>4, <4>2
        <5>2. Place(j) < Place(i) - 1 /\ Place(j) \in Nat /\ Place(i) \in Nat /\ Place(j) \in 1..(frame + Height(q))
          BY <1>1, <5>1, PlaceLess, PlaceIs
        <5>3. Len(stack') = Place(i)
          BY <2>3 DEF CutAt
        <5>4. Place(j) \in 1..Len(stack') /\ Place(j) # Place(i)
          BY <5>2, <5>3
        <5> QED BY <2>3, <5>4 DEF CutAt
      <4> QED BY <4>1, <4>2
    <3> QED BY <3>1, <3>5, <3>6 DEF Held
  <2> QED BY <2>5, <2>6, <2>7
<1>6. CASE Unserved(act, q) /\ pc' = Done /\ action' = act \ {"ENDPROC"}
  <2>1. Waiting(stack', pc', action') = act \ {"ENDPROC"}
    BY <1>6 DEF Waiting
  <2>2. act # {"QUIT"} => Held(stk, q) = {}
    <3> SUFFICES ASSUME act # {"QUIT"}, NEW r \in Held(stk, q) PROVE FALSE
      OBVIOUS
    <3>1. PICK j \in Open(q) : r \in stk[Place(j)].flags /\ r \in RequestNames
      BY <1>3 DEF Held
    <3>2. code[j].op = "SEQALWAYS"
      BY <1>3, <3>1
    <3> QED BY <1>6, <3>2 DEF Unserved, Alwaysed
  <2> QED BY <1>6, <2>1, <2>2
<1> QED BY <1>2, <1>4, <1>5, <1>6 DEF Goes

\* An opcode keeps the requests put aside.
LEMMA OpcodeKeeps ==
  ASSUME Framed, Framed', Marked, action = {}, Opcode, UNCHANGED <<code, frame, quitState>>
  PROVE  KeepsQuit /\ KeepsRequests
<1>1. PICK stk, base, can, act, q : Turned(stk, base, can, act, q)
  BY OpcodeTurns DEF Turn
<1>2. pc # Done /\ Compiled
  BY DEF Opcode, Noop, Push, Pop, Do, Function, RetValue, EndProc, SeqBlock, SeqBegin, SeqAlways,
         SeqEnd, SeqRecover, AlwaysBegin, AlwaysEnd, At, Framed
<1> DEFINE W == Waiting(stack', pc', action')
<1>3. /\ act # {"QUIT"} => Held(stk, q) \subseteq W
      /\ act \in {{"QUIT"}, {"BREAK"}} => act \subseteq W
      /\ act = {"ENDPROC"} => act \subseteq W \/ pc' = Done
  BY <1>1, <1>2, SettleHeld DEF Turned
<1>4. Pending = Held(stack, pc)
  <2>1. Waiting(stack, pc, action) = Held(stack, pc)
    BY <1>2 DEF Waiting
  <2>2. Held(stack, pc) \subseteq RequestNames
    BY DEF Held
  <2> QED BY <2>1, <2>2, PendingIs
<1>5. Pending' = RequestNames \cap W
  <2>1. (Framed => Pending = RequestNames \cap Waiting(stack, pc, action))'
    BY PendingIs, PTL
  <2>2. RequestNames' = RequestNames
    BY DEF RequestNames
  <2> QED BY <2>1, <2>2, UnmovedWaiting
<1> HIDE DEF W
<1>6. act \in {{}, {"BREAK"}, {"QUIT"}, {"ENDPROC"}}
  BY <1>1 DEF Turned, EndOfLoop
<1>7. \A r \in Pending :
         \/ r \in Held(stk, q) \cup act
         \/ act = {"QUIT"}
         \/ act = {"BREAK"} /\ r = "ENDPROC"
         \/ r = "BREAK" /\ code[pc].op \in {"SEQEND", "SEQRECOVER"}
  BY <1>1, <1>4 DEF Turned, HandsOn
<1>8. KeepsQuit
  <2> SUFFICES ASSUME "QUIT" \in Pending PROVE "QUIT" \in Pending'
    BY DEF KeepsQuit
  <2>1. "QUIT" \in Held(stk, q) \cup act \/ act = {"QUIT"}
    BY <1>7
  <2>2. "QUIT" \in W
    BY <1>3, <1>6, <2>1
  <2> QED BY <1>5, <2>2 DEF RequestNames
<1>9. ASSUME "BREAK" \in Pending
      PROVE  Pending' \cap {"BREAK", "QUIT"} # {} \/ At("SEQEND") \/ At("SEQRECOVER")
  <2>1. CASE "BREAK" \in Held(stk, q) \cup act \/ act = {"QUIT"}
    <3>1. "BREAK" \in W \/ "QUIT" \in W
      BY <1>3, <1>6, <2>1
    <3> QED BY <1>5, <3>1 DEF RequestNames
  <2>2. CASE code[pc].op \in {"SEQEND", "SEQRECOVER"}
    BY <1>2, <2>2 DEF At
  <2> QED BY <1>7, <1>9, <2>1, <2>2
<1>10. ASSUME "ENDPROC" \in Pending
       PROVE  Pending' # {} \/ Return'
  <2>1. "ENDPROC" \in Held(stk, q) \cup act \/ act = {"QUIT"} \/ act = {"BREAK"}
    BY <1>7, <1>10
  <2>2. W \cap RequestNames # {} \/ pc' = Done
    BY <1>3, <1>6, <2>1 DEF RequestNames
  <2>3. Done' = Done
    BY DEF Done
  <2> QED BY <1>5, <2>2, <2>3 DEF Return
<1> QED BY <1>8, <1>9, <1>10 DEF KeepsRequests

\* The end of the loop leaves nothing under way but for the caller.
LEMMA QuietStep == Framed /\ Marked /\ Quiet /\ [Next]_vars => Quiet'
<1> SUFFICES ASSUME Framed, Marked, Quiet, [Next]_vars PROVE Quiet'
  OBVIOUS
<1>1. CASE Opcode /\ UNCHANGED <<code, frame, quitState>>
  <2>1. PICK stk, base, can, act, q : EndOfLoop(stk, base, can, act, q)
    BY <1>1, OpcodeTurns DEF Turn, Turned
  <2>2. action' = {} \/ pc' = Done
    BY <2>1 DEF EndOfLoop, Continue, Land, Leave
  <2>3. Done' = Done
    BY <1>1 DEF Done
  <2> QED BY <2>2, <2>3 DEF Quiet
<1>2. CASE Poll
  BY <1>2 DEF Poll, Quiet
<1>3. CASE UNCHANGED vars
  BY <1>3 DEF vars, frameVars, Quiet, Done
<1> QED BY <1>1, <1>2, <1>3 DEF Next

\* RequestsKept: as long as no other thread's QUIT has been noticed, a QUIT is
\* never dropped, and BREAK and RETURN are not before they are served or
\* overtaken, through however many ALWAYS clauses they have to go.
THEOREM AlwaysRequestsKept == Spec => RequestsKept
<1>1. VMInit => Quiet
  BY DEF VMInit, Init, Quiet
<1>2. Framed /\ Marked /\ Quiet /\ [Next]_vars => Quiet'
  BY QuietStep
<1>3. Framed /\ Framed' /\ Marked /\ Quiet /\ [Next]_vars => [~quitState' => KeepsQuit /\ KeepsRequests]_vars
  <2> SUFFICES ASSUME Framed, Framed', Marked, Quiet, Next, ~quitState'
               PROVE  KeepsQuit /\ KeepsRequests
    OBVIOUS
  <2>1. Opcode /\ UNCHANGED <<code, frame, quitState>>
    BY DEF Next, Poll
  <2>2. pc # Done
    BY <2>1 DEF Opcode, Noop, Push, Pop, Do, Function, RetValue, EndProc, SeqBlock, SeqBegin, SeqAlways,
                SeqEnd, SeqRecover, AlwaysBegin, AlwaysEnd, At
  <2>3. action = {}
    BY <2>1, <2>2 DEF Quiet
  <2> QED BY <2>1, <2>3, OpcodeKeeps
<1> QED BY <1>1, <1>2, <1>3, AlwaysFramed, AlwaysMarked, PTL DEF Spec, RequestsKept

=============================================================================
