--------------------------- MODULE Garbage_proof ---------------------------
(***************************************************************************)
(* Proofs about Garbage, for all sets of threads and blocks, all programs  *)
(* and all bounds.                                                         *)
(*                                                                         *)
(* What a destructor does cannot make a reference counter fall behind the  *)
(* references that exist: every step that adds a holder adds to the        *)
(* counter, and no step takes more from it than the holder it removes.  As *)
(* both ways of freeing a block look at the counter, memory is freed only  *)
(* when nothing refers to it.                                              *)
(***************************************************************************)
EXTENDS Garbage, FiniteSetTheorems, SequenceTheorems, TLAPS

-----------------------------------------------------------------------------
(* Sets.                                                                   *)

\* There are finitely many holders.
LEMMA HolderFinite == IsFiniteSet(Holder)
<1>1. IsFiniteSet(0..MaxFrames)
  BY FS_Interval, BoundAssumption
<1>2. IsFiniteSet(Stack)
  BY <1>1, FS_Product, NameAssumption DEF Stack
<1>3. IsFiniteSet({Statics, CCode})
  <2>1. IsFiniteSet({}) BY FS_EmptySet
  <2>2. IsFiniteSet({} \cup {Statics}) BY <2>1, FS_AddElement
  <2>3. IsFiniteSet(({} \cup {Statics}) \cup {CCode}) BY <2>2, FS_AddElement
  <2>4. ({} \cup {Statics}) \cup {CCode} = {Statics, CCode} OBVIOUS
  <2> QED BY <2>3, <2>4
<1>4. IsFiniteSet(Stack \cup Block)
  BY <1>2, FS_Union, NameAssumption
<1> QED
  BY <1>3, <1>4, FS_Union DEF Holder

\* A set with at most one element more, and one with an element less.
LEMMA OneMore ==
  ASSUME NEW S, NEW T, NEW x, IsFiniteSet(T), S \subseteq T \cup {x}
  PROVE  /\ Cardinality(S) \in Nat /\ Cardinality(T) \in Nat
         /\ Cardinality(S) <= Cardinality(T) + 1
<1>0. Cardinality(T) \in Nat
  BY FS_CardinalityType
<1>1. IsFiniteSet(T \cup {x}) /\ Cardinality(T \cup {x}) <= Cardinality(T) + 1
  <2>1. /\ IsFiniteSet(T \cup {x})
        /\ Cardinality(T \cup {x})
             = IF x \in T THEN Cardinality(T) ELSE Cardinality(T) + 1
    BY FS_AddElement
  <2> QED BY <1>0, <2>1
<1>2. IsFiniteSet(S) /\ Cardinality(S) <= Cardinality(T \cup {x})
  BY <1>1, FS_Subset
<1>3. /\ Cardinality(S) \in Nat /\ Cardinality(T) \in Nat
      /\ Cardinality(T \cup {x}) \in Nat
  BY <1>1, <1>2, FS_CardinalityType
<1> QED BY <1>1, <1>2, <1>3

LEMMA OneLess ==
  ASSUME NEW S, NEW T, NEW x \in T, IsFiniteSet(T), S \subseteq T \ {x}
  PROVE  /\ Cardinality(S) \in Nat /\ Cardinality(T) \in Nat
         /\ Cardinality(S) <= Cardinality(T) - 1
<1>1. IsFiniteSet(T \ {x}) /\ Cardinality(T \ {x}) = Cardinality(T) - 1
  BY FS_RemoveElement
<1>2. IsFiniteSet(S) /\ Cardinality(S) <= Cardinality(T \ {x})
  BY <1>1, FS_Subset
<1>3. /\ Cardinality(S) \in Nat /\ Cardinality(T) \in Nat
      /\ Cardinality(T \ {x}) \in Nat
  BY <1>1, <1>2, FS_CardinalityType
<1> QED BY <1>1, <1>2, <1>3

LEMMA NoMore ==
  ASSUME NEW S, NEW T, IsFiniteSet(T), S \subseteq T
  PROVE  /\ Cardinality(S) \in Nat /\ Cardinality(T) \in Nat
         /\ Cardinality(S) <= Cardinality(T)
BY FS_Subset, FS_CardinalityType

-----------------------------------------------------------------------------
(* Frames.                                                                 *)

AnyFrame == CleanupFrame \cup CollectFrame
FramesOK ==
    /\ frames \in [Thread -> Seq(AnyFrame)]
    /\ \A t \in Thread : Len(frames[t]) <= MaxFrames

Stages == {"clear", "dtor", "items", "keep", "link"}

\* The frame on top, if there is one.
LEMMA TopFrame ==
  ASSUME FramesOK, NEW t \in Thread, NEW s \in Stages, At(t, s)
  PROVE  /\ Len(frames[t]) \in Nat \ {0}
         /\ Top(t) \in CleanupFrame
         /\ Top(t).block \in Block
         /\ Level(t) \in Stack /\ Level(t) \in Holder
<1>1. frames[t] \in Seq(AnyFrame) /\ frames[t] # <<>>
  BY DEF FramesOK, At
<1>2. Len(frames[t]) \in Nat \ {0} /\ Top(t) \in AnyFrame
  BY <1>1 DEF Top
<1>3. Top(t).stage # "final"
  BY DEF At, Stages
<1>4. Top(t) \in CleanupFrame
  BY <1>2, <1>3 DEF AnyFrame, CollectFrame
<1>5. Level(t) \in Stack
  BY <1>2, BoundAssumption DEF Level, Stack, FramesOK
<1> QED
  BY <1>2, <1>4, <1>5 DEF CleanupFrame, Holder

\* The level at which a thread runs holds items.
LEMMA LevelHolds ==
  ASSUME FramesOK, NEW t \in Thread
  PROVE  Level(t) \in Holder
<1>1. Len(frames[t]) \in 0..MaxFrames
  BY BoundAssumption DEF FramesOK
<1> QED
  BY <1>1 DEF Level, Holder, Stack

\* Calls, returns, and the progress of a cleanup function.
LEMMA Push ==
  ASSUME FramesOK, NEW t \in Thread, NEW f \in AnyFrame,
         Len(frames[t]) < MaxFrames, frames' = Pushed(t, f)
  PROVE  FramesOK'
<1>1. frames' = [frames EXCEPT ![t] = Append(frames[t], f)]
  BY DEF Pushed
<1>2. /\ Append(frames[t], f) \in Seq(AnyFrame)
      /\ Len(Append(frames[t], f)) = Len(frames[t]) + 1
  BY AppendProperties DEF FramesOK
<1>3. Len(frames[t]) + 1 <= MaxFrames
  BY BoundAssumption DEF FramesOK
<1> QED
  BY <1>1, <1>2, <1>3 DEF FramesOK

LEMMA Pop ==
  ASSUME FramesOK, NEW t \in Thread, frames[t] # <<>>, frames' = Popped(t)
  PROVE  FramesOK'
<1> DEFINE s == frames[t]
           r == SubSeq(s, 1, Len(s) - 1)
<1>1. s \in Seq(AnyFrame) /\ Len(s) \in Nat /\ Len(s) # 0
  BY DEF FramesOK
<1>2. r \in Seq(AnyFrame) /\ Len(r) <= Len(s)
  BY <1>1, SubSeqProperties
<1>3. frames' = [frames EXCEPT ![t] = r]
  BY DEF Popped
<1>4. Len(r) <= MaxFrames /\ Len(r) \in Nat
  BY <1>1, <1>2, BoundAssumption DEF FramesOK
<1> HIDE DEF r
<1> QED
  BY <1>2, <1>3, <1>4 DEF FramesOK

LEMMA Stage ==
  ASSUME FramesOK, NEW t \in Thread, NEW s \in Stages, At(t, s),
         NEW new \in Stages, frames' = Staged(t, new)
  PROVE  FramesOK'
<1> DEFINE q == frames[t]
           r == [q EXCEPT ![Len(q)].stage = new]
<1>1. /\ q \in Seq(AnyFrame) /\ Len(q) \in Nat \ {0}
      /\ q[Len(q)] \in CleanupFrame
  BY TopFrame DEF FramesOK, Top
<1>2. [q[Len(q)] EXCEPT !.stage = new] \in AnyFrame
  BY <1>1 DEF CleanupFrame, AnyFrame, Stages
<1>3. r \in Seq(AnyFrame) /\ Len(r) = Len(q)
  BY <1>1, <1>2
<1>4. frames' = [frames EXCEPT ![t] = r]
  BY DEF Staged
<1> HIDE DEF r
<1> QED
  BY <1>3, <1>4 DEF FramesOK

-----------------------------------------------------------------------------
(* What each kind of change of a reference does to holders and counters.   *)

ItemsOK ==
    /\ refs \in [Holder -> SUBSET Block]
    /\ counter \in [Block -> Int]

LEMMA HoldersFinite ==
  ASSUME NEW b \in Block
  PROVE  IsFiniteSet(Holders(b))
BY HolderFinite, FS_Subset DEF Holders

\* A holder gets a reference, and the block is counted once more.
LEMMA Gain ==
  ASSUME ItemsOK, CountCovers, NEW h \in Holder, NEW b \in Block,
         refs' \in [Holder -> SUBSET Block],
         \A g \in Holder : refs'[g] \subseteq
                           IF g = h THEN refs[g] \cup {b} ELSE refs[g],
         counter' = [counter EXCEPT ![b] = @ + 1]
  PROVE  ItemsOK' /\ CountCovers'
<1>1. ItemsOK'
  BY DEF ItemsOK
<1>2. ASSUME NEW c \in Block PROVE Cardinality(Holders(c)') <= counter'[c]
  <2>1. CASE c = b
    <3>1. Holders(b)' \subseteq Holders(b) \cup {h}
      BY DEF Holders, ItemsOK
    <3>2. /\ Cardinality(Holders(b)') \in Nat /\ Cardinality(Holders(b)) \in Nat
          /\ Cardinality(Holders(b)') <= Cardinality(Holders(b)) + 1
      BY <3>1, HoldersFinite, OneMore
    <3> QED BY <2>1, <3>2 DEF CountCovers, ItemsOK
  <2>2. CASE c # b
    <3>1. Holders(c)' \subseteq Holders(c)
      BY <2>2 DEF Holders, ItemsOK
    <3>2. /\ Cardinality(Holders(c)') \in Nat /\ Cardinality(Holders(c)) \in Nat
          /\ Cardinality(Holders(c)') <= Cardinality(Holders(c))
      BY <3>1, HoldersFinite, NoMore
    <3> QED BY <2>2, <3>2 DEF CountCovers, ItemsOK
  <2> QED BY <2>1, <2>2
<1> QED BY <1>1, <1>2 DEF CountCovers

\* A holder gives up a reference that it has, and the block is counted once
\* less.
LEMMA Loss ==
  ASSUME ItemsOK, CountCovers, NEW h \in Holder, NEW b \in refs[h],
         refs' = [refs EXCEPT ![h] = @ \ {b}],
         counter' = [counter EXCEPT ![b] = @ - 1]
  PROVE  ItemsOK' /\ CountCovers'
<1>1. ItemsOK' /\ b \in Block
  BY DEF ItemsOK
<1>2. ASSUME NEW c \in Block PROVE Cardinality(Holders(c)') <= counter'[c]
  <2>1. CASE c = b
    <3>1. Holders(b)' \subseteq Holders(b) \ {h} /\ h \in Holders(b)
      BY DEF Holders, ItemsOK
    <3>2. /\ Cardinality(Holders(b)') \in Nat /\ Cardinality(Holders(b)) \in Nat
          /\ Cardinality(Holders(b)') <= Cardinality(Holders(b)) - 1
      BY <1>1, <3>1, HoldersFinite, OneLess
    <3> QED BY <1>1, <2>1, <3>2 DEF CountCovers, ItemsOK
  <2>2. CASE c # b
    <3>1. Holders(c)' \subseteq Holders(c)
      BY <2>2 DEF Holders, ItemsOK
    <3>2. /\ Cardinality(Holders(c)') \in Nat /\ Cardinality(Holders(c)) \in Nat
          /\ Cardinality(Holders(c)') <= Cardinality(Holders(c))
      BY <3>1, HoldersFinite, NoMore
    <3> QED BY <1>1, <2>2, <3>2 DEF CountCovers, ItemsOK
  <2> QED BY <2>1, <2>2
<1> QED BY <1>1, <1>2 DEF CountCovers

\* References disappear, and nothing is counted less.
LEMMA Shrink ==
  ASSUME ItemsOK, CountCovers,
         refs' \in [Holder -> SUBSET Block],
         \A g \in Holder : refs'[g] \subseteq refs[g],
         counter' = counter
  PROVE  ItemsOK' /\ CountCovers'
<1>1. ItemsOK'
  BY DEF ItemsOK
<1>2. ASSUME NEW c \in Block PROVE Cardinality(Holders(c)') <= counter'[c]
  <2>1. Holders(c)' \subseteq Holders(c)
    BY DEF Holders, ItemsOK
  <2>2. /\ Cardinality(Holders(c)') \in Nat /\ Cardinality(Holders(c)) \in Nat
        /\ Cardinality(Holders(c)') <= Cardinality(Holders(c))
    BY <2>1, HoldersFinite, NoMore
  <2> QED BY <2>2 DEF CountCovers, ItemsOK
<1> QED BY <1>1, <1>2 DEF CountCovers

-----------------------------------------------------------------------------
(* Types.                                                                  *)

\* hb_gcRefFree() of a reference that holder h has.
LEMMA RefFreeTypes ==
  ASSUME TypeOK, NEW t \in Thread, NEW h \in Holder, NEW b \in Block,
         RefFree(t, h, b)
  PROVE  ItemsOK' /\ FramesOK' /\ delete' \subseteq Block
<1>1. ItemsOK'
  BY DEF TypeOK, ItemsOK, RefFree
<1>2. Frame(b, "clear", "ref") \in AnyFrame
  BY DEF Frame, AnyFrame, CleanupFrame
<1>3. FramesOK
  BY DEF TypeOK, FramesOK, AnyFrame
<1>4. FramesOK'
  <2>1. CASE frames' = frames BY <1>3, <2>1 DEF FramesOK
  <2>2. CASE frames' = Pushed(t, Frame(b, "clear", "ref"))
             /\ Len(frames[t]) < MaxFrames
    BY <1>2, <1>3, <2>2, Push
  <2> QED BY <2>1, <2>2 DEF RefFree
<1> QED BY <1>1, <1>4 DEF TypeOK, RefFree

Lists == {"free", "current", "locked", "deleted", "loose"}
RestOK ==
    /\ program \in Programs
    /\ list \in [Block -> Lists]
    /\ locked \in [Block -> 0..MaxLocked]
    /\ used \in [Block -> BOOLEAN]
    /\ delete \subseteq Block
    /\ objects \subseteq Block
    /\ destroyed \in [Block -> Nat]
    /\ unswept \subseteq Block
    /\ s_uUsedFlag \in BOOLEAN
    /\ s_bCollecting \in BOOLEAN
    /\ inside \subseteq Thread
    /\ stopper \in Thread \cup {NoThread}

LEMMA Parts == TypeOK <=> ItemsOK /\ FramesOK /\ RestOK
BY DEF TypeOK, ItemsOK, FramesOK, RestOK, AnyFrame, Lists

LEMMA PartsPrime == TypeOK' <=> ItemsOK' /\ FramesOK' /\ RestOK'
BY DEF TypeOK, ItemsOK, FramesOK, RestOK, AnyFrame, Lists

LEMMA SelfHolds == \A b \in Block : b \in Holder
BY DEF Holder

LEMMA CodeHolds == CCode \in Holder /\ Statics \in Holder
BY DEF Holder

\* What a thread can read or write are holders.
LEMMA Reads ==
  ASSUME TypeOK, NEW t \in Thread
  PROVE  /\ Readable(t) \subseteq Holder /\ Writable(t) \subseteq Holder
         /\ Level(t) \in Holder
<1>1. Level(t) \in Holder
  BY Parts, LevelHolds
<1> QED
  BY <1>1, SelfHolds, CodeHolds, Parts DEF Readable, Writable, ItemsOK

\* The references and counters of a new block.
LEMMA AllocateTypes ==
  ASSUME ItemsOK, NEW b \in Block, NEW h \in Holder, NEW l, NEW n,
         NEW contents \in SUBSET Block, Allocate(b, l, n, h, contents)
  PROVE  ItemsOK'
<1>1. refs' \in [Holder -> SUBSET Block]
  BY SelfHolds DEF Allocate, ItemsOK
<1>2. counter' \in [Block -> Int]
  <2>1. \A c \in Block :
          (IF c = b THEN 1 ELSE counter[c] + (IF c \in contents THEN 1 ELSE 0))
             \in Int
    BY DEF ItemsOK
  <2> QED BY <2>1 DEF Allocate
<1> QED BY <1>1, <1>2 DEF ItemsOK

\* Steps of items keep the types.
LEMMA ItemsTypes ==
  ASSUME TypeOK, NEW t \in Thread, Items(t)
  PROVE  TypeOK'
<1> USE Parts, PartsPrime
<1> USE DEF blocks, class, collection, world
<1>0. ItemsOK /\ FramesOK /\ RestOK
  OBVIOUS
<1>1. ASSUME NEW b \in Block, NEW from \in Holder, NEW to \in Holder,
             Copy(t, from, to, b)
      PROVE  TypeOK'
  <2>1. ItemsOK' BY <1>0, <1>1 DEF Copy, ItemsOK
  <2>2. FramesOK' BY <1>0, <1>1 DEF Copy, FramesOK
  <2>3. RestOK' BY <1>0, <1>1 DEF Copy, RestOK
  <2> QED BY <2>1, <2>2, <2>3
<1>2. ASSUME NEW b \in Block, NEW h \in Holder, Clear(t, h, b)
      PROVE  TypeOK'
  <2>1. ItemsOK' /\ FramesOK' /\ delete' \subseteq Block
    BY <1>2, RefFreeTypes DEF Clear
  <2>2. RestOK' BY <1>0, <1>2, <2>1 DEF Clear, RestOK
  <2> QED BY <2>1, <2>2
<1>3. ASSUME NEW b \in Block, New(t, b)
      PROVE  TypeOK'
  <2>1. ItemsOK' BY <1>0, <1>3, AllocateTypes, Reads DEF New
  <2>2. FramesOK' BY <1>0, <1>3 DEF New, FramesOK
  <2>3. RestOK'
    BY <1>0, <1>3, BoundAssumption DEF New, Allocate, RestOK, Lists
  <2> QED BY <2>1, <2>2, <2>3
<1>4. ASSUME NEW b \in Block, DropGrip(t, b)
      PROVE  TypeOK'
  <2>1. ItemsOK' /\ FramesOK' /\ delete' \subseteq Block
    BY <1>4, RefFreeTypes, CodeHolds DEF DropGrip
  <2>2. RestOK' BY <1>0, <1>4, <2>1 DEF DropGrip, RestOK
  <2> QED BY <2>1, <2>2
<1>5. ASSUME NEW b \in Block, Attach(t, b)
      PROVE  TypeOK'
  <2>1. ItemsOK' BY <1>0, <1>5 DEF Attach, ItemsOK
  <2>2. FramesOK' BY <1>0, <1>5 DEF Attach, FramesOK
  <2>3. RestOK' BY <1>0, <1>5, BoundAssumption DEF Attach, Unlock, RestOK, Lists
  <2> QED BY <2>1, <2>2, <2>3
<1>6. ASSUME NEW b \in Block, NEW contents \in SUBSET Block,
             Grip(t, b, contents)
      PROVE  TypeOK'
  <2>1. ItemsOK' BY <1>0, <1>6, AllocateTypes, CodeHolds DEF Grip
  <2>2. FramesOK' BY <1>0, <1>6 DEF Grip, FramesOK
  <2>3. RestOK'
    BY <1>0, <1>6, BoundAssumption DEF Grip, Allocate, RestOK, Lists
  <2> QED BY <2>1, <2>2, <2>3
<1>7. ASSUME NEW b \in Block, LockBlock(t, b)
      PROVE  TypeOK'
  <2>1. ItemsOK' BY <1>0, <1>7 DEF LockBlock, ItemsOK
  <2>2. FramesOK' BY <1>0, <1>7 DEF LockBlock, FramesOK
  <2>3. RestOK' BY <1>0, <1>7, BoundAssumption DEF LockBlock, RestOK, Lists
  <2> QED BY <2>1, <2>2, <2>3
<1>8. ASSUME NEW b \in Block, UnlockBlock(t, b)
      PROVE  TypeOK'
  <2>1. ItemsOK' BY <1>0, <1>8 DEF UnlockBlock, ItemsOK
  <2>2. FramesOK' BY <1>0, <1>8 DEF UnlockBlock, FramesOK
  <2>3. RestOK'
    BY <1>0, <1>8, BoundAssumption DEF UnlockBlock, Unlock, RestOK, Lists
  <2> QED BY <2>1, <2>2, <2>3
<1> QED
  BY <1>1, <1>2, <1>3, <1>4, <1>5, <1>6, <1>7, <1>8 DEF Items

\* The types of what is not an item or a frame, when block b is freed or
\* linked.
LEMMA ListTypes ==
  ASSUME RestOK, NEW b \in Block, NEW l \in Lists,
         list' = [list EXCEPT ![b] = l],
         locked' = locked \/ locked' = [locked EXCEPT ![b] = 0],
         delete' \subseteq delete, objects' \subseteq objects
  PROVE  /\ list' \in [Block -> Lists]
         /\ locked' \in [Block -> 0..MaxLocked]
         /\ delete' \subseteq Block
         /\ objects' \subseteq Block
<1>1. list' \in [Block -> Lists]
  BY DEF RestOK
<1>2. locked' \in [Block -> 0..MaxLocked]
  BY BoundAssumption DEF RestOK
<1> QED BY <1>1, <1>2 DEF RestOK

\* So do those of cleanup functions ...
LEMMA CleanupTypes ==
  ASSUME TypeOK, NEW t \in Thread, Cleanup(t)
  PROVE  TypeOK'
<1> USE DEF blocks, class, collection, world
<1>0. ItemsOK /\ FramesOK /\ RestOK
  BY Parts
<1>a. /\ "clear" \in Stages /\ "dtor" \in Stages /\ "items" \in Stages
      /\ "keep" \in Stages /\ "link" \in Stages
  BY DEF Stages
<1>1. CASE CallCleanup(t)
  <2>1. /\ Top(t).block \in Block /\ At(t, "clear")
        /\ Level(t) \in Holder
    BY <1>0, <1>a, <1>1, TopFrame DEF CallCleanup
  <2>2. ItemsOK' BY <1>0, <1>1, <2>1 DEF CallCleanup, ItemsOK
  <2>3. FramesOK' BY <1>0, <1>a, <1>1, Stage DEF CallCleanup
  <2>4. RestOK' BY <1>0, <1>1, <2>1 DEF CallCleanup, RestOK
  <2> QED BY <2>2, <2>3, <2>4, PartsPrime
<1>2. CASE Return(t)
  <2>1. Top(t).block \in Block /\ At(t, "dtor") /\ Level(t) \in Holder
    BY <1>0, <1>a, <1>2, TopFrame DEF Return
  <2>2. ItemsOK' BY <1>0, <1>2, <2>1 DEF Return, ItemsOK
  <2>3. FramesOK' BY <1>0, <1>a, <1>2, Stage DEF Return
  <2>4. RestOK' BY <1>0, <1>2, <2>1 DEF Return, LoseClass, RestOK
  <2> QED BY <2>2, <2>3, <2>4, PartsPrime
<1>3. CASE FreeBlock(t)
  <2>1. Top(t).block \in Block /\ At(t, "items") /\ frames[t] # <<>>
    BY <1>0, <1>a, <1>3, TopFrame DEF FreeBlock, At
  <2>2. ItemsOK' BY <1>0, <1>3, <2>1 DEF FreeBlock, Free, ItemsOK
  <2>3. FramesOK' BY <1>0, <1>a, <1>3, <2>1, Stage, Pop DEF FreeBlock
  <2>4. RestOK'
    <3>1. CASE UNCHANGED <<list, refs, delete, locked, objects>>
      BY <1>0, <1>3, <3>1 DEF FreeBlock, RestOK
    <3>2. CASE Free(Top(t).block)
      <4>1. /\ list' \in [Block -> Lists] /\ locked' \in [Block -> 0..MaxLocked]
            /\ delete' \subseteq Block /\ objects' \subseteq Block
        BY <1>0, <2>1, <3>2, ListTypes DEF Free, Lists
      <4> QED BY <1>0, <1>3, <4>1 DEF FreeBlock, RestOK
    <3> QED BY <1>3, <3>1, <3>2 DEF FreeBlock
  <2> QED BY <2>2, <2>3, <2>4, PartsPrime
<1>4. CASE KeepBlock(t)
  <2>1. At(t, "keep") /\ frames[t] # <<>>
    BY <1>4 DEF KeepBlock, At
  <2>2. ItemsOK' BY <1>0, <1>4 DEF KeepBlock, ItemsOK
  <2>3. FramesOK' BY <1>0, <1>4, <2>1, Pop DEF KeepBlock
  <2>4. RestOK' BY <1>0, <1>4 DEF KeepBlock, RestOK
  <2> QED BY <2>2, <2>3, <2>4, PartsPrime
<1>5. ASSUME NEW c \in Block, ReleaseItem(t, c)
      PROVE  TypeOK'
  <2>1. Top(t).block \in Holder
    BY <1>0, <1>a, <1>5, TopFrame, SelfHolds DEF ReleaseItem
  <2>2. ItemsOK' /\ FramesOK' /\ delete' \subseteq Block
    BY <1>5, <2>1, RefFreeTypes DEF ReleaseItem
  <2>3. RestOK' BY <1>0, <1>5, <2>2 DEF ReleaseItem, RestOK
  <2> QED BY <2>2, <2>3, PartsPrime
<1> QED
  BY <1>1, <1>2, <1>3, <1>4, <1>5 DEF Cleanup

\* ... of the collector ...
LEMMA CollectorTypes ==
  ASSUME TypeOK, NEW t \in Thread, Collector(t)
  PROVE  TypeOK'
<1> USE DEF blocks, class, collection, world
<1>0. ItemsOK /\ FramesOK /\ RestOK
  BY Parts
<1>a. /\ "clear" \in Stages /\ "dtor" \in Stages /\ "items" \in Stages
      /\ "keep" \in Stages /\ "link" \in Stages
  BY DEF Stages
<1>1. CASE Suspend(t)
  <2>1. ItemsOK' BY <1>0, <1>1 DEF Suspend, ItemsOK
  <2>2. FramesOK' BY <1>0, <1>1 DEF Suspend, FramesOK
  <2>3. RestOK' BY <1>0, <1>1 DEF Suspend, World!Ask, RestOK
  <2> QED BY <2>1, <2>2, <2>3, PartsPrime
<1>2. CASE Granted(t)
  <2>1. ItemsOK' BY <1>0, <1>2 DEF Granted, ItemsOK
  <2>2. FramesOK' BY <1>0, <1>2 DEF Granted, FramesOK
  <2>3. RestOK' BY <1>0, <1>2 DEF Granted, World!Grant, RestOK
  <2> QED BY <2>1, <2>2, <2>3, PartsPrime
<1>3. CASE Collect(t)
  <2>1. ItemsOK' BY <1>0, <1>3 DEF Collect, ItemsOK
  <2>2. Frame(NoBlock, "final", "all") \in AnyFrame
    BY DEF Frame, AnyFrame, CollectFrame
  <2>3. FramesOK' BY <1>0, <1>3, <2>2, Push DEF Collect
  <2>4. Swept \subseteq Block /\ Marked \subseteq Block
    BY DEF Swept, Unmet, Marked, Reached
  <2>5. /\ used' \in [Block -> BOOLEAN] /\ list' \in [Block -> Lists]
        /\ delete' \subseteq Block /\ unswept' \subseteq Block
    <3> HIDE DEF Swept, Marked
    <3> QED BY <1>0, <1>3, <2>4 DEF Collect, RestOK, Lists
  <2>6. RestOK' BY <1>0, <1>3, <2>5 DEF Collect, World!Resume, RestOK
  <2> QED BY <2>1, <2>3, <2>6, PartsPrime
<1>4. CASE CollectNothing(t)
  <2>1. ItemsOK' BY <1>0, <1>4 DEF CollectNothing, ItemsOK
  <2>2. FramesOK' BY <1>0, <1>4 DEF CollectNothing, FramesOK
  <2>3. RestOK' BY <1>0, <1>4 DEF CollectNothing, World!Resume, RestOK
  <2> QED BY <2>1, <2>2, <2>3, PartsPrime
<1>5. ASSUME NEW b \in Block, ClearDeleted(t, b)
      PROVE  TypeOK'
  <2>1. ItemsOK' BY <1>0, <1>5 DEF ClearDeleted, ItemsOK
  <2>2. Frame(b, "clear", "gc") \in AnyFrame
    BY DEF Frame, AnyFrame, CleanupFrame
  <2>3. FramesOK' BY <1>0, <1>5, <2>2, Push DEF ClearDeleted
  <2>4. RestOK' BY <1>0, <1>5 DEF ClearDeleted, RestOK
  <2> QED BY <2>1, <2>3, <2>4, PartsPrime
<1>6. ASSUME NEW b \in Block, FreeDeleted(t, b)
      PROVE  TypeOK'
  <2>1. ItemsOK' BY <1>0, <1>6, SelfHolds DEF FreeDeleted, Free, ItemsOK
  <2>2. Frame(b, "keep", "all") \in AnyFrame
    BY DEF Frame, AnyFrame, CleanupFrame
  <2>3. FramesOK'
    <3>1. CASE frames' = frames BY <1>0, <3>1 DEF FramesOK
    <3>2. CASE frames' # frames
      BY <1>0, <1>6, <2>2, <3>2, Push DEF FreeDeleted
    <3> QED BY <3>1, <3>2
  <2>4. RestOK'
    <3>1. /\ list' \in [Block -> Lists] /\ locked' \in [Block -> 0..MaxLocked]
          /\ delete' \subseteq Block /\ objects' \subseteq Block
      <4>1. CASE Free(b)
        BY <1>0, <4>1, ListTypes DEF Free, Lists
      <4>2. CASE /\ list' = [list EXCEPT ![b] = "loose"]
                 /\ UNCHANGED <<refs, delete, locked, objects>>
        BY <1>0, <4>2, ListTypes DEF Lists
      <4> QED BY <1>6, <4>1, <4>2 DEF FreeDeleted
    <3> QED BY <1>0, <1>6, <3>1 DEF FreeDeleted, RestOK
  <2> QED BY <2>1, <2>3, <2>4, PartsPrime
<1>7. CASE Cleared(t)
  <2>1. ItemsOK' BY <1>0, <1>7 DEF Cleared, ItemsOK
  <2>2. FramesOK' BY <1>0, <1>7, Pop DEF Cleared, At
  <2>3. RestOK' BY <1>0, <1>7 DEF Cleared, RestOK
  <2> QED BY <2>1, <2>2, <2>3, PartsPrime
<1>8. CASE KeepDeleted(t)
  <2>1. ItemsOK' BY <1>0, <1>8 DEF KeepDeleted, ItemsOK
  <2>2. FramesOK' BY <1>0, <1>a, <1>8, Stage DEF KeepDeleted
  <2>3. RestOK'
    <3>1. Top(t).block \in Block
      BY <1>0, <1>a, <1>8, TopFrame DEF KeepDeleted
    <3>2. locked' \in [Block -> 0..MaxLocked] /\ used' \in [Block -> BOOLEAN]
      BY <1>0, <1>8, <3>1, BoundAssumption DEF KeepDeleted, RestOK
    <3> QED BY <1>0, <1>8, <3>2 DEF KeepDeleted, RestOK
  <2> QED BY <2>1, <2>2, <2>3, PartsPrime
<1>9. CASE LinkDeleted(t)
  <2>1. ItemsOK' BY <1>0, <1>9 DEF LinkDeleted, ItemsOK
  <2>2. FramesOK' BY <1>0, <1>9, Pop DEF LinkDeleted, At
  <2>3. RestOK' BY <1>0, <1>9 DEF LinkDeleted, RestOK, Lists
  <2> QED BY <2>1, <2>2, <2>3, PartsPrime
<1>10. CASE Collected(t)
  <2>1. ItemsOK' BY <1>0, <1>10 DEF Collected, ItemsOK
  <2>2. FramesOK' BY <1>0, <1>10, Pop DEF Collected, At
  <2>3. RestOK' BY <1>0, <1>10 DEF Collected, RestOK
  <2> QED BY <2>1, <2>2, <2>3, PartsPrime
<1> QED
  BY <1>1, <1>2, <1>3, <1>4, <1>5, <1>6, <1>7, <1>8, <1>9, <1>10 DEF Collector

\* ... and all others.
LEMMA TypeKept ==
  ASSUME TypeOK, [Next]_vars
  PROVE  TypeOK'
<1>1. ASSUME NEW t \in Thread, Leave(t) PROVE TypeOK'
  BY <1>1 DEF Leave, World!Leave, TypeOK, blocks, class, collection
<1>2. ASSUME NEW t \in Thread, Enter(t) PROVE TypeOK'
  BY <1>2 DEF Enter, World!Enter, TypeOK, blocks, class, collection
<1>3. CASE UNCHANGED vars
  BY <1>3 DEF vars, blocks, class, collection, world, TypeOK
<1> QED
  BY <1>1, <1>2, <1>3, ItemsTypes, CleanupTypes, CollectorTypes DEF Next

LEMMA TypeInit == Init => TypeOK
<1> SUFFICES ASSUME Init PROVE TypeOK
  OBVIOUS
<1>1. ItemsOK BY DEF Init, ItemsOK
<1>2. FramesOK
  <2>1. <<>> \in Seq(AnyFrame) /\ Len(<<>>) <= MaxFrames
    BY BoundAssumption
  <2> QED BY <2>1 DEF Init, FramesOK
<1>3. inside \subseteq Thread
  BY ProgramAssumption DEF Init
<1>4. RestOK
  <2>1. locked \in [Block -> 0..MaxLocked]
    BY BoundAssumption DEF Init
  <2> QED BY <1>3, <2>1 DEF Init, RestOK, Lists
<1> QED BY <1>1, <1>2, <1>4, Parts

\* Every variable keeps its type: no lock counter leaves its range, and cleanup
\* functions do not nest beyond what the model provides for.
THEOREM TypeCorrect == Spec => []TypeOK
BY TypeInit, TypeKept, PTL DEF Spec

-----------------------------------------------------------------------------
(* Who works on a block.                                                   *)
(*                                                                         *)
(* hb_gcRefFree() and the collector mark a block before they start to      *)
(* clear it, and leave marked blocks alone, so that at most one cleanup    *)
(* function works on a block, and no one frees it meanwhile.  The stale    *)
(* pointer of a collector that is about to link a block that another       *)
(* thread has freed (see NoDanglingCall) is no exception: it is not used   *)
(* to clear the block.                                                     *)

Here(t, i) == t \in Thread /\ i \in 1..Len(frames[t])
FinalAt(t, i) == Here(t, i) /\ frames[t][i].stage = "final"
Works(t, i, b) ==
    /\ Here(t, i)
    /\ frames[t][i].block = b
    /\ frames[t][i].stage \in {"clear", "dtor", "items", "keep"}

\* There is one collection at a time.
OneCollector ==
    /\ \A t, u \in Thread, i, j \in Nat :
          FinalAt(t, i) /\ FinalAt(u, j) => t = u /\ i = j
    /\ \A t \in Thread, i \in Nat : FinalAt(t, i) => s_bCollecting

\* What the collector calls runs above it.
AboveCollector ==
    \A t \in Thread, i \in Nat :
        Here(t, i) /\ frames[t][i].by # "ref" /\ frames[t][i].stage # "final"
            => FinalAt(t, i - 1)

\* One function at most works on a block, which is marked then.
OneWorker ==
    \A b \in Block :
        /\ \A t, u \in Thread, i, j \in Nat :
              Works(t, i, b) /\ Works(u, j, b) => t = u /\ i = j
        /\ \A t \in Thread, i \in Nat :
              Works(t, i, b) => b \in delete /\ b \notin unswept

\* Marked blocks are allocated, and all blocks to be cleared are marked.
Marking ==
    \A b \in Block :
        /\ b \in delete => list[b] # "free"
        /\ b \in unswept => b \in delete
        /\ list[b] = "deleted" => b \in delete

\* Where the blocks are on which functions work.
Places ==
    \A b \in Block : \A t \in Thread, i \in Nat :
        Works(t, i, b) =>
            /\ frames[t][i].by = "ref" => list[b] # "deleted"
            /\ frames[t][i].by = "all" => list[b] = "loose"

\* The class of an object goes when its destructor has been called.
Class ==
    \A b \in Block :
        /\ destroyed[b] <= 1
        /\ b \in objects /\ destroyed[b] # 0 =>
              \E t \in Thread, i \in Nat :
                 Works(t, i, b) /\ frames[t][i].stage = "dtor"

Work == OneCollector /\ AboveCollector /\ OneWorker /\ Marking /\ Places /\ Class
Safe == TypeOK /\ Work /\ CountCovers /\ NoDanglingItem

\* The frames of a thread after a call ...
LEMMA PushFacts ==
  ASSUME FramesOK, NEW t \in Thread, NEW f \in AnyFrame, frames' = Pushed(t, f)
  PROVE  LET n == Len(frames[t]) IN
         /\ n \in Nat
         /\ \A u \in Thread, i \in Nat :
               Here(u, i)' <=> Here(u, i) \/ (u = t /\ i = n + 1)
         /\ \A u \in Thread, i \in Nat :
               Here(u, i) => frames'[u][i] = frames[u][i]
         /\ ~Here(t, n + 1)
         /\ frames'[t][n + 1] = f
<1>1. frames' = [frames EXCEPT ![t] = Append(frames[t], f)]
  BY DEF Pushed
<1>2. /\ Append(frames[t], f) \in Seq(AnyFrame)
      /\ Len(frames[t]) \in Nat
      /\ Len(Append(frames[t], f)) = Len(frames[t]) + 1
      /\ \A i \in 1..Len(frames[t]) : Append(frames[t], f)[i] = frames[t][i]
      /\ Append(frames[t], f)[Len(frames[t]) + 1] = f
  BY AppendProperties DEF FramesOK
<1> QED
  BY <1>1, <1>2 DEF Here, FramesOK

\* ... after a return ...
LEMMA PopFacts ==
  ASSUME FramesOK, NEW t \in Thread, frames[t] # <<>>, frames' = Popped(t)
  PROVE  LET n == Len(frames[t]) IN
         /\ n \in Nat /\ Here(t, n)
         /\ \A u \in Thread, i \in Nat :
               Here(u, i)' <=> Here(u, i) /\ ~(u = t /\ i = n)
         /\ \A u \in Thread, i \in Nat :
               Here(u, i)' => frames'[u][i] = frames[u][i]
<1> DEFINE q == frames[t]
           r == SubSeq(q, 1, Len(q) - 1)
<1>1. q \in Seq(AnyFrame) /\ Len(q) \in Nat \ {0}
  BY DEF FramesOK
<1>2. /\ r \in Seq(AnyFrame) /\ Len(r) = Len(q) - 1
      /\ \A i \in 1..(Len(q) - 1) : r[i] = q[i]
  BY <1>1, SubSeqProperties
<1>3. frames' = [frames EXCEPT ![t] = r]
  BY DEF Popped
<1> HIDE DEF r
<1>4. /\ frames'[t] = r
      /\ \A u \in Thread : u # t => frames'[u] = frames[u]
  BY <1>3 DEF FramesOK
<1> QED
  BY <1>1, <1>2, <1>4 DEF Here

\* ... and after a change of stage.
LEMMA StageFacts ==
  ASSUME FramesOK, NEW t \in Thread, NEW s \in Stages, At(t, s),
         NEW new \in Stages, frames' = Staged(t, new)
  PROVE  LET n == Len(frames[t]) IN
         /\ n \in Nat /\ Here(t, n)
         /\ \A u \in Thread, i \in Nat :
               /\ Here(u, i)' <=> Here(u, i)
               /\ Here(u, i) /\ ~(u = t /\ i = n)
                     => frames'[u][i] = frames[u][i]
         /\ frames'[t][n].stage = new
         /\ frames'[t][n].block = frames[t][n].block
         /\ frames'[t][n].by = frames[t][n].by
<1> DEFINE q == frames[t]
           n == Len(q)
           f == [q[n] EXCEPT !.stage = new]
           r == [q EXCEPT ![n].stage = new]
<1>1. q \in Seq(AnyFrame) /\ n \in Nat \ {0} /\ q[n] \in CleanupFrame
  BY TopFrame DEF FramesOK, Top
<1>2. /\ f.stage = new /\ f.block = q[n].block /\ f.by = q[n].by
      /\ f \in AnyFrame
  BY <1>1 DEF CleanupFrame, AnyFrame, Stages
<1>3. /\ r \in Seq(AnyFrame) /\ Len(r) = n /\ r[n] = f
      /\ \A i \in 1..n : i # n => r[i] = q[i]
  BY <1>1, <1>2
<1>4. frames' = [frames EXCEPT ![t] = r]
  BY DEF Staged
<1> HIDE DEF r, f
<1>5. /\ frames'[t] = r
      /\ \A u \in Thread : u # t => frames'[u] = frames[u]
  BY <1>4 DEF FramesOK
<1> QED
  BY <1>1, <1>2, <1>3, <1>5 DEF Here

\* The frame on top.
LEMMA AtTop ==
  ASSUME FramesOK, NEW t \in Thread, NEW s, At(t, s)
  PROVE  /\ Len(frames[t]) \in Nat
         /\ Here(t, Len(frames[t]))
         /\ Top(t) = frames[t][Len(frames[t])]
         /\ frames[t][Len(frames[t])].stage = s
         /\ frames[t] # <<>>
BY DEF FramesOK, At, Top, Here

-----------------------------------------------------------------------------
(* Work is kept.                                                           *)

\* By steps that leave frames and marks alone: a block may change its list if
\* it is not marked, and lose its class.
LEMMA WorkSame ==
  ASSUME TypeOK, Work,
         UNCHANGED <<frames, delete, unswept, s_bCollecting>>,
         \A b \in Block : list'[b] = list[b]
                         \/ (b \notin delete /\ list'[b] # "deleted"),
         \A b \in Block : destroyed'[b] = 0 \/
             (destroyed'[b] = destroyed[b] /\ (b \in objects' => b \in objects))
  PROVE  Work'
<1> USE DEF Here, FinalAt, Works, Work
<1>1. OneCollector' BY DEF OneCollector
<1>2. AboveCollector' BY DEF AboveCollector
<1>3. OneWorker' BY DEF OneWorker
<1>4. Marking' BY DEF Marking
<1>5. Places' BY DEF Places, OneWorker
<1>6. Class' BY DEF Class
<1> QED BY <1>1, <1>2, <1>3, <1>4, <1>5, <1>6

\* By a call that is going to clear or keep a block on which nobody works.
LEMMA WorkPush ==
  ASSUME TypeOK, Work, NEW t \in Thread, NEW b \in Block,
         NEW s \in {"clear", "keep"}, NEW k \in {"ref", "gc", "all"},
         frames' = Pushed(t, Frame(b, s, k)),
         \A u \in Thread, i \in Nat : ~Works(u, i, b),
         k # "ref" => At(t, "final"),
         delete' = delete \cup {b},
         list[b] # "free",
         list'[b] # "free",
         k = "ref" => list'[b] # "deleted",
         k = "all" => list'[b] = "loose",
         \A c \in Block \ {b} : list'[c] = list[c],
         b \notin unswept', unswept' \subseteq unswept,
         UNCHANGED <<objects, destroyed, s_bCollecting>>
  PROVE  Work'
<1> DEFINE n == Len(frames[t])
           f == Frame(b, s, k)
<1>1. FramesOK BY Parts
<1>2. f \in AnyFrame /\ f.block = b /\ f.stage = s /\ f.by = k
  BY DEF Frame, AnyFrame, CleanupFrame
<1>3. /\ n \in Nat
      /\ \A u \in Thread, i \in Nat :
            Here(u, i)' <=> Here(u, i) \/ (u = t /\ i = n + 1)
      /\ \A u \in Thread, i \in Nat :
            Here(u, i) => frames'[u][i] = frames[u][i]
      /\ ~Here(t, n + 1)
      /\ frames'[t][n + 1] = f
  BY <1>1, <1>2, PushFacts
<1>4. \A u \in Thread, i \in Nat : FinalAt(u, i)' <=> FinalAt(u, i)
  BY <1>2, <1>3 DEF FinalAt
<1>5. \A u \in Thread, i \in Nat, c \in Block :
         Works(u, i, c)' <=> Works(u, i, c) \/ (u = t /\ i = n + 1 /\ c = b)
  BY <1>2, <1>3 DEF Works
<1>6. k # "ref" => FinalAt(t, n)
  BY <1>1, AtTop DEF FinalAt
<1>7. OneCollector' BY <1>4 DEF OneCollector, Work
<1>8. AboveCollector'
  <2> SUFFICES ASSUME NEW u \in Thread, NEW i \in Nat, Here(u, i)',
                      frames'[u][i].by # "ref", frames'[u][i].stage # "final"
               PROVE  FinalAt(u, i - 1)'
    BY DEF AboveCollector
  <2>1. i - 1 \in Nat
    BY DEF Here
  <2>2. CASE Here(u, i)
    BY <1>3, <1>4, <2>1, <2>2 DEF AboveCollector, Work
  <2>3. CASE u = t /\ i = n + 1
    <3>1. FinalAt(t, n) BY <1>2, <1>3, <1>6, <2>3
    <3>2. n = i - 1 BY <1>3, <2>3
    <3> QED BY <1>4, <2>1, <2>3, <3>1, <3>2
  <2> QED BY <1>3, <2>2, <2>3
<1>9. OneWorker' BY <1>5 DEF OneWorker, Work
<1>10. Marking' BY DEF Marking, Work
<1>11. Places'
  <2> SUFFICES ASSUME NEW c \in Block, NEW u \in Thread, NEW i \in Nat,
                      Works(u, i, c)'
               PROVE  /\ frames'[u][i].by = "ref" => list'[c] # "deleted"
                      /\ frames'[u][i].by = "all" => list'[c] = "loose"
    BY DEF Places
  <2>1. CASE u = t /\ i = n + 1 /\ c = b
    BY <1>2, <1>3, <2>1
  <2>2. CASE Works(u, i, c)
    <3>1. c # b /\ frames'[u][i] = frames[u][i]
      BY <1>3, <2>2 DEF Works
    <3> QED BY <2>2, <3>1 DEF Places, Work
  <2> QED BY <1>5, <2>1, <2>2
<1>12. Class'
  <2> SUFFICES ASSUME NEW c \in Block, c \in objects, destroyed[c] # 0
               PROVE  \E u \in Thread, i \in Nat :
                         Works(u, i, c)' /\ frames'[u][i].stage = "dtor"
    BY DEF Class, Work
  <2>1. PICK u \in Thread, i \in Nat :
           Works(u, i, c) /\ frames[u][i].stage = "dtor"
    BY DEF Class, Work
  <2> QED BY <1>3, <1>5, <2>1 DEF Works
<1> QED BY <1>7, <1>8, <1>9, <1>10, <1>11, <1>12 DEF Work

\* By a return.
LEMMA WorkPop ==
  ASSUME TypeOK, Work, NEW t \in Thread, NEW s, At(t, s), s # "dtor",
         frames' = Popped(t),
         s # "final",
         delete' \subseteq delete,
         \A c \in Block : c \in delete \ delete' =>
                             Works(t, Len(frames[t]), c) /\ list'[c] # "deleted",
         \A c \in Block :
            \/ list'[c] = list[c]
            \/ Works(t, Len(frames[t]), c) /\ c \notin delete'
            \/ s = "link" /\ Top(t).by # "ref" /\ list'[c] = "current",
         objects' \subseteq objects,
         UNCHANGED <<destroyed, unswept, s_bCollecting>>
  PROVE  Work'
<1> DEFINE n == Len(frames[t])
<1>1. FramesOK BY Parts
<1>2. /\ n \in Nat /\ Here(t, n)
      /\ \A u \in Thread, i \in Nat :
            Here(u, i)' <=> Here(u, i) /\ ~(u = t /\ i = n)
      /\ \A u \in Thread, i \in Nat :
            Here(u, i)' => frames'[u][i] = frames[u][i]
  BY <1>1, PopFacts DEF At
<1>3. Top(t) = frames[t][n] /\ frames[t][n].stage = s
  BY <1>1, AtTop
<1> HIDE DEF n
<1>4. \A u \in Thread, i \in Nat : FinalAt(u, i)' <=> FinalAt(u, i)
  BY <1>2, <1>3 DEF FinalAt
<1>5. \A u \in Thread, i \in Nat, c \in Block :
         Works(u, i, c)' <=> Works(u, i, c) /\ ~(u = t /\ i = n)
  BY <1>2, <1>3 DEF Works
<1>7. OneCollector' BY <1>4 DEF OneCollector, Work
<1>8. AboveCollector'
  <2> SUFFICES ASSUME NEW u \in Thread, NEW i \in Nat, Here(u, i)',
                      frames'[u][i].by # "ref", frames'[u][i].stage # "final"
               PROVE  FinalAt(u, i - 1)'
    BY DEF AboveCollector
  <2>1. i - 1 \in Nat
    BY DEF Here
  <2> QED BY <1>2, <1>4, <2>1 DEF AboveCollector, Work
<1>9. OneWorker' BY <1>5 DEF OneWorker, Work, n
<1>10. Marking' BY DEF Marking, OneWorker, Work
<1>11. Places'
  <2> SUFFICES ASSUME NEW c \in Block, NEW u \in Thread, NEW i \in Nat,
                      Works(u, i, c)'
               PROVE  /\ frames'[u][i].by = "ref" => list'[c] # "deleted"
                      /\ frames'[u][i].by = "all" => list'[c] = "loose"
    BY DEF Places
  <2>1. /\ Works(u, i, c) /\ ~(u = t /\ i = n)
        /\ frames'[u][i] = frames[u][i]
    BY <1>2, <1>5 DEF Works
  <2>2. ~Works(t, n, c)
    BY <1>2, <2>1 DEF OneWorker, Work
  <2>3. CASE list'[c] = list[c]
    BY <2>1, <2>3 DEF Places, Work
  <2>4. CASE s = "link" /\ Top(t).by # "ref" /\ list'[c] = "current"
    <3>1. FinalAt(t, n - 1)
      BY <1>2, <1>3, <2>4 DEF AboveCollector, Work
    <3>2. frames[u][i].by # "all"
      <4> SUFFICES ASSUME frames[u][i].by = "all" PROVE FALSE
        OBVIOUS
      <4>1. FinalAt(u, i - 1) /\ Here(u, i)
        BY <2>1 DEF AboveCollector, Work, Works
      <4>2. i - 1 \in Nat /\ n - 1 \in Nat
        BY <1>2, <4>1 DEF Here
      <4> QED BY <1>2, <2>1, <3>1, <4>1, <4>2 DEF OneCollector, Work
    <3> QED BY <2>1, <2>4, <3>2
  <2> QED BY <2>2, <2>3, <2>4 DEF n
<1>12. Class'
  <2> SUFFICES ASSUME NEW c \in Block, c \in objects', destroyed[c] # 0
               PROVE  \E u \in Thread, i \in Nat :
                         Works(u, i, c)' /\ frames'[u][i].stage = "dtor"
    BY DEF Class, Work
  <2>1. PICK u \in Thread, i \in Nat :
           Works(u, i, c) /\ frames[u][i].stage = "dtor"
    BY DEF Class, Work
  <2>2. ~(u = t /\ i = n)
    BY <1>3, <2>1
  <2> QED BY <1>2, <1>5, <2>1, <2>2 DEF Works
<1> QED BY <1>7, <1>8, <1>9, <1>10, <1>11, <1>12 DEF Work

\* By the progress of a cleanup function: the destructor is called for a block
\* that has a class, and has none when its items are released.
LEMMA WorkStage ==
  ASSUME TypeOK, Work, NEW t \in Thread,
         NEW s \in {"clear", "dtor", "items"}, At(t, s),
         NEW new \in {"dtor", "items", "keep"},
         frames' = Staged(t, new),
         UNCHANGED <<delete, list, unswept, s_bCollecting>>,
         \A c \in Block \ {Top(t).block} :
            destroyed'[c] = destroyed[c] /\ (c \in objects' => c \in objects),
         \/ /\ s = "clear" /\ new = "dtor"
            /\ Top(t).block \in objects
            /\ destroyed'[Top(t).block] = destroyed[Top(t).block] + 1
         \/ /\ new # "dtor"
            /\ destroyed'[Top(t).block] = destroyed[Top(t).block]
            /\ Top(t).block \notin objects'
         \/ /\ s = "items"
            /\ new = "keep"
            /\ destroyed'[Top(t).block] = destroyed[Top(t).block]
            /\ (Top(t).block \in objects' => Top(t).block \in objects)
  PROVE  Work'
<1> DEFINE n == Len(frames[t])
           b == Top(t).block
<1>0. s \in Stages /\ new \in Stages BY DEF Stages
<1>1. FramesOK BY Parts
<1>2. /\ n \in Nat /\ Here(t, n)
      /\ \A u \in Thread, i \in Nat :
            /\ Here(u, i)' <=> Here(u, i)
            /\ Here(u, i) /\ ~(u = t /\ i = n)
                  => frames'[u][i] = frames[u][i]
      /\ frames'[t][n].stage = new
      /\ frames'[t][n].block = frames[t][n].block
      /\ frames'[t][n].by = frames[t][n].by
  BY <1>0, <1>1, StageFacts
<1>3. /\ Top(t) = frames[t][n] /\ frames[t][n].stage = s
      /\ b \in Block /\ b = frames[t][n].block
  BY <1>0, <1>1, AtTop, TopFrame
<1> HIDE DEF n, b
<1>4. \A u \in Thread, i \in Nat : FinalAt(u, i)' <=> FinalAt(u, i)
  BY <1>2, <1>3 DEF FinalAt
<1>5. \A u \in Thread, i \in Nat, c \in Block :
         Works(u, i, c)' <=> Works(u, i, c)
  BY <1>2, <1>3 DEF Works
<1>6. \A u \in Thread, i \in Nat : Here(u, i) =>
         frames'[u][i].by = frames[u][i].by
  BY <1>2
<1>7. OneCollector' BY <1>4 DEF OneCollector, Work
<1>8. AboveCollector'
  <2> SUFFICES ASSUME NEW u \in Thread, NEW i \in Nat, Here(u, i)',
                      frames'[u][i].by # "ref", frames'[u][i].stage # "final"
               PROVE  FinalAt(u, i - 1)'
    BY DEF AboveCollector
  <2>1. i - 1 \in Nat
    BY DEF Here
  <2> QED BY <1>2, <1>3, <1>4, <1>6, <2>1 DEF AboveCollector, Work
<1>9. OneWorker' BY <1>5 DEF OneWorker, Work
<1>10. Marking' BY DEF Marking, Work
<1>11. Places'
  <2> SUFFICES ASSUME NEW c \in Block, NEW u \in Thread, NEW i \in Nat,
                      Works(u, i, c)
               PROVE  /\ frames'[u][i].by = "ref" => list'[c] # "deleted"
                      /\ frames'[u][i].by = "all" => list'[c] = "loose"
    BY <1>5 DEF Places
  <2> QED BY <1>6 DEF Works, Places, Work
<1>12. Works(t, n, b)
  BY <1>2, <1>3 DEF Works
<1>13. ASSUME NEW c \in Block
       PROVE  /\ destroyed'[c] <= 1
              /\ c \in objects' /\ destroyed'[c] # 0 =>
                   \E u \in Thread, i \in Nat :
                      Works(u, i, c)' /\ frames'[u][i].stage = "dtor"
  <2>1. CASE c # b
    <3>1. destroyed'[c] = destroyed[c] /\ (c \in objects' => c \in objects)
      BY <1>13, <2>1 DEF b
    <3> SUFFICES ASSUME c \in objects', destroyed'[c] # 0
                 PROVE  \E u \in Thread, i \in Nat :
                           Works(u, i, c)' /\ frames'[u][i].stage = "dtor"
      BY <3>1 DEF Class, Work
    <3>2. PICK u \in Thread, i \in Nat :
             Works(u, i, c) /\ frames[u][i].stage = "dtor"
      BY <3>1 DEF Class, Work
    <3>3. ~(u = t /\ i = n)
      BY <1>3, <2>1, <3>2 DEF Works
    <3> QED BY <1>2, <1>5, <3>2, <3>3 DEF Works
  <2>2. CASE c = b
    <3>1. \A u \in Thread, i \in Nat : Works(u, i, b) => u = t /\ i = n
      BY <1>2, <1>3, <1>12 DEF OneWorker, Work
    <3>2. CASE s # "dtor" /\ b \in objects
      <4>1. destroyed[b] = 0
        BY <1>3, <3>1, <3>2 DEF Class, Work
      <4> QED BY <1>2, <1>3, <1>5, <1>12, <2>2, <3>2, <4>1 DEF b
    <3>3. CASE b \notin objects
      BY <1>3, <2>2, <3>3 DEF Class, Work, b
    <3>4. CASE s = "dtor"
      BY <1>3, <2>2, <3>4 DEF Class, Work, b
    <3> QED BY <3>2, <3>3, <3>4
  <2> QED BY <2>1, <2>2
<1>14. Class' BY <1>13 DEF Class
<1> QED BY <1>7, <1>8, <1>9, <1>10, <1>11, <1>14 DEF Work

\* By hb_gcCollectAll() when it resets the flags of a block that it keeps.
LEMMA WorkLink ==
  ASSUME TypeOK, Work, NEW t \in Thread, At(t, "keep"), Top(t).by = "all",
         frames' = Staged(t, "link"), delete' = delete \ {Top(t).block},
         UNCHANGED <<list, unswept, s_bCollecting, objects, destroyed>>
  PROVE  Work'
<1> DEFINE n == Len(frames[t])
           b == Top(t).block
<1>0. "keep" \in Stages /\ "link" \in Stages BY DEF Stages
<1>1. FramesOK BY Parts
<1>2. /\ n \in Nat /\ Here(t, n)
      /\ \A u \in Thread, i \in Nat :
            /\ Here(u, i)' <=> Here(u, i)
            /\ Here(u, i) /\ ~(u = t /\ i = n)
                  => frames'[u][i] = frames[u][i]
      /\ frames'[t][n].stage = "link"
      /\ frames'[t][n].block = frames[t][n].block
      /\ frames'[t][n].by = frames[t][n].by
  BY <1>0, <1>1, StageFacts
<1>3. /\ Top(t) = frames[t][n] /\ frames[t][n].stage = "keep"
      /\ b \in Block /\ b = frames[t][n].block
  BY <1>0, <1>1, AtTop, TopFrame
<1> HIDE DEF n, b
<1>4. \A u \in Thread, i \in Nat : FinalAt(u, i)' <=> FinalAt(u, i)
  BY <1>2, <1>3 DEF FinalAt
<1>5. \A u \in Thread, i \in Nat, c \in Block :
         Works(u, i, c)' <=> Works(u, i, c) /\ ~(u = t /\ i = n)
  BY <1>2, <1>3 DEF Works
<1>6. Works(t, n, b)
  BY <1>2, <1>3 DEF Works
<1>7. /\ b \notin unswept /\ list[b] = "loose" /\ delete' = delete \ {b}
      /\ \A u \in Thread, i \in Nat : Works(u, i, b) => u = t /\ i = n
  <2>1. b \notin unswept
    BY <1>2, <1>3, <1>6 DEF OneWorker, Work
  <2>2. list[b] = "loose"
    BY <1>2, <1>3, <1>6 DEF Places, Work
  <2>3. \A u \in Thread, i \in Nat : Works(u, i, b) => u = t /\ i = n
    BY <1>2, <1>3, <1>6 DEF OneWorker, Work
  <2> QED BY <2>1, <2>2, <2>3 DEF b
<1>8. OneCollector' BY <1>4 DEF OneCollector, Work
<1>9. AboveCollector'
  <2> SUFFICES ASSUME NEW u \in Thread, NEW i \in Nat, Here(u, i)',
                      frames'[u][i].by # "ref", frames'[u][i].stage # "final"
               PROVE  FinalAt(u, i - 1)'
    BY DEF AboveCollector
  <2>1. i - 1 \in Nat
    BY DEF Here
  <2> QED BY <1>2, <1>3, <1>4, <2>1 DEF AboveCollector, Work
<1>10. OneWorker' BY <1>5, <1>7 DEF OneWorker, Work
<1>11. Marking' BY <1>7 DEF Marking, Work
<1>12. Places'
  <2> SUFFICES ASSUME NEW c \in Block, NEW u \in Thread, NEW i \in Nat,
                      Works(u, i, c)'
               PROVE  /\ frames'[u][i].by = "ref" => list'[c] # "deleted"
                      /\ frames'[u][i].by = "all" => list'[c] = "loose"
    BY DEF Places
  <2> QED BY <1>2, <1>5 DEF Works, Places, Work
<1>13. Class'
  <2> SUFFICES ASSUME NEW c \in Block, c \in objects, destroyed[c] # 0
               PROVE  \E u \in Thread, i \in Nat :
                         Works(u, i, c)' /\ frames'[u][i].stage = "dtor"
    BY DEF Class, Work
  <2>1. PICK u \in Thread, i \in Nat :
           Works(u, i, c) /\ frames[u][i].stage = "dtor"
    BY DEF Class, Work
  <2>2. ~(u = t /\ i = n)
    BY <1>3, <2>1
  <2> QED BY <1>2, <1>5, <2>1, <2>2 DEF Works
<1> QED BY <1>8, <1>9, <1>10, <1>11, <1>12, <1>13 DEF Work

\* By the sweep.
LEMMA WorkCollect ==
  ASSUME TypeOK, Work, NEW t \in Thread, Collect(t)
  PROVE  Work'
<1> DEFINE n == Len(frames[t])
           f == Frame(NoBlock, "final", "all")
<1>1. FramesOK BY Parts
<1>2. f \in AnyFrame /\ f.block = NoBlock /\ f.stage = "final"
  BY DEF Frame, AnyFrame, CollectFrame
<1>3. /\ n \in Nat
      /\ \A u \in Thread, i \in Nat :
            Here(u, i)' <=> Here(u, i) \/ (u = t /\ i = n + 1)
      /\ \A u \in Thread, i \in Nat :
            Here(u, i) => frames'[u][i] = frames[u][i]
      /\ ~Here(t, n + 1)
      /\ frames'[t][n + 1] = f
  BY <1>1, <1>2, PushFacts DEF Collect
<1>4. \A u \in Thread, i \in Nat : ~FinalAt(u, i)
  BY DEF Collect, OneCollector, Work
<1>5. \A u \in Thread, i \in Nat : FinalAt(u, i)' <=> u = t /\ i = n + 1
  BY <1>2, <1>3, <1>4 DEF FinalAt
<1>6. \A u \in Thread, i \in Nat, c \in Block :
         Works(u, i, c)' <=> Works(u, i, c)
  BY <1>2, <1>3 DEF Works
<1>7. Swept \subseteq {b \in Block : list[b] = "current" /\ b \notin delete}
  BY DEF Swept, Unmet
<1>8. /\ list' = [b \in Block |-> IF b \in Swept THEN "deleted" ELSE list[b]]
      /\ delete' = delete \cup Swept
      /\ unswept' = Swept
      /\ s_bCollecting' = TRUE
      /\ UNCHANGED <<objects, destroyed>>
  BY DEF Collect, class
<1> HIDE DEF n, f, Swept
<1>9. OneCollector' BY <1>5, <1>8 DEF OneCollector
<1>10. AboveCollector'
  <2> SUFFICES ASSUME NEW u \in Thread, NEW i \in Nat, Here(u, i)',
                      frames'[u][i].by # "ref", frames'[u][i].stage # "final"
               PROVE  FALSE
    BY DEF AboveCollector
  <2>1. Here(u, i) /\ frames'[u][i] = frames[u][i]
    BY <1>2, <1>3
  <2>2. FinalAt(u, i - 1) /\ i - 1 \in Nat
    BY <2>1 DEF AboveCollector, Work, Here
  <2> QED BY <1>4, <2>2
<1>11. OneWorker' BY <1>6, <1>7, <1>8 DEF OneWorker, Work
<1>12. Marking' BY <1>7, <1>8 DEF Marking, Work
<1>13. Places'
  <2> SUFFICES ASSUME NEW c \in Block, NEW u \in Thread, NEW i \in Nat,
                      Works(u, i, c)
               PROVE  /\ frames'[u][i].by = "ref" => list'[c] # "deleted"
                      /\ frames'[u][i].by = "all" => list'[c] = "loose"
    BY <1>6 DEF Places
  <2>1. c \notin Swept
    BY <1>7 DEF OneWorker, Work
  <2> QED BY <1>3, <1>8, <2>1 DEF Works, Places, Work
<1>14. Class'
  <2> SUFFICES ASSUME NEW c \in Block, c \in objects, destroyed[c] # 0
               PROVE  \E u \in Thread, i \in Nat :
                         Works(u, i, c)' /\ frames'[u][i].stage = "dtor"
    BY <1>8 DEF Class, Work
  <2>1. PICK u \in Thread, i \in Nat :
           Works(u, i, c) /\ frames[u][i].stage = "dtor"
    BY DEF Class, Work
  <2> QED BY <1>3, <1>6, <2>1 DEF Works
<1> QED BY <1>9, <1>10, <1>11, <1>12, <1>13, <1>14 DEF Work

\* By the end of a collection.
LEMMA WorkCollected ==
  ASSUME TypeOK, Work, NEW t \in Thread, Collected(t)
  PROVE  Work'
<1> DEFINE n == Len(frames[t])
<1>1. FramesOK BY Parts
<1>2. /\ n \in Nat /\ Here(t, n)
      /\ \A u \in Thread, i \in Nat :
            Here(u, i)' <=> Here(u, i) /\ ~(u = t /\ i = n)
      /\ \A u \in Thread, i \in Nat :
            Here(u, i)' => frames'[u][i] = frames[u][i]
  BY <1>1, PopFacts DEF Collected, At
<1>3. frames[t][n].stage = "final"
  BY <1>1, AtTop DEF Collected
<1>4. UNCHANGED <<delete, list, unswept, objects, destroyed>>
  BY DEF Collected, blocks, class
<1> HIDE DEF n
<1>5. \A u \in Thread, i \in Nat : FinalAt(u, i) <=> u = t /\ i = n
  BY <1>2, <1>3 DEF FinalAt, OneCollector, Work
<1>6. \A u \in Thread, i \in Nat : ~FinalAt(u, i)'
  BY <1>2, <1>5 DEF FinalAt
<1>7. \A u \in Thread, i \in Nat, c \in Block :
         Works(u, i, c)' <=> Works(u, i, c)
  BY <1>2, <1>3 DEF Works
<1>9. OneCollector' BY <1>6 DEF OneCollector
<1>10. AboveCollector'
  <2> SUFFICES ASSUME NEW u \in Thread, NEW i \in Nat, Here(u, i)',
                      frames'[u][i].by # "ref", frames'[u][i].stage # "final"
               PROVE  FALSE
    BY DEF AboveCollector
  <2>1. Here(u, i) /\ frames'[u][i] = frames[u][i] /\ ~(u = t /\ i = n)
    BY <1>2
  <2>2. FinalAt(u, i - 1) /\ i - 1 \in Nat
    BY <2>1 DEF AboveCollector, Work, Here
  <2>3. u = t /\ i = n + 1
    BY <1>2, <1>5, <2>2
  <2> QED BY <1>2, <2>1, <2>3 DEF Here, n
<1>11. OneWorker' BY <1>4, <1>7 DEF OneWorker, Work
<1>12. Marking' BY <1>4 DEF Marking, Work
<1>13. Places' BY <1>2, <1>4, <1>7 DEF Works, Places, Work
<1>14. Class'
  <2> SUFFICES ASSUME NEW c \in Block, c \in objects, destroyed[c] # 0
               PROVE  \E u \in Thread, i \in Nat :
                         Works(u, i, c)' /\ frames'[u][i].stage = "dtor"
    BY <1>4 DEF Class, Work
  <2>1. PICK u \in Thread, i \in Nat :
           Works(u, i, c) /\ frames[u][i].stage = "dtor"
    BY DEF Class, Work
  <2> QED BY <1>2, <1>7, <2>1 DEF Works
<1> QED BY <1>9, <1>10, <1>11, <1>12, <1>13, <1>14 DEF Work

-----------------------------------------------------------------------------
(* Everything together.                                                    *)

\* No item gets a reference to freed memory, and only what has no holder is
\* freed.
LEMMA DanglingKept ==
  ASSUME NoDanglingItem,
         \A b \in Block : list'[b] = "free" => list[b] = "free" \/ Holders(b) = {},
         \A b \in Block, h \in Holder :
            b \in refs'[h] => b \in refs[h] \/ list'[b] # "free"
  PROVE  NoDanglingItem'
BY DEF NoDanglingItem, Holders

\* A counter of 0 means that there is no holder.
LEMMA Uncounted ==
  ASSUME CountCovers, NEW b \in Block, counter[b] = 0
  PROVE  Holders(b) = {}
<1>1. IsFiniteSet(Holders(b))
  BY HoldersFinite
<1>2. Cardinality(Holders(b)) = 0
  BY <1>1, FS_CardinalityType DEF CountCovers
<1> QED BY <1>1, <1>2, FS_EmptySet

\* A reference is given up.
LEMMA RefFreeSafe ==
  ASSUME Safe, NEW t \in Thread, NEW h \in Holder, NEW b \in refs[h],
         RefFree(t, h, b),
         UNCHANGED <<list, objects, destroyed, unswept, s_bCollecting>>
  PROVE  Work' /\ CountCovers' /\ NoDanglingItem'
<1>1. ItemsOK /\ FramesOK /\ b \in Block
  BY Parts DEF Safe, ItemsOK
<1>2. CountCovers'
  BY <1>1, Loss DEF Safe, RefFree
<1>3. list[b] # "free"
  BY <1>1 DEF Safe, NoDanglingItem, Holders
<1>4. NoDanglingItem'
  BY <1>1, DanglingKept DEF Safe, RefFree, ItemsOK
<1>5. CASE UNCHANGED <<delete, frames>>
  <2>1. Work' BY <1>5, WorkSame DEF Safe
  <2> QED BY <1>2, <1>4, <2>1
<1>6. CASE /\ b \notin delete
           /\ delete' = delete \cup {b}
           /\ frames' = Pushed(t, Frame(b, "clear", "ref"))
  <2>1. \A u \in Thread, i \in Nat : ~Works(u, i, b)
    BY <1>1, <1>6 DEF Safe, Work, OneWorker
  <2>2. list[b] # "deleted" /\ b \notin unswept
    BY <1>1, <1>6 DEF Safe, Work, Marking
  <2>3. TypeOK /\ Work BY DEF Safe
  <2>4. Work'
    BY <1>1, <1>3, <1>6, <2>1, <2>2, <2>3, WorkPush
  <2> QED BY <1>2, <1>4, <2>4
<1> QED BY <1>2, <1>4, <1>5, <1>6 DEF RefFree

\* A new block has one holder.
LEMMA AllocateSafe ==
  ASSUME Safe, NEW b \in Block, NEW h \in Holder, h # b,
         NEW l \in {"current", "locked"}, NEW n,
         NEW contents \in SUBSET Block, b \notin contents,
         \A c \in contents : list[c] # "free",
         Allocate(b, l, n, h, contents),
         objects' \subseteq objects \cup {b},
         UNCHANGED <<frames, unswept, s_bCollecting>>
  PROVE  Work' /\ CountCovers' /\ NoDanglingItem'
<1>1. ItemsOK /\ RestOK /\ ItemsOK'
  BY Parts, AllocateTypes DEF Safe
<1>2. list[b] = "free" /\ b \notin delete /\ Holders(b) = {}
  BY DEF Allocate, Safe, Work, Marking, NoDanglingItem
<1>3. /\ refs' \in [Holder -> SUBSET Block]
      /\ refs'[b] = contents
      /\ refs'[h] = refs[h] \cup {b}
      /\ \A g \in Holder \ {b, h} : refs'[g] = refs[g]
  BY <1>1, SelfHolds DEF Allocate, ItemsOK
<1>4. Work'
  <2>1. delete' = delete
    BY <1>1, <1>2 DEF Allocate, RestOK
  <2>2. /\ list'[b] = l
        /\ \A c \in Block \ {b} : list'[c] = list[c]
    BY <1>1 DEF Allocate, RestOK
  <2>3. /\ destroyed'[b] = 0
        /\ \A c \in Block \ {b} : destroyed'[c] = destroyed[c]
    BY <1>1 DEF Allocate, RestOK
  <2> QED BY <1>2, <2>1, <2>2, <2>3, WorkSame DEF Safe
<1>5. NoDanglingItem'
  <2>1. list'[b] # "free" /\ \A c \in Block \ {b} : list'[c] = list[c]
    BY <1>1 DEF Allocate, RestOK
  <2> QED BY <1>3, <2>1, DanglingKept DEF Safe
<1>6. ASSUME NEW c \in Block PROVE Cardinality(Holders(c)') <= counter'[c]
  <2>1. CASE c = b
    <3>1. Holders(b)' \subseteq {} \cup {h}
      BY <1>2, <1>3 DEF Holders
    <3>2. Cardinality(Holders(b)') <= 1
      <4> DEFINE E == {}
      <4>1. IsFiniteSet(E) /\ Cardinality(E) = 0 BY FS_EmptySet
      <4> HIDE DEF E
      <4>2. Holders(b)' \subseteq E \cup {h} BY <3>1 DEF E
      <4>3. Cardinality(Holders(b)') <= Cardinality(E) + 1
        BY <4>1, <4>2, OneMore
      <4> QED BY <4>1, <4>3
    <3> QED BY <2>1, <3>2 DEF Allocate
  <2>2. CASE c # b /\ c \in contents
    <3>1. Holders(c)' \subseteq Holders(c) \cup {b}
      BY <1>3, <2>2 DEF Holders
    <3>2. /\ Cardinality(Holders(c)') \in Nat /\ Cardinality(Holders(c)) \in Nat
          /\ Cardinality(Holders(c)') <= Cardinality(Holders(c)) + 1
      BY <3>1, HoldersFinite, OneMore
    <3>3. counter'[c] = counter[c] + 1
      BY <2>2 DEF Allocate
    <3> QED BY <1>1, <3>2, <3>3 DEF CountCovers, ItemsOK, Safe
  <2>3. CASE c # b /\ c \notin contents
    <3>1. Holders(c)' \subseteq Holders(c)
      BY <1>3, <2>3 DEF Holders
    <3>2. /\ Cardinality(Holders(c)') \in Nat /\ Cardinality(Holders(c)) \in Nat
          /\ Cardinality(Holders(c)') <= Cardinality(Holders(c))
      BY <3>1, HoldersFinite, NoMore
    <3>3. counter'[c] = counter[c]
      BY <1>1, <2>3 DEF Allocate, ItemsOK
    <3> QED BY <1>1, <3>2, <3>3 DEF CountCovers, ItemsOK, Safe
  <2> QED BY <2>1, <2>2, <2>3
<1>7. CountCovers' BY <1>6 DEF CountCovers
<1> QED BY <1>4, <1>5, <1>7

\* Stacks and C code are not blocks.
LEMMA NotBlocks ==
  ASSUME FramesOK, NEW t \in Thread
  PROVE  Level(t) \notin Block /\ CCode \notin Block /\ Level(t) # CCode
<1>1. Level(t) \in Thread \X Nat
  BY DEF Level, FramesOK
<1> QED BY <1>1, NameAssumption

LEMMA ItemsSafe ==
  ASSUME Safe, NEW t \in Thread, Items(t)
  PROVE  Work' /\ CountCovers' /\ NoDanglingItem'
<1> USE DEF blocks, class, collection, world
<1>0. TypeOK /\ ItemsOK /\ FramesOK /\ RestOK
  BY Parts DEF Safe
<1>1. ASSUME NEW b \in Block, NEW from \in Holder, NEW to \in Holder,
             Copy(t, from, to, b)
      PROVE  Work' /\ CountCovers' /\ NoDanglingItem'
  <2>1. Work' BY <1>1, WorkSame DEF Safe, Copy
  <2>2. CountCovers'
    <3>1. /\ refs' \in [Holder -> SUBSET Block]
          /\ \A g \in Holder : refs'[g] \subseteq
                            IF g = to THEN refs[g] \cup {b} ELSE refs[g]
      BY <1>0, <1>1 DEF Copy, ItemsOK
    <3> QED BY <1>0, <1>1, <3>1, Gain DEF Copy, Safe
  <2>3. list[b] # "free"
    BY <1>1 DEF Copy, Safe, NoDanglingItem, Holders
  <2>4. NoDanglingItem'
    BY <1>0, <1>1, <2>3, DanglingKept DEF Copy, Safe, ItemsOK
  <2> QED BY <2>1, <2>2, <2>4
<1>2. ASSUME NEW b \in Block, NEW h \in Holder, Clear(t, h, b)
      PROVE  Work' /\ CountCovers' /\ NoDanglingItem'
  BY <1>2, RefFreeSafe DEF Clear
<1>3. ASSUME NEW b \in Block, New(t, b)
      PROVE  Work' /\ CountCovers' /\ NoDanglingItem'
  <2>1. Level(t) \in Holder /\ Level(t) # b
    BY <1>0, NotBlocks, LevelHolds
  <2>2. Allocate(b, "current", 0, Level(t), {})
    BY <1>3 DEF New
  <2>3. objects' \subseteq objects \cup {b}
    BY <1>3 DEF New
  <2> QED BY <1>3, <2>1, <2>2, <2>3, AllocateSafe DEF New
<1>4. ASSUME NEW b \in Block, DropGrip(t, b)
      PROVE  Work' /\ CountCovers' /\ NoDanglingItem'
  BY <1>4, RefFreeSafe, CodeHolds DEF DropGrip
<1>5. ASSUME NEW g \in Block, Attach(t, g)
      PROVE  Work' /\ CountCovers' /\ NoDanglingItem'
  <2> DEFINE h == Level(t)
  <2>1. h \in Holder /\ h # CCode /\ CCode \in Holder
    BY <1>0, NotBlocks, LevelHolds, CodeHolds
  <2>2. Work'
    BY <1>0, <1>5, WorkSame DEF Safe, Attach, Unlock, RestOK
  <2> HIDE DEF h
  <2>3. /\ g \in refs[CCode]
        /\ refs' = [refs EXCEPT ![CCode] = @ \ {g}, ![h] = @ \cup {g}]
        /\ counter' = counter
    BY <1>5 DEF Attach, h
  <2>4. /\ refs'[CCode] = refs[CCode] \ {g}
        /\ refs'[h] = refs[h] \cup {g}
        /\ \A k \in Holder \ {CCode, h} : refs'[k] = refs[k]
    BY <1>0, <2>1, <2>3 DEF ItemsOK
  <2>5. list[g] # "free" /\ CCode \in Holders(g)
    BY <2>1, <2>3 DEF Safe, NoDanglingItem, Holders
  <2>6. \A c \in Block : list'[c] = "free" => list[c] = "free"
    BY <1>0, <1>5 DEF Attach, Unlock, RestOK
  <2>7. list'[g] # "free"
    BY <1>0, <1>5, <2>5 DEF Attach, Unlock, RestOK
  <2>8. NoDanglingItem'
    BY <2>4, <2>6, <2>7, DanglingKept DEF Safe
  <2>9. ASSUME NEW c \in Block PROVE Cardinality(Holders(c)') <= counter'[c]
    <3>1. CASE c = g
      <4> DEFINE T == Holders(g) \ {CCode}
      <4>1. Holders(g)' \subseteq T \cup {h}
        BY <2>1, <2>4 DEF Holders
      <4>2. IsFiniteSet(T)
        BY HoldersFinite, FS_RemoveElement
      <4>3. /\ Cardinality(T) \in Nat /\ Cardinality(Holders(g)) \in Nat
            /\ Cardinality(T) <= Cardinality(Holders(g)) - 1
        BY <2>5, HoldersFinite, OneLess
      <4> HIDE DEF T
      <4>4. /\ Cardinality(Holders(g)') \in Nat
            /\ Cardinality(Holders(g)') <= Cardinality(T) + 1
        BY <4>1, <4>2, OneMore
      <4> QED BY <1>0, <2>3, <3>1, <4>3, <4>4 DEF CountCovers, ItemsOK, Safe
    <3>2. CASE c # g
      <4>1. Holders(c)' \subseteq Holders(c)
        BY <2>4, <3>2 DEF Holders
      <4>2. /\ Cardinality(Holders(c)') \in Nat /\ Cardinality(Holders(c)) \in Nat
            /\ Cardinality(Holders(c)') <= Cardinality(Holders(c))
        BY <4>1, HoldersFinite, NoMore
      <4> QED BY <1>0, <2>3, <4>2 DEF CountCovers, ItemsOK, Safe
    <3> QED BY <3>1, <3>2
  <2>10. CountCovers' BY <2>9 DEF CountCovers
  <2> QED BY <2>2, <2>8, <2>10
<1>6. ASSUME NEW b \in Block, NEW contents \in SUBSET Block,
             Grip(t, b, contents)
      PROVE  Work' /\ CountCovers' /\ NoDanglingItem'
  <2>1. CCode \in Holder /\ CCode # b /\ Level(t) \in Holder
    BY <1>0, NotBlocks, CodeHolds, LevelHolds
  <2>2. Allocate(b, "locked", 1, CCode, contents) /\ b \notin contents
    BY <1>6 DEF Grip
  <2>3. \A c \in contents : list[c] # "free"
    BY <1>6, <2>1 DEF Grip, Safe, NoDanglingItem, Holders
  <2>4. objects' \subseteq objects \cup {b}
    BY <1>6 DEF Grip
  <2> QED BY <1>6, <2>1, <2>2, <2>3, <2>4, AllocateSafe DEF Grip
<1>7. ASSUME NEW b \in Block, LockBlock(t, b) \/ UnlockBlock(t, b)
      PROVE  Work' /\ CountCovers' /\ NoDanglingItem'
  <2>1. UNCHANGED <<refs, counter, class, frames, collection, delete>>
    BY <1>7 DEF LockBlock, UnlockBlock, Unlock
  <2>2. \A c \in Block : list'[c] = list[c]
                       \/ (c \notin delete /\ list'[c] \in {"locked", "current"})
    BY <1>0, <1>7 DEF LockBlock, UnlockBlock, Unlock, RestOK
  <2>3. Work' BY <2>1, <2>2, WorkSame DEF Safe
  <2>4. CountCovers' BY <1>0, <2>1, Shrink DEF Safe, ItemsOK
  <2>5. NoDanglingItem' BY <2>1, <2>2, DanglingKept DEF Safe
  <2> QED BY <2>3, <2>4, <2>5
<1> QED
  BY <1>1, <1>2, <1>3, <1>4, <1>5, <1>6, <1>7 DEF Items

LEMMA CleanupSafe ==
  ASSUME Safe, NEW t \in Thread, Cleanup(t)
  PROVE  Work' /\ CountCovers' /\ NoDanglingItem'
<1> USE DEF blocks, class, collection, world
<1>0. TypeOK /\ ItemsOK /\ FramesOK /\ RestOK /\ Work
  BY Parts DEF Safe
<1>a. /\ "clear" \in Stages /\ "dtor" \in Stages /\ "items" \in Stages
      /\ "keep" \in Stages /\ "link" \in Stages
  BY DEF Stages
<1> DEFINE b == Top(t).block
           n == Len(frames[t])
<1>b. ASSUME NEW s \in {"clear", "dtor", "items", "keep"}, At(t, s)
      PROVE  /\ b \in Block /\ Level(t) \in Holder
             /\ n \in Nat /\ Works(t, n, b)
             /\ list[b] # "free" /\ b \in delete /\ b \notin unswept
  <2>1. b \in Block /\ Level(t) \in Holder
    BY <1>0, <1>a, <1>b, TopFrame
  <2>2. n \in Nat /\ Works(t, n, b)
    BY <1>0, <1>b, AtTop DEF Works
  <2> QED BY <1>0, <2>1, <2>2 DEF Work, OneWorker, Marking
<1>1. CASE CallCleanup(t)
  <2>1. /\ b \in Block /\ Level(t) \in Holder /\ list[b] # "free"
        /\ At(t, "clear")
    BY <1>1, <1>b DEF CallCleanup
  <2>2. CASE b \in objects
    <3>1. /\ refs' = [refs EXCEPT ![Level(t)] = {b}]
          /\ counter' = [counter EXCEPT ![b] = @ + 1]
          /\ destroyed' = [destroyed EXCEPT ![b] = @ + 1]
          /\ frames' = Staged(t, "dtor")
          /\ UNCHANGED <<list, delete, objects, unswept, s_bCollecting>>
      BY <1>1, <2>2 DEF CallCleanup
    <3> HIDE DEF b
    <3>2. /\ refs' \in [Holder -> SUBSET Block]
          /\ \A g \in Holder : refs'[g] \subseteq
                IF g = Level(t) THEN refs[g] \cup {b} ELSE refs[g]
      BY <1>0, <2>1, <3>1 DEF ItemsOK
    <3>3. CountCovers' BY <1>0, <2>1, <3>1, <3>2, Gain DEF Safe
    <3>4. NoDanglingItem' BY <2>1, <3>1, <3>2, DanglingKept DEF Safe
    <3>5. /\ destroyed'[b] = destroyed[b] + 1
          /\ \A c \in Block \ {b} : destroyed'[c] = destroyed[c]
      BY <1>0, <2>1, <3>1 DEF RestOK
    <3>6. Work'
      BY <1>0, <2>1, <2>2, <3>1, <3>5, WorkStage DEF b
    <3> QED BY <3>3, <3>4, <3>6
  <2>3. CASE b \notin objects
    <3>1. /\ frames' = Staged(t, "items")
          /\ UNCHANGED <<refs, counter, destroyed, list, delete, objects,
                         unswept, s_bCollecting>>
      BY <1>1, <2>3 DEF CallCleanup
    <3>2. Work' BY <1>0, <2>1, <2>3, <3>1, WorkStage
    <3>3. CountCovers' BY <1>0, <3>1, Shrink DEF Safe, ItemsOK
    <3>4. NoDanglingItem' BY <3>1, DanglingKept DEF Safe
    <3> QED BY <3>2, <3>3, <3>4
  <2> QED BY <2>2, <2>3
<1>2. CASE Return(t)
  <2>1. /\ b \in Block /\ Level(t) \in Holder /\ At(t, "dtor")
    BY <1>2, <1>b DEF Return
  <2>2. /\ refs[Level(t)] = {b}
        /\ refs' = [refs EXCEPT ![Level(t)] = {}]
        /\ counter' = [counter EXCEPT ![b] = @ - 1]
        /\ objects' = objects \ {b}
        /\ frames' = Staged(t, "items")
        /\ UNCHANGED <<list, delete, destroyed, unswept, s_bCollecting>>
    BY <1>2 DEF Return, LoseClass
  <2>3. Work' BY <1>0, <2>1, <2>2, WorkStage
  <2> HIDE DEF b
  <2>4. /\ refs' = [refs EXCEPT ![Level(t)] = @ \ {b}]
        /\ b \in refs[Level(t)]
    BY <1>0, <2>1, <2>2 DEF ItemsOK
  <2>5. CountCovers' BY <1>0, <2>1, <2>2, <2>4, Loss DEF Safe
  <2>6. NoDanglingItem'
    BY <1>0, <2>1, <2>2, DanglingKept DEF Safe, ItemsOK
  <2> QED BY <2>3, <2>5, <2>6
<1>3. CASE FreeBlock(t)
  <2>1. /\ b \in Block /\ At(t, "items") /\ n \in Nat /\ Works(t, n, b)
        /\ b \in Holder
    BY <1>3, <1>b, SelfHolds DEF FreeBlock
  <2>2. UNCHANGED <<counter, destroyed, unswept, s_bCollecting>>
    BY <1>3 DEF FreeBlock
  <2>3. CASE counter[b] = 0 /\ Free(b) /\ frames' = Popped(t)
    <3>1. /\ list' = [list EXCEPT ![b] = "free"]
          /\ refs' = [refs EXCEPT ![b] = {}]
          /\ delete' = delete \ {b}
          /\ objects' = objects \ {b}
      BY <2>3 DEF Free
    <3>2. /\ list'[b] = "free"
          /\ \A c \in Block \ {b} : list'[c] = list[c]
      BY <1>0, <2>1, <3>1 DEF RestOK
    <3>3. Work'
      BY <1>0, <2>1, <2>2, <2>3, <3>1, <3>2, WorkPop
    <3> HIDE DEF b
    <3>4. CountCovers'
      BY <1>0, <2>1, <2>2, <3>1, Shrink DEF Safe, ItemsOK
    <3>5. Holders(b) = {} BY <2>1, <2>3, Uncounted DEF Safe
    <3>6. NoDanglingItem'
      BY <1>0, <2>1, <3>1, <3>2, <3>5, DanglingKept DEF Safe, ItemsOK
    <3> QED BY <3>3, <3>4, <3>6
  <2>4. CASE /\ frames' = Staged(t, "keep")
             /\ UNCHANGED <<list, refs, delete, locked, objects>>
    <3>1. Work' BY <1>0, <2>1, <2>2, <2>4, WorkStage
    <3>2. CountCovers' BY <1>0, <2>2, <2>4, Shrink DEF Safe, ItemsOK
    <3>3. NoDanglingItem' BY <2>4, DanglingKept DEF Safe
    <3> QED BY <3>1, <3>2, <3>3
  <2> QED BY <1>3, <2>3, <2>4 DEF FreeBlock
<1>4. CASE KeepBlock(t)
  <2>1. /\ b \in Block /\ At(t, "keep") /\ n \in Nat /\ Works(t, n, b)
    BY <1>4, <1>b DEF KeepBlock
  <2>2. list[b] # "deleted"
    <3>1. Top(t).by = "ref" /\ Top(t) = frames[t][n]
      BY <1>0, <1>4, AtTop DEF KeepBlock
    <3> QED BY <1>0, <2>1, <3>1 DEF Work, Places
  <2>3. /\ delete' \subseteq delete /\ delete \ delete' \subseteq {b}
        /\ frames' = Popped(t)
        /\ UNCHANGED <<refs, counter, list, objects, destroyed, unswept,
                       s_bCollecting>>
    BY <1>4 DEF KeepBlock
  <2>4. Work' BY <1>0, <2>1, <2>2, <2>3, WorkPop
  <2>5. CountCovers' BY <1>0, <2>3, Shrink DEF Safe, ItemsOK
  <2>6. NoDanglingItem' BY <2>3, DanglingKept DEF Safe
  <2> QED BY <2>4, <2>5, <2>6
<1>5. ASSUME NEW c \in Block, ReleaseItem(t, c)
      PROVE  Work' /\ CountCovers' /\ NoDanglingItem'
  <2>1. b \in Holder
    BY <1>5, <1>b, SelfHolds DEF ReleaseItem
  <2> QED BY <1>5, <2>1, RefFreeSafe DEF ReleaseItem
<1> QED
  BY <1>1, <1>2, <1>3, <1>4, <1>5 DEF Cleanup

\* The collector has nothing above it when it goes from block to block, and
\* nobody else works on what it has deleted.
LEMMA DeletedAlone ==
  ASSUME Safe, NEW t \in Thread, At(t, "final"),
         NEW b \in Block, list[b] = "deleted"
  PROVE  \A u \in Thread, i \in Nat : ~Works(u, i, b)
<1> SUFFICES ASSUME NEW u \in Thread, NEW i \in Nat, Works(u, i, b)
             PROVE  FALSE
  OBVIOUS
<1>1. FramesOK BY Parts DEF Safe
<1>2. /\ Len(frames[t]) \in Nat /\ FinalAt(t, Len(frames[t]))
  BY <1>1, AtTop DEF FinalAt
<1>3. frames[u][i].by # "ref"
  BY DEF Safe, Work, Places
<1>4. Here(u, i) /\ frames[u][i].stage # "final"
  BY DEF Works
<1>5. FinalAt(u, i - 1) /\ i - 1 \in Nat
  BY <1>3, <1>4 DEF Safe, Work, AboveCollector, Here
<1>6. u = t /\ i - 1 = Len(frames[t])
  BY <1>2, <1>5 DEF Safe, Work, OneCollector
<1> QED BY <1>2, <1>4, <1>6 DEF Here

LEMMA CollectorSafe ==
  ASSUME Safe, NEW t \in Thread, Collector(t)
  PROVE  Work' /\ CountCovers' /\ NoDanglingItem'
<1> USE DEF blocks, class, collection
<1>0. TypeOK /\ ItemsOK /\ FramesOK /\ RestOK /\ Work
  BY Parts DEF Safe
<1> DEFINE n == Len(frames[t])
<1>1. CASE Suspend(t) \/ Granted(t) \/ CollectNothing(t)
  <2>1. UNCHANGED <<refs, counter, list, blocks, class, frames, collection>>
    BY <1>1 DEF Suspend, Granted, CollectNothing
  <2>2. Work' BY <1>0, <2>1, WorkSame
  <2>3. CountCovers' BY <1>0, <2>1, Shrink DEF Safe, ItemsOK
  <2>4. NoDanglingItem' BY <2>1, DanglingKept DEF Safe
  <2> QED BY <2>2, <2>3, <2>4
<1>2. CASE Collect(t)
  <2>1. Work' BY <1>0, <1>2, WorkCollect
  <2>2. CountCovers' BY <1>0, <1>2, Shrink DEF Safe, ItemsOK, Collect
  <2>3. UNCHANGED refs /\ \A b \in Block : list'[b] = "free" => list[b] = "free"
    BY <1>2 DEF Collect
  <2>4. NoDanglingItem' BY <2>3, DanglingKept DEF Safe
  <2> QED BY <2>1, <2>2, <2>4
<1>3. ASSUME NEW b \in Block, ClearDeleted(t, b)
      PROVE  Work' /\ CountCovers' /\ NoDanglingItem'
  <2>1. /\ b \in delete /\ list[b] # "free" /\ At(t, "final")
        /\ \A u \in Thread, i \in Nat : ~Works(u, i, b)
    BY <1>0, <1>3 DEF ClearDeleted, Work, Marking, OneWorker
  <2>2. /\ frames' = Pushed(t, Frame(b, "clear", "gc"))
        /\ delete' = delete \cup {b}
        /\ unswept' = unswept \ {b}
        /\ UNCHANGED <<refs, counter, list, objects, destroyed, s_bCollecting>>
    BY <1>3, <2>1 DEF ClearDeleted
  <2>3. Work' BY <1>0, <2>1, <2>2, WorkPush
  <2>4. CountCovers' BY <1>0, <2>2, Shrink DEF Safe, ItemsOK
  <2>5. NoDanglingItem' BY <2>2, DanglingKept DEF Safe
  <2> QED BY <2>3, <2>4, <2>5
<1>4. ASSUME NEW b \in Block, FreeDeleted(t, b)
      PROVE  Work' /\ CountCovers' /\ NoDanglingItem'
  <2>1. /\ At(t, "final") /\ list[b] = "deleted" /\ unswept = {}
        /\ b \in delete /\ b \in Holder
        /\ \A u \in Thread, i \in Nat : ~Works(u, i, b)
    BY <1>0, <1>4, DeletedAlone, SelfHolds DEF FreeDeleted, Work, Marking
  <2>2. UNCHANGED <<counter, destroyed, unswept, s_bCollecting>>
    BY <1>4 DEF FreeDeleted
  <2>3. CASE counter[b] = 0 /\ Free(b) /\ UNCHANGED frames
    <3>1. /\ list' = [list EXCEPT ![b] = "free"]
          /\ refs' = [refs EXCEPT ![b] = {}]
          /\ delete' = delete \ {b}
          /\ objects' = objects \ {b}
      BY <2>3 DEF Free
    <3>2. /\ list'[b] = "free"
          /\ \A c \in Block \ {b} : list'[c] = list[c]
      BY <1>0, <3>1 DEF RestOK
    <3>3. Work'
      <4> USE DEF Here, FinalAt, Works, Work
      <4>1. OneCollector' BY <1>0, <2>2, <2>3 DEF OneCollector
      <4>2. AboveCollector' BY <1>0, <2>3 DEF AboveCollector
      <4>3. OneWorker' BY <1>0, <2>1, <2>2, <2>3, <3>1 DEF OneWorker
      <4>4. Marking' BY <1>0, <2>1, <2>2, <3>1, <3>2 DEF Marking
      <4>5. Places' BY <1>0, <2>1, <2>3, <3>2 DEF Places
      <4>6. Class' BY <1>0, <2>2, <2>3, <3>1 DEF Class
      <4> QED BY <4>1, <4>2, <4>3, <4>4, <4>5, <4>6
    <3>4. CountCovers'
      BY <1>0, <2>2, <3>1, Shrink DEF Safe, ItemsOK
    <3>5. Holders(b) = {} BY <2>3, Uncounted DEF Safe
    <3>6. NoDanglingItem'
      BY <1>0, <2>1, <3>1, <3>2, <3>5, DanglingKept DEF Safe, ItemsOK
    <3> QED BY <3>3, <3>4, <3>6
  <2>4. CASE /\ list' = [list EXCEPT ![b] = "loose"]
             /\ frames' = Pushed(t, Frame(b, "keep", "all"))
             /\ UNCHANGED <<refs, delete, locked, objects>>
    <3>1. /\ list'[b] = "loose"
          /\ \A c \in Block \ {b} : list'[c] = list[c]
      BY <1>0, <2>4 DEF RestOK
    <3>2. delete' = delete \cup {b} /\ b \notin unswept'
      BY <2>1, <2>2, <2>4
    <3>3. Work' BY <1>0, <2>1, <2>2, <2>4, <3>1, <3>2, WorkPush
    <3>4. CountCovers' BY <1>0, <2>2, <2>4, Shrink DEF Safe, ItemsOK
    <3>5. NoDanglingItem' BY <2>4, <3>1, DanglingKept DEF Safe
    <3> QED BY <3>3, <3>4, <3>5
  <2> QED BY <1>4, <2>3, <2>4 DEF FreeDeleted
<1>5. CASE Cleared(t)
  <2>1. /\ At(t, "items") /\ frames' = Popped(t)
        /\ UNCHANGED <<refs, counter, list, blocks, class, collection>>
    BY <1>5 DEF Cleared
  <2>2. Work' BY <1>0, <2>1, WorkPop
  <2>3. CountCovers' BY <1>0, <2>1, Shrink DEF Safe, ItemsOK
  <2>4. NoDanglingItem' BY <2>1, DanglingKept DEF Safe
  <2> QED BY <2>2, <2>3, <2>4
<1>6. CASE KeepDeleted(t)
  <2>1. /\ At(t, "keep") /\ Top(t).by = "all"
        /\ delete' = delete \ {Top(t).block}
        /\ frames' = Staged(t, "link")
        /\ UNCHANGED <<refs, counter, list, class, collection>>
    BY <1>6 DEF KeepDeleted
  <2>2. Work' BY <1>0, <2>1, WorkLink
  <2>3. CountCovers' BY <1>0, <2>1, Shrink DEF Safe, ItemsOK
  <2>4. NoDanglingItem' BY <2>1, DanglingKept DEF Safe
  <2> QED BY <2>2, <2>3, <2>4
<1>7. CASE LinkDeleted(t)
  <2>1. /\ At(t, "link") /\ Top(t).by = "all" /\ frames' = Popped(t)
        /\ list' = [list EXCEPT ![Top(t).block] = "current"]
        /\ UNCHANGED <<refs, counter, blocks, class, collection>>
    BY <1>7 DEF LinkDeleted
  <2>2. \A c \in Block : list'[c] = list[c] \/ list'[c] = "current"
    BY <1>0, <2>1 DEF RestOK
  <2>3. Work' BY <1>0, <2>1, <2>2, WorkPop
  <2>4. CountCovers' BY <1>0, <2>1, Shrink DEF Safe, ItemsOK
  <2>5. NoDanglingItem' BY <2>1, <2>2, DanglingKept DEF Safe
  <2> QED BY <2>3, <2>4, <2>5
<1>8. CASE Collected(t)
  <2>1. Work' BY <1>0, <1>8, WorkCollected
  <2>2. UNCHANGED <<refs, counter, list>> BY <1>8 DEF Collected
  <2>3. CountCovers' BY <1>0, <2>2, Shrink DEF Safe, ItemsOK
  <2>4. NoDanglingItem' BY <2>2, DanglingKept DEF Safe
  <2> QED BY <2>1, <2>3, <2>4
<1> QED
  BY <1>1, <1>2, <1>3, <1>4, <1>5, <1>6, <1>7, <1>8 DEF Collector

LEMMA SafeInit == Init => Safe
<1> SUFFICES ASSUME Init PROVE Safe
  OBVIOUS
<1>1. TypeOK BY TypeInit
<1>2. \A t \in Thread, i \in Nat : ~Here(t, i)
  BY DEF Init, Here
<1>3. Work
  BY <1>2 DEF Init, Work, OneCollector, AboveCollector, OneWorker, Marking,
              Places, Class, FinalAt, Works
<1>4. ASSUME NEW b \in Block PROVE Holders(b) = {} /\ counter[b] = 0
  BY DEF Init, Holders
<1>5. CountCovers BY <1>4, FS_EmptySet DEF CountCovers
<1>6. NoDanglingItem BY <1>4 DEF NoDanglingItem
<1> QED BY <1>1, <1>3, <1>5, <1>6 DEF Safe

LEMMA SafeKept ==
  ASSUME Safe, [Next]_vars
  PROVE  Safe'
<1>0. TypeOK' BY TypeKept DEF Safe
<1>1. CASE \E t \in Thread : Items(t) \/ Cleanup(t) \/ Collector(t)
  BY <1>0, <1>1, ItemsSafe, CleanupSafe, CollectorSafe DEF Safe
<1>2. CASE UNCHANGED vars \/ \E t \in Thread : Leave(t) \/ Enter(t)
  <2>1. UNCHANGED <<refs, counter, list, blocks, class, frames, collection>>
    BY <1>2 DEF vars, Leave, Enter
  <2>2. TypeOK /\ Work /\ ItemsOK BY Parts DEF Safe
  <2>3. Work'
    BY <2>1, <2>2, WorkSame DEF blocks, class, collection
  <2>4. CountCovers' BY <2>1, <2>2, Shrink DEF Safe, ItemsOK
  <2>5. NoDanglingItem' BY <2>1, DanglingKept DEF Safe
  <2> QED BY <1>0, <2>3, <2>4, <2>5 DEF Safe
<1> QED BY <1>1, <1>2 DEF Next

LEMMA AlwaysSafe == Spec => []Safe
BY SafeInit, SafeKept, PTL DEF Spec

\* The reference counter of a block is never smaller than the number of items,
\* blocks and C pointers that refer to it: hb_gcRefInc() and hb_gcRefFree() are
\* called in pairs on every path, destructors included.
THEOREM Counted == Spec => []CountCovers
<1>1. Safe => CountCovers BY DEF Safe
<1> QED BY <1>1, AlwaysSafe, PTL

\* No item refers to freed memory, whatever destructors store and wherever the
\* other threads are: hb_gcRefFree() and hb_gcCollectAll() free what has a
\* counter of 0 only, and nothing refers to that.
THEOREM ItemsValid == Spec => []NoDanglingItem
<1>1. Safe => NoDanglingItem BY DEF Safe
<1> QED BY <1>1, AlwaysSafe, PTL

\* The destructor of an object is called once at most, even when it stores Self
\* and the object is released a second time.
THEOREM DestroyedOnce == Spec => []DestructorOnce
<1>1. Safe => DestructorOnce BY DEF Safe, Work, Class, DestructorOnce
<1> QED BY <1>1, AlwaysSafe, PTL

\* One thread at most is in the cleanup function of a block, and no block is
\* freed while a thread is in it or the collector is yet to call it.
WorkedOn ==
    \A b \in Block :
        /\ \A t, u \in Thread, i, j \in Nat :
              Works(t, i, b) /\ Works(u, j, b) => t = u /\ i = j
        /\ list[b] = "free" =>
              /\ b \notin unswept
              /\ \A t \in Thread, i \in Nat : ~Works(t, i, b)

\* HB_GC_DELETE keeps hb_gcRefFree() and the collector from each other's blocks.
THEOREM OneCleanup == Spec => []WorkedOn
<1>1. Safe => WorkedOn
  BY DEF Safe, Work, OneWorker, Marking, WorkedOn
<1> QED BY <1>1, AlwaysSafe, PTL

\* Marking and sweeping are done by a thread that is alone inside the VM, which
\* is what StopTheWorld promises to the owner of a granted request.
THEOREM SweepsAlone == Spec => []World!Promise
<1> USE NameAssumption DEF World!Promise, World!Granted, world
<1>1. Init => World!Promise
  BY ProgramAssumption DEF Init
<1>2. World!Promise /\ [Next]_vars => World!Promise'
  <2> SUFFICES ASSUME World!Promise, [Next]_vars PROVE World!Promise'
    OBVIOUS
  <2>1. CASE UNCHANGED world
    BY <2>1
  <2>2. ASSUME NEW t \in Thread,
               \/ World!Ask(t) \/ World!Grant(t) \/ World!Resume(t)
               \/ World!Leave(t) \/ World!Enter(t)
        PROVE  World!Promise'
    BY <2>2 DEF World!Ask, World!Grant, World!Resume, World!Leave, World!Enter
  <2>3. ASSUME NEW t \in Thread, Items(t) \/ Cleanup(t) PROVE UNCHANGED world
    BY <2>3 DEF Items, Copy, Clear, New, DropGrip, Attach, Grip, LockBlock,
       UnlockBlock, Cleanup, CallCleanup, Return, FreeBlock, KeepBlock,
       ReleaseItem
  <2>4. ASSUME NEW t \in Thread, Collector(t)
        PROVE  \/ UNCHANGED world
               \/ World!Ask(t) \/ World!Grant(t) \/ World!Resume(t)
    BY <2>4 DEF Collector, Suspend, Granted, Collect, CollectNothing,
       ClearDeleted, FreeDeleted, Cleared, KeepDeleted, LinkDeleted, Collected
  <2>5. CASE UNCHANGED vars BY <2>1, <2>5 DEF vars
  <2> QED
    BY <2>1, <2>2, <2>3, <2>4, <2>5 DEF Next, Leave, Enter
<1> QED BY <1>1, <1>2, PTL DEF Spec

-----------------------------------------------------------------------------
(***************************************************************************)
(* More about Garbage, for all sets of threads and blocks and all bounds:  *)
(* no cleanup function works on freed memory, and, in programs whose       *)
(* destructors store no reference in what outlives them, counters are      *)
(* exact and a collection takes exactly what the program cannot reach.     *)
(*                                                                         *)
(* Both come from what such destructors leave alone.  What the program     *)
(* itself can get at is closed under references, and neither collector nor *)
(* hb_gcRefFree() has a block of it: nobody stores anything in a block that *)
(* is being destroyed.  And a flag is behind only in a block that           *)
(* hb_gcRefFree() was about to free when another collection passed, which   *)
(* nothing refers to.                                                      *)
(***************************************************************************)

(* Frames.                                                                 *)

\* A thread runs PRG code, or did when it left the VM or asked for a STOP.
AtPRG(t) == frames[t] = <<>> \/ At(t, "dtor")

\* Who is not running is in PRG code, what is not on top has called another
\* function, and only the threads of the program run.
Rest ==
    /\ \A t \in Thread : t \notin inside \/ stopper = t => AtPRG(t)
    /\ \A t \in Thread, i \in Nat :
          Here(t, i) /\ Here(t, i + 1) => frames[t][i].stage \in {"dtor", "items", "final"}
    /\ inside \subseteq program.threads
    /\ stopper \in program.threads \cup {NoThread}
    /\ \A t \in Thread : frames[t] # <<>> => t \in program.threads

\* Where nobody else runs, a block that is to be linked is in no list.
Lone ==
    \A t \in Thread :
        program.threads = {t} /\ At(t, "link") => list[Top(t).block] = "loose"

-----------------------------------------------------------------------------
(* References.                                                             *)

\* The items of a destructor are gone when it has returned, Self stays until
\* then, and free memory has no contents.
Levels ==
    /\ \A t \in Thread, i \in Nat :
          i <= MaxFrames /\ refs[<<t, i>>] # {} =>
             i = 0 \/ (Here(t, i) /\ frames[t][i].stage = "dtor")
    /\ \A t \in Thread, i \in Nat :
          Here(t, i) /\ frames[t][i].stage = "dtor" =>
             frames[t][i].block \in refs[<<t, i>>]
    /\ \A b \in Block : list[b] = "free" => refs[b] = {}

-----------------------------------------------------------------------------
(* Flags.                                                                  *)

\* hb_gcRefFree() frees the block, or the collector is about to keep it.
Frees(t, i, b) == Works(t, i, b) /\ frames[t][i].by = "ref"
Keeps(t, i, b) ==
    /\ Here(t, i) /\ frames[t][i].block = b
    /\ frames[t][i].by = "all" /\ frames[t][i].stage \in {"keep", "link"}

Flags ==
    /\ \A b \in Block : list[b] = "deleted" => s_bCollecting
    /\ \A b \in Block :
          list[b] = "loose" => \E t \in Thread, i \in Nat : Keeps(t, i, b)
    /\ \A b \in Block : b \in delete /\ list[b] # "deleted" =>
          \E t \in Thread, i \in Nat :
             Works(t, i, b) /\ frames[t][i].by \in {"ref", "all"}
    /\ \A b \in Block, t \in Thread, i \in Nat :
          Keeps(t, i, b) /\ frames[t][i].stage = "link" =>
             list[b] # "deleted" /\ used[b] = s_uUsedFlag
    /\ \A b \in Block : list[b] = "current" /\ used[b] # s_uUsedFlag =>
          \E t \in Thread, i \in Nat :
             Frees(t, i, b) /\ frames[t][i].stage \in {"items", "keep"}

-----------------------------------------------------------------------------
(* Programs whose destructors store nothing.                               *)

\* Nothing but the items of its destructor refers to a block that hb_gcRefFree()
\* frees, nothing but C code to what C code holds, and that is no object.
Private ==
    /\ \A b \in Block, t \in Thread, i \in Nat :
          Frees(t, i, b) => Holders(b) \subseteq {<<t, i>>}
    /\ \A g \in refs[CCode] : Holders(g) = {CCode} /\ g \notin objects

\* What the collector has cleared stays empty.
Emptied ==
    \A b \in Block :
        list[b] = "deleted" /\ b \notin unswept /\ refs[b] # {} =>
            \E t \in Thread, i \in Nat : Works(t, i, b) /\ frames[t][i].by = "gc"

\* What the program can get at: from its variables, from the stacks of its own
\* functions, and from the pointers of C code that can still be attached.
Attachable == {g \in refs[CCode] : locked[g] > 0 /\ g \notin delete}
Alive(b) ==
    /\ b \notin delete /\ list[b] \in {"current", "locked"}
    /\ list[b] = "current" => used[b] = s_uUsedFlag
Own(S) ==
    /\ refs[Statics] \subseteq S /\ Attachable \subseteq S
    /\ \A t \in Thread : refs[<<t, 0>>] \subseteq S
    /\ \A b \in S : Alive(b) /\ refs[b] \subseteq S
Apart == \E S \in SUBSET Block : Own(S)

\* Counters are exact.
Counts == \A b \in Block : counter[b] <= Cardinality(Holders(b))

Core == Safe /\ Rest /\ Lone /\ Levels /\ Flags
Tidy == Private /\ Emptied /\ Apart /\ Counts
Exact == Core /\ (~program.storing => Tidy)

-----------------------------------------------------------------------------
(* Rest and Lone are kept.                                                 *)

\* How the frames of a thread that runs may change.
FrameStep(t) ==
    \/ frames' = frames /\ ~At(t, "link")
    \/ /\ frames[t] = <<>> \/ \E s \in {"dtor", "items", "final"} : At(t, s)
       /\ Len(frames[t]) < MaxFrames
       /\ \E f \in AnyFrame : f.stage # "link" /\ frames' = Pushed(t, f)
    \/ frames[t] # <<>> /\ frames' = Popped(t)
    \/ \E s \in Stages, new \in Stages \ {"link"} : At(t, s) /\ frames' = Staged(t, new)

\* hb_gcLink() is called next by a thread that gets there.
LEMMA NotLinking ==
  ASSUME TypeOK, Rest, NEW t \in Thread, FrameStep(t)
  PROVE  ~At(t, "link")'
<1>1. FramesOK BY Parts
<1>2. CASE frames' = frames /\ ~At(t, "link")
  BY <1>2 DEF At, Top
<1>3. ASSUME NEW f \in AnyFrame, f.stage # "link", frames' = Pushed(t, f)
      PROVE  ~At(t, "link")'
  <2>1. frames'[t] = Append(frames[t], f)
    BY <1>1, <1>3 DEF Pushed, FramesOK
  <2>2. frames'[t][Len(frames'[t])] = f
    BY <1>1, <2>1, AppendProperties DEF FramesOK
  <2> QED BY <1>3, <2>2 DEF At, Top
<1>4. CASE frames[t] # <<>> /\ frames' = Popped(t)
  <2> DEFINE n == Len(frames[t])
  <2>1. /\ n \in Nat /\ Here(t, n)
        /\ \A i \in Nat : Here(t, i)' <=> Here(t, i) /\ i # n
        /\ \A i \in Nat : Here(t, i)' => frames'[t][i] = frames[t][i]
    BY <1>1, <1>4, PopFacts
  <2> SUFFICES ASSUME At(t, "link")' PROVE FALSE
    OBVIOUS
  <2> DEFINE m == Len(frames'[t])
  <2>2. FramesOK' BY <1>1, <1>4, Pop
  <2>3. m \in Nat /\ m \in 1..Len(frames'[t]) /\ frames'[t][m].stage = "link"
    BY <2>2 DEF At, Top, FramesOK
  <2>4. Here(t, m) /\ m # n /\ frames[t][m].stage = "link"
    BY <2>1, <2>3 DEF Here
  <2>5. Here(t, m + 1)
    BY <2>1, <2>3, <2>4 DEF Here
  <2> HIDE DEF n, m
  <2> QED BY <2>3, <2>4, <2>5 DEF Rest
<1>5. ASSUME NEW s \in Stages, NEW new \in Stages \ {"link"}, At(t, s),
             frames' = Staged(t, new)
      PROVE  ~At(t, "link")'
  <2> DEFINE n == Len(frames[t])
  <2>1. /\ n \in Nat /\ frames'[t][n].stage = new
        /\ \A i \in Nat : Here(t, i)' <=> Here(t, i)
    BY <1>1, <1>5, StageFacts
  <2>2. FramesOK' BY <1>1, <1>5, Stage
  <2>3. Len(frames'[t]) = n
    <3>1. frames'[t] = [frames[t] EXCEPT ![n].stage = new]
      BY <1>1, <1>5 DEF Staged, FramesOK
    <3> QED BY <1>1, <3>1 DEF FramesOK
  <2> QED BY <2>1, <2>3 DEF At, Top
<1> QED BY <1>2, <1>3, <1>4, <1>5 DEF FrameStep

\* A step of a thread that runs.
LEMMA RestRuns ==
  ASSUME TypeOK, Rest, NEW t \in Thread, t \in inside, stopper' # t,
         stopper' \in {stopper, NoThread}, UNCHANGED <<program, inside>>,
         \/ FrameStep(t)
         \/ \E s \in Stages, new \in Stages : At(t, s) /\ frames' = Staged(t, new)
  PROVE  Rest' /\ t \in program.threads /\ FramesOK'
<1>1. FramesOK BY Parts
<1>2. t \in program.threads BY DEF Rest
<1> DEFINE Below(u) == \A i \in Nat :
               Here(u, i) /\ Here(u, i + 1) => frames[u][i].stage \in {"dtor", "items", "final"}
<1>3. \A u \in Thread : Below(u) BY DEF Rest
<1>4. /\ \A u \in Thread \ {t} : frames'[u] = frames[u]
      /\ Below(t)' /\ FramesOK'
  <2> DEFINE n == Len(frames[t])
  <2>1. CASE frames' = frames
    BY <1>1, <1>3, <2>1 DEF Here, FramesOK
  <2>2. ASSUME NEW f \in AnyFrame, frames' = Pushed(t, f), Len(frames[t]) < MaxFrames,
               frames[t] = <<>> \/ \E s \in {"dtor", "items", "final"} : At(t, s)
        PROVE  /\ \A u \in Thread \ {t} : frames'[u] = frames[u]
               /\ Below(t)' /\ FramesOK'
    <3>1. /\ n \in Nat
          /\ \A i \in Nat : Here(t, i)' <=> Here(t, i) \/ i = n + 1
          /\ \A i \in Nat : Here(t, i) => frames'[t][i] = frames[t][i]
      BY <1>1, <2>2, PushFacts
    <3>2. \A i \in Nat : Here(t, i) /\ i = n =>
             frames[t][i].stage \in {"dtor", "items", "final"}
      BY <2>2 DEF At, Top, Here
    <3>3. \A i \in Nat : Here(t, i) <=> i \in 1..n
      BY DEF Here
    <3>4. ASSUME NEW i \in Nat, Here(t, i)', Here(t, i + 1)'
          PROVE  frames'[t][i].stage \in {"dtor", "items", "final"}
      <4>1. i \in 1..n /\ (i = n \/ i + 1 \in 1..n)
        BY <3>1, <3>3, <3>4
      <4> QED BY <1>3, <3>1, <3>2, <3>3, <4>1
    <3>5. FramesOK' BY <1>1, <2>2, Push
    <3>6. \A u \in Thread \ {t} : frames'[u] = frames[u]
      BY <1>1, <2>2 DEF Pushed, FramesOK
    <3> QED BY <3>4, <3>5, <3>6
  <2>3. CASE frames[t] # <<>> /\ frames' = Popped(t)
    <3>1. /\ \A i \in Nat : Here(t, i)' => Here(t, i)
          /\ \A i \in Nat : Here(t, i)' => frames'[t][i] = frames[t][i]
      BY <1>1, <2>3, PopFacts
    <3>2. FramesOK' BY <1>1, <2>3, Pop
    <3>3. \A u \in Thread \ {t} : frames'[u] = frames[u]
      BY <1>1, <2>3 DEF Popped, FramesOK
    <3> QED BY <1>3, <3>1, <3>2, <3>3
  <2>4. ASSUME NEW s \in Stages, NEW new \in Stages, At(t, s), frames' = Staged(t, new)
        PROVE  /\ \A u \in Thread \ {t} : frames'[u] = frames[u]
               /\ Below(t)' /\ FramesOK'
    <3>1. /\ n \in Nat
          /\ \A i \in Nat : Here(t, i)' <=> Here(t, i)
          /\ \A i \in Nat : Here(t, i) /\ i # n => frames'[t][i] = frames[t][i]
      BY <1>1, <2>4, StageFacts
    <3>2. \A i \in Nat : Here(t, i) <=> i \in 1..n
      BY DEF Here
    <3>3. \A i \in Nat : Here(t, i) /\ Here(t, i + 1) => i # n
      BY <3>1, <3>2
    <3>4. FramesOK' BY <1>1, <2>4, Stage
    <3>5. \A u \in Thread \ {t} : frames'[u] = frames[u]
      BY <1>1, <2>4 DEF Staged, FramesOK
    <3> QED BY <1>3, <3>1, <3>3, <3>4, <3>5
  <2> QED BY <2>1, <2>2, <2>3, <2>4 DEF FrameStep
<1>5. ASSUME NEW u \in Thread, u \notin inside' \/ stopper' = u PROVE AtPRG(u)'
  <2>1. u # t BY <1>5
  <2>2. AtPRG(u) BY <1>5, NameAssumption DEF Rest
  <2> QED BY <1>4, <2>1, <2>2 DEF AtPRG, At, Top
<1>6. \A u \in Thread, i \in Nat :
         Here(u, i)' /\ Here(u, i + 1)' => frames'[u][i].stage \in {"dtor", "items", "final"}
  <2> SUFFICES ASSUME NEW u \in Thread PROVE Below(u)'
    OBVIOUS
  <2>1. CASE u = t BY <1>4, <2>1
  <2>2. CASE u # t BY <1>3, <1>4, <2>2 DEF Here
  <2> QED BY <2>1, <2>2
<1>7. \A u \in Thread : frames'[u] # <<>> => u \in program.threads
  BY <1>2, <1>4 DEF Rest
<1>8. inside' \subseteq program'.threads /\ stopper' \in program'.threads \cup {NoThread}
  BY DEF Rest
<1> QED BY <1>2, <1>4, <1>5, <1>6, <1>7, <1>8 DEF Rest

-----------------------------------------------------------------------------
(* Levels are kept.                                                        *)

Dtor(t, i) == Here(t, i) /\ frames[t][i].stage = "dtor"

\* The same destructors run.
DtorsSame ==
    \A u \in Thread, i \in Nat :
        /\ Dtor(u, i)' <=> Dtor(u, i)
        /\ Dtor(u, i) => frames'[u][i].block = frames[u][i].block

\* Calls and returns of other functions leave them alone.
LEMMA DtorsKept ==
  ASSUME FramesOK, NEW t \in Thread,
         \/ frames' = frames
         \/ \E f \in AnyFrame : f.stage # "dtor" /\ frames' = Pushed(t, f)
         \/ frames[t] # <<>> /\ ~At(t, "dtor") /\ frames' = Popped(t)
         \/ \E s, new \in Stages \ {"dtor"} : At(t, s) /\ frames' = Staged(t, new)
  PROVE  DtorsSame
<1>1. CASE frames' = frames
  BY <1>1 DEF DtorsSame, Dtor, Here
<1>2. ASSUME NEW f \in AnyFrame, f.stage # "dtor", frames' = Pushed(t, f)
      PROVE  DtorsSame
  BY <1>2, PushFacts DEF DtorsSame, Dtor
<1>3. CASE frames[t] # <<>> /\ ~At(t, "dtor") /\ frames' = Popped(t)
  BY <1>3, PopFacts DEF DtorsSame, Dtor, At, Top
<1>4. ASSUME NEW s \in Stages \ {"dtor"}, NEW new \in Stages \ {"dtor"}, At(t, s),
             frames' = Staged(t, new)
      PROVE  DtorsSame
  <2> DEFINE n == Len(frames[t])
  <2>1. /\ n \in Nat /\ Here(t, n)
        /\ \A u \in Thread, i \in Nat :
              /\ Here(u, i)' <=> Here(u, i)
              /\ Here(u, i) /\ ~(u = t /\ i = n)
                    => frames'[u][i] = frames[u][i]
        /\ frames'[t][n].stage = new
    BY <1>4, StageFacts
  <2>2. frames[t][n].stage = s
    BY <1>4 DEF At, Top
  <2> HIDE DEF n
  <2> QED BY <1>4, <2>1, <2>2 DEF DtorsSame, Dtor
<1> QED BY <1>1, <1>2, <1>3, <1>4

LEMMA LevelsSame ==
  ASSUME Levels, DtorsSame,
         \A u \in Thread, i \in Nat :
            i <= MaxFrames /\ refs'[<<u, i>>] # {} =>
               refs[<<u, i>>] # {} \/ i = 0 \/ Dtor(u, i),
         \A u \in Thread, i \in Nat :
            Dtor(u, i) /\ frames[u][i].block \in refs[<<u, i>>] =>
               frames[u][i].block \in refs'[<<u, i>>],
         \A b \in Block : list'[b] = "free" =>
            (list[b] = "free" /\ refs'[b] = refs[b]) \/ refs'[b] = {}
  PROVE  Levels'
BY DEF Levels, DtorsSame, Dtor

-----------------------------------------------------------------------------
(* Flags are kept.                                                         *)

\* By the steps of items: a block that is not marked may become current with
\* its flag renewed, or locked.
LEMMA FlagsSame ==
  ASSUME Flags, UNCHANGED <<frames, delete, s_uUsedFlag, s_bCollecting>>,
         \A b \in Block :
            \/ list'[b] = list[b] /\ used'[b] = used[b]
            \/ /\ b \notin delete /\ list'[b] \in {"current", "locked"}
               /\ \/ used'[b] = s_uUsedFlag
                  \/ used'[b] = used[b] /\ list'[b] = "locked"
  PROVE  Flags'
BY DEF Flags, Keeps, Frees, Works, Here

\* By a call, for a block of which the collector may have taken hold.
LEMMA FlagsPush ==
  ASSUME TypeOK, Flags, NEW t \in Thread, NEW b \in Block,
         NEW s \in {"clear", "keep"}, NEW k \in {"ref", "gc", "all"},
         frames' = Pushed(t, Frame(b, s, k)),
         UNCHANGED <<used, s_uUsedFlag, s_bCollecting>>,
         \/ k = "ref" /\ delete' = delete \cup {b} /\ list' = list
         \/ k = "gc" /\ UNCHANGED <<delete, list>>
         \/ /\ k = "all" /\ s = "keep" /\ UNCHANGED delete
            /\ list' = [list EXCEPT ![b] = "loose"]
  PROVE  Flags'
<1> DEFINE n == Len(frames[t])
           f == Frame(b, s, k)
<1>1. f \in AnyFrame /\ f.block = b /\ f.stage = s /\ f.by = k
  BY DEF Frame, AnyFrame, CleanupFrame
<1>2. FramesOK BY Parts
<1>3. /\ n \in Nat
      /\ \A u \in Thread, i \in Nat :
            Here(u, i)' <=> Here(u, i) \/ (u = t /\ i = n + 1)
      /\ \A u \in Thread, i \in Nat :
            Here(u, i) => frames'[u][i] = frames[u][i]
      /\ ~Here(t, n + 1)
      /\ frames'[t][n + 1] = f
  BY <1>1, <1>2, PushFacts
<1> HIDE DEF n, f
<1>4. list \in [Block -> Lists] BY Parts DEF RestOK
<1>5. ASSUME NEW c \in Block
      PROVE  /\ list'[c] = "deleted" => s_bCollecting'
             /\ list'[c] = "loose" => \E u \in Thread, i \in Nat : Keeps(u, i, c)'
             /\ c \in delete' /\ list'[c] # "deleted" =>
                  \E u \in Thread, i \in Nat :
                     Works(u, i, c)' /\ frames'[u][i].by \in {"ref", "all"}
             /\ list'[c] = "current" /\ used'[c] # s_uUsedFlag' =>
                  \E u \in Thread, i \in Nat :
                     Frees(u, i, c)' /\ frames'[u][i].stage \in {"items", "keep"}
  <2>1. \A u \in Thread, i \in Nat : Keeps(u, i, c) => Keeps(u, i, c)'
    BY <1>3 DEF Keeps
  <2>2. \A u \in Thread, i \in Nat :
           Works(u, i, c) => Works(u, i, c)' /\ frames'[u][i] = frames[u][i]
    BY <1>3 DEF Works
  <2>3. \A i \in Nat : c = b /\ i = n + 1 =>
           /\ k = "all" => Keeps(t, i, c)'
           /\ Works(t, i, c)' /\ frames'[t][i].by = k
    BY <1>1, <1>3 DEF Keeps, Works
  <2>4. list'[c] = "loose" => \E u \in Thread, i \in Nat : Keeps(u, i, c)'
    <3>1. CASE list[c] = "loose" BY <2>1, <3>1 DEF Flags
    <3>2. CASE c = b /\ k = "all" BY <1>3, <2>3, <3>2
    <3> QED BY <1>4, <3>1, <3>2
  <2>5. c \in delete' /\ list'[c] # "deleted" =>
           \E u \in Thread, i \in Nat :
              Works(u, i, c)' /\ frames'[u][i].by \in {"ref", "all"}
    <3>1. CASE c = b /\ k \in {"ref", "all"} BY <1>3, <2>3, <3>1
    <3>2. CASE c \in delete /\ list[c] # "deleted"
      BY <2>2, <3>2 DEF Flags
    <3> QED BY <1>4, <3>1, <3>2
  <2>6. list'[c] = "current" /\ used'[c] # s_uUsedFlag' =>
           \E u \in Thread, i \in Nat :
              Frees(u, i, c)' /\ frames'[u][i].stage \in {"items", "keep"}
    BY <1>4, <2>2 DEF Flags, Frees
  <2>7. list'[c] = "deleted" => s_bCollecting'
    BY <1>4 DEF Flags
  <2> QED BY <2>4, <2>5, <2>6, <2>7
<1>6. ASSUME NEW c \in Block, NEW u \in Thread, NEW i \in Nat,
             Keeps(u, i, c)', frames'[u][i].stage = "link"
      PROVE  list'[c] # "deleted" /\ used'[c] = s_uUsedFlag'
  <2>1. Keeps(u, i, c) /\ frames[u][i].stage = "link"
    BY <1>1, <1>3, <1>6 DEF Keeps
  <2> QED BY <1>4, <2>1 DEF Flags
<1> QED BY <1>5, <1>6 DEF Flags

\* By a return.
LEMMA FlagsPop ==
  ASSUME TypeOK, Flags, Work, NEW t \in Thread, NEW s, NEW b,
         At(t, s), b = Top(t).block,
         frames' = Popped(t), UNCHANGED s_uUsedFlag,
         \/ /\ s = "items" /\ Top(t).by = "ref" /\ delete' = delete \ {b}
            /\ list' = [list EXCEPT ![b] = "free"]
            /\ UNCHANGED <<used, s_bCollecting>>
         \/ /\ s = "keep" /\ Top(t).by = "ref"
            /\ IF b \in delete
                 THEN /\ used' = [used EXCEPT ![b] = s_uUsedFlag]
                      /\ delete' = delete \ {b}
                 ELSE UNCHANGED <<used, delete>>
            /\ UNCHANGED <<list, s_bCollecting>>
         \/ /\ s = "items" /\ Top(t).by = "gc"
            /\ UNCHANGED <<used, delete, list, s_bCollecting>>
         \/ /\ s = "link" /\ Top(t).by = "all"
            /\ list' = [list EXCEPT ![b] = "current"]
            /\ UNCHANGED <<used, delete, s_bCollecting>>
         \/ /\ s = "final" /\ \A c \in Block : list[c] # "deleted"
            /\ UNCHANGED <<used, delete, list>>
  PROVE  Flags'
<1> DEFINE n == Len(frames[t])
<1>1. FramesOK BY Parts
<1>2. /\ n \in Nat /\ Here(t, n)
      /\ \A u \in Thread, i \in Nat :
            Here(u, i)' <=> Here(u, i) /\ ~(u = t /\ i = n)
      /\ \A u \in Thread, i \in Nat :
            Here(u, i)' => frames'[u][i] = frames[u][i]
  BY <1>1, PopFacts DEF At
<1>3. Top(t) = frames[t][n] /\ frames[t][n].stage = s /\ frames[t][n].block = b
  BY <1>1, AtTop
<1>4. list \in [Block -> Lists] /\ used \in [Block -> BOOLEAN]
  BY Parts DEF RestOK
<1>5. s # "final" => b \in Block
  BY <1>1, TopFrame DEF Stages
<1> HIDE DEF n
<1>6. \A u \in Thread, i \in Nat, c \in Block :
         /\ Keeps(u, i, c)' <=> Keeps(u, i, c) /\ ~(u = t /\ i = n)
         /\ Works(u, i, c)' <=> Works(u, i, c) /\ ~(u = t /\ i = n)
         /\ Here(u, i)' => frames'[u][i] = frames[u][i]
  BY <1>2 DEF Keeps, Works
<1>7. s \in {"items", "keep"} => Works(t, n, b) /\ b \in delete
  <2>1. s \in {"items", "keep"} => Works(t, n, b)
    BY <1>2, <1>3 DEF Works
  <2> QED BY <1>2, <1>5, <2>1 DEF Work, OneWorker
<1>8. s = "link" /\ Top(t).by = "all" => Keeps(t, n, b)
  BY <1>2, <1>3 DEF Keeps
<1>9. ASSUME NEW c \in Block
      PROVE  /\ list'[c] = "deleted" => s_bCollecting'
             /\ list'[c] = "loose" => \E u \in Thread, i \in Nat : Keeps(u, i, c)'
             /\ c \in delete' /\ list'[c] # "deleted" =>
                  \E u \in Thread, i \in Nat :
                     Works(u, i, c)' /\ frames'[u][i].by \in {"ref", "all"}
             /\ list'[c] = "current" /\ used'[c] # s_uUsedFlag' =>
                  \E u \in Thread, i \in Nat :
                     Frees(u, i, c)' /\ frames'[u][i].stage \in {"items", "keep"}
  <2>1. list'[c] = "deleted" => s_bCollecting'
    BY <1>4 DEF Flags
  <2>2. ASSUME list'[c] = "loose"
        PROVE  \E u \in Thread, i \in Nat : Keeps(u, i, c)'
    <3>1. list[c] = "loose" BY <1>4, <2>2
    <3>2. PICK u \in Thread, i \in Nat : Keeps(u, i, c)
      BY <3>1 DEF Flags
    <3>3. ~(u = t /\ i = n)
      BY <1>3, <1>4, <2>2, <3>1, <3>2 DEF Keeps
    <3> QED BY <1>6, <3>2, <3>3
  <2>3. ASSUME c \in delete', list'[c] # "deleted"
        PROVE  \E u \in Thread, i \in Nat :
                  Works(u, i, c)' /\ frames'[u][i].by \in {"ref", "all"}
    <3>1. c \in delete /\ list[c] # "deleted"
      BY <1>4, <1>7, <1>8, <1>2, <1>3, <2>3 DEF Flags
    <3>2. PICK u \in Thread, i \in Nat :
             Works(u, i, c) /\ frames[u][i].by \in {"ref", "all"}
      BY <3>1 DEF Flags
    <3>3. ~(u = t /\ i = n)
      BY <1>3, <1>7, <2>3, <3>2 DEF Works
    <3> QED BY <1>6, <3>2, <3>3 DEF Works
  <2>4. ASSUME list'[c] = "current", used'[c] # s_uUsedFlag'
        PROVE  \E u \in Thread, i \in Nat :
                  Frees(u, i, c)' /\ frames'[u][i].stage \in {"items", "keep"}
    <3>1. list[c] = "current" /\ used[c] # s_uUsedFlag
      BY <1>2, <1>3, <1>4, <1>5, <1>7, <1>8, <2>4 DEF Flags
    <3>2. PICK u \in Thread, i \in Nat :
             Frees(u, i, c) /\ frames[u][i].stage \in {"items", "keep"}
      BY <3>1 DEF Flags
    <3>3. ~(u = t /\ i = n)
      BY <1>3, <1>4, <1>5, <1>7, <2>4, <3>2 DEF Frees, Works
    <3> QED BY <1>6, <3>2, <3>3 DEF Frees, Works
  <2> QED BY <2>1, <2>2, <2>3, <2>4
<1>10. ASSUME NEW c \in Block, NEW u \in Thread, NEW i \in Nat,
              Keeps(u, i, c)', frames'[u][i].stage = "link"
       PROVE  list'[c] # "deleted" /\ used'[c] = s_uUsedFlag'
  <2>1. Keeps(u, i, c) /\ frames[u][i].stage = "link"
    BY <1>6, <1>10 DEF Keeps
  <2>2. list[c] # "deleted" /\ used[c] = s_uUsedFlag
    BY <2>1 DEF Flags
  <2> QED BY <1>4, <2>2
<1> QED BY <1>9, <1>10 DEF Flags

\* By the progress of a cleanup function, and when a block is about to be linked.
LEMMA FlagsStage ==
  ASSUME TypeOK, Flags, Work, NEW t \in Thread, NEW s \in Stages, NEW new \in Stages, NEW b,
         At(t, s), b = Top(t).block,
         frames' = Staged(t, new), UNCHANGED <<list, s_uUsedFlag, s_bCollecting>>,
         \/ /\ s \in {"clear", "dtor", "items"} /\ new \in {"dtor", "items", "keep"}
            /\ s = "items" => new = "keep"
            /\ UNCHANGED <<used, delete>>
         \/ /\ s = "keep" /\ new = "link" /\ Top(t).by = "all"
            /\ used' = [used EXCEPT ![b] = s_uUsedFlag]
            /\ delete' = delete \ {b}
  PROVE  Flags'
<1> DEFINE n == Len(frames[t])
<1>1. FramesOK BY Parts
<1>2. /\ n \in Nat /\ Here(t, n)
      /\ \A u \in Thread, i \in Nat :
            /\ Here(u, i)' <=> Here(u, i)
            /\ Here(u, i) /\ ~(u = t /\ i = n)
                  => frames'[u][i] = frames[u][i]
      /\ frames'[t][n].stage = new
      /\ frames'[t][n].block = frames[t][n].block
      /\ frames'[t][n].by = frames[t][n].by
  BY <1>1, StageFacts
<1>3. /\ frames[t][n].stage = s /\ frames[t][n].block = b /\ frames[t][n].by = Top(t).by
      /\ b \in Block
  BY <1>1, AtTop, TopFrame
<1>4. list \in [Block -> Lists] /\ used \in [Block -> BOOLEAN]
  BY Parts DEF RestOK
<1> HIDE DEF n
<1>5. \A u \in Thread, i \in Nat, c \in Block :
         /\ Works(u, i, c) /\ (new # "link" \/ c # b)
               => Works(u, i, c)' /\ frames'[u][i].by = frames[u][i].by
         /\ Keeps(u, i, c) => Keeps(u, i, c)'
         /\ Frees(u, i, c) /\ (new # "link" \/ c # b) => Frees(u, i, c)'
  BY <1>2, <1>3 DEF Keeps, Works, Frees
<1>6. new = "link" => list[b] = "loose"
  <2>1. s = "keep" => Works(t, n, b) BY <1>2, <1>3 DEF Works
  <2> QED BY <1>2, <1>3, <2>1 DEF Work, Places
<1>7. ASSUME NEW c \in Block
      PROVE  /\ list'[c] = "deleted" => s_bCollecting'
             /\ list'[c] = "loose" => \E u \in Thread, i \in Nat : Keeps(u, i, c)'
             /\ c \in delete' /\ list'[c] # "deleted" =>
                  \E u \in Thread, i \in Nat :
                     Works(u, i, c)' /\ frames'[u][i].by \in {"ref", "all"}
             /\ list'[c] = "current" /\ used'[c] # s_uUsedFlag' =>
                  \E u \in Thread, i \in Nat :
                     Frees(u, i, c)' /\ frames'[u][i].stage \in {"items", "keep"}
  <2>1. list'[c] = "deleted" => s_bCollecting'
    BY DEF Flags
  <2>2. list'[c] = "loose" => \E u \in Thread, i \in Nat : Keeps(u, i, c)'
    BY <1>5 DEF Flags
  <2>3. ASSUME c \in delete', list'[c] # "deleted"
        PROVE  \E u \in Thread, i \in Nat :
                  Works(u, i, c)' /\ frames'[u][i].by \in {"ref", "all"}
    <3>1. c \in delete /\ (new # "link" \/ c # b)
      BY <2>3
    <3>2. PICK u \in Thread, i \in Nat :
             Works(u, i, c) /\ frames[u][i].by \in {"ref", "all"}
      BY <2>3, <3>1 DEF Flags
    <3> QED BY <1>5, <3>1, <3>2
  <2>4. ASSUME list'[c] = "current", used'[c] # s_uUsedFlag'
        PROVE  \E u \in Thread, i \in Nat :
                  Frees(u, i, c)' /\ frames'[u][i].stage \in {"items", "keep"}
    <3>1. /\ list[c] = "current" /\ used[c] # s_uUsedFlag
          /\ new # "link" \/ c # b
      BY <1>4, <1>6, <2>4
    <3>2. PICK u \in Thread, i \in Nat :
             Frees(u, i, c) /\ frames[u][i].stage \in {"items", "keep"}
      BY <3>1 DEF Flags
    <3>3. Frees(u, i, c)' BY <1>5, <3>1, <3>2
    <3>4. CASE u = t /\ i = n
      <4>1. s \in {"items", "keep"} /\ c = b
        BY <1>3, <3>2, <3>4 DEF Frees, Works
      <4>2. new = "keep" BY <3>1, <4>1
      <4> QED BY <1>2, <3>3, <3>4, <4>2
    <3>5. CASE ~(u = t /\ i = n)
      BY <1>2, <3>2, <3>3, <3>5 DEF Frees, Works
    <3> QED BY <3>4, <3>5
  <2> QED BY <2>1, <2>2, <2>3, <2>4
<1>8. ASSUME NEW c \in Block, NEW u \in Thread, NEW i \in Nat,
             Keeps(u, i, c)', frames'[u][i].stage = "link"
      PROVE  list'[c] # "deleted" /\ used'[c] = s_uUsedFlag'
  <2>1. CASE u = t /\ i = n
    <3>1. new = "link" /\ c = b BY <1>2, <1>3, <1>8, <2>1 DEF Keeps
    <3> QED BY <1>4, <1>6, <3>1
  <2>2. CASE ~(u = t /\ i = n)
    <3>1. Keeps(u, i, c) /\ frames[u][i].stage = "link"
      BY <1>2, <1>8, <2>2 DEF Keeps
    <3>2. list[c] # "deleted" /\ used[c] = s_uUsedFlag
      BY <3>1 DEF Flags
    <3> QED BY <1>4, <3>2
  <2> QED BY <2>1, <2>2
<1> QED BY <1>7, <1>8 DEF Flags

\* By the collector, when it frees a deleted block.
LEMMA FlagsFree ==
  ASSUME TypeOK, Flags, NEW b \in Block, list[b] = "deleted",
         list' = [list EXCEPT ![b] = "free"], delete' = delete \ {b},
         UNCHANGED <<frames, used, s_uUsedFlag, s_bCollecting>>
  PROVE  Flags'
<1>1. list \in [Block -> Lists] BY Parts DEF RestOK
<1> QED BY <1>1 DEF Flags, Keeps, Frees, Works, Here

\* Nobody is in a cleanup function but below a destructor while a thread that
\* stopped the others is alone.
LEMMA AllAtRest ==
  ASSUME TypeOK, Rest, World!Promise, NEW t \in Thread, World!Resume(t)
  PROVE  /\ \A u \in Thread : AtPRG(u)
         /\ \A u \in Thread, i \in Nat :
               Here(u, i) => frames[u][i].stage \in {"dtor", "items", "final"}
<1>1. inside = {t} /\ stopper = t
  BY DEF World!Resume, World!Promise, World!Granted
<1>2. \A u \in Thread : AtPRG(u)
  BY <1>1 DEF Rest
<1>3. ASSUME NEW u \in Thread, NEW i \in Nat, Here(u, i)
      PROVE  frames[u][i].stage \in {"dtor", "items", "final"}
  <2>1. Len(frames[u]) \in Nat /\ frames[u] # <<>>
    BY <1>3, Parts DEF Here, FramesOK
  <2>2. CASE i = Len(frames[u])
    BY <1>2, <2>1, <2>2 DEF AtPRG, At, Top
  <2>3. CASE i # Len(frames[u])
    <3>1. Here(u, i + 1) BY <1>3, <2>1, <2>3 DEF Here
    <3> QED BY <1>3, <3>1 DEF Rest
  <2> QED BY <2>2, <2>3
<1> QED BY <1>2, <1>3

\* Before a collection no block is deleted or taken from its list.
LEMMA NoneDeleted ==
  ASSUME TypeOK, Work, Flags, ~s_bCollecting
  PROVE  /\ \A b \in Block : list[b] \in {"free", "current", "locked"}
         /\ \A b \in delete : \E u \in Thread, i \in Nat : Frees(u, i, b)
<1>1. \A u \in Thread, i \in Nat : ~FinalAt(u, i)
  BY DEF Work, OneCollector
<1>2. \A u \in Thread, i \in Nat :
         Here(u, i) /\ frames[u][i].by # "ref" => frames[u][i].stage = "final"
  <2> SUFFICES ASSUME NEW u \in Thread, NEW i \in Nat, Here(u, i),
                      frames[u][i].by # "ref", frames[u][i].stage # "final"
               PROVE  FALSE
    OBVIOUS
  <2>1. FinalAt(u, i - 1) /\ i - 1 \in Nat
    BY DEF Work, AboveCollector, Here
  <2> QED BY <1>1, <2>1
<1>3. list \in [Block -> Lists] /\ delete \subseteq Block
  BY Parts DEF RestOK
<1>4. ASSUME NEW b \in Block PROVE list[b] # "deleted" /\ list[b] # "loose"
  <2>1. \A u \in Thread, i \in Nat : ~Keeps(u, i, b)
    BY <1>2 DEF Keeps
  <2> QED BY <2>1 DEF Flags
<1>5. ASSUME NEW b \in delete PROVE \E u \in Thread, i \in Nat : Frees(u, i, b)
  <2>1. PICK u \in Thread, i \in Nat : Works(u, i, b)
    BY <1>3, <1>4 DEF Flags
  <2>2. frames[u][i].by = "ref"
    BY <1>2, <2>1 DEF Works
  <2> QED BY <2>1, <2>2 DEF Frees
<1> QED BY <1>3, <1>4, <1>5 DEF Lists

-----------------------------------------------------------------------------
(* Marking.                                                                *)

\* What hb_gcMark() reaches.
LEMMA ReachedFacts ==
  ASSUME NEW roots \in SUBSET Block, NEW through \in SUBSET Block,
         refs \in [Holder -> SUBSET Block]
  PROVE  /\ roots \subseteq Reached(roots, through)
         /\ \A c \in Reached(roots, through) \cap through :
               refs[c] \subseteq Reached(roots, through)
         /\ \A S \in SUBSET Block :
               roots \subseteq S /\ ClosedUnder(S, through) =>
                  Reached(roots, through) \subseteq S
<1>1. roots \subseteq Reached(roots, through)
  BY DEF Reached
<1>2. ASSUME NEW c \in Reached(roots, through) \cap through, NEW d \in refs[c]
      PROVE  d \in Reached(roots, through)
  <2>1. c \in Block /\ d \in Block
    BY SelfHolds
  <2>2. ASSUME NEW S \in SUBSET Block, roots \subseteq S, ClosedUnder(S, through)
        PROVE  d \in S
    <3>1. c \in S BY <2>2 DEF Reached
    <3> QED BY <2>2, <3>1 DEF ClosedUnder
  <2> QED BY <2>1, <2>2 DEF Reached
<1>3. \A S \in SUBSET Block :
         roots \subseteq S /\ ClosedUnder(S, through) =>
            Reached(roots, through) \subseteq S
  BY DEF Reached
<1> QED BY <1>1, <1>2, <1>3

\* What is marked, and what is swept.
LEMMA Marking1 ==
  ASSUME TypeOK
  PROVE  /\ Roots \in SUBSET Block /\ Unmet \in SUBSET Block
         /\ \A u \in Thread, i \in Nat : i <= MaxFrames => refs[<<u, i>>] \subseteq Roots
         /\ refs[Statics] \subseteq Roots
         /\ \A c \in Block : list[c] = "locked" => refs[c] \subseteq Roots
         /\ Roots \cap Unmet \subseteq Marked
         /\ \A c \in Marked : refs[c] \cap Unmet \subseteq Marked
         /\ Marked \subseteq Unmet
<1>1. refs \in [Holder -> SUBSET Block] BY Parts DEF ItemsOK
<1>2. \A u \in Thread, i \in Nat : i <= MaxFrames => <<u, i>> \in Stack
  BY BoundAssumption DEF Stack
<1>3. Roots \in SUBSET Block
  BY <1>1, SelfHolds DEF Roots, StackRoots, LockedRoots, Holder
<1>4. /\ \A u \in Thread, i \in Nat : i <= MaxFrames => refs[<<u, i>>] \subseteq Roots
      /\ refs[Statics] \subseteq Roots
  BY <1>2 DEF Roots, StackRoots
<1>5. \A c \in Block : list[c] = "locked" => refs[c] \subseteq Roots
  BY DEF Roots, LockedRoots
<1>6. Unmet \in SUBSET Block BY DEF Unmet
<1> HIDE DEF Roots, Unmet
<1>7. Roots \cap Unmet \subseteq Marked
  BY <1>1, <1>3, <1>6, ReachedFacts DEF Marked
<1>8. \A c \in Marked : refs[c] \cap Unmet \subseteq Marked
  BY <1>1, <1>3, <1>6, ReachedFacts DEF Marked
<1> QED BY <1>3, <1>4, <1>5, <1>6, <1>7, <1>8 DEF Marked

\* The flags after a collection.
LEMMA FlagsCollect ==
  ASSUME TypeOK, Work, Rest, Levels, Flags, World!Promise, NEW t \in Thread, Collect(t)
  PROVE  Flags'
<1> DEFINE n == Len(frames[t])
           f == Frame(NoBlock, "final", "all")
<1>1. FramesOK /\ list \in [Block -> Lists] /\ used \in [Block -> BOOLEAN]
      /\ s_uUsedFlag \in BOOLEAN /\ delete \subseteq Block
  BY Parts DEF RestOK
<1>2. f \in AnyFrame /\ f.block = NoBlock /\ f.stage = "final"
  BY DEF Frame, AnyFrame, CollectFrame
<1>3. /\ n \in Nat
      /\ \A u \in Thread, i \in Nat :
            Here(u, i)' <=> Here(u, i) \/ (u = t /\ i = n + 1)
      /\ \A u \in Thread, i \in Nat :
            Here(u, i) => frames'[u][i] = frames[u][i]
      /\ ~Here(t, n + 1)
      /\ frames'[t][n + 1] = f
  BY <1>1, <1>2, PushFacts DEF Collect
<1>4. /\ ~s_bCollecting /\ s_bCollecting' = TRUE
      /\ s_uUsedFlag' = ~s_uUsedFlag
      /\ used' = [b \in Block |-> IF b \in Marked THEN ~used[b] ELSE used[b]]
      /\ list' = [b \in Block |-> IF b \in Swept THEN "deleted" ELSE list[b]]
      /\ delete' = delete \cup Swept
      /\ World!Resume(t)
  BY DEF Collect
<1>5. \A b \in Block : list[b] \in {"free", "current", "locked"}
  BY <1>4, NoneDeleted
<1>6. \A u \in Thread, i \in Nat, b \in Block :
         /\ Frees(u, i, b) => Frees(u, i, b)' /\ frames'[u][i] = frames[u][i]
         /\ Keeps(u, i, b)' => Keeps(u, i, b)
  BY <1>2, <1>3 DEF Keeps, Frees, Works
<1>7. Swept = {b \in Unmet \ Marked : list[b] = "current" /\ b \notin delete}
  BY DEF Swept
<1>8. \A u \in Thread, i \in Nat :
         Here(u, i) => frames[u][i].stage \in {"dtor", "items", "final"}
  BY <1>4, AllAtRest
<1> HIDE DEF n, f, Swept
<1>9. ASSUME NEW b \in Block, b \in delete', list'[b] # "deleted"
      PROVE  \E u \in Thread, i \in Nat :
                Works(u, i, b)' /\ frames'[u][i].by \in {"ref", "all"}
  <2>1. b \in delete BY <1>4, <1>9
  <2>2. PICK u \in Thread, i \in Nat : Frees(u, i, b)
    BY <1>4, <2>1, NoneDeleted
  <2> QED BY <1>6, <2>2 DEF Frees
<1>10. ASSUME NEW b \in Block, list'[b] = "current", used'[b] # s_uUsedFlag'
       PROVE  \E u \in Thread, i \in Nat :
                 Frees(u, i, b)' /\ frames'[u][i].stage \in {"items", "keep"}
  <2>1. list[b] = "current" /\ b \notin Swept BY <1>4, <1>10
  <2>2. b \in Unmet /\ b \notin Marked
    <3>1. used[b] \in BOOLEAN /\ used'[b] = IF b \in Marked THEN ~used[b] ELSE used[b]
      BY <1>1, <1>4
    <3>2. b \in Marked => used[b] = s_uUsedFlag BY Marking1 DEF Unmet
    <3>3. b \notin Marked BY <1>1, <1>4, <1>10, <3>1, <3>2
    <3>4. used[b] = s_uUsedFlag BY <1>1, <1>4, <1>10, <3>1, <3>3
    <3> QED BY <2>1, <3>3, <3>4 DEF Unmet
  <2>3. b \in delete BY <1>7, <2>1, <2>2
  <2>4. PICK u \in Thread, i \in Nat : Frees(u, i, b)
    BY <1>4, <2>3, NoneDeleted
  <2>5. frames[u][i].stage # "dtor"
    <3> SUFFICES ASSUME frames[u][i].stage = "dtor" PROVE FALSE
      OBVIOUS
    <3>1. b \in refs[<<u, i>>] BY <2>4 DEF Levels, Frees, Works
    <3>2. i <= MaxFrames BY <1>1, <2>4, BoundAssumption DEF Frees, Works, Here, FramesOK
    <3> QED BY <2>2, <3>1, <3>2, Marking1
  <2>6. frames[u][i].stage = "items"
    BY <1>8, <2>4, <2>5 DEF Frees, Works
  <2> QED BY <1>6, <2>4, <2>6
<1>11. \A b \in Block : list'[b] # "loose"
  BY <1>4, <1>5
<1>12. ASSUME NEW b \in Block, NEW u \in Thread, NEW i \in Nat, Keeps(u, i, b)'
       PROVE  FALSE
  <2>1. Keeps(u, i, b) BY <1>6, <1>12
  <2> QED BY <1>8, <2>1 DEF Keeps
<1> QED BY <1>4, <1>9, <1>10, <1>11, <1>12 DEF Flags

-----------------------------------------------------------------------------
(* Exact counters.                                                         *)

LEMMA HoldersFinitePrime ==
  ASSUME NEW b \in Block
  PROVE  IsFiniteSet(Holders(b)') /\ Cardinality(Holders(b)') \in Nat
BY HolderFinite, FS_Subset, FS_CardinalityType DEF Holders

LEMMA UncountedPrime ==
  ASSUME CountCovers', NEW b \in Block, counter'[b] = 0
  PROVE  Holders(b)' = {}
<1>1. IsFiniteSet(Holders(b)') /\ Cardinality(Holders(b)') \in Nat
  BY HoldersFinitePrime
<1>2. Cardinality(Holders(b)') = 0
  BY <1>1 DEF CountCovers
<1> QED BY <1>1, <1>2, FS_EmptySet

\* A holder gets a reference that it did not have.
LEMMA GainExact ==
  ASSUME ItemsOK, Counts, NEW h \in Holder, NEW b \in Block, b \notin refs[h],
         refs' = [refs EXCEPT ![h] = @ \cup {b}],
         counter' = [counter EXCEPT ![b] = @ + 1]
  PROVE  Counts'
<1>1. Holders(b)' = Holders(b) \cup {h} /\ h \notin Holders(b)
  BY DEF Holders, ItemsOK
<1>2. \A c \in Block : c # b => Holders(c)' = Holders(c)
  BY DEF Holders, ItemsOK
<1>3. Cardinality(Holders(b) \cup {h}) = Cardinality(Holders(b)) + 1
  BY <1>1, HoldersFinite, FS_AddElement
<1>4. \A c \in Block : Cardinality(Holders(c)) \in Nat
  BY HoldersFinite, FS_CardinalityType
<1>5. ASSUME NEW c \in Block PROVE counter'[c] <= Cardinality(Holders(c)')
  <2>1. CASE c = b
    <3>1. counter'[b] = counter[b] + 1 /\ counter[b] \in Int
      BY DEF ItemsOK
    <3>2. counter[b] <= Cardinality(Holders(b)) /\ Cardinality(Holders(b)) \in Nat
      BY <1>4 DEF Counts
    <3>3. Cardinality(Holders(b)') = Cardinality(Holders(b)) + 1
      BY <1>1, <1>3
    <3>4. counter'[b] <= Cardinality(Holders(b)')
      BY <3>1, <3>2, <3>3
    <3> QED BY <2>1, <3>4
  <2>2. CASE c # b
    <3>1. counter'[c] = counter[c] /\ Holders(c)' = Holders(c)
      BY <1>2, <2>2 DEF ItemsOK
    <3> QED BY <3>1 DEF Counts
  <2> QED BY <2>1, <2>2
<1> QED BY <1>5 DEF Counts

\* A holder gives up a reference that it has.
LEMMA LossExact ==
  ASSUME ItemsOK, Counts, NEW h \in Holder, NEW b \in refs[h],
         refs' = [refs EXCEPT ![h] = @ \ {b}],
         counter' = [counter EXCEPT ![b] = @ - 1]
  PROVE  Counts'
<1>0. b \in Block BY DEF ItemsOK
<1>1. Holders(b)' = Holders(b) \ {h} /\ h \in Holders(b)
  BY DEF Holders, ItemsOK
<1>2. \A c \in Block : c # b => Holders(c)' = Holders(c)
  BY DEF Holders, ItemsOK
<1>3. Cardinality(Holders(b) \ {h}) = Cardinality(Holders(b)) - 1
  BY <1>0, <1>1, HoldersFinite, FS_RemoveElement
<1>4. \A c \in Block : Cardinality(Holders(c)) \in Nat
  BY HoldersFinite, FS_CardinalityType
<1>5. ASSUME NEW c \in Block PROVE counter'[c] <= Cardinality(Holders(c)')
  <2>1. CASE c = b
    <3>1. counter'[b] = counter[b] - 1 /\ counter[b] \in Int
      BY <1>0 DEF ItemsOK
    <3>2. counter[b] <= Cardinality(Holders(b)) /\ Cardinality(Holders(b)) \in Nat
      BY <1>0, <1>4 DEF Counts
    <3>3. Cardinality(Holders(b)') = Cardinality(Holders(b)) - 1
      BY <1>1, <1>3
    <3>4. counter'[b] <= Cardinality(Holders(b)')
      BY <3>1, <3>2, <3>3
    <3> QED BY <2>1, <3>4
  <2>2. CASE c # b
    <3>1. counter'[c] = counter[c] /\ Holders(c)' = Holders(c)
      BY <1>0, <1>2, <2>2 DEF ItemsOK
    <3> QED BY <3>1 DEF Counts
  <2> QED BY <2>1, <2>2
<1> QED BY <1>5 DEF Counts

\* References stay, or pass from one holder to another.
LEMMA SameExact ==
  ASSUME Counts, UNCHANGED counter,
         \A b \in Block : Cardinality(Holders(b)') = Cardinality(Holders(b))
  PROVE  Counts'
BY DEF Counts

\* A new block is counted once, and each block that it refers to once more.
LEMMA AllocateExact ==
  ASSUME ItemsOK, Counts, NoDanglingItem, NEW b \in Block, NEW h \in Holder, h \notin Block,
         NEW l, NEW n, NEW contents \in SUBSET Block, b \notin contents,
         refs[b] = {}, Allocate(b, l, n, h, contents)
  PROVE  /\ Counts' /\ Holders(b)' = {h}
         /\ \A c \in Block : c # b =>
               Holders(c)' = IF c \in contents THEN Holders(c) \cup {b} ELSE Holders(c)
<1>0. list[b] = "free" /\ Holders(b) = {} BY DEF Allocate, NoDanglingItem
<1>1. \A g \in Holder : refs'[g] = IF g = b THEN contents
                                   ELSE IF g = h THEN refs[g] \cup {b} ELSE refs[g]
  BY SelfHolds DEF Allocate, ItemsOK
<1>2. Holders(b)' = {h} BY <1>0, <1>1 DEF Holders
<1>3. \A c \in Block : c # b =>
         Holders(c)' = IF c \in contents THEN Holders(c) \cup {b} ELSE Holders(c)
  BY <1>1, SelfHolds DEF Holders
<1>4. ASSUME NEW c \in Block PROVE counter'[c] <= Cardinality(Holders(c)')
  <2>0. Cardinality(Holders(c)) \in Nat
    BY HoldersFinite, FS_CardinalityType
  <2>1. CASE c = b
    <3>1. Cardinality({h}) = 1 BY FS_Singleton
    <3>2. counter'[b] = 1 BY DEF Allocate
    <3> QED BY <1>2, <2>1, <3>1, <3>2
  <2>2. CASE c # b /\ c \in contents
    <3>1. b \notin Holders(c) BY DEF Holders
    <3>2. Cardinality(Holders(c) \cup {b}) = Cardinality(Holders(c)) + 1
      BY <3>1, HoldersFinite, FS_AddElement
    <3>3. counter'[c] = counter[c] + 1 BY <2>2 DEF Allocate
    <3>4. Holders(c)' = Holders(c) \cup {b} BY <1>3, <2>2
    <3> QED BY <2>0, <3>2, <3>3, <3>4 DEF Counts, ItemsOK
  <2>3. CASE c # b /\ c \notin contents
    BY <1>3, <2>0, <2>3 DEF Allocate, Counts, ItemsOK
  <2> QED BY <2>1, <2>2, <2>3
<1> QED BY <1>2, <1>3, <1>4 DEF Counts

-----------------------------------------------------------------------------
(* What destructors leave alone.                                           *)

Clears(t, i, b) == Works(t, i, b) /\ frames[t][i].by = "gc"

\* Only hb_gcRefFree() starts to free a block, ...
LEMMA FreesFrom ==
  ASSUME FramesOK, NEW t \in Thread,
         \/ frames' = frames
         \/ \E f \in AnyFrame : f.by # "ref" /\ frames' = Pushed(t, f)
         \/ frames[t] # <<>> /\ frames' = Popped(t)
         \/ \E s \in Stages \ {"link"}, new \in Stages : At(t, s) /\ frames' = Staged(t, new)
  PROVE  \A u \in Thread, i \in Nat, c \in Block : Frees(u, i, c)' => Frees(u, i, c)
<1>1. CASE frames' = frames
  BY <1>1 DEF Frees, Works, Here
<1>2. ASSUME NEW f \in AnyFrame, f.by # "ref", frames' = Pushed(t, f)
      PROVE  \A u \in Thread, i \in Nat, c \in Block : Frees(u, i, c)' => Frees(u, i, c)
  BY <1>2, PushFacts DEF Frees, Works
<1>3. CASE frames[t] # <<>> /\ frames' = Popped(t)
  BY <1>3, PopFacts DEF Frees, Works
<1>4. ASSUME NEW s \in Stages \ {"link"}, NEW new \in Stages, At(t, s), frames' = Staged(t, new)
      PROVE  \A u \in Thread, i \in Nat, c \in Block : Frees(u, i, c)' => Frees(u, i, c)
  <2> DEFINE n == Len(frames[t])
  <2>1. /\ n \in Nat /\ Here(t, n)
        /\ \A u \in Thread, i \in Nat :
              /\ Here(u, i)' <=> Here(u, i)
              /\ Here(u, i) /\ ~(u = t /\ i = n)
                    => frames'[u][i] = frames[u][i]
        /\ frames'[t][n].block = frames[t][n].block
        /\ frames'[t][n].by = frames[t][n].by
    BY <1>4, StageFacts
  <2>2. frames[t][n].stage = s BY <1>4 DEF At, Top
  <2> HIDE DEF n
  <2> QED BY <1>4, <2>1, <2>2 DEF Frees, Works, Stages
<1> QED BY <1>1, <1>2, <1>3, <1>4

LEMMA FreesPush ==
  ASSUME FramesOK, NEW t \in Thread, NEW b \in Block,
         frames' = Pushed(t, Frame(b, "clear", "ref"))
  PROVE  \A u \in Thread, i \in Nat, c \in Block :
            Frees(u, i, c)' => Frees(u, i, c) \/ c = b
<1>1. Frame(b, "clear", "ref") \in AnyFrame /\ Frame(b, "clear", "ref").block = b
  BY DEF Frame, AnyFrame, CleanupFrame
<1> QED BY <1>1, PushFacts DEF Frees, Works

\* ... and the collector clears a block until it is empty.
LEMMA ClearsStay ==
  ASSUME FramesOK, NEW t \in Thread, NEW b \in Block,
         \/ frames' = frames
         \/ \E f \in AnyFrame : frames' = Pushed(t, f)
         \/ frames[t] # <<>> /\ frames' = Popped(t)
               /\ (Top(t).by = "gc" => Top(t).block # b)
         \/ \E s, new \in Stages : At(t, s) /\ frames' = Staged(t, new)
               /\ (new = "link" => Top(t).by # "gc")
  PROVE  \A u \in Thread, i \in Nat : Clears(u, i, b) => Clears(u, i, b)'
<1>1. CASE frames' = frames
  BY <1>1 DEF Clears, Works, Here
<1>2. ASSUME NEW f \in AnyFrame, frames' = Pushed(t, f)
      PROVE  \A u \in Thread, i \in Nat : Clears(u, i, b) => Clears(u, i, b)'
  BY <1>2, PushFacts DEF Clears, Works
<1>3. CASE frames[t] # <<>> /\ frames' = Popped(t)
               /\ (Top(t).by = "gc" => Top(t).block # b)
  BY <1>3, PopFacts DEF Clears, Works, Top
<1>4. ASSUME NEW s \in Stages, NEW new \in Stages, At(t, s), frames' = Staged(t, new),
             new = "link" => Top(t).by # "gc"
      PROVE  \A u \in Thread, i \in Nat : Clears(u, i, b) => Clears(u, i, b)'
  <2> DEFINE n == Len(frames[t])
  <2>1. /\ n \in Nat /\ Here(t, n)
        /\ \A u \in Thread, i \in Nat :
              /\ Here(u, i)' <=> Here(u, i)
              /\ Here(u, i) /\ ~(u = t /\ i = n)
                    => frames'[u][i] = frames[u][i]
        /\ frames'[t][n].stage = new
        /\ frames'[t][n].block = frames[t][n].block
        /\ frames'[t][n].by = frames[t][n].by
    BY <1>4, StageFacts
  <2>2. Top(t) = frames[t][n] BY DEF Top
  <2>3. CASE new = "link"
    BY <1>4, <2>1, <2>2, <2>3 DEF Clears, Works
  <2>4. CASE new # "link"
    BY <1>4, <2>1, <2>4 DEF Clears, Works, Stages
  <2> QED BY <2>3, <2>4
<1> QED BY <1>1, <1>2, <1>3, <1>4

-----------------------------------------------------------------------------
(* Every program.                                                          *)

\* A thread that runs has not stopped the others.
LEMMA RunsFree ==
  ASSUME World!Promise, NEW t \in Thread, Runs(t)
  PROVE  t \in inside /\ stopper # t
BY NameAssumption DEF Runs, World!Promise, World!Granted

\* Only who links a block, or takes it from its list, can break Lone.
LEMMA LoneKept ==
  ASSUME NEW t \in Thread, t \in program.threads, UNCHANGED program,
         ~At(t, "link")' \/ list'[Top(t).block'] = "loose"
  PROVE  Lone'
BY DEF Lone

\* hb_gcRefFree() of a reference that h has.
LEMMA RefFreeCore ==
  ASSUME Core, World!Promise, NEW t \in Thread, Runs(t),
         frames[t] = <<>> \/ \E s \in {"dtor", "items"} : At(t, s),
         NEW h \in Holder, NEW b \in refs[h],
         h = Level(t) => ~(At(t, "dtor") /\ Top(t).block = b),
         h \in {Level(t), Statics, CCode} \cup Block,
         RefFree(t, h, b),
         UNCHANGED <<program, list, used, s_uUsedFlag, s_bCollecting, world>>
  PROVE  Rest' /\ Lone' /\ Levels' /\ Flags'
<1>1. TypeOK /\ ItemsOK /\ FramesOK /\ RestOK /\ b \in Block
  BY Parts DEF Core, Safe, ItemsOK
<1> DEFINE f == Frame(b, "clear", "ref")
<1>2. /\ frames' = frames \/ (frames' = Pushed(t, f) /\ Len(frames[t]) < MaxFrames)
      /\ f \in AnyFrame /\ f.stage = "clear"
  BY <1>1 DEF RefFree, Frame, AnyFrame, CleanupFrame
<1> HIDE DEF f
<1>3. FrameStep(t)
  BY <1>2 DEF FrameStep, At
<1>4. Rest' /\ t \in program.threads
  BY <1>1, <1>3, RunsFree, RestRuns DEF Core, world
<1>5. ~At(t, "link")'
  BY <1>1, <1>3, NotLinking DEF Core
<1>6. Lone' BY <1>4, <1>5, LoneKept
<1>7. DtorsSame
  BY <1>1, <1>2, DtorsKept
<1>8. refs' = [refs EXCEPT ![h] = @ \ {b}]
  BY DEF RefFree
<1>9. Levels'
  <2>1. \A g \in Holder : refs'[g] \subseteq refs[g]
    BY <1>1, <1>8 DEF ItemsOK
  <2>2. ASSUME NEW u \in Thread, NEW i \in Nat, i <= MaxFrames
        PROVE  <<u, i>> \in Holder
    BY <2>2, BoundAssumption DEF Holder, Stack
  <2>3. ASSUME NEW u \in Thread, NEW i \in Nat, Dtor(u, i),
               frames[u][i].block \in refs[<<u, i>>]
        PROVE  frames[u][i].block \in refs'[<<u, i>>]
    <3>1. <<u, i>> \in Holder
      BY <1>1, <2>2, <2>3, BoundAssumption DEF Dtor, Here, FramesOK
    <3>2. CASE <<u, i>> # h
      BY <1>1, <1>8, <2>3, <3>1, <3>2 DEF ItemsOK
    <3>3. CASE <<u, i>> = h
      <4>1. h = Level(t)
        BY <3>3, NameAssumption
      <4>2. u = t /\ i = Len(frames[t])
        BY <3>3, <4>1 DEF Level
      <4>3. At(t, "dtor") /\ Top(t) = frames[t][i]
        BY <1>1, <2>3, <4>2 DEF At, Top, Dtor, Here, FramesOK
      <4>4. frames[u][i].block # b
        BY <4>1, <4>2, <4>3
      <4> QED BY <1>1, <1>8, <2>3, <3>1, <3>3, <4>4 DEF ItemsOK
    <3> QED BY <3>2, <3>3
  <2>4. \A u \in Thread, i \in Nat :
           i <= MaxFrames /\ refs'[<<u, i>>] # {} =>
              refs[<<u, i>>] # {} \/ i = 0 \/ Dtor(u, i)
    BY <2>1, <2>2
  <2>5. \A c \in Block : list'[c] = "free" =>
           (list[c] = "free" /\ refs'[c] = refs[c]) \/ refs'[c] = {}
    BY <2>1, SelfHolds DEF Core, Levels
  <2> QED BY <1>7, <2>3, <2>4, <2>5, LevelsSame DEF Core
<1>10. Flags'
  <2>1. CASE UNCHANGED <<frames, delete>>
    BY <2>1, FlagsSame DEF Core
  <2>2. CASE /\ delete' = delete \cup {b}
             /\ frames' = Pushed(t, Frame(b, "clear", "ref"))
    BY <1>1, <2>2, FlagsPush DEF Core
  <2> QED BY <2>1, <2>2 DEF RefFree
<1> QED BY <1>4, <1>6, <1>9, <1>10

\* Steps of PRG code that call no cleanup function, and leave references alone
\* or add and take away others than Self.
LEMMA PRGCore ==
  ASSUME Core, World!Promise, NEW t \in Thread, InPRG(t),
         UNCHANGED <<program, frames, delete, s_uUsedFlag, s_bCollecting, world>>,
         \A b \in Block :
            \/ list'[b] = list[b] /\ used'[b] = used[b]
            \/ /\ b \notin delete /\ list'[b] \in {"current", "locked"}
               /\ \/ used'[b] = s_uUsedFlag
                  \/ used'[b] = used[b] /\ list'[b] = "locked",
         refs' \in [Holder -> SUBSET Block],
         \A u \in Thread, i \in Nat : i <= MaxFrames =>
            refs[<<u, i>>] \subseteq refs'[<<u, i>>],
         \A u \in Thread, i \in Nat : i <= MaxFrames /\ <<u, i>> # Level(t) =>
            refs'[<<u, i>>] = refs[<<u, i>>],
         \A b \in Block : list'[b] = "free" => refs'[b] = refs[b]
  PROVE  Rest' /\ Lone' /\ Levels' /\ Flags'
<1>1. TypeOK /\ ItemsOK /\ FramesOK /\ RestOK
  BY Parts DEF Core, Safe
<1>2. ~At(t, "link") /\ (frames[t] = <<>> \/ At(t, "dtor"))
  BY DEF InPRG, At
<1>3. FrameStep(t) BY <1>2 DEF FrameStep
<1>4. Rest' /\ t \in program.threads
  BY <1>1, <1>3, RunsFree, RestRuns DEF Core, world, InPRG
<1>5. ~At(t, "link")'
  BY <1>1, <1>3, NotLinking DEF Core
<1>6. Lone' BY <1>4, <1>5, LoneKept
<1>7. DtorsSame BY <1>1, DtorsKept
<1>8. Flags' BY FlagsSame DEF Core
<1>10. ASSUME NEW u \in Thread, NEW i \in Nat, i <= MaxFrames, refs'[<<u, i>>] # {}
       PROVE  refs[<<u, i>>] # {} \/ i = 0 \/ Dtor(u, i)
  <2>1. CASE <<u, i>> # Level(t)
    BY <1>10, <2>1
  <2>2. CASE <<u, i>> = Level(t)
    <3>1. u = t /\ i = Len(frames[t]) BY <2>2 DEF Level
    <3> QED BY <1>1, <1>2, <3>1 DEF At, Top, Dtor, Here, FramesOK
  <2> QED BY <2>1, <2>2
<1>11. ASSUME NEW u \in Thread, NEW i \in Nat, Dtor(u, i),
              frames[u][i].block \in refs[<<u, i>>]
       PROVE  frames[u][i].block \in refs'[<<u, i>>]
  <2>1. i <= MaxFrames
    BY <1>1, <1>11, BoundAssumption DEF Dtor, Here, FramesOK
  <2> QED BY <1>11, <2>1
<1>12. \A b \in Block : list'[b] = "free" =>
          (list[b] = "free" /\ refs'[b] = refs[b]) \/ refs'[b] = {}
  OBVIOUS
<1>13. Levels' BY <1>7, <1>10, <1>11, <1>12, LevelsSame DEF Core
<1> QED BY <1>4, <1>6, <1>8, <1>13

LEMMA ItemsCore ==
  ASSUME Core, World!Promise, NEW t \in Thread, Items(t)
  PROVE  Rest' /\ Lone' /\ Levels' /\ Flags'
<1> USE DEF blocks, class, collection
<1>0. TypeOK /\ ItemsOK /\ FramesOK /\ RestOK
  BY Parts DEF Core, Safe
<1>a. /\ Level(t) \in Holder /\ CCode \in Holder /\ Statics \in Holder
      /\ Level(t) \notin Block /\ CCode \notin Block /\ Statics \notin Block
      /\ Level(t) # CCode
      /\ Readable(t) \subseteq {Level(t), Statics} \cup Block
      /\ Writable(t) \subseteq {Level(t), Statics} \cup Block
      /\ \A u \in Thread, i \in Nat :
            <<u, i>> \notin Block /\ <<u, i>> # CCode /\ <<u, i>> # Statics
  <2>1. Level(t) \in Holder BY <1>0, Reads
  <2>2. Level(t) \notin Block /\ CCode \notin Block /\ Level(t) # CCode
    BY <1>0, NotBlocks
  <2>3. refs[Level(t)] \subseteq Block BY <1>0, <2>1 DEF ItemsOK
  <2> QED BY <2>1, <2>2, <2>3, CodeHolds, NameAssumption DEF Readable, Writable
<1>b. \A u \in Thread, i \in Nat : i <= MaxFrames => <<u, i>> \in Holder
  BY BoundAssumption DEF Holder, Stack
<1>1. ASSUME NEW b \in Block, NEW from \in Holder, NEW to \in Holder,
             Copy(t, from, to, b)
      PROVE  Rest' /\ Lone' /\ Levels' /\ Flags'
  <2>1. /\ InPRG(t) /\ refs' = [refs EXCEPT ![to] = @ \cup {b}]
        /\ UNCHANGED <<program, frames, delete, s_uUsedFlag, s_bCollecting, world, list, used>>
        /\ to \in {Level(t), Statics} \cup Block
    BY <1>1, <1>a DEF Copy
  <2>2. to \in Block => list[to] # "free"
    <3>1. to \in {Level(t), Statics} \/ to \in refs[Level(t)]
      BY <1>1 DEF Copy, Writable, Readable
    <3> QED BY <1>a, <3>1 DEF Core, Safe, NoDanglingItem, Holders
  <2>3. refs' \in [Holder -> SUBSET Block] BY <1>0, <2>1 DEF ItemsOK
  <2>4. \A h \in Holder : refs[h] \subseteq refs'[h] /\ (h # to => refs'[h] = refs[h])
    BY <1>0, <2>1 DEF ItemsOK
  <2>5. \A c \in Block : list'[c] = "free" => refs'[c] = refs[c]
    BY <2>1, <2>2, <2>4, SelfHolds
  <2>6. \A u \in Thread, i \in Nat : i <= MaxFrames =>
           refs[<<u, i>>] \subseteq refs'[<<u, i>>]
    BY <1>b, <2>4
  <2>7. \A u \in Thread, i \in Nat : i <= MaxFrames /\ <<u, i>> # Level(t) =>
           refs'[<<u, i>>] = refs[<<u, i>>]
    BY <1>a, <1>b, <2>1, <2>4
  <2> QED BY <2>1, <2>3, <2>5, <2>6, <2>7, PRGCore
<1>2. ASSUME NEW b \in Block, NEW h \in Holder, Clear(t, h, b)
      PROVE  Rest' /\ Lone' /\ Levels' /\ Flags'
  BY <1>2, <1>a, RefFreeCore DEF Clear, InPRG
<1>3. ASSUME NEW b \in Block, DropGrip(t, b)
      PROVE  Rest' /\ Lone' /\ Levels' /\ Flags'
  BY <1>3, <1>a, RefFreeCore DEF DropGrip, InPRG
<1>4. ASSUME NEW b \in Block, NEW l \in {"current", "locked"}, NEW n, NEW h \in {Level(t), CCode},
             NEW contents \in SUBSET Block, Allocate(b, l, n, h, contents), InPRG(t),
             UNCHANGED <<program, frames, collection, world>>
      PROVE  Rest' /\ Lone' /\ Levels' /\ Flags'
  <2>1. list[b] = "free" /\ b \notin delete
    BY <1>4 DEF Allocate, Core, Safe, Work, Marking
  <2>2. /\ \A c \in Block : c # b => list'[c] = list[c] /\ used'[c] = used[c]
        /\ list'[b] = l /\ used'[b] = s_uUsedFlag
        /\ delete' = delete
    BY <1>0, <1>4, <2>1 DEF Allocate, RestOK
  <2>3. /\ refs' \in [Holder -> SUBSET Block]
        /\ \A g \in Holder : refs'[g] = IF g = b THEN contents
                                        ELSE IF g = h THEN refs[g] \cup {b} ELSE refs[g]
    BY <1>0, <1>4, <1>a, SelfHolds DEF Allocate, ItemsOK
  <2>5. \A c \in Block : list'[c] = "free" => refs'[c] = refs[c]
    BY <1>4, <1>a, <2>2, <2>3, SelfHolds
  <2>6. \A u \in Thread, i \in Nat : i <= MaxFrames =>
           refs[<<u, i>>] \subseteq refs'[<<u, i>>]
    BY <1>a, <1>b, <2>3
  <2>7. \A u \in Thread, i \in Nat : i <= MaxFrames /\ <<u, i>> # Level(t) =>
           refs'[<<u, i>>] = refs[<<u, i>>]
    BY <1>4, <1>a, <1>b, <2>3
  <2>8. \A c \in Block :
            \/ list'[c] = list[c] /\ used'[c] = used[c]
            \/ /\ c \notin delete /\ list'[c] \in {"current", "locked"}
               /\ used'[c] = s_uUsedFlag
    BY <2>1, <2>2
  <2> QED BY <1>4, <2>2, <2>3, <2>5, <2>6, <2>7, <2>8, PRGCore
<1>5. ASSUME NEW b \in Block, New(t, b)
      PROVE  Rest' /\ Lone' /\ Levels' /\ Flags'
  BY <1>4, <1>5 DEF New
<1>6. ASSUME NEW b \in Block, NEW contents \in SUBSET Block, Grip(t, b, contents)
      PROVE  Rest' /\ Lone' /\ Levels' /\ Flags'
  BY <1>4, <1>6 DEF Grip
<1>7. ASSUME NEW g \in Block, Unlock(g)
      PROVE  /\ delete' = delete
             /\ \A c \in Block : list'[c] = "free" => list[c] = "free"
             /\ \A c \in Block :
                 \/ list'[c] = list[c] /\ used'[c] = used[c]
                 \/ /\ c \notin delete /\ list'[c] \in {"current", "locked"}
                    /\ used'[c] = s_uUsedFlag
  BY <1>0, <1>7 DEF Unlock, RestOK
<1>8. ASSUME NEW g \in Block, Attach(t, g)
      PROVE  Rest' /\ Lone' /\ Levels' /\ Flags'
  <2>1. /\ refs' \in [Holder -> SUBSET Block]
        /\ \A h \in Holder : refs'[h] = IF h = CCode THEN refs[h] \ {g}
                               ELSE IF h = Level(t) THEN refs[h] \cup {g} ELSE refs[h]
    BY <1>0, <1>8, <1>a DEF Attach, ItemsOK
  <2>5. \A c \in Block : list'[c] = "free" => refs'[c] = refs[c]
    BY <1>a, <2>1, SelfHolds
  <2>6. \A u \in Thread, i \in Nat : i <= MaxFrames =>
           refs[<<u, i>>] \subseteq refs'[<<u, i>>]
    BY <1>a, <1>b, <2>1
  <2>7. \A u \in Thread, i \in Nat : i <= MaxFrames /\ <<u, i>> # Level(t) =>
           refs'[<<u, i>>] = refs[<<u, i>>]
    BY <1>a, <1>b, <2>1
  <2>8. /\ InPRG(t) /\ Unlock(g)
        /\ UNCHANGED <<program, frames, s_uUsedFlag, s_bCollecting, world>>
    BY <1>8 DEF Attach
  <2> QED BY <1>7, <2>1, <2>5, <2>6, <2>7, <2>8, PRGCore
<1>9. ASSUME NEW b \in Block, UnlockBlock(t, b)
      PROVE  Rest' /\ Lone' /\ Levels' /\ Flags'
  BY <1>0, <1>7, <1>9, PRGCore DEF UnlockBlock, ItemsOK
<1>10. ASSUME NEW b \in Block, LockBlock(t, b)
       PROVE  Rest' /\ Lone' /\ Levels' /\ Flags'
  <2>1. b \notin delete BY <1>10 DEF LockBlock
  <2>2. \A c \in Block :
           \/ list'[c] = list[c] /\ used'[c] = used[c]
           \/ c \notin delete /\ list'[c] = "locked" /\ used'[c] = used[c]
    BY <1>0, <1>10, <2>1 DEF LockBlock, RestOK
  <2> QED BY <1>0, <1>10, <2>2, PRGCore DEF LockBlock, ItemsOK
<1> QED BY <1>1, <1>2, <1>3, <1>5, <1>6, <1>8, <1>9, <1>10 DEF Items

LEMMA CleanupCore ==
  ASSUME Core, World!Promise, NEW t \in Thread, Cleanup(t)
  PROVE  Rest' /\ Lone' /\ Levels' /\ Flags'
<1> USE DEF blocks, class, collection, world
<1>0. TypeOK /\ ItemsOK /\ FramesOK /\ RestOK /\ Work
  BY Parts DEF Core, Safe
<1> DEFINE b == Top(t).block
           n == Len(frames[t])
<1>a. ASSUME NEW s \in Stages, At(t, s)
      PROVE  /\ b \in Block /\ Level(t) \in Holder /\ b \in Holder
             /\ n \in Nat /\ n # 0 /\ n <= MaxFrames /\ Here(t, n)
             /\ Top(t) = frames[t][n] /\ frames[t] # <<>> /\ frames[t][n].stage = s
             /\ Level(t) = <<t, n>>
  BY <1>0, <1>a, TopFrame, AtTop, SelfHolds DEF FramesOK, Level
<1>b. ASSUME NEW s \in Stages, At(t, s), s # "link", Runs(t),
             UNCHANGED <<program, world>>,
             \/ frames' = Popped(t)
             \/ \E new \in Stages \ {"link"} : frames' = Staged(t, new)
      PROVE  Rest' /\ Lone'
  <2>1. FrameStep(t) BY <1>b DEF FrameStep, At
  <2>2. Rest' /\ t \in program.threads
    BY <1>0, <1>b, <2>1, RunsFree, RestRuns DEF Core
  <2>3. ~At(t, "link")' BY <1>0, <2>1, NotLinking DEF Core
  <2> QED BY <1>b, <2>2, <2>3, LoneKept
<1>c. \A u \in Thread, i \in Nat : i <= MaxFrames => <<u, i>> \in Holder
  BY BoundAssumption DEF Holder, Stack
<1>d. \A c \in Block, u \in Thread, i \in Nat : c # <<u, i>>
  BY NameAssumption
<1>e. "clear" \in Stages /\ "dtor" \in Stages /\ "items" \in Stages /\ "keep" \in Stages
  BY DEF Stages
<1>1. CASE CallCleanup(t)
  <2>1. /\ At(t, "clear") /\ Runs(t)
        /\ UNCHANGED <<program, list, used, delete, s_uUsedFlag, s_bCollecting, world>>
    BY <1>1 DEF CallCleanup
  <2>2. /\ n \in Nat /\ n # 0 /\ n <= MaxFrames /\ Here(t, n) /\ b \in Block
        /\ frames[t][n].stage = "clear" /\ frames[t][n].block = b /\ Level(t) = <<t, n>>
        /\ Level(t) \in Holder
    BY <1>a, <1>e, <2>1
  <2>3. CASE b \in objects
    <3>1. refs' = [refs EXCEPT ![Level(t)] = {b}] /\ frames' = Staged(t, "dtor")
      BY <1>1, <2>3 DEF CallCleanup
    <3>2. Rest' /\ Lone' BY <1>b, <1>e, <2>1, <3>1
    <3>3. Flags' BY <1>0, <1>e, <2>1, <3>1, FlagsStage DEF Core
    <3>4. /\ \A u \in Thread, i \in Nat :
                /\ Here(u, i)' <=> Here(u, i)
                /\ Here(u, i) /\ ~(u = t /\ i = n) => frames'[u][i] = frames[u][i]
          /\ frames'[t][n].stage = "dtor" /\ frames'[t][n].block = b
      BY <1>0, <1>e, <2>1, <2>2, <3>1, StageFacts
    <3>5. \A h \in Holder : refs'[h] = IF h = <<t, n>> THEN {b} ELSE refs[h]
      BY <1>0, <2>2, <3>1 DEF ItemsOK
    <3> HIDE DEF n, b
    <3>6. ASSUME NEW u \in Thread, NEW i \in Nat, i <= MaxFrames, refs'[<<u, i>>] # {}
          PROVE  i = 0 \/ (Here(u, i)' /\ frames'[u][i].stage = "dtor")
      BY <1>c, <2>2, <3>4, <3>5, <3>6 DEF Core, Levels
    <3>7. ASSUME NEW u \in Thread, NEW i \in Nat, Here(u, i)', frames'[u][i].stage = "dtor"
          PROVE  frames'[u][i].block \in refs'[<<u, i>>]
      <4>1. CASE u = t /\ i = n BY <1>c, <2>2, <3>4, <3>5, <4>1
      <4>2. CASE ~(u = t /\ i = n)
        <5>1. i <= MaxFrames
          BY <1>0, <3>4, <3>7, BoundAssumption DEF Here, FramesOK
        <5>2. refs'[<<u, i>>] = refs[<<u, i>>]
          BY <1>c, <3>5, <4>2, <5>1
        <5> QED BY <3>4, <3>7, <4>2, <5>2 DEF Core, Levels
      <4> QED BY <4>1, <4>2
    <3>8. \A c \in Block : list'[c] = "free" => refs'[c] = {}
      BY <1>d, <2>1, <2>2, <3>5, SelfHolds DEF Core, Levels
    <3>9. Levels' BY <3>6, <3>7, <3>8 DEF Levels
    <3> QED BY <3>2, <3>3, <3>9
  <2>4. CASE b \notin objects
    <3>1. refs' = refs /\ frames' = Staged(t, "items")
      BY <1>1, <2>4 DEF CallCleanup
    <3>2. Rest' /\ Lone' BY <1>b, <1>e, <2>1, <3>1
    <3>3. Flags' BY <1>0, <1>e, <2>1, <3>1, FlagsStage DEF Core
    <3>4. DtorsSame BY <1>0, <1>e, <2>1, <3>1, DtorsKept
    <3>5. Levels' BY <2>1, <3>1, <3>4, LevelsSame DEF Core
    <3> QED BY <3>2, <3>3, <3>5
  <2> QED BY <2>3, <2>4
<1>2. CASE Return(t)
  <2>1. /\ At(t, "dtor") /\ Runs(t)
        /\ UNCHANGED <<program, list, used, delete, s_uUsedFlag, s_bCollecting, world>>
        /\ refs' = [refs EXCEPT ![Level(t)] = {}] /\ frames' = Staged(t, "items")
    BY <1>2 DEF Return, InPRG
  <2>2. /\ n \in Nat /\ n # 0 /\ n <= MaxFrames /\ Here(t, n)
        /\ Level(t) = <<t, n>> /\ Level(t) \in Holder
    BY <1>a, <1>e, <2>1
  <2>3. Rest' /\ Lone' BY <1>b, <1>e, <2>1
  <2>4. Flags' BY <1>0, <1>e, <2>1, FlagsStage DEF Core
  <2>5. /\ \A u \in Thread, i \in Nat :
              /\ Here(u, i)' <=> Here(u, i)
              /\ Here(u, i) /\ ~(u = t /\ i = n) => frames'[u][i] = frames[u][i]
        /\ frames'[t][n].stage = "items"
    BY <1>0, <1>e, <2>1, <2>2, StageFacts
  <2>6. \A h \in Holder : refs'[h] = IF h = <<t, n>> THEN {} ELSE refs[h]
    BY <1>0, <2>1, <2>2 DEF ItemsOK
  <2> HIDE DEF n
  <2>7. ASSUME NEW u \in Thread, NEW i \in Nat, i <= MaxFrames, refs'[<<u, i>>] # {}
        PROVE  i = 0 \/ (Here(u, i)' /\ frames'[u][i].stage = "dtor")
    BY <1>c, <2>2, <2>5, <2>6, <2>7 DEF Core, Levels
  <2>8. ASSUME NEW u \in Thread, NEW i \in Nat, Here(u, i)', frames'[u][i].stage = "dtor"
        PROVE  frames'[u][i].block \in refs'[<<u, i>>]
    <3>1. ~(u = t /\ i = n) BY <2>5, <2>8
    <3>2. i <= MaxFrames
      BY <1>0, <2>5, <2>8, BoundAssumption DEF Here, FramesOK
    <3>3. refs'[<<u, i>>] = refs[<<u, i>>]
      BY <1>c, <2>6, <3>1, <3>2
    <3> QED BY <2>5, <2>8, <3>1, <3>3 DEF Core, Levels
  <2>9. \A c \in Block : list'[c] = "free" => refs'[c] = {}
    BY <1>d, <2>1, <2>2, <2>6, SelfHolds DEF Core, Levels
  <2>10. Levels' BY <2>7, <2>8, <2>9 DEF Levels
  <2> QED BY <2>3, <2>4, <2>10
<1>3. CASE FreeBlock(t)
  <2>1. /\ At(t, "items") /\ Runs(t) /\ Top(t).by = "ref" /\ ~At(t, "dtor")
        /\ UNCHANGED <<program, used, s_uUsedFlag, s_bCollecting, world>>
    BY <1>3 DEF FreeBlock, At
  <2>2. b \in Block /\ b \in Holder /\ frames[t] # <<>> BY <1>a, <1>e, <2>1
  <2>3. CASE Free(b) /\ frames' = Popped(t)
    <3>1. /\ list' = [list EXCEPT ![b] = "free"] /\ refs' = [refs EXCEPT ![b] = {}]
          /\ delete' = delete \ {b}
      BY <2>3 DEF Free
    <3>2. Rest' /\ Lone' BY <1>b, <1>e, <2>1, <2>3
    <3>3. Flags' BY <1>0, <2>1, <2>3, <3>1, FlagsPop DEF Core
    <3>4. DtorsSame BY <1>0, <2>1, <2>2, <2>3, DtorsKept
    <3> HIDE DEF b
    <3>5. /\ \A h \in Holder : refs'[h] = IF h = b THEN {} ELSE refs[h]
          /\ \A c \in Block : list'[c] = "free" => c = b \/ list[c] = "free"
      BY <1>0, <2>2, <3>1 DEF ItemsOK, RestOK
    <3>6. ASSUME NEW u \in Thread, NEW i \in Nat, i <= MaxFrames
          PROVE  refs'[<<u, i>>] = refs[<<u, i>>]
      BY <1>c, <1>d, <2>2, <3>5, <3>6
    <3>7. ASSUME NEW u \in Thread, NEW i \in Nat, Dtor(u, i)
          PROVE  refs'[<<u, i>>] = refs[<<u, i>>]
      BY <1>0, <3>6, <3>7, BoundAssumption DEF Dtor, Here, FramesOK
    <3>8. \A c \in Block : list'[c] = "free" =>
             (list[c] = "free" /\ refs'[c] = refs[c]) \/ refs'[c] = {}
      BY <3>5, SelfHolds
    <3>9. Levels' BY <3>4, <3>6, <3>7, <3>8, LevelsSame DEF Core
    <3> QED BY <3>2, <3>3, <3>9
  <2>4. CASE frames' = Staged(t, "keep") /\ UNCHANGED <<list, refs, delete>>
    <3>1. Rest' /\ Lone' BY <1>b, <1>e, <2>1, <2>4
    <3>2. Flags' BY <1>0, <1>e, <2>1, <2>4, FlagsStage DEF Core
    <3>3. DtorsSame BY <1>0, <1>e, <2>1, <2>4, DtorsKept
    <3>4. Levels' BY <2>4, <3>3, LevelsSame DEF Core
    <3> QED BY <3>1, <3>2, <3>4
  <2> QED BY <1>3, <2>3, <2>4 DEF FreeBlock
<1>4. CASE KeepBlock(t)
  <2>1. /\ At(t, "keep") /\ Runs(t) /\ Top(t).by = "ref" /\ ~At(t, "dtor")
        /\ frames' = Popped(t)
        /\ IF b \in delete
             THEN /\ used' = [used EXCEPT ![b] = s_uUsedFlag]
                  /\ delete' = delete \ {b}
             ELSE UNCHANGED <<used, delete>>
        /\ UNCHANGED <<program, refs, list, s_uUsedFlag, s_bCollecting, world>>
    BY <1>4 DEF KeepBlock, At
  <2>2. Rest' /\ Lone' BY <1>b, <1>e, <2>1
  <2>3. Flags' BY <1>0, <2>1, FlagsPop DEF Core
  <2>4. frames[t] # <<>> BY <1>a, <1>e, <2>1
  <2>5. DtorsSame BY <1>0, <2>1, <2>4, DtorsKept
  <2>6. Levels' BY <2>1, <2>5, LevelsSame DEF Core
  <2> QED BY <2>2, <2>3, <2>6
<1>5. ASSUME NEW c \in Block, ReleaseItem(t, c)
      PROVE  Rest' /\ Lone' /\ Levels' /\ Flags'
  <2>1. At(t, "items") /\ Runs(t) /\ c \in refs[b] /\ RefFree(t, b, c)
        /\ UNCHANGED <<program, list, used, s_uUsedFlag, s_bCollecting, world>>
    BY <1>5 DEF ReleaseItem
  <2>2. b \in Block /\ b \in Holder /\ ~At(t, "dtor")
    BY <1>a, <1>e, <2>1 DEF At
  <2> HIDE DEF b
  <2> QED BY <2>1, <2>2, RefFreeCore
<1> QED BY <1>1, <1>2, <1>3, <1>4, <1>5 DEF Cleanup

LEMMA CollectorCore ==
  ASSUME Core, World!Promise, NEW t \in Thread, Collector(t)
  PROVE  Rest' /\ Lone' /\ Levels' /\ Flags'
<1> USE DEF blocks, class, collection, world
<1>0. TypeOK /\ ItemsOK /\ FramesOK /\ RestOK /\ Work
  BY Parts DEF Core, Safe
<1> DEFINE b == Top(t).block
           n == Len(frames[t])
<1>a. ASSUME UNCHANGED <<refs, list>>, DtorsSame PROVE Levels'
  BY <1>a, LevelsSame DEF Core
<1>b. ASSUME Runs(t), UNCHANGED <<program, world>>, FrameStep(t)
      PROVE  Rest' /\ Lone'
  <2>1. Rest' /\ t \in program.threads
    BY <1>0, <1>b, RunsFree, RestRuns DEF Core
  <2>2. ~At(t, "link")' BY <1>0, <1>b, NotLinking DEF Core
  <2> QED BY <1>b, <2>1, <2>2, LoneKept
<1>e. /\ "clear" \in Stages /\ "dtor" \in Stages /\ "items" \in Stages
      /\ "keep" \in Stages /\ "link" \in Stages
  BY DEF Stages
<1>1. CASE Suspend(t) \/ Granted(t)
  <2>1. UNCHANGED <<program, refs, list, blocks, frames, collection>>
    BY <1>1 DEF Suspend, Granted
  <2>2. /\ stopper' = t /\ AtPRG(t) /\ t \in program.threads
        /\ inside' \subseteq inside \cup {t}
        /\ \A u \in Thread : u \notin inside' => AtPRG(u)
    <3>1. CASE Suspend(t)
      <4>1. AtPRG(t) /\ t \in inside BY <3>1 DEF Suspend, InPRG, AtPRG, World!Ask
      <4>2. inside' \subseteq inside /\ inside \subseteq inside' \cup {t} /\ stopper' = t
        BY <3>1 DEF Suspend, World!Ask
      <4> QED BY <4>1, <4>2 DEF Core, Rest
    <3>2. CASE Granted(t)
      <4>1. stopper = t /\ stopper' = t /\ inside = {} /\ inside' = {t}
        BY <3>2 DEF Granted, World!Grant
      <4> QED BY <4>1, NameAssumption DEF Core, Rest
    <3> QED BY <1>1, <3>1, <3>2
  <2>3. \A u \in Thread : AtPRG(u)' <=> AtPRG(u)
    BY <2>1 DEF AtPRG, At, Top
  <2>4. Rest'
    <3>1. \A u \in Thread : u \notin inside' \/ stopper' = u => AtPRG(u)'
      BY <2>2, <2>3
    <3> QED BY <2>1, <2>2, <3>1 DEF Core, Rest, Here
  <2>5. Lone' BY <2>1 DEF Core, Lone, At, Top
  <2>6. Flags' BY <2>1, FlagsSame DEF Core
  <2>7. DtorsSame BY <1>0, <2>1, DtorsKept
  <2> QED BY <1>a, <2>1, <2>4, <2>5, <2>6, <2>7
<1>2. CASE Collect(t) \/ CollectNothing(t)
  <2>1. World!Resume(t) /\ UNCHANGED <<program, refs>>
    BY <1>2 DEF Collect, CollectNothing
  <2>2. /\ stopper = t /\ t \in inside /\ stopper' = NoThread /\ stopper' # t
        /\ UNCHANGED inside
    BY <2>1, NameAssumption DEF World!Resume, World!Granted
  <2>3. (frames[t] = <<>> \/ At(t, "dtor")) /\ ~At(t, "link")
    BY <2>2 DEF Core, Rest, AtPRG, At
  <2>4. \/ frames' = frames
        \/ /\ Len(frames[t]) < MaxFrames
           /\ \E f \in AnyFrame : f.stage = "final" /\ frames' = Pushed(t, f)
    <3>1. /\ Frame(NoBlock, "final", "all") \in AnyFrame
          /\ Frame(NoBlock, "final", "all").stage = "final"
      BY DEF Frame, AnyFrame, CollectFrame
    <3> QED BY <1>2, <3>1 DEF Collect, CollectNothing
  <2>5. FrameStep(t) BY <2>3, <2>4 DEF FrameStep
  <2>6. Rest' /\ t \in program.threads
    BY <1>0, <2>1, <2>2, <2>5, RestRuns DEF Core
  <2>7. ~At(t, "link")' BY <1>0, <2>5, NotLinking DEF Core
  <2>8. Lone' BY <2>1, <2>6, <2>7, LoneKept
  <2>9. Flags'
    <3>1. CASE Collect(t) BY <1>0, <3>1, FlagsCollect DEF Core
    <3>2. CASE CollectNothing(t) BY <3>2, FlagsSame DEF CollectNothing, Core
    <3> QED BY <1>2, <3>1, <3>2
  <2>10. DtorsSame BY <1>0, <2>4, DtorsKept
  <2>11. \A c \in Block : list'[c] = "free" => list[c] = "free"
    BY <1>2 DEF Collect, CollectNothing
  <2>12. Levels' BY <2>1, <2>10, <2>11, LevelsSame DEF Core
  <2> QED BY <2>6, <2>8, <2>9, <2>12
<1>3. ASSUME NEW c \in Block, ClearDeleted(t, c)
      PROVE  Rest' /\ Lone' /\ Levels' /\ Flags'
  <2> DEFINE f == Frame(c, "clear", "gc")
  <2>1. /\ Runs(t) /\ At(t, "final") /\ Len(frames[t]) < MaxFrames
        /\ frames' = Pushed(t, f)
        /\ UNCHANGED <<program, refs, list, blocks, s_uUsedFlag, s_bCollecting, world>>
    BY <1>3 DEF ClearDeleted
  <2>2. f \in AnyFrame /\ f.stage = "clear"
    BY DEF Frame, AnyFrame, CleanupFrame
  <2>3. Flags' BY <1>0, <2>1, FlagsPush DEF Core
  <2> HIDE DEF f
  <2>4. FrameStep(t) BY <2>1, <2>2 DEF FrameStep
  <2>5. DtorsSame BY <1>0, <2>1, <2>2, DtorsKept
  <2> QED BY <1>a, <1>b, <2>1, <2>3, <2>4, <2>5
<1>4. ASSUME NEW c \in Block, FreeDeleted(t, c)
      PROVE  Rest' /\ Lone' /\ Levels' /\ Flags'
  <2>1. /\ Runs(t) /\ At(t, "final") /\ list[c] = "deleted"
        /\ UNCHANGED <<program, used, s_uUsedFlag, s_bCollecting, world>>
    BY <1>4 DEF FreeDeleted
  <2>2. CASE Free(c) /\ UNCHANGED frames
    <3>1. /\ list' = [list EXCEPT ![c] = "free"] /\ refs' = [refs EXCEPT ![c] = {}]
          /\ delete' = delete \ {c}
      BY <2>2 DEF Free
    <3>2. FrameStep(t) BY <2>1, <2>2 DEF FrameStep, At
    <3>3. Flags' BY <1>0, <2>1, <2>2, <3>1, FlagsFree DEF Core
    <3>4. DtorsSame BY <1>0, <2>2, DtorsKept
    <3>5. /\ \A h \in Holder : refs'[h] = IF h = c THEN {} ELSE refs[h]
          /\ \A d \in Block : list'[d] = "free" => d = c \/ list[d] = "free"
      BY <1>0, <3>1 DEF ItemsOK, RestOK
    <3>6. ASSUME NEW u \in Thread, NEW i \in Nat, i <= MaxFrames
          PROVE  refs'[<<u, i>>] = refs[<<u, i>>]
      <4>1. <<u, i>> \in Holder BY <3>6, BoundAssumption DEF Holder, Stack
      <4>2. <<u, i>> # c BY NameAssumption
      <4> QED BY <3>5, <4>1, <4>2
    <3>7. ASSUME NEW u \in Thread, NEW i \in Nat, Dtor(u, i)
          PROVE  refs'[<<u, i>>] = refs[<<u, i>>]
      BY <1>0, <3>6, <3>7, BoundAssumption DEF Dtor, Here, FramesOK
    <3>8. \A d \in Block : list'[d] = "free" =>
             (list[d] = "free" /\ refs'[d] = refs[d]) \/ refs'[d] = {}
      BY <3>5, SelfHolds
    <3>9. Levels' BY <3>4, <3>6, <3>7, <3>8, LevelsSame DEF Core
    <3> QED BY <1>b, <2>1, <3>2, <3>3, <3>9
  <2>3. CASE /\ Len(frames[t]) < MaxFrames
             /\ list' = [list EXCEPT ![c] = "loose"]
             /\ frames' = Pushed(t, Frame(c, "keep", "all"))
             /\ UNCHANGED <<refs, delete>>
    <3> DEFINE f == Frame(c, "keep", "all")
    <3>1. f \in AnyFrame /\ f.stage = "keep"
      BY DEF Frame, AnyFrame, CleanupFrame
    <3>2. Flags' BY <1>0, <2>1, <2>3, FlagsPush DEF Core
    <3> HIDE DEF f
    <3>3. FrameStep(t) BY <2>1, <2>3, <3>1 DEF FrameStep, f
    <3>4. DtorsSame BY <1>0, <2>3, <3>1, DtorsKept DEF f
    <3>5. \A d \in Block : list'[d] = "free" => list[d] = "free"
      BY <1>0, <2>3 DEF RestOK
    <3>6. Levels' BY <2>3, <3>4, <3>5, LevelsSame DEF Core
    <3> QED BY <1>b, <2>1, <3>2, <3>3, <3>6
  <2> QED BY <1>4, <2>1, <2>2, <2>3 DEF FreeDeleted
<1>5. CASE Cleared(t)
  <2>1. /\ Runs(t) /\ At(t, "items") /\ Top(t).by = "gc" /\ frames' = Popped(t)
        /\ frames[t] # <<>> /\ ~At(t, "dtor")
        /\ UNCHANGED <<program, refs, list, blocks, s_uUsedFlag, s_bCollecting, world>>
    BY <1>5 DEF Cleared, At
  <2>2. Flags' BY <1>0, <2>1, FlagsPop DEF Core
  <2>3. FrameStep(t) BY <2>1 DEF FrameStep
  <2>4. DtorsSame BY <1>0, <2>1, DtorsKept
  <2> QED BY <1>a, <1>b, <2>1, <2>2, <2>3, <2>4
<1>6. CASE KeepDeleted(t)
  <2>1. /\ Runs(t) /\ At(t, "keep") /\ Top(t).by = "all"
        /\ used' = [used EXCEPT ![b] = s_uUsedFlag] /\ delete' = delete \ {b}
        /\ frames' = Staged(t, "link")
        /\ UNCHANGED <<program, refs, list, s_uUsedFlag, s_bCollecting, world>>
    BY <1>6 DEF KeepDeleted
  <2>2. /\ n \in Nat /\ Here(t, n) /\ Top(t) = frames[t][n] /\ frames[t][n].stage = "keep"
        /\ b \in Block
    BY <1>0, <1>e, <2>1, AtTop, TopFrame
  <2>3. Rest' /\ t \in program.threads
    BY <1>0, <1>e, <2>1, RunsFree, RestRuns DEF Core
  <2>4. list[b] = "loose"
    BY <1>0, <2>1, <2>2 DEF Work, Places, Works
  <2>5. Top(t).block' = b
    <3>1. FramesOK' BY <1>0, <1>e, <2>1, Stage
    <3>2. Len(frames'[t]) = n
      BY <1>0, <2>1, <2>2 DEF Staged, FramesOK
    <3>3. frames'[t][n].block = b
      BY <1>0, <1>e, <2>1, <2>2, StageFacts
    <3> QED BY <3>2, <3>3 DEF Top
  <2>6. Lone' BY <2>1, <2>3, <2>4, <2>5, LoneKept
  <2>7. Flags' BY <1>0, <1>e, <2>1, FlagsStage DEF Core
  <2>8. DtorsSame BY <1>0, <1>e, <2>1, DtorsKept
  <2> QED BY <1>a, <2>1, <2>3, <2>6, <2>7, <2>8
<1>7. CASE LinkDeleted(t)
  <2>1. /\ Runs(t) /\ At(t, "link") /\ Top(t).by = "all" /\ frames' = Popped(t)
        /\ frames[t] # <<>> /\ ~At(t, "dtor")
        /\ list' = [list EXCEPT ![b] = "current"]
        /\ UNCHANGED <<program, refs, blocks, s_uUsedFlag, s_bCollecting, world>>
    BY <1>7 DEF LinkDeleted, At
  <2>2. Flags' BY <1>0, <2>1, FlagsPop DEF Core
  <2>3. FrameStep(t) BY <2>1 DEF FrameStep
  <2>4. DtorsSame BY <1>0, <2>1, DtorsKept
  <2>5. \A c \in Block : list'[c] = "free" => list[c] = "free"
    BY <1>0, <2>1 DEF RestOK
  <2>6. Levels' BY <2>1, <2>4, <2>5, LevelsSame DEF Core
  <2> QED BY <1>b, <2>1, <2>2, <2>3, <2>6
<1>8. CASE Collected(t)
  <2>1. /\ Runs(t) /\ At(t, "final") /\ frames' = Popped(t)
        /\ \A c \in Block : list[c] # "deleted"
        /\ frames[t] # <<>> /\ ~At(t, "dtor")
        /\ UNCHANGED <<program, refs, list, blocks, s_uUsedFlag, world>>
    BY <1>8 DEF Collected, At
  <2>2. Flags' BY <1>0, <2>1, FlagsPop DEF Core
  <2>3. FrameStep(t) BY <2>1 DEF FrameStep
  <2>4. DtorsSame BY <1>0, <2>1, DtorsKept
  <2> QED BY <1>a, <1>b, <2>1, <2>2, <2>3, <2>4
<1> QED BY <1>1, <1>2, <1>3, <1>4, <1>5, <1>6, <1>7, <1>8 DEF Collector

LEMMA CoreInit == Init => Core
<1> SUFFICES ASSUME Init PROVE Core
  OBVIOUS
<1>1. \A t \in Thread : frames[t] = <<>> /\ Len(frames[t]) = 0
  BY DEF Init
<1>2. \A t \in Thread, i \in Nat : ~Here(t, i)
  BY <1>1 DEF Here
<1>3. Rest
  BY <1>1, <1>2 DEF Init, Rest, AtPRG
<1>4. Lone BY <1>1 DEF Lone, At
<1>5. Levels
  <2>1. \A t \in Thread, i \in Nat : i <= MaxFrames => <<t, i>> \in Holder
    BY BoundAssumption DEF Holder, Stack
  <2> QED BY <1>2, <2>1, SelfHolds DEF Init, Levels
<1>6. Flags
  BY <1>2 DEF Init, Flags, Keeps
<1> QED BY <1>3, <1>4, <1>5, <1>6, SafeInit DEF Core

\* A thread that leaves the VM or comes in, or no step at all.
LEMMA CoreIdle ==
  ASSUME Core, World!Promise, UNCHANGED vars \/ \E t \in Thread : Leave(t) \/ Enter(t)
  PROVE  Rest' /\ Lone' /\ Levels' /\ Flags'
<1> USE DEF blocks, class, collection, world
<1>0. TypeOK /\ FramesOK
  BY Parts DEF Core, Safe
<1>1. UNCHANGED <<program, refs, list, blocks, frames, collection, stopper>>
  BY DEF vars, Leave, Enter, World!Leave, World!Enter
<1>2. /\ \A u \in Thread : u \notin inside' => AtPRG(u)
      /\ inside' \subseteq program.threads
  <2>1. CASE UNCHANGED inside BY <2>1 DEF Core, Rest
  <2>2. ASSUME NEW t \in Thread, Leave(t)
        PROVE  /\ \A u \in Thread : u \notin inside' => AtPRG(u)
               /\ inside' \subseteq program.threads
    BY <2>2 DEF Core, Rest, Leave, World!Leave, InPRG, AtPRG
  <2>3. ASSUME NEW t \in Thread, Enter(t)
        PROVE  /\ \A u \in Thread : u \notin inside' => AtPRG(u)
               /\ inside' \subseteq program.threads
    BY <2>3 DEF Core, Rest, Enter, World!Enter
  <2> QED BY <2>1, <2>2, <2>3 DEF vars
<1>3. \A u \in Thread : AtPRG(u)' <=> AtPRG(u)
  BY <1>1 DEF AtPRG, At, Top
<1>4. Rest'
  <2>1. \A u \in Thread : u \notin inside' \/ stopper' = u => AtPRG(u)'
    BY <1>1, <1>2, <1>3 DEF Core, Rest
  <2> QED BY <1>1, <1>2, <2>1 DEF Core, Rest, Here
<1>5. Lone' BY <1>1 DEF Core, Lone, At, Top
<1>6. Flags' BY <1>1, FlagsSame DEF Core
<1>7. DtorsSame BY <1>1 DEF DtorsSame, Dtor, Here
<1>8. Levels' BY <1>1, <1>7, LevelsSame DEF Core
<1> QED BY <1>4, <1>5, <1>6, <1>8

LEMMA CoreKept ==
  ASSUME Core, World!Promise, [Next]_vars
  PROVE  Core'
<1>1. Safe' BY SafeKept DEF Core
<1>2. Rest' /\ Lone' /\ Levels' /\ Flags'
  BY ItemsCore, CleanupCore, CollectorCore, CoreIdle DEF Next
<1> QED BY <1>1, <1>2 DEF Core

LEMMA AlwaysCore == Spec => []Core
<1>1. Core /\ World!Promise /\ [Next]_vars => Core'
  BY CoreKept
<1> QED BY <1>1, CoreInit, SweepsAlone, PTL DEF Spec

\* The collector has taken a block from its list before it resets the flags of
\* the block, so that nothing frees it then unless another thread runs: no
\* cleanup function of a single-threaded program works on freed memory, and that
\* of another one only when the block has to be linked.
THEOREM CallsValid == Spec => []NoDanglingCall
<1>1. ASSUME Core PROVE NoDanglingCall
  <2> SUFFICES ASSUME NEW b \in Block, list[b] = "free"
               PROVE  /\ b \notin unswept
                      /\ \A t \in Thread : \A i \in 1..Len(frames[t]) :
                            frames[t][i].block = b =>
                               frames[t][i].stage = "link" /\ program.threads # {t}
    BY DEF NoDanglingCall
  <2>1. TypeOK /\ FramesOK /\ Work
    BY <1>1, Parts DEF Core, Safe
  <2>2. b \notin unswept /\ b \notin delete
    BY <2>1 DEF Work, Marking
  <2>3. ASSUME NEW t \in Thread, NEW i \in 1..Len(frames[t]), frames[t][i].block = b
        PROVE  frames[t][i].stage = "link" /\ program.threads # {t}
    <3>1. Len(frames[t]) \in Nat /\ i \in Nat /\ Here(t, i) /\ frames[t] # <<>>
          /\ frames[t][i] \in AnyFrame
      BY <2>1 DEF Here, FramesOK
    <3>2. ~Works(t, i, b)
      BY <2>1, <2>2, <3>1 DEF Work, OneWorker
    <3>3. frames[t][i].stage = "link"
      <4>1. frames[t][i] \in CleanupFrame
        BY <2>3, <3>1, NameAssumption DEF AnyFrame, CollectFrame
      <4> QED BY <2>3, <3>1, <3>2, <4>1 DEF Works, CleanupFrame
    <3>4. i = Len(frames[t])
      <4>1. ~Here(t, i + 1) BY <1>1, <3>1, <3>3 DEF Core, Rest
      <4> QED BY <3>1, <4>1 DEF Here
    <3>5. At(t, "link") /\ Top(t).block = b
      BY <2>3, <3>1, <3>3, <3>4 DEF At, Top
    <3> QED BY <1>1, <3>3, <3>5 DEF Core, Lone
  <2> QED BY <2>2, <2>3
<1> QED BY <1>1, AlwaysCore, PTL

-----------------------------------------------------------------------------
(* Programs whose destructors store nothing.                               *)

\* Where nobody else comes to hold what is being freed, or what C code holds.
LEMMA PrivateKept ==
  ASSUME Private,
         \A c \in Block, u \in Thread, i \in Nat : Frees(u, i, c)' =>
            \/ Frees(u, i, c) /\ Holders(c)' \subseteq Holders(c)
            \/ Holders(c)' \subseteq {<<u, i>>},
         refs'[CCode] \subseteq Block,
         \A g \in refs'[CCode] :
            /\ g \notin objects' \/ (g \in refs[CCode] /\ objects' \subseteq objects)
            /\ \/ g \in refs[CCode] /\ Holders(g)' \subseteq Holders(g)
               \/ Holders(g)' = {CCode}
  PROVE  Private'
<1>1. ASSUME NEW c \in Block, NEW u \in Thread, NEW i \in Nat, Frees(u, i, c)'
      PROVE  Holders(c)' \subseteq {<<u, i>>}
  BY <1>1 DEF Private
<1>2. ASSUME NEW g \in refs'[CCode]
      PROVE  Holders(g)' = {CCode} /\ g \notin objects'
  <2>1. CCode \in Holders(g)' BY <1>2, CodeHolds DEF Holders
  <2>2. Holders(g)' \subseteq {CCode} BY <1>2 DEF Private
  <2>3. g \notin objects' BY <1>2 DEF Private
  <2> QED BY <2>1, <2>2, <2>3
<1> QED BY <1>1, <1>2 DEF Private

\* Where nothing is stored in what the collector has cleared.
LEMMA EmptiedKept ==
  ASSUME Emptied,
         \A c \in Block :
            list'[c] = "deleted" /\ c \notin unswept' /\ refs'[c] # {} =>
               \/ \E u \in Thread, i \in Nat : Clears(u, i, c)'
               \/ /\ list[c] = "deleted" /\ c \notin unswept /\ refs[c] # {}
                  /\ \A u \in Thread, i \in Nat : Clears(u, i, c) => Clears(u, i, c)'
  PROVE  Emptied'
BY DEF Emptied, Clears

\* Steps that leave references alone.
LEMMA TidySame ==
  ASSUME TypeOK, Tidy, UNCHANGED <<refs, counter>>, objects' \subseteq objects,
         \A c \in Block, u \in Thread, i \in Nat : Frees(u, i, c)' => Frees(u, i, c),
         \A c \in Block :
            list'[c] = "deleted" /\ c \notin unswept' /\ refs[c] # {} =>
               \/ \E u \in Thread, i \in Nat : Clears(u, i, c)'
               \/ /\ list[c] = "deleted" /\ c \notin unswept
                  /\ \A u \in Thread, i \in Nat : Clears(u, i, c) => Clears(u, i, c)',
         \A c \in Block : Alive(c) => Alive(c)',
         \A g \in refs[CCode] : locked'[g] > 0 /\ g \notin delete' =>
            locked[g] > 0 /\ g \notin delete
  PROVE  Tidy'
<1>0. refs[CCode] \subseteq Block
  BY Parts, CodeHolds DEF ItemsOK
<1>1. \A c \in Block : Holders(c)' = Holders(c)
  BY DEF Holders
<1>2. Private'
  <2>1. Private BY DEF Tidy
  <2> QED BY <1>0, <1>1, <2>1, PrivateKept
<1>3. Emptied' BY EmptiedKept DEF Tidy
<1>4. Apart'
  <2>1. PICK S \in SUBSET Block : Own(S) BY DEF Tidy, Apart
  <2>2. Attachable' \subseteq Attachable BY DEF Attachable
  <2>3. Own(S)' BY <2>1, <2>2 DEF Own
  <2> QED BY <2>3 DEF Apart
<1>5. Counts' BY <1>1 DEF Tidy, Counts
<1> QED BY <1>2, <1>3, <1>4, <1>5 DEF Tidy

\* hb_gcRefFree() of a reference that h has.
LEMMA RefFreeTidy ==
  ASSUME Core, CountCovers', Tidy, NEW t \in Thread, NEW h \in Holder, NEW b \in refs[h],
         RefFree(t, h, b),
         UNCHANGED <<list, locked, used, objects, unswept, s_uUsedFlag>>
  PROVE  Tidy'
<1>1. TypeOK /\ ItemsOK /\ FramesOK /\ RestOK /\ b \in Block
  BY Parts DEF Core, Safe, ItemsOK
<1>2. /\ refs' = [refs EXCEPT ![h] = @ \ {b}]
      /\ counter' = [counter EXCEPT ![b] = @ - 1]
      /\ \A g \in Holder : refs'[g] \subseteq refs[g]
      /\ \A c \in Block : Holders(c)' \subseteq Holders(c)
  BY <1>1 DEF RefFree, ItemsOK, Holders
<1>3. Counts' BY <1>1, <1>2, LossExact DEF Tidy
<1>4. PICK S \in SUBSET Block : Own(S) BY DEF Tidy, Apart
<1>5. /\ CCode \in Holder /\ Statics \in Holder /\ \A c \in Block : c \in Holder
      /\ \A u \in Thread : <<u, 0>> \in Holder
  BY CodeHolds, SelfHolds, BoundAssumption DEF Holder, Stack
<1>6. refs'[CCode] \subseteq refs[CCode] /\ refs[CCode] \subseteq Block
  BY <1>1, <1>2, <1>5 DEF ItemsOK
<1>7. CASE UNCHANGED <<delete, frames>>
  <2>1. \A u \in Thread, i \in Nat, c \in Block :
           (Frees(u, i, c)' <=> Frees(u, i, c)) /\ (Clears(u, i, c)' <=> Clears(u, i, c))
    BY <1>7 DEF Frees, Clears, Works, Here
  <2>2. Private' BY <1>2, <1>6, <2>1, PrivateKept DEF Tidy
  <2>3. Emptied' BY <1>2, <1>5, <2>1 DEF Tidy, Emptied, Clears
  <2>4. Attachable' \subseteq Attachable BY <1>6, <1>7 DEF Attachable
  <2>5. \A c \in S : Alive(c)' BY <1>4, <1>7 DEF Own, Alive
  <2>6. Own(S)' BY <1>2, <1>4, <1>5, <2>4, <2>5 DEF Own
  <2> QED BY <1>3, <2>2, <2>3, <2>6 DEF Tidy, Apart
<1>8. CASE /\ counter[b] = 1 /\ delete' = delete \cup {b}
           /\ frames' = Pushed(t, Frame(b, "clear", "ref"))
  <2>0. Frame(b, "clear", "ref") \in AnyFrame
    BY <1>1 DEF Frame, AnyFrame, CleanupFrame
  <2>1. counter'[b] = 0 BY <1>1, <1>2, <1>8 DEF ItemsOK
  <2>2. Holders(b)' = {} BY <1>1, <2>1, UncountedPrime
  <2>3. \A u \in Thread, i \in Nat, c \in Block : Frees(u, i, c)' => Frees(u, i, c) \/ c = b
    BY <1>1, <1>8, FreesPush
  <2>4. Private' BY <1>2, <1>6, <2>2, <2>3, PrivateKept DEF Tidy
  <2>5. \A c \in Block : \A u \in Thread, i \in Nat : Clears(u, i, c) => Clears(u, i, c)'
    BY <1>1, <1>8, <2>0, ClearsStay
  <2>6. Emptied' BY <1>2, <1>5, <2>5 DEF Tidy, Emptied, Clears
  <2> DEFINE R == S \ {b}
  <2>7. \A g \in Holder : b \notin refs'[g] BY <2>2 DEF Holders
  <2>8. Attachable' \subseteq R
    <3>1. Attachable' \subseteq Attachable BY <1>6, <1>8 DEF Attachable
    <3> QED BY <1>4, <1>8, <3>1 DEF Own, Attachable
  <2>9. \A c \in R : Alive(c)' BY <1>4, <1>8 DEF Own, Alive
  <2>10. /\ refs'[Statics] \subseteq R /\ \A u \in Thread : refs'[<<u, 0>>] \subseteq R
         /\ \A c \in R : refs'[c] \subseteq R
    BY <1>2, <1>4, <1>5, <2>7 DEF Own
  <2> HIDE DEF R
  <2>11. Own(R)' BY <2>8, <2>9, <2>10 DEF Own
  <2>12. R \in SUBSET Block BY DEF R
  <2> QED BY <1>3, <2>4, <2>6, <2>11, <2>12 DEF Tidy, Apart
<1> QED BY <1>7, <1>8 DEF RefFree

\* What the stack of a thread in PRG code refers to is not being freed by
\* anybody else, and not held by C code.
LEMMA Held ==
  ASSUME Core, Private, NEW t \in Thread, NEW b \in refs[Level(t)]
  PROVE  /\ b \in Block /\ b \notin refs[CCode]
         /\ \A u \in Thread, i \in Nat : Frees(u, i, b) => <<u, i>> = Level(t)
<1>1. TypeOK /\ FramesOK /\ ItemsOK BY Parts DEF Core, Safe
<1>2. Level(t) \in Holder /\ Level(t) # CCode
  BY <1>1, LevelHolds, NotBlocks
<1>3. b \in Block /\ Level(t) \in Holders(b)
  BY <1>1, <1>2 DEF ItemsOK, Holders
<1> QED BY <1>2, <1>3 DEF Private

LEMMA HeldByStatics ==
  ASSUME Core, Private, NEW b \in refs[Statics]
  PROVE  /\ b \in Block /\ b \notin refs[CCode]
         /\ \A u \in Thread, i \in Nat : ~Frees(u, i, b)
<1>1. ItemsOK BY Parts DEF Core, Safe
<1>2. b \in Block /\ Statics \in Holders(b)
  BY <1>1, CodeHolds DEF ItemsOK, Holders
<1>3. \A u \in Thread, i \in Nat : <<u, i>> # Statics
  BY NameAssumption
<1> QED BY <1>2, <1>3, NameAssumption DEF Private

LEMMA HeldByBlock ==
  ASSUME Core, Private, NEW c \in Block, NEW b \in refs[c]
  PROVE  /\ b \in Block /\ b \notin refs[CCode]
         /\ \A u \in Thread, i \in Nat : ~Frees(u, i, b)
<1>1. ItemsOK BY Parts DEF Core, Safe
<1>2. b \in Block /\ c \in Holders(b)
  BY <1>1, SelfHolds DEF ItemsOK, Holders
<1>3. \A u \in Thread, i \in Nat : <<u, i>> # c
  BY NameAssumption
<1> QED BY <1>2, <1>3, NameAssumption DEF Private

\* Copying an item.
LEMMA CopyTidy ==
  ASSUME Core, Tidy, ~program.storing, NEW t \in Thread, NEW b \in Block,
         NEW from \in Holder, NEW to \in Holder, Copy(t, from, to, b)
  PROVE  Tidy'
<1> USE DEF blocks, class, collection
<1>0. TypeOK /\ ItemsOK /\ FramesOK /\ RestOK /\ Private
  BY Parts DEF Core, Safe, Tidy
<1>1. /\ b \in refs[from] /\ b \notin refs[to]
      /\ refs' = [refs EXCEPT ![to] = @ \cup {b}]
      /\ counter' = [counter EXCEPT ![b] = @ + 1]
      /\ UNCHANGED <<list, locked, used, delete, objects, frames, unswept, s_uUsedFlag>>
  BY DEF Copy
<1>2. \/ frames[t] = <<>>
      \/ to = Level(t) /\ frames[t] # <<>> /\ Len(frames[t]) \in Nat /\ Len(frames[t]) # 0
  BY <1>0 DEF Copy, Writable, FramesOK
<1>3. /\ Level(t) \in Holder /\ CCode \in Holder /\ Statics \in Holder
      /\ \A c \in Block : c \in Holder
      /\ \A u \in Thread, i \in Nat : i <= MaxFrames => <<u, i>> \in Holder
      /\ \A u \in Thread : <<u, 0>> \in Holder
  BY <1>0, LevelHolds, CodeHolds, SelfHolds, BoundAssumption DEF Holder, Stack
<1>4. /\ Level(t) # CCode /\ Statics # CCode /\ Level(t) # Statics /\ CCode \notin Block
      /\ Level(t) \notin Block
  <2>1. Level(t) \in Thread \X Nat BY <1>0 DEF Level, FramesOK
  <2> QED BY <2>1, NameAssumption
<1>5. /\ from \in {Statics, Level(t)} \cup refs[Level(t)]
      /\ to \in {Statics, Level(t)} \cup refs[Level(t)]
      /\ refs[Level(t)] \subseteq Block
  BY <1>0, <1>3 DEF Copy, Readable, Writable, ItemsOK
<1>6. /\ to \in Holder /\ to # CCode
      /\ refs'[to] = refs[to] \cup {b}
      /\ \A h \in Holder : h # to => refs'[h] = refs[h]
  BY <1>0, <1>1, <1>4, <1>5 DEF ItemsOK
<1>7. Holders(b)' = Holders(b) \cup {to} /\ \A c \in Block : c # b => Holders(c)' = Holders(c)
  BY <1>0, <1>1 DEF Holders, ItemsOK
<1>8. Counts' BY <1>0, <1>1, GainExact DEF Tidy
<1>9. \A u \in Thread, i \in Nat, c \in Block :
         (Frees(u, i, c)' <=> Frees(u, i, c)) /\ (Clears(u, i, c)' <=> Clears(u, i, c))
  BY <1>1 DEF Frees, Clears, Works, Here
<1>10. b \notin refs[CCode] /\ \A u \in Thread, i \in Nat : ~Frees(u, i, b)
  <2>1. CASE from = Statics BY <1>0, <1>1, <2>1, HeldByStatics
  <2>2. CASE from \in refs[Level(t)] BY <1>0, <1>1, <1>5, <2>2, HeldByBlock
  <2>3. CASE from = Level(t)
    <3>1. b \notin refs[CCode] /\ \A u \in Thread, i \in Nat : Frees(u, i, b) => <<u, i>> = Level(t)
      BY <1>0, <1>1, <2>3, Held
    <3>2. ASSUME NEW u \in Thread, NEW i \in Nat, Frees(u, i, b) PROVE FALSE
      <4>1. u = t /\ i = Len(frames[t]) BY <3>1, <3>2 DEF Level
      <4>2. Here(t, Len(frames[t])) BY <3>2, <4>1 DEF Frees, Works
      <4>3. frames[t] # <<>> BY <1>0, <4>2 DEF Here, FramesOK
      <4> QED BY <1>1, <1>2, <2>3, <4>3
    <3> QED BY <3>1, <3>2
  <2> QED BY <1>5, <2>1, <2>2, <2>3
<1>11. Private'
  <2>1. refs'[CCode] = refs[CCode] /\ refs[CCode] \subseteq Block
    BY <1>0, <1>3, <1>6 DEF ItemsOK
  <2>2. \A c \in Block, u \in Thread, i \in Nat : Frees(u, i, c)' =>
           Frees(u, i, c) /\ Holders(c)' \subseteq Holders(c)
    BY <1>7, <1>9, <1>10
  <2>3. \A g \in refs'[CCode] : g \in refs[CCode] /\ Holders(g)' \subseteq Holders(g)
    BY <1>7, <1>10, <2>1
  <2> QED BY <1>0, <1>1, <2>1, <2>2, <2>3, PrivateKept
<1>12. PICK S \in SUBSET Block : Own(S) BY DEF Tidy, Apart
<1>13. frames[t] = <<>> => /\ Level(t) = <<t, 0>> /\ b \in S
                           /\ to \in Block => to \in S
  <2> SUFFICES ASSUME frames[t] = <<>>
               PROVE  Level(t) = <<t, 0>> /\ b \in S /\ (to \in Block => to \in S)
    OBVIOUS
  <2>1. Level(t) = <<t, 0>> BY DEF Level
  <2>2. refs[Level(t)] \subseteq S /\ refs[Statics] \subseteq S
    BY <1>12, <2>1 DEF Own
  <2>3. \A c \in S : refs[c] \subseteq S BY <1>12 DEF Own
  <2>4. b \in S BY <1>1, <1>5, <2>2, <2>3
  <2>5. to \in Block => to \in S BY <1>4, <1>5, <2>2, NameAssumption
  <2> QED BY <2>1, <2>4, <2>5
<1>14. Emptied'
  <2>1. ASSUME NEW c \in Block, list'[c] = "deleted" PROVE refs'[c] = refs[c]
    <3>1. c \notin S BY <1>1, <1>12, <2>1 DEF Own, Alive
    <3>2. c # to BY <1>2, <1>4, <1>13, <3>1
    <3> QED BY <1>3, <1>6, <3>2
  <2> QED BY <1>1, <1>9, <2>1 DEF Tidy, Emptied, Clears
<1>15. Own(S)'
  <2>1. \A h \in Holder : refs[h] \subseteq S /\ (h \in {Statics} \cup S \/ \E u \in Thread : h = <<u, 0>>)
           => refs'[h] \subseteq S
    <3>1. CASE frames[t] = <<>> BY <1>6, <1>13, <3>1
    <3>2. CASE frames[t] # <<>>
      <4>1. to = Level(t) BY <1>2, <3>2
      <4>2. \A u \in Thread : to # <<u, 0>> BY <1>2, <3>2, <4>1 DEF Level
      <4>3. to # Statics /\ to \notin S BY <1>4, <4>1
      <4> QED BY <1>6, <4>2, <4>3
    <3> QED BY <3>1, <3>2
  <2>2. Attachable' = Attachable
    BY <1>1, <1>3, <1>6 DEF Attachable
  <2>3. \A c \in S : Alive(c)' BY <1>1, <1>12 DEF Own, Alive
  <2>4. refs'[Statics] \subseteq S /\ \A u \in Thread : refs'[<<u, 0>>] \subseteq S
    BY <1>3, <1>12, <2>1 DEF Own
  <2>5. \A c \in S : refs'[c] \subseteq S
    BY <1>3, <1>12, <2>1 DEF Own
  <2> QED BY <1>12, <2>2, <2>3, <2>4, <2>5 DEF Own
<1> QED BY <1>8, <1>11, <1>14, <1>15 DEF Tidy, Apart

\* A new block.
LEMMA AllocateTidy ==
  ASSUME Core, Tidy, NEW t \in Thread, NEW b \in Block, NEW l \in {"current", "locked"}, NEW n,
         NEW h \in {Level(t), CCode}, NEW contents \in SUBSET Block, b \notin contents,
         contents \subseteq refs[Level(t)], frames[t] = <<>> \/ contents = {},
         Allocate(b, l, n, h, contents),
         objects' \subseteq objects \cup {b}, h = CCode => b \notin objects',
         UNCHANGED <<frames, unswept, s_uUsedFlag>>
  PROVE  Tidy'
<1>0. TypeOK /\ ItemsOK /\ FramesOK /\ RestOK /\ Work /\ NoDanglingItem /\ Private
  BY Parts DEF Core, Safe, Tidy
<1>1. /\ Level(t) \in Holder /\ CCode \in Holder /\ Statics \in Holder
      /\ \A c \in Block : c \in Holder
      /\ \A u \in Thread : <<u, 0>> \in Holder
  BY <1>0, LevelHolds, CodeHolds, SelfHolds, BoundAssumption DEF Holder, Stack
<1>2. /\ CCode \notin Block /\ Level(t) \notin Block /\ Level(t) # CCode
      /\ Statics \notin Block /\ h \in Holder /\ h \notin Block
      /\ \A u \in Thread : <<u, 0>> \notin Block /\ <<u, 0>> # CCode
      /\ Statics # CCode /\ Statics # Level(t)
  <2>1. Level(t) \in Thread \X Nat BY <1>0 DEF Level, FramesOK
  <2> QED BY <1>1, <2>1, NameAssumption
<1>3. /\ list[b] = "free" /\ b \notin delete /\ refs[b] = {} /\ Holders(b) = {}
      /\ \A u \in Thread, i \in Nat : ~Works(u, i, b)
  <2>1. list[b] = "free" BY DEF Allocate
  <2> QED BY <1>0, <2>1 DEF Core, Levels, Work, Marking, OneWorker, NoDanglingItem
<1>4. /\ Counts' /\ Holders(b)' = {h}
      /\ \A c \in Block : c # b =>
            Holders(c)' = IF c \in contents THEN Holders(c) \cup {b} ELSE Holders(c)
  BY <1>0, <1>2, <1>3, AllocateExact DEF Tidy
<1>5. \A g \in Holder : refs'[g] = IF g = b THEN contents
                                   ELSE IF g = h THEN refs[g] \cup {b} ELSE refs[g]
  BY <1>0, <1>1, <1>2 DEF Allocate, ItemsOK
<1>6. /\ \A c \in Block : c # b => /\ list'[c] = list[c] /\ used'[c] = used[c]
                                   /\ locked'[c] = locked[c]
      /\ list'[b] = l /\ used'[b] = s_uUsedFlag /\ delete' = delete
  BY <1>0, <1>3 DEF Allocate, RestOK
<1>7. \A u \in Thread, i \in Nat, c \in Block :
         /\ Works(u, i, c)' <=> Works(u, i, c)
         /\ Frees(u, i, c)' <=> Frees(u, i, c)
         /\ Clears(u, i, c)' <=> Clears(u, i, c)
  BY DEF Frees, Clears, Works, Here
<1>8. \A c \in contents : c \notin refs[CCode] /\ \A u \in Thread, i \in Nat : ~Frees(u, i, c)
  <2> SUFFICES ASSUME NEW c \in contents
               PROVE  c \notin refs[CCode] /\ \A u \in Thread, i \in Nat : ~Frees(u, i, c)
    OBVIOUS
  <2>1. /\ c \notin refs[CCode]
        /\ \A u \in Thread, i \in Nat : Frees(u, i, c) => <<u, i>> = Level(t)
    BY <1>0, Held
  <2>2. frames[t] = <<>> OBVIOUS
  <2>3. \A u \in Thread, i \in Nat : <<u, i>> = Level(t) => ~Here(u, i)
    BY <2>2 DEF Level, Here
  <2> QED BY <2>1, <2>3 DEF Frees, Works
<1>9. Private'
  <2>1. \A c \in Block, u \in Thread, i \in Nat : Frees(u, i, c)' =>
           Frees(u, i, c) /\ Holders(c)' \subseteq Holders(c)
    <3>1. \A u \in Thread, i \in Nat : ~Frees(u, i, b) BY <1>3 DEF Frees
    <3> QED BY <1>4, <1>7, <1>8, <3>1
  <2>2. refs'[CCode] = IF h = CCode THEN refs[CCode] \cup {b} ELSE refs[CCode]
    BY <1>1, <1>2, <1>5
  <2>3. refs[CCode] \subseteq Block /\ b \notin refs[CCode]
    BY <1>0, <1>1, <1>3 DEF ItemsOK, Holders
  <2>4. ASSUME NEW g \in refs'[CCode]
        PROVE  /\ g \notin objects'
               /\ \/ g \in refs[CCode] /\ Holders(g)' \subseteq Holders(g)
                  \/ Holders(g)' = {CCode}
    <3>1. CASE g = b BY <1>4, <2>2, <2>3, <2>4, <3>1
    <3>2. CASE g # b
      <4>1. g \in refs[CCode] BY <2>2, <2>4, <3>2
      <4>2. g \notin objects BY <1>0, <4>1 DEF Private
      <4> QED BY <1>4, <1>8, <2>3, <3>2, <4>1, <4>2
    <3> QED BY <3>1, <3>2
  <2> QED BY <1>0, <2>1, <2>2, <2>3, <2>4, PrivateKept
<1>10. Emptied'
  <2>1. ASSUME NEW c \in Block, list'[c] = "deleted"
        PROVE  list[c] = "deleted" /\ refs'[c] = refs[c]
    <3>1. c # b BY <1>6, <2>1
    <3> QED BY <1>1, <1>2, <1>5, <1>6, <2>1, <3>1
  <2> QED BY <1>7, <2>1 DEF Tidy, Emptied, Clears
<1>11. PICK S \in SUBSET Block : Own(S) BY DEF Tidy, Apart
<1> DEFINE R == S \cup {b}
<1>12. contents \subseteq S
  <2>1. CASE contents = {} BY <2>1
  <2>2. CASE frames[t] = <<>>
    <3>1. Level(t) = <<t, 0>> BY <2>2 DEF Level
    <3> QED BY <1>11, <3>1 DEF Own
  <2> QED BY <2>1, <2>2
<1>13. \A c \in R : Alive(c)' /\ refs'[c] \subseteq R
  <2>1. Alive(b)' BY <1>3, <1>6 DEF Alive
  <2>2. \A c \in S : c # b => Alive(c)' BY <1>6, <1>11 DEF Own, Alive
  <2>3. refs'[b] \subseteq R BY <1>1, <1>5, <1>12
  <2>4. \A c \in S : c # b => refs'[c] \subseteq R BY <1>1, <1>2, <1>5, <1>11 DEF Own
  <2> QED BY <2>1, <2>2, <2>3, <2>4
<1>14. refs'[Statics] \subseteq R /\ \A u \in Thread : refs'[<<u, 0>>] \subseteq R
  <2>1. \A g \in Holder : g # b => refs'[g] \subseteq refs[g] \cup {b}
    BY <1>5
  <2>2. refs[Statics] \subseteq S /\ \A u \in Thread : refs[<<u, 0>>] \subseteq S
    BY <1>11 DEF Own
  <2>3. refs'[Statics] \subseteq R
    BY <1>1, <1>2, <2>1, <2>2
  <2>4. ASSUME NEW u \in Thread PROVE refs'[<<u, 0>>] \subseteq R
    <3>1. <<u, 0>> \in Holder /\ <<u, 0>> # b BY <1>1, <1>2
    <3> QED BY <2>1, <2>2, <3>1
  <2> QED BY <2>3, <2>4
<1>15. Attachable' \subseteq R
  <2>1. refs'[CCode] \subseteq refs[CCode] \cup {b} BY <1>1, <1>2, <1>5
  <2>2. refs[CCode] \subseteq Block BY <1>0, <1>1 DEF ItemsOK
  <2>3. Attachable' \subseteq Attachable \cup {b} BY <1>6, <2>1, <2>2 DEF Attachable
  <2> QED BY <1>11, <2>3 DEF Own
<1>16. R \in SUBSET Block OBVIOUS
<1> HIDE DEF R
<1>17. Own(R)' BY <1>13, <1>14, <1>15 DEF Own
<1> QED BY <1>4, <1>9, <1>10, <1>16, <1>17 DEF Tidy, Apart

\* A pointer of C code becomes an item.
LEMMA AttachTidy ==
  ASSUME Core, Tidy, NEW t \in Thread, NEW g \in Block, Attach(t, g)
  PROVE  Tidy'
<1> USE DEF class, collection
<1>0. TypeOK /\ ItemsOK /\ FramesOK /\ RestOK /\ Work /\ Private
  BY Parts DEF Core, Safe, Tidy
<1>1. /\ Level(t) \in Holder /\ CCode \in Holder /\ Statics \in Holder
      /\ \A c \in Block : c \in Holder
      /\ \A u \in Thread : <<u, 0>> \in Holder
  BY <1>0, LevelHolds, CodeHolds, SelfHolds, BoundAssumption DEF Holder, Stack
<1>2. /\ CCode \notin Block /\ Level(t) \notin Block /\ Level(t) # CCode
      /\ Statics # CCode /\ Statics # Level(t)
      /\ \A u \in Thread : <<u, 0>> # CCode
  <2>1. Level(t) \in Thread \X Nat BY <1>0 DEF Level, FramesOK
  <2> QED BY <2>1, NameAssumption
<1>3. /\ g \in refs[CCode] /\ g \notin refs[Level(t)]
      /\ refs' = [refs EXCEPT ![CCode] = @ \ {g}, ![Level(t)] = @ \cup {g}]
      /\ locked[g] > 0 /\ g \notin delete /\ delete' = delete
      /\ locked' = [locked EXCEPT ![g] = @ - 1]
      /\ IF locked[g] = 1 THEN /\ list' = [list EXCEPT ![g] = "current"]
                               /\ used' = [used EXCEPT ![g] = s_uUsedFlag]
                          ELSE UNCHANGED <<list, used>>
      /\ UNCHANGED <<counter, objects, frames, unswept, s_uUsedFlag>>
  BY DEF Attach, Unlock
<1>4. \A h \in Holder : refs'[h] = IF h = CCode THEN refs[h] \ {g}
                                   ELSE IF h = Level(t) THEN refs[h] \cup {g} ELSE refs[h]
  BY <1>0, <1>1, <1>2, <1>3 DEF ItemsOK
<1>5. Holders(g) = {CCode} /\ Holders(g)' = {Level(t)}
  <2>1. Holders(g) = {CCode} BY <1>0, <1>3 DEF Private
  <2> QED BY <1>1, <1>2, <1>4, <2>1 DEF Holders
<1>6. \A c \in Block : c # g => Holders(c)' = Holders(c)
  BY <1>4 DEF Holders
<1>7. Counts'
  <2>1. Cardinality(Holders(g)') = Cardinality(Holders(g))
    BY <1>5, FS_Singleton
  <2>2. \A c \in Block : Cardinality(Holders(c)') = Cardinality(Holders(c))
    BY <1>6, <2>1
  <2> QED BY <1>3, <2>2, SameExact DEF Tidy
<1>8. \A u \in Thread, i \in Nat, c \in Block :
         (Frees(u, i, c)' <=> Frees(u, i, c)) /\ (Clears(u, i, c)' <=> Clears(u, i, c))
  BY <1>3 DEF Frees, Clears, Works, Here
<1>9. \A u \in Thread, i \in Nat : ~Frees(u, i, g)
  BY <1>0, <1>3 DEF Frees, Work, OneWorker
<1>10. Private'
  <2>1. refs'[CCode] = refs[CCode] \ {g} /\ refs[CCode] \subseteq Block
    BY <1>0, <1>1, <1>4 DEF ItemsOK
  <2>2. \A c \in Block, u \in Thread, i \in Nat : Frees(u, i, c)' =>
           Frees(u, i, c) /\ Holders(c)' \subseteq Holders(c)
    BY <1>6, <1>8, <1>9
  <2>3. \A c \in refs'[CCode] : c \in refs[CCode] /\ Holders(c)' \subseteq Holders(c)
    BY <1>6, <2>1
  <2> QED BY <1>0, <1>3, <2>1, <2>2, <2>3, PrivateKept
<1>11. \A c \in Block : list'[c] = "deleted" => list[c] = "deleted"
  BY <1>0, <1>3 DEF RestOK
<1>12. ASSUME NEW c \in Block PROVE refs'[c] = refs[c]
  <2>1. c \in Holder /\ c # CCode /\ c # Level(t) BY <1>1, <1>2
  <2> QED BY <1>4, <2>1
<1>13. Emptied'
  BY <1>3, <1>8, <1>11, <1>12, EmptiedKept DEF Tidy
<1>14. PICK S \in SUBSET Block : Own(S) BY DEF Tidy, Apart
<1>15. g \in S BY <1>3, <1>14 DEF Own, Attachable
<1>16. \A c \in S : Alive(c)'
  BY <1>0, <1>3, <1>14 DEF Own, Alive, RestOK
<1>17. Attachable' \subseteq Attachable
  <2>1. refs'[CCode] = refs[CCode] \ {g} /\ refs[CCode] \subseteq Block
    BY <1>0, <1>1, <1>4 DEF ItemsOK
  <2>2. \A c \in Block : c # g => locked'[c] = locked[c] BY <1>0, <1>3 DEF RestOK
  <2> QED BY <1>3, <2>1, <2>2 DEF Attachable
<1>18. refs'[Statics] \subseteq S /\ \A u \in Thread : refs'[<<u, 0>>] \subseteq S
  <2>1. \A h \in Holder : refs'[h] \subseteq refs[h] \cup {g} BY <1>4
  <2> QED BY <1>1, <1>14, <1>15, <2>1 DEF Own
<1>19. Own(S)' BY <1>12, <1>14, <1>16, <1>17, <1>18 DEF Own
<1> QED BY <1>7, <1>10, <1>13, <1>19 DEF Tidy, Apart

LEMMA ItemsTidy ==
  ASSUME Core, Safe', Tidy, ~program.storing, NEW t \in Thread, Items(t)
  PROVE  Tidy'
<1> USE DEF blocks, class, collection
<1>0. TypeOK /\ ItemsOK /\ FramesOK /\ RestOK /\ Work /\ Private /\ CountCovers'
  BY Parts DEF Core, Safe, Tidy
<1>1. ASSUME NEW b \in Block, NEW from \in Holder, NEW to \in Holder, Copy(t, from, to, b)
      PROVE  Tidy'
  BY <1>1, CopyTidy
<1>2. ASSUME NEW b \in Block, NEW h \in Holder, Clear(t, h, b)
      PROVE  Tidy'
  BY <1>0, <1>2, RefFreeTidy DEF Clear
<1>3. ASSUME NEW b \in Block, DropGrip(t, b)
      PROVE  Tidy'
  BY <1>0, <1>3, CodeHolds, RefFreeTidy DEF DropGrip
<1>4. ASSUME NEW b \in Block, New(t, b)
      PROVE  Tidy'
  <2>1. Level(t) # CCode BY <1>0, NotBlocks
  <2> QED BY <1>4, <2>1, AllocateTidy DEF New
<1>5. ASSUME NEW b \in Block, NEW contents \in SUBSET Block, Grip(t, b, contents)
      PROVE  Tidy'
  <2>1. b \notin objects' /\ objects' \subseteq objects BY <1>5 DEF Grip
  <2> QED BY <1>5, <2>1, AllocateTidy DEF Grip
<1>6. ASSUME NEW b \in Block, Attach(t, b)
      PROVE  Tidy'
  BY <1>6, AttachTidy
<1>7. \A u \in Thread, i \in Nat, c \in Block : frames' = frames =>
         (Frees(u, i, c)' <=> Frees(u, i, c)) /\ (Clears(u, i, c)' <=> Clears(u, i, c))
  BY DEF Frees, Clears, Works, Here
<1>8. ASSUME NEW b \in Block, LockBlock(t, b)
      PROVE  Tidy'
  <2>1. b \notin refs[CCode] BY <1>0, <1>8, Held DEF LockBlock
  <2>2. /\ \A c \in Block : c # b => list'[c] = list[c] /\ locked'[c] = locked[c]
        /\ list'[b] = "locked"
        /\ UNCHANGED <<refs, counter, used, delete, objects, frames, unswept, s_uUsedFlag>>
    BY <1>0, <1>8 DEF LockBlock, RestOK
  <2>3. \A c \in Block : Alive(c) => Alive(c)' BY <2>2 DEF Alive
  <2>4. refs[CCode] \subseteq Block BY <1>0, CodeHolds DEF ItemsOK
  <2>5. \A c \in Block : list'[c] = "deleted" => list[c] = "deleted" BY <2>2
  <2> QED BY <1>0, <1>7, <2>1, <2>2, <2>3, <2>4, <2>5, TidySame
<1>9. ASSUME NEW b \in Block, UnlockBlock(t, b)
      PROVE  Tidy'
  <2>1. b \notin refs[CCode] BY <1>9 DEF UnlockBlock
  <2>2. /\ \A c \in Block : c # b => /\ list'[c] = list[c] /\ locked'[c] = locked[c]
                                     /\ used'[c] = used[c]
        /\ \/ list'[b] = "current" /\ used'[b] = s_uUsedFlag
           \/ list'[b] = list[b] /\ used'[b] = used[b]
        /\ UNCHANGED <<refs, counter, delete, objects, frames, unswept, s_uUsedFlag>>
    BY <1>0, <1>9 DEF UnlockBlock, Unlock, RestOK
  <2>3. \A c \in Block : Alive(c) => Alive(c)' BY <2>2 DEF Alive
  <2>4. refs[CCode] \subseteq Block BY <1>0, CodeHolds DEF ItemsOK
  <2>5. \A c \in Block : list'[c] = "deleted" => list[c] = "deleted" BY <2>2
  <2> QED BY <1>0, <1>7, <2>1, <2>2, <2>3, <2>4, <2>5, TidySame
<1> QED BY <1>1, <1>2, <1>3, <1>4, <1>5, <1>6, <1>8, <1>9 DEF Items

LEMMA CleanupTidy ==
  ASSUME Core, Safe', Tidy, NEW t \in Thread, Cleanup(t)
  PROVE  Tidy'
<1> USE DEF blocks, class, collection
<1>0. TypeOK /\ ItemsOK /\ FramesOK /\ RestOK /\ Work /\ Private /\ CountCovers'
      /\ CountCovers
  BY Parts DEF Core, Safe, Tidy
<1> DEFINE b == Top(t).block
           n == Len(frames[t])
<1>a. ASSUME NEW s \in Stages, At(t, s)
      PROVE  /\ b \in Block /\ Level(t) \in Holder /\ b \in Holder
             /\ n \in Nat /\ n # 0 /\ n <= MaxFrames /\ Here(t, n)
             /\ Top(t) = frames[t][n] /\ frames[t] # <<>> /\ frames[t][n].stage = s
             /\ Level(t) = <<t, n>>
             /\ s # "link" => Works(t, n, b) /\ b \in delete
  <2>1. /\ b \in Block /\ Level(t) \in Holder /\ b \in Holder
        /\ n \in Nat /\ n # 0 /\ n <= MaxFrames /\ Here(t, n)
        /\ Top(t) = frames[t][n] /\ frames[t] # <<>> /\ frames[t][n].stage = s
        /\ Level(t) = <<t, n>>
    BY <1>0, <1>a, TopFrame, AtTop, SelfHolds DEF FramesOK, Level
  <2>2. s # "link" => Works(t, n, b) BY <2>1 DEF Works, Stages
  <2> HIDE DEF b, n
  <2>3. s # "link" => b \in delete
    BY <1>0, <2>1, <2>2 DEF Work, OneWorker
  <2> QED BY <2>1, <2>2, <2>3
<1>e. "clear" \in Stages /\ "dtor" \in Stages /\ "items" \in Stages /\ "keep" \in Stages
  BY DEF Stages
<1>c. /\ CCode \in Holder /\ Statics \in Holder /\ \A c \in Block : c \in Holder
      /\ \A u \in Thread : <<u, 0>> \in Holder
      /\ refs[CCode] \subseteq Block
  BY <1>0, CodeHolds, SelfHolds, BoundAssumption DEF Holder, Stack, ItemsOK
<1>d. ASSUME NEW s \in Stages \ {"link"}, NEW new \in Stages \ {"link"}, At(t, s),
             frames' = Staged(t, new)
      PROVE  /\ \A u \in Thread, i \in Nat, c \in Block : Frees(u, i, c)' => Frees(u, i, c)
             /\ \A c \in Block : \A u \in Thread, i \in Nat : Clears(u, i, c) => Clears(u, i, c)'
  <2>1. \A u \in Thread, i \in Nat, c \in Block : Frees(u, i, c)' => Frees(u, i, c)
    BY <1>0, <1>d, FreesFrom
  <2>2. \A c \in Block : \A u \in Thread, i \in Nat : Clears(u, i, c) => Clears(u, i, c)'
    BY <1>0, <1>d, ClearsStay
  <2> QED BY <2>1, <2>2
<1>1. CASE CallCleanup(t)
  <2>1. /\ At(t, "clear")
        /\ UNCHANGED <<list, locked, used, delete, objects, unswept, s_uUsedFlag>>
    BY <1>1 DEF CallCleanup
  <2>2. /\ b \in Block /\ Level(t) \in Holder /\ n \in Nat /\ n # 0 /\ n <= MaxFrames
        /\ Level(t) = <<t, n>> /\ Works(t, n, b) /\ Here(t, n)
        /\ frames[t][n].stage = "clear"
    BY <1>a, <1>e, <2>1
  <2>3. CASE b \in objects
    <3>1. /\ refs' = [refs EXCEPT ![<<t, n>>] = {b}]
          /\ counter' = [counter EXCEPT ![b] = @ + 1] /\ frames' = Staged(t, "dtor")
      BY <1>1, <2>2, <2>3 DEF CallCleanup
    <3>2. /\ \A u \in Thread, i \in Nat, c \in Block : Frees(u, i, c)' => Frees(u, i, c)
          /\ \A c \in Block : \A u \in Thread, i \in Nat : Clears(u, i, c) => Clears(u, i, c)'
      BY <1>d, <1>e, <2>1, <3>1
    <3> HIDE DEF b, n
    <3>3. refs[<<t, n>>] = {}
      BY <2>2 DEF Core, Levels
    <3>4. \A h \in Holder : refs'[h] = IF h = <<t, n>> THEN {b} ELSE refs[h]
      BY <1>0, <2>2, <3>1 DEF ItemsOK
    <3>5. refs' = [refs EXCEPT ![<<t, n>>] = @ \cup {b}] /\ b \notin refs[<<t, n>>]
      BY <1>0, <2>2, <3>1, <3>3 DEF ItemsOK
    <3>6. Counts' BY <1>0, <2>2, <3>1, <3>5, GainExact DEF Tidy
    <3>7. ASSUME NEW c \in Block, NEW h \in Holder, h \in Holders(c)'
          PROVE  h \in Holders(c) \/ (h = <<t, n>> /\ c = b)
      <4>1. c \in refs'[h] BY <3>7 DEF Holders
      <4>2. CASE h = <<t, n>> BY <3>4, <4>1, <4>2
      <4>3. CASE h # <<t, n>>
        <5>1. c \in refs[h] BY <3>4, <4>1, <4>3
        <5> QED BY <5>1 DEF Holders
      <4> QED BY <4>2, <4>3
    <3>a. /\ \A c \in Block : c # b => Holders(c)' \subseteq Holders(c)
          /\ \A c \in Block : Holders(c)' \subseteq Holders(c) \cup {<<t, n>>}
      <4>1. \A c \in Block : Holders(c)' \subseteq Holder BY DEF Holders
      <4> QED BY <3>7, <4>1
    <3>8. /\ <<t, n>> \notin Block /\ <<t, n>> # CCode /\ <<t, n>> # Statics
          /\ \A u \in Thread : <<u, 0>> # <<t, n>>
      BY <2>2, NameAssumption
    <3>9. Private'
      <4>1. refs'[CCode] = refs[CCode] BY <1>c, <3>4, <3>8
      <4>2. b \notin refs[CCode] BY <1>0, <2>3 DEF Private
      <4>3. ASSUME NEW c \in Block, NEW u \in Thread, NEW i \in Nat, Frees(u, i, c)'
            PROVE  \/ Frees(u, i, c) /\ Holders(c)' \subseteq Holders(c)
                   \/ Holders(c)' \subseteq {<<u, i>>}
        <5>1. Frees(u, i, c) BY <3>2, <4>3
        <5>2. CASE c # b BY <3>a, <5>1, <5>2
        <5>3. CASE c = b
          <6>0. Works(u, i, c) /\ Works(t, n, c) BY <2>2, <5>1, <5>3 DEF Frees
          <6>1. u = t /\ i = n BY <1>0, <2>2, <6>0 DEF Work, OneWorker
          <6>2. Holders(c) \subseteq {<<u, i>>} BY <1>0, <5>1 DEF Private
          <6> QED BY <3>a, <6>1, <6>2
        <5> QED BY <5>2, <5>3
      <4>4. \A g \in refs'[CCode] : g \in refs[CCode] /\ Holders(g)' \subseteq Holders(g)
        BY <1>c, <3>a, <4>1, <4>2
      <4> QED BY <1>0, <1>c, <2>1, <4>1, <4>3, <4>4, PrivateKept
    <3>10. ASSUME NEW c \in Block PROVE refs'[c] = refs[c]
      <4>1. c \in Holder /\ c # <<t, n>> BY <1>c, <3>8
      <4> QED BY <3>4, <4>1
    <3>11. Emptied' BY <2>1, <3>2, <3>10, EmptiedKept DEF Tidy
    <3>12. PICK S \in SUBSET Block : Own(S) BY DEF Tidy, Apart
    <3>13. Own(S)'
      <4>1. refs'[Statics] = refs[Statics] /\ refs'[CCode] = refs[CCode]
            /\ \A u \in Thread : refs'[<<u, 0>>] = refs[<<u, 0>>]
        BY <1>c, <3>4, <3>8
      <4>2. Attachable' = Attachable BY <2>1, <4>1 DEF Attachable
      <4>3. \A c \in S : Alive(c)' BY <2>1, <3>12 DEF Own, Alive
      <4> QED BY <3>10, <3>12, <4>1, <4>2, <4>3 DEF Own
    <3> QED BY <3>6, <3>9, <3>11, <3>13 DEF Tidy, Apart
  <2>4. CASE b \notin objects
    <3>1. UNCHANGED <<refs, counter>> /\ frames' = Staged(t, "items")
      BY <1>1, <2>4 DEF CallCleanup
    <3>2. /\ \A u \in Thread, i \in Nat, c \in Block : Frees(u, i, c)' => Frees(u, i, c)
          /\ \A c \in Block : \A u \in Thread, i \in Nat : Clears(u, i, c) => Clears(u, i, c)'
      BY <1>d, <1>e, <2>1, <3>1
    <3>3. \A c \in Block : Alive(c) => Alive(c)' BY <2>1 DEF Alive
    <3> QED BY <1>0, <2>1, <3>1, <3>2, <3>3, TidySame
  <2> QED BY <2>3, <2>4
<1>2. CASE Return(t)
  <2>1. /\ At(t, "dtor") /\ refs[Level(t)] = {b}
        /\ refs' = [refs EXCEPT ![Level(t)] = {}]
        /\ counter' = [counter EXCEPT ![b] = @ - 1]
        /\ objects' = objects \ {b} /\ frames' = Staged(t, "items")
        /\ UNCHANGED <<list, locked, used, delete, unswept, s_uUsedFlag>>
    BY <1>2 DEF Return, LoseClass
  <2>2. /\ b \in Block /\ Level(t) \in Holder
        /\ \A u \in Thread, i \in Nat, c \in Block : Frees(u, i, c)' => Frees(u, i, c)
        /\ \A c \in Block : \A u \in Thread, i \in Nat : Clears(u, i, c) => Clears(u, i, c)'
    BY <1>a, <1>d, <1>e, <2>1
  <2> HIDE DEF b
  <2>3. \A h \in Holder : refs'[h] = IF h = Level(t) THEN {} ELSE refs[h]
    BY <1>0, <2>1, <2>2 DEF ItemsOK
  <2>4. refs' = [refs EXCEPT ![Level(t)] = @ \ {b}] /\ b \in refs[Level(t)]
    BY <1>0, <2>1, <2>2 DEF ItemsOK
  <2>5. Counts' BY <1>0, <2>1, <2>2, <2>4, LossExact DEF Tidy
  <2>6. \A h \in Holder : refs'[h] \subseteq refs[h] BY <2>3
  <2>7. \A c \in Block : Holders(c)' \subseteq Holders(c) BY <2>6 DEF Holders
  <2>8. Private'
    <3>1. refs'[CCode] \subseteq refs[CCode] BY <1>c, <2>6
    <3> QED BY <1>0, <1>c, <2>1, <2>2, <2>7, <3>1, PrivateKept
  <2>9. Emptied'
    <3>1. \A c \in Block : refs'[c] \subseteq refs[c] BY <1>c, <2>6
    <3> QED BY <2>1, <2>2, <3>1, EmptiedKept DEF Tidy
  <2>10. PICK S \in SUBSET Block : Own(S) BY DEF Tidy, Apart
  <2>11. Own(S)'
    <3>1. refs'[Statics] \subseteq refs[Statics] /\ refs'[CCode] \subseteq refs[CCode]
          /\ \A u \in Thread : refs'[<<u, 0>>] \subseteq refs[<<u, 0>>]
      BY <1>c, <2>6
    <3>2. Attachable' \subseteq Attachable BY <2>1, <3>1 DEF Attachable
    <3>3. \A c \in S : Alive(c)' BY <2>1, <2>10 DEF Own, Alive
    <3>4. \A c \in S : refs'[c] \subseteq S BY <1>c, <2>6, <2>10 DEF Own
    <3> QED BY <2>10, <3>1, <3>2, <3>3, <3>4 DEF Own
  <2> QED BY <2>5, <2>8, <2>9, <2>11 DEF Tidy, Apart
<1>3. CASE FreeBlock(t)
  <2>1. /\ At(t, "items") /\ Top(t).by = "ref" /\ refs[b] = {}
        /\ UNCHANGED <<counter, used, unswept, s_uUsedFlag>>
    BY <1>3 DEF FreeBlock
  <2>2. b \in Block /\ b \in Holder /\ frames[t] # <<>> /\ b \in delete BY <1>a, <1>e, <2>1
  <2>3. CASE counter[b] = 0 /\ Free(b) /\ frames' = Popped(t)
    <3>1. /\ list' = [list EXCEPT ![b] = "free"] /\ refs' = [refs EXCEPT ![b] = {}]
          /\ delete' = delete \ {b} /\ locked' = [locked EXCEPT ![b] = 0]
          /\ objects' = objects \ {b}
      BY <2>3 DEF Free
    <3>2. \A u \in Thread, i \in Nat, c \in Block : Frees(u, i, c)' => Frees(u, i, c)
      BY <1>0, <2>2, <2>3, FreesFrom
    <3>3. \A c \in Block : \A u \in Thread, i \in Nat : Clears(u, i, c) => Clears(u, i, c)'
      BY <1>0, <2>1, <2>2, <2>3, ClearsStay
    <3> HIDE DEF b
    <3>4. refs' = refs BY <1>0, <2>1, <2>2, <3>1 DEF ItemsOK
    <3>5. b \notin refs[CCode]
      <4>1. Holders(b) = {} BY <1>0, <2>2, <2>3, Uncounted
      <4> QED BY <1>c, <4>1 DEF Holders
    <3>6. /\ list'[b] = "free"
          /\ \A c \in Block : c # b => list'[c] = list[c] /\ locked'[c] = locked[c]
      BY <1>0, <2>2, <3>1 DEF RestOK
    <3>7. \A c \in Block : Alive(c) => Alive(c)' BY <2>1, <2>2, <3>1, <3>6 DEF Alive
    <3> QED BY <1>0, <1>c, <2>1, <3>1, <3>2, <3>3, <3>4, <3>5, <3>6, <3>7, TidySame
  <2>4. CASE frames' = Staged(t, "keep") /\ UNCHANGED <<list, refs, delete, locked, objects>>
    <3>1. /\ \A u \in Thread, i \in Nat, c \in Block : Frees(u, i, c)' => Frees(u, i, c)
          /\ \A c \in Block : \A u \in Thread, i \in Nat : Clears(u, i, c) => Clears(u, i, c)'
      BY <1>d, <1>e, <2>1, <2>4
    <3>2. \A c \in Block : Alive(c) => Alive(c)' BY <2>1, <2>4 DEF Alive
    <3> QED BY <1>0, <2>1, <2>4, <3>1, <3>2, TidySame
  <2> QED BY <1>3, <2>3, <2>4 DEF FreeBlock
<1>4. CASE KeepBlock(t)
  <2>1. /\ At(t, "keep") /\ Top(t).by = "ref" /\ frames' = Popped(t)
        /\ IF b \in delete
             THEN /\ used' = [used EXCEPT ![b] = s_uUsedFlag]
                  /\ delete' = delete \ {b}
             ELSE UNCHANGED <<used, delete>>
        /\ UNCHANGED <<refs, counter, list, locked, objects, unswept, s_uUsedFlag>>
    BY <1>4 DEF KeepBlock
  <2>2. /\ b \in Block /\ frames[t] # <<>> /\ Frees(t, n, b) /\ n \in Nat
    BY <1>a, <1>e, <2>1 DEF Frees
  <2>3. \A u \in Thread, i \in Nat, c \in Block : Frees(u, i, c)' => Frees(u, i, c)
    BY <1>0, <2>1, <2>2, FreesFrom
  <2>4. \A c \in Block : \A u \in Thread, i \in Nat : Clears(u, i, c) => Clears(u, i, c)'
    BY <1>0, <2>1, <2>2, ClearsStay
  <2> HIDE DEF b, n
  <2>5. b \notin refs[CCode]
    <3>1. Holders(b) \subseteq {<<t, n>>} BY <1>0, <2>2 DEF Private
    <3>2. <<t, n>> # CCode BY <2>2, NameAssumption
    <3> QED BY <1>c, <3>1, <3>2 DEF Holders
  <2>6. /\ used'[b] = s_uUsedFlag \/ used'[b] = used[b]
        /\ \A c \in Block : c # b => used'[c] = used[c]
        /\ delete' \subseteq delete /\ delete \subseteq delete' \cup {b}
    BY <1>0, <2>1, <2>2 DEF RestOK
  <2>7. \A c \in Block : Alive(c) => Alive(c)' BY <2>1, <2>6 DEF Alive
  <2> QED BY <1>0, <1>c, <2>1, <2>3, <2>4, <2>5, <2>6, <2>7, TidySame
<1>5. ASSUME NEW c \in Block, ReleaseItem(t, c)
      PROVE  Tidy'
  <2>1. /\ At(t, "items") /\ c \in refs[b] /\ RefFree(t, b, c)
        /\ UNCHANGED <<list, locked, used, objects, unswept, s_uUsedFlag>>
    BY <1>5 DEF ReleaseItem
  <2>2. b \in Holder BY <1>a, <1>e, <2>1
  <2> HIDE DEF b
  <2> QED BY <1>0, <2>1, <2>2, RefFreeTidy
<1> QED BY <1>1, <1>2, <1>3, <1>4, <1>5 DEF Cleanup

LEMMA CollectorTidy ==
  ASSUME Core, CountCovers, World!Promise, Tidy, NEW t \in Thread, Collector(t), ~Collect(t)
  PROVE  Tidy'
<1> USE DEF blocks, class, collection
<1>0. TypeOK /\ ItemsOK /\ FramesOK /\ RestOK /\ Work /\ Private /\ Emptied /\ Flags
  BY Parts DEF Core, Safe, Tidy
<1>c. refs[CCode] \subseteq Block /\ \A c \in Block : c \in Holder
  BY <1>0, CodeHolds, SelfHolds DEF ItemsOK
<1>d. \A c \in delete : c \in Block /\ ~Alive(c)
  BY <1>0 DEF Alive, RestOK
<1>e. \A c \in Block : list[c] = "deleted" => c \in delete
  BY <1>0 DEF Work, Marking
<1>f. "keep" \in Stages /\ "link" \in Stages /\ "items" \in Stages
  BY DEF Stages
<1>1. CASE Suspend(t) \/ Granted(t) \/ CollectNothing(t)
  <2>1. UNCHANGED <<refs, counter, list, blocks, objects, frames, unswept, s_uUsedFlag>>
    BY <1>1 DEF Suspend, Granted, CollectNothing
  <2>2. \A u \in Thread, i \in Nat, c \in Block :
           (Frees(u, i, c)' <=> Frees(u, i, c)) /\ (Clears(u, i, c)' <=> Clears(u, i, c))
    BY <2>1 DEF Frees, Clears, Works, Here
  <2>3. \A c \in Block : Alive(c) => Alive(c)' BY <2>1 DEF Alive
  <2> QED BY <1>0, <2>1, <2>2, <2>3, TidySame
<1>2. ASSUME NEW b \in Block, ClearDeleted(t, b)
      PROVE  Tidy'
  <2> DEFINE f == Frame(b, "clear", "gc")
  <2>1. /\ UNCHANGED <<refs, counter, list, blocks, objects, s_uUsedFlag>>
        /\ unswept' = unswept \ {b} /\ frames' = Pushed(t, f)
    BY <1>2 DEF ClearDeleted
  <2>2. f \in AnyFrame /\ f.block = b /\ f.stage = "clear" /\ f.by = "gc"
    BY DEF Frame, AnyFrame, CleanupFrame
  <2> HIDE DEF f
  <2>3. \A u \in Thread, i \in Nat, c \in Block : Frees(u, i, c)' => Frees(u, i, c)
    BY <1>0, <2>1, <2>2, FreesFrom
  <2>4. \A c \in Block : \A u \in Thread, i \in Nat : Clears(u, i, c) => Clears(u, i, c)'
    BY <1>0, <2>1, <2>2, ClearsStay
  <2>5. \E i \in Nat : Here(t, i)' /\ frames'[t][i] = f
    <3>1. PICK k \in Nat : k = Len(frames[t]) /\ k + 1 \in Nat
      BY <1>0 DEF FramesOK
    <3>2. Here(t, k + 1)' /\ frames'[t][k + 1] = f
      BY <1>0, <2>1, <2>2, <3>1, PushFacts
    <3> QED BY <3>1, <3>2
  <2>6. \E u \in Thread, i \in Nat : Clears(u, i, b)'
    <3>1. PICK i \in Nat : Here(t, i)' /\ frames'[t][i] = f
      BY <2>5
    <3>2. Clears(t, i, b)' BY <2>2, <3>1 DEF Clears, Works
    <3> QED BY <3>2
  <2>7. \A c \in Block : Alive(c) => Alive(c)' BY <2>1 DEF Alive
  <2>8. ASSUME NEW c \in Block, list'[c] = "deleted", c \notin unswept', refs[c] # {}
        PROVE  \/ \E u \in Thread, i \in Nat : Clears(u, i, c)'
               \/ /\ list[c] = "deleted" /\ c \notin unswept
                  /\ \A u \in Thread, i \in Nat : Clears(u, i, c) => Clears(u, i, c)'
    <3>1. CASE c = b BY <2>6, <3>1
    <3>2. CASE c # b BY <2>1, <2>4, <2>8, <3>2
    <3> QED BY <3>1, <3>2
  <2> QED BY <1>0, <2>1, <2>3, <2>7, <2>8, TidySame
<1>3. CASE Cleared(t)
  <2> DEFINE b == Top(t).block
  <2>1. /\ At(t, "items") /\ Top(t).by = "gc" /\ refs[b] = {} /\ frames[t] # <<>>
        /\ frames' = Popped(t)
        /\ UNCHANGED <<refs, counter, list, blocks, objects, unswept, s_uUsedFlag>>
    BY <1>3 DEF Cleared, At
  <2>2. \A u \in Thread, i \in Nat, c \in Block : Frees(u, i, c)' => Frees(u, i, c)
    BY <1>0, <2>1, FreesFrom
  <2>3. \A c \in Block : c # b =>
           \A u \in Thread, i \in Nat : Clears(u, i, c) => Clears(u, i, c)'
    BY <1>0, <2>1, ClearsStay
  <2> HIDE DEF b
  <2>4. \A c \in Block : Alive(c) => Alive(c)' BY <2>1 DEF Alive
  <2> QED BY <1>0, <2>1, <2>2, <2>3, <2>4, TidySame
<1>4. ASSUME NEW b \in Block, FreeDeleted(t, b)
      PROVE  Tidy'
  <2>1. /\ At(t, "final") /\ unswept = {} /\ list[b] = "deleted" /\ b \in delete
        /\ UNCHANGED <<counter, used, unswept, s_uUsedFlag>>
    BY <1>4, <1>e DEF FreeDeleted
  <2>2. CASE counter[b] = 0 /\ Free(b) /\ UNCHANGED frames
    <3>1. /\ list' = [list EXCEPT ![b] = "free"] /\ refs' = [refs EXCEPT ![b] = {}]
          /\ delete' = delete \ {b} /\ locked' = [locked EXCEPT ![b] = 0]
          /\ objects' = objects \ {b}
      BY <2>2 DEF Free
    <3>2. \A u \in Thread, i \in Nat, c \in Block :
             (Frees(u, i, c)' <=> Frees(u, i, c)) /\ (Clears(u, i, c)' <=> Clears(u, i, c))
      BY <2>2 DEF Frees, Clears, Works, Here
    <3>3. refs[b] = {}
      <4>1. SUFFICES ASSUME refs[b] # {} PROVE FALSE
        OBVIOUS
      <4>2. PICK u \in Thread, i \in Nat : Works(u, i, b) /\ frames[u][i].by = "gc"
        BY <1>0, <2>1, <4>1 DEF Emptied
      <4> QED BY <1>0, <2>1, <4>2, DeletedAlone DEF Core
    <3>4. refs' = refs BY <1>0, <1>c, <3>1, <3>3 DEF ItemsOK
    <3>5. Holders(b) = {} BY <1>0, <2>2, Uncounted
    <3>6. b \notin refs[CCode] BY <1>0, <3>5, CodeHolds DEF Holders
    <3>7. /\ list'[b] = "free"
          /\ \A c \in Block : c # b => list'[c] = list[c] /\ locked'[c] = locked[c]
      BY <1>0, <3>1 DEF RestOK
    <3>8. \A c \in Block : Alive(c) => Alive(c)' BY <2>1, <3>1, <3>7 DEF Alive
    <3> QED BY <1>0, <1>c, <2>1, <3>1, <3>2, <3>4, <3>6, <3>7, <3>8, TidySame
  <2>3. CASE /\ list' = [list EXCEPT ![b] = "loose"]
             /\ frames' = Pushed(t, Frame(b, "keep", "all"))
             /\ UNCHANGED <<refs, delete, locked, objects>>
    <3> DEFINE f == Frame(b, "keep", "all")
    <3>1. f \in AnyFrame /\ f.by # "ref"
      BY DEF Frame, AnyFrame, CleanupFrame
    <3>2. frames' = Pushed(t, f) BY <2>3
    <3> HIDE DEF f
    <3>3. \A u \in Thread, i \in Nat, c \in Block : Frees(u, i, c)' => Frees(u, i, c)
      BY <1>0, <3>1, <3>2, FreesFrom
    <3>4. \A c \in Block : \A u \in Thread, i \in Nat : Clears(u, i, c) => Clears(u, i, c)'
      BY <1>0, <3>1, <3>2, ClearsStay
    <3>5. \A c \in Block : list'[c] = "deleted" => list[c] = "deleted"
      BY <1>0, <2>3 DEF RestOK
    <3>6. \A c \in Block : c # b => list'[c] = list[c]
      BY <1>0, <2>3 DEF RestOK
    <3>7. \A c \in Block : Alive(c) => Alive(c)'
      BY <1>d, <2>1, <2>3, <3>6 DEF Alive
    <3> QED BY <1>0, <2>1, <2>3, <3>3, <3>4, <3>5, <3>7, TidySame
  <2> QED BY <1>4, <2>2, <2>3 DEF FreeDeleted
<1>5. CASE KeepDeleted(t)
  <2> DEFINE b == Top(t).block
             n == Len(frames[t])
  <2>1. /\ At(t, "keep") /\ Top(t).by = "all" /\ frames' = Staged(t, "link")
        /\ used' = [used EXCEPT ![b] = s_uUsedFlag] /\ delete' = delete \ {b}
        /\ locked' = [locked EXCEPT ![b] = 0]
        /\ UNCHANGED <<refs, counter, list, objects, unswept, s_uUsedFlag>>
    BY <1>5 DEF KeepDeleted
  <2>2. /\ b \in Block /\ n \in Nat /\ Here(t, n) /\ frames[t][n] = Top(t)
        /\ Works(t, n, b)
    BY <1>0, <1>f, <2>1, AtTop, TopFrame DEF Works
  <2>3. b \in delete BY <1>0, <2>2 DEF Work, OneWorker
  <2>4. \A u \in Thread, i \in Nat, c \in Block : Frees(u, i, c)' => Frees(u, i, c)
    BY <1>0, <1>f, <2>1, FreesFrom
  <2>5. \A c \in Block : \A u \in Thread, i \in Nat : Clears(u, i, c) => Clears(u, i, c)'
    BY <1>0, <1>f, <2>1, ClearsStay
  <2> HIDE DEF b, n
  <2>6. /\ locked'[b] = 0
        /\ \A c \in Block : c # b => used'[c] = used[c] /\ locked'[c] = locked[c]
    BY <1>0, <2>1, <2>2 DEF RestOK
  <2>7. \A c \in Block : Alive(c) => Alive(c)'
    BY <2>1, <2>3, <2>6 DEF Alive
  <2>8. \A g \in refs[CCode] : locked'[g] > 0 /\ g \notin delete' =>
           locked[g] > 0 /\ g \notin delete
    BY <1>c, <2>1, <2>6
  <2> QED BY <1>0, <2>1, <2>4, <2>5, <2>7, <2>8, TidySame
<1>6. CASE LinkDeleted(t)
  <2> DEFINE b == Top(t).block
             n == Len(frames[t])
  <2>1. /\ At(t, "link") /\ Top(t).by = "all" /\ frames' = Popped(t) /\ frames[t] # <<>>
        /\ list' = [list EXCEPT ![b] = "current"]
        /\ UNCHANGED <<refs, counter, blocks, objects, unswept, s_uUsedFlag>>
    BY <1>6 DEF LinkDeleted, At
  <2>2. /\ b \in Block /\ n \in Nat /\ Keeps(t, n, b) /\ frames[t][n].stage = "link"
    BY <1>0, <1>f, <2>1, AtTop, TopFrame DEF Keeps
  <2>3. \A u \in Thread, i \in Nat, c \in Block : Frees(u, i, c)' => Frees(u, i, c)
    BY <1>0, <2>1, FreesFrom
  <2>4. \A c \in Block : \A u \in Thread, i \in Nat : Clears(u, i, c) => Clears(u, i, c)'
    BY <1>0, <2>1, ClearsStay
  <2> HIDE DEF b, n
  <2>5. used[b] = s_uUsedFlag BY <1>0, <2>2 DEF Flags
  <2>6. /\ list'[b] = "current"
        /\ \A c \in Block : c # b => list'[c] = list[c]
    BY <1>0, <2>1, <2>2 DEF RestOK
  <2>7. \A c \in Block : Alive(c) => Alive(c)'
    BY <2>1, <2>5, <2>6 DEF Alive
  <2> QED BY <1>0, <2>1, <2>3, <2>4, <2>6, <2>7, TidySame
<1>7. CASE Collected(t)
  <2>1. /\ At(t, "final") /\ frames' = Popped(t) /\ frames[t] # <<>>
        /\ \A c \in Block : list[c] # "deleted"
        /\ UNCHANGED <<refs, counter, list, blocks, objects, unswept, s_uUsedFlag>>
    BY <1>7 DEF Collected, At
  <2>2. \A u \in Thread, i \in Nat, c \in Block : Frees(u, i, c)' => Frees(u, i, c)
    BY <1>0, <2>1, FreesFrom
  <2>3. \A c \in Block : Alive(c) => Alive(c)' BY <2>1 DEF Alive
  <2> QED BY <1>0, <2>1, <2>2, <2>3, TidySame
<1> QED BY <1>1, <1>2, <1>3, <1>4, <1>5, <1>6, <1>7 DEF Collector

\* A collection leaves the program what it can get at.
LEMMA CollectTidy ==
  ASSUME Core, Tidy, NEW t \in Thread, Collect(t)
  PROVE  Tidy'
<1> USE DEF blocks, class, collection
<1>0. TypeOK /\ ItemsOK /\ FramesOK /\ RestOK /\ Work /\ Private /\ Flags
  BY Parts DEF Core, Safe, Tidy
<1> DEFINE f == Frame(NoBlock, "final", "all")
<1>1. /\ ~s_bCollecting /\ s_uUsedFlag' = ~s_uUsedFlag
      /\ used' = [b \in Block |-> IF b \in Marked THEN ~used[b] ELSE used[b]]
      /\ list' = [b \in Block |-> IF b \in Swept THEN "deleted" ELSE list[b]]
      /\ delete' = delete \cup Swept /\ unswept' = Swept
      /\ frames' = Pushed(t, f)
      /\ UNCHANGED <<refs, counter, locked, objects>>
  BY DEF Collect
<1>2. f \in AnyFrame /\ f.by # "ref"
  BY DEF Frame, AnyFrame, CollectFrame
<1> HIDE DEF f
<1>3. \A u \in Thread, i \in Nat, c \in Block : Frees(u, i, c)' => Frees(u, i, c)
  BY <1>0, <1>1, <1>2, FreesFrom
<1>4. \A b \in Block : list[b] \in {"free", "current", "locked"}
  BY <1>0, <1>1, NoneDeleted
<1>5. \A c \in Block : Holders(c)' = Holders(c)
  BY <1>1 DEF Holders
<1>6. Private'
  <2>1. refs[CCode] \subseteq Block BY <1>0, CodeHolds DEF ItemsOK
  <2> QED BY <1>0, <1>1, <1>3, <1>5, <2>1, PrivateKept
<1>7. Emptied' BY <1>1, <1>4, EmptiedKept DEF Tidy
<1>8. Counts' BY <1>1, <1>5 DEF Tidy, Counts
<1>9. Roots \cap Swept = {} /\ \A c \in Marked : refs[c] \cap Swept = {}
  BY <1>0, Marking1 DEF Swept
<1>10. \A b \in Block : list[b] = "current" /\ used[b] = s_uUsedFlag /\ b \notin delete
                           => b \in Swept \/ b \in Marked
  BY DEF Swept, Unmet
<1>11. /\ refs[Statics] \subseteq Roots
       /\ \A u \in Thread : refs[<<u, 0>>] \subseteq Roots
       /\ \A c \in Block : list[c] = "locked" => refs[c] \subseteq Roots
  BY <1>0, Marking1, BoundAssumption
<1> HIDE DEF Roots, Swept, Marked
<1>12. PICK S \in SUBSET Block : Own(S) BY DEF Tidy, Apart
<1>r. PICK R \in SUBSET Block : R = S \ Swept BY <1>12
<1>13. /\ refs'[Statics] \subseteq R
       /\ \A u \in Thread : refs'[<<u, 0>>] \subseteq R
  BY <1>1, <1>r, <1>9, <1>11, <1>12 DEF Own
<1>14. Attachable' \subseteq R
  BY <1>1, <1>r, <1>12 DEF Own, Attachable
<1>15. ASSUME NEW b \in R
       PROVE  Alive(b)' /\ refs'[b] \subseteq R
  <2>1. b \in Block /\ Alive(b) /\ b \notin Swept /\ refs[b] \subseteq S
    BY <1>r, <1>12, <1>15 DEF Own
  <2>2. list'[b] = list[b] /\ used'[b] = IF b \in Marked THEN ~used[b] ELSE used[b]
    BY <1>1, <2>1
  <2>3. list[b] = "current" => b \in Marked
    BY <1>10, <2>1 DEF Alive
  <2>4. list[b] = "current" => used'[b] = s_uUsedFlag'
    BY <1>1, <2>1, <2>2, <2>3 DEF Alive
  <2>5. Alive(b)'
    BY <1>1, <2>1, <2>2, <2>4 DEF Alive
  <2>6. refs[b] \cap Swept = {}
    BY <1>9, <1>11, <2>1, <2>3 DEF Alive
  <2> QED BY <1>1, <1>r, <2>1, <2>5, <2>6
<1>16. Own(R)' BY <1>13, <1>14, <1>15 DEF Own
<1> QED BY <1>6, <1>7, <1>8, <1>16 DEF Tidy, Apart

\* A thread that leaves the VM or comes in, or no step at all.
LEMMA IdleTidy ==
  ASSUME Core, Tidy, UNCHANGED vars \/ \E t \in Thread : Leave(t) \/ Enter(t)
  PROVE  Tidy'
<1> USE DEF blocks, class, collection
<1>1. UNCHANGED <<refs, counter, list, blocks, objects, frames, unswept, s_uUsedFlag>>
  BY DEF vars, Leave, Enter
<1>2. \A u \in Thread, i \in Nat, c \in Block :
         (Frees(u, i, c)' <=> Frees(u, i, c)) /\ (Clears(u, i, c)' <=> Clears(u, i, c))
  BY <1>1 DEF Frees, Clears, Works, Here
<1>3. \A c \in Block : Alive(c) => Alive(c)' BY <1>1 DEF Alive
<1> QED BY <1>1, <1>2, <1>3, TidySame DEF Core, Safe

LEMMA ExactInit == Init => Exact
<1> SUFFICES ASSUME Init PROVE Core /\ Tidy
  BY DEF Exact
<1>1. Core BY CoreInit
<1>2. \A t \in Thread, i \in Nat : ~Here(t, i)
  BY DEF Init, Here
<1>3. \A h \in Holder : refs[h] = {}
  BY DEF Init
<1>4. /\ CCode \in Holder /\ Statics \in Holder /\ \A t \in Thread : <<t, 0>> \in Holder
  BY CodeHolds, BoundAssumption DEF Holder, Stack
<1>5. Private BY <1>2, <1>3, <1>4 DEF Private, Frees, Works
<1>6. Emptied BY DEF Init, Emptied
<1>7. Own({}) BY <1>3, <1>4 DEF Own, Attachable
<1>8. Counts
  <2>1. \A b \in Block : Cardinality(Holders(b)) \in Nat /\ counter[b] = 0
    BY HoldersFinite, FS_CardinalityType DEF Init
  <2> QED BY <2>1 DEF Counts
<1> QED BY <1>1, <1>5, <1>6, <1>7, <1>8 DEF Tidy, Apart

LEMMA ExactKept ==
  ASSUME Exact, World!Promise, [Next]_vars
  PROVE  Exact'
<1>1. Core /\ Core' BY CoreKept DEF Exact
<1>2. program' = program
  <2> USE DEF Items, Cleanup, Collector, Leave, Enter, Copy, Clear, New, DropGrip, Attach, Grip,
              LockBlock, UnlockBlock, CallCleanup, Return, FreeBlock, KeepBlock, ReleaseItem,
              Suspend, Granted, Collect, CollectNothing, ClearDeleted, FreeDeleted, Cleared,
              KeepDeleted, LinkDeleted, Collected
  <2> QED BY DEF Next, vars
<1>3. ASSUME ~program.storing PROVE Tidy'
  <2>1. Tidy /\ Safe' /\ CountCovers BY <1>1, <1>3 DEF Exact, Core, Safe
  <2> QED
    BY <1>1, <1>3, <2>1, ItemsTidy, CleanupTidy, CollectorTidy, CollectTidy, IdleTidy DEF Next
<1> QED BY <1>1, <1>2, <1>3 DEF Exact

LEMMA AlwaysExact == Spec => []Exact
<1>1. Exact /\ World!Promise /\ [Next]_vars => Exact'
  BY ExactKept
<1> QED BY <1>1, ExactInit, SweepsAlone, PTL DEF Spec

\* The counter of a block is the number of references to it: what nothing refers
\* to any more is freed when the last reference is cleared.
THEOREM CountedExactly == Spec => []NoLeak
<1>1. Exact => NoLeak BY DEF Exact, Tidy, Counts, NoLeak
<1> QED BY <1>1, AlwaysExact, PTL

-----------------------------------------------------------------------------
(* What a collection takes.                                                *)

\* A block whose flag is behind is being freed and nothing refers to it, so
\* that marking loses nothing when it does not go on from there.
LEMMA SweptUnreachable ==
  ASSUME Core, Tidy, NEW t \in Thread, Collect(t)
  PROVE  Swept = Unreachable
<1>0. TypeOK /\ ItemsOK /\ FramesOK /\ Work /\ Private /\ Flags /\ Levels
  BY Parts DEF Core, Safe, Tidy
<1>1. \A b \in Block : list[b] \in {"free", "current", "locked"}
  BY <1>0, NoneDeleted DEF Collect
<1>2. /\ Roots \in SUBSET Block /\ Unmet \in SUBSET Block /\ Block \in SUBSET Block
      /\ \A c \in Block : list[c] = "locked" => refs[c] \subseteq Roots
  BY <1>0, Marking1
<1>3. \A c \in Roots : Holders(c) # {}
  BY SelfHolds DEF Roots, StackRoots, LockedRoots, Holder, Holders
<1>4. \A c \in Block : \A d \in refs[c] : Holders(d) # {}
  BY SelfHolds DEF Holders
<1>5. ASSUME NEW c \in Block, c \notin Unmet, Holders(c) # {}
      PROVE  refs[c] \subseteq Roots
  <2>1. CASE list[c] = "free" BY <1>0, <2>1 DEF Levels
  <2>2. CASE list[c] = "locked" BY <1>2, <2>2
  <2>3. CASE list[c] = "current"
    <3>1. used[c] # s_uUsedFlag BY <1>5, <2>3 DEF Unmet
    <3>2. PICK u \in Thread, i \in Nat :
             Frees(u, i, c) /\ frames[u][i].stage \in {"items", "keep"}
      BY <1>0, <2>3, <3>1 DEF Flags
    <3>3. Holders(c) \subseteq {<<u, i>>} BY <1>0, <3>2 DEF Private
    <3>4. i \in 1..Len(frames[u]) /\ Len(frames[u]) \in Nat /\ Len(frames[u]) <= MaxFrames
      BY <1>0, <3>2 DEF Frees, Works, Here, FramesOK
    <3>5. i <= MaxFrames /\ i # 0 BY <3>4, BoundAssumption
    <3>6. refs[<<u, i>>] = {} BY <1>0, <3>2, <3>5 DEF Levels
    <3>7. Holders(c) = {} BY <3>3, <3>6 DEF Holders
    <3> QED BY <1>5, <3>7
  <2> QED BY <1>1, <2>1, <2>2, <2>3
<1> DEFINE M == Reached(Roots, Unmet)
           A == Reached(Roots, Block)
<1>6. /\ Roots \subseteq M /\ M \subseteq Block /\ A \subseteq Block
      /\ \A c \in M \cap Unmet : refs[c] \subseteq M
      /\ Roots \subseteq A /\ \A c \in A \cap Block : refs[c] \subseteq A
  <2> HIDE DEF Roots, Unmet
  <2>1. M \subseteq Block /\ A \subseteq Block BY DEF Reached
  <2> HIDE DEF M, A
  <2>2. Roots \subseteq M /\ \A c \in M \cap Unmet : refs[c] \subseteq M
    BY <1>0, <1>2, ReachedFacts DEF M, ItemsOK
  <2>3. Roots \subseteq A /\ \A c \in A \cap Block : refs[c] \subseteq A
    BY <1>0, <1>2, ReachedFacts DEF A, ItemsOK
  <2> QED BY <2>1, <2>2, <2>3
<1> HIDE DEF Roots
<1>7. M \subseteq A
  <2>1. ClosedUnder(A, Unmet) BY <1>2, <1>6 DEF ClosedUnder
  <2> HIDE DEF A
  <2>2. A \in SUBSET Block /\ Roots \subseteq A BY <1>6
  <2> QED BY <1>0, <1>2, <2>1, <2>2, ReachedFacts DEF ItemsOK
<1>8. A \subseteq M
  <2> DEFINE H == {c \in M : Holders(c) # {}}
  <2> HIDE DEF M, A
  <2>1. Roots \subseteq H BY <1>3, <1>6
  <2>2. ASSUME NEW c \in H PROVE refs[c] \subseteq H
    <3>1. c \in M /\ c \in Block BY <1>6
    <3>2. refs[c] \subseteq M
      <4>1. CASE c \in Unmet BY <1>6, <3>1, <4>1
      <4>2. CASE c \notin Unmet BY <1>5, <1>6, <3>1, <4>2
      <4> QED BY <4>1, <4>2
    <3> QED BY <1>4, <3>1, <3>2
  <2>3. H \in SUBSET Block /\ H \subseteq M BY <1>6
  <2> HIDE DEF H
  <2>4. ClosedUnder(H, Block) BY <2>2 DEF ClosedUnder
  <2>5. A \subseteq H BY <1>0, <1>2, <2>1, <2>3, <2>4, ReachedFacts DEF A, ItemsOK
  <2> QED BY <2>3, <2>5
<1>9. M = A BY <1>7, <1>8
<1>10. \A b \in Block : list[b] = "current" /\ b \notin delete => b \in Unmet
  <2> SUFFICES ASSUME NEW b \in Block, list[b] = "current", used[b] # s_uUsedFlag
               PROVE  b \in delete
    BY DEF Unmet
  <2>1. PICK u \in Thread, i \in Nat : Frees(u, i, b)
    BY <1>0 DEF Flags
  <2> QED BY <1>0, <2>1 DEF Frees, Work, OneWorker
<1>11. Swept = {b \in Unmet \ (M \cap Unmet) : list[b] = "current" /\ b \notin delete}
  BY DEF Swept, Marked
<1>12. Unreachable = {b \in Block : list[b] = "current"} \ (A \cup delete)
  BY DEF Unreachable
<1> HIDE DEF M, A, Swept, Unreachable
<1> QED BY <1>2, <1>9, <1>10, <1>11, <1>12

\* Other steps delete nothing.
LEMMA OthersSweepNone ==
  ASSUME TypeOK, [Next]_vars, ~\E u \in Thread : Collect(u)
  PROVE  /\ s_uUsedFlag' = s_uUsedFlag
         /\ \A b \in Block : list'[b] = "deleted" => list[b] = "deleted"
<1> USE DEF blocks, class, collection
<1>0. list \in [Block -> Lists]
  BY Parts DEF RestOK
<1>1. ASSUME NEW u \in Thread, Items(u)
      PROVE  /\ s_uUsedFlag' = s_uUsedFlag
             /\ \A b \in Block : list'[b] = "deleted" => list[b] = "deleted"
  BY <1>0, <1>1 DEF Items, Copy, Clear, New, DropGrip, Attach, Grip, LockBlock, UnlockBlock,
                    Allocate, Unlock
<1>2. ASSUME NEW u \in Thread, Cleanup(u)
      PROVE  /\ s_uUsedFlag' = s_uUsedFlag
             /\ \A b \in Block : list'[b] = "deleted" => list[b] = "deleted"
  BY <1>0, <1>2 DEF Cleanup, CallCleanup, Return, FreeBlock, KeepBlock, ReleaseItem, Free
<1>3. ASSUME NEW u \in Thread, Collector(u)
      PROVE  /\ s_uUsedFlag' = s_uUsedFlag
             /\ \A b \in Block : list'[b] = "deleted" => list[b] = "deleted"
  BY <1>0, <1>3 DEF Collector, Suspend, Granted, CollectNothing, ClearDeleted, FreeDeleted, Free,
                    Cleared, KeepDeleted, LinkDeleted, Collected
<1>4. ASSUME NEW u \in Thread, Leave(u) \/ Enter(u)
      PROVE  UNCHANGED <<s_uUsedFlag, list>>
  BY <1>4 DEF Leave, Enter
<1> QED BY <1>1, <1>2, <1>3, <1>4 DEF Next, vars

\* A collection takes exactly what the program cannot reach, but for blocks that
\* hb_gcRefFree() is freeing already.
THEOREM SweepsExactly == Spec => SweepExact
<1> DEFINE Taken == {b \in Block : list[b] # "deleted" /\ list'[b] = "deleted"}
<1>1. ASSUME Exact, [Next]_vars, ~program.storing
      PROVE  Taken = IF s_uUsedFlag' = s_uUsedFlag THEN {} ELSE Unreachable
  <2>0. Core /\ Tidy /\ TypeOK /\ Work /\ Flags /\ s_uUsedFlag \in BOOLEAN
    BY <1>1, Parts DEF Exact, Core, Safe, RestOK
  <2>1. ASSUME NEW t \in Thread, Collect(t)
        PROVE  Taken = Swept /\ s_uUsedFlag' # s_uUsedFlag
    <3>1. \A b \in Block : list[b] # "deleted"
      BY <2>0, <2>1, NoneDeleted DEF Collect
    <3>2. /\ s_uUsedFlag' = ~s_uUsedFlag
          /\ list' = [b \in Block |-> IF b \in Swept THEN "deleted" ELSE list[b]]
      BY <2>1 DEF Collect
    <3>3. Swept \subseteq Block BY DEF Swept, Unmet
    <3> HIDE DEF Swept
    <3> QED BY <2>0, <3>1, <3>2, <3>3
  <2>2. CASE \E t \in Thread : Collect(t)
    BY <2>0, <2>1, <2>2, SweptUnreachable
  <2>3. CASE ~\E t \in Thread : Collect(t)
    BY <1>1, <2>0, <2>3, OthersSweepNone
  <2> QED BY <2>2, <2>3
<1>2. Exact /\ [Next]_vars =>
        [~program.storing =>
           {b \in Block : list[b] # "deleted" /\ list'[b] = "deleted"}
              = IF s_uUsedFlag' = s_uUsedFlag THEN {} ELSE Unreachable]_vars
  BY <1>1
<1> QED BY <1>2, AlwaysExact, PTL DEF Spec, SweepExact
=============================================================================
