------------------------------ MODULE Garbage ------------------------------
(***************************************************************************)
(* The garbage collector of the HVM (src/vm/garbage.c) with the cleanup    *)
(* functions of arrays and objects (src/vm/arrays.c).                      *)
(*                                                                         *)
(* A block is freed in two ways: by hb_gcRefFree(), when the last item     *)
(* that refers to it is cleared, and by hb_gcCollectAll(), when no root    *)
(* reaches it any more.  Both first clear the contents of the block, which *)
(* may call a destructor written in PRG code, and that may do anything:    *)
(* allocate, drop the last reference to other blocks, start a collection,  *)
(* leave the VM, or store a reference to the block being destroyed.        *)
(*                                                                         *)
(* Marking and sweeping happen while the world is stopped, by the rules of *)
(* StopTheWorld; destructors run after it has been resumed, together with  *)
(* the other threads.                                                      *)
(*                                                                         *)
(* Granularity: every change of a reference counter, of a list or of the   *)
(* flags of a block is one action.  PRG code copies and clears items       *)
(* atomically: it has to protect the variables that its threads share.     *)
(***************************************************************************)
EXTENDS Integers, FiniteSets, Sequences

CONSTANTS
    Thread,     \* the threads
    NoThread,   \* nobody
    Block,      \* the memory blocks (arrays, objects, items held by C code)
    NoBlock,    \* no block
    Statics,    \* the STATIC and PUBLIC variables
    CCode,      \* pointers that C code keeps outside of the HVM's items
    Programs,   \* the programs to explore, see ProgramAssumption
    MaxFrames,  \* bound on the nesting of cleanup functions of a thread
    MaxLocked   \* bound on the lock counter of a block

\* Which threads run, which blocks may be objects with a destructor, whether
\* destructors store references in what outlives them, and whether C code
\* locks or allocates locked blocks.
ASSUME ProgramAssumption ==
    Programs \subseteq [threads : SUBSET Thread, classy : SUBSET Block,
                        storing : BOOLEAN, locking : BOOLEAN]
ASSUME NameAssumption ==
    /\ IsFiniteSet(Thread) /\ IsFiniteSet(Block)
    /\ (Thread \X Nat) \cap (Block \cup {Statics, CCode}) = {}
    /\ Statics \notin Block
    /\ CCode \notin Block \cup {Statics}
    /\ NoThread \notin Thread
    /\ NoBlock \notin Block
ASSUME BoundAssumption == MaxFrames \in Nat \ {0} /\ MaxLocked \in Nat \ {0}

\* Whatever may hold a reference: the contents of a block, the variables of the
\* program, C code, and the evaluation stack of a thread, one part for the items
\* of the program and one for those of each destructor that has been called.
Stack == Thread \X (0..MaxFrames)
Holder == Stack \cup Block \cup {Statics, CCode}

VARIABLES
    program,       \* the program that runs
    refs,          \* the blocks that each holder refers to
    counter,       \* reference counter of each block
    list,          \* the list that each block is in
    locked,        \* lock counter of each block
    used,          \* HB_GC_USED_FLAG of each block
    delete,        \* the blocks that have HB_GC_DELETE set
    objects,       \* blocks with a class that has a destructor
    destroyed,     \* how often the destructor of each block has been called
    frames,        \* cleanup functions and collections that run, per thread
    unswept,       \* deleted blocks that the collector has not cleared yet
    s_uUsedFlag,
    s_bCollecting,
    inside,        \* threads inside the VM
    stopper        \* thread that asked the others to stop, or NoThread

blocks == <<locked, used, delete>>
class == <<objects, destroyed>>
collection == <<unswept, s_uUsedFlag, s_bCollecting>>
world == <<inside, stopper>>
vars == <<program, refs, counter, list, blocks, class, frames, collection,
          world>>

World == INSTANCE StopTheWorld WITH quit <- FALSE

-----------------------------------------------------------------------------
(* Lists: "free" memory, "current" (s_pCurrBlock), "locked"                *)
(* (s_pLockedBlock), "deleted" (s_pDeletedBlock), and "loose" between      *)
(* hb_gcUnlink and hb_gcLink.                                              *)
(*                                                                         *)
(* A frame is a call of hb_gcRefFree ("ref"), of a cleanup function by the *)
(* collector ("gc"), or of the end of hb_gcCollectAll ("all").  Its stages *)
(*   clear    about to call the cleanup function                           *)
(*   dtor     the destructor runs, Self is on the stack                    *)
(*   items    releasing the contents                                       *)
(*   keep     reference counter found to be above 0                        *)
(*   final    collector between two blocks                                 *)
(*   link     collector about to link a block that it keeps                *)
Frame(b, s, k) == [block |-> b, stage |-> s, by |-> k]

Top(t) == frames[t][Len(frames[t])]
At(t, s) == frames[t] # <<>> /\ Top(t).stage = s
Pushed(t, f) == [frames EXCEPT ![t] = Append(@, f)]
Popped(t) == [frames EXCEPT ![t] = SubSeq(@, 1, Len(@) - 1)]
Staged(t, s) == [frames EXCEPT ![t][Len(frames[t])].stage = s]

\* Thread t may run at all, and PRG code of it may: it is not in C code.
Runs(t) == t \in inside /\ ~World!Granted
InPRG(t) == Runs(t) /\ (frames[t] = <<>> \/ At(t, "dtor"))

\* The items of the PRG function that runs.
Level(t) == <<t, Len(frames[t])>>

\* What PRG code of t can read from and write to.
Readable(t) == {Statics, Level(t)} \cup refs[Level(t)]
Writable(t) ==
    IF frames[t] = <<>> \/ program.storing THEN Readable(t) ELSE {Level(t)}

Holders(b) == {h \in Holder : b \in refs[h]}

Init ==
    /\ program \in Programs
    /\ refs = [h \in Holder |-> {}]
    /\ counter = [b \in Block |-> 0]
    /\ list = [b \in Block |-> "free"]
    /\ locked = [b \in Block |-> 0]
    /\ used = [b \in Block |-> FALSE]
    /\ delete = {}
    /\ objects = {}
    /\ destroyed = [b \in Block |-> 0]
    /\ frames = [t \in Thread |-> <<>>]
    /\ unswept = {}
    /\ s_uUsedFlag = TRUE
    /\ s_bCollecting = FALSE
    /\ inside = program.threads
    /\ stopper = NoThread

-----------------------------------------------------------------------------
(* Items: copying one, and hb_itemClear() with hb_gcRefFree().             *)

\* hb_gcRefInc() of the copy.
CopyUncounted(t, from, to, b) ==         \* faulty: no hb_gcRefInc
    /\ InPRG(t)
    /\ from \in Readable(t) /\ to \in Writable(t)
    /\ b \in refs[from] \ refs[to]
    /\ refs' = [refs EXCEPT ![to] = @ \cup {b}]
    /\ UNCHANGED <<program, counter, list, blocks, class, frames, collection,
                   world>>

Copy(t, from, to, b) ==
    /\ InPRG(t)
    /\ from \in Readable(t) /\ to \in Writable(t)
    /\ b \in refs[from] \ refs[to]
    /\ refs' = [refs EXCEPT ![to] = @ \cup {b}]
    /\ counter' = [counter EXCEPT ![b] = @ + 1]
    /\ UNCHANGED <<program, list, blocks, class, frames, collection, world>>

\* hb_gcRefFree() up to the call of the cleanup function: a block that is on
\* its way out already is left to whoever frees it.
RefFreeAlways(t, h, b) ==                \* faulty: HB_GC_DELETE not looked at
    /\ refs' = [refs EXCEPT ![h] = @ \ {b}]
    /\ counter' = [counter EXCEPT ![b] = @ - 1]
    /\ IF counter[b] = 1
         THEN /\ Len(frames[t]) < MaxFrames
              /\ delete' = delete \cup {b}
              /\ frames' = Pushed(t, Frame(b, "clear", "ref"))
         ELSE UNCHANGED <<delete, frames>>

RefFree(t, h, b) ==
    /\ refs' = [refs EXCEPT ![h] = @ \ {b}]
    /\ counter' = [counter EXCEPT ![b] = @ - 1]
    /\ IF counter[b] = 1 /\ b \notin delete
         THEN /\ Len(frames[t]) < MaxFrames
              /\ delete' = delete \cup {b}
              /\ frames' = Pushed(t, Frame(b, "clear", "ref"))
         ELSE UNCHANGED <<delete, frames>>

\* PRG code clears a variable, an element of an array or a stack item, but not
\* the Self of a destructor.
Clear(t, h, b) ==
    /\ InPRG(t)
    /\ h \in Readable(t) /\ b \in refs[h]
    /\ ~(h = Level(t) /\ At(t, "dtor") /\ Top(t).block = b)
    /\ RefFree(t, h, b)
    /\ UNCHANGED <<program, list, locked, used, class, collection, world>>

-----------------------------------------------------------------------------
(* New blocks, and those that C code holds.                                *)

\* A block enters list l, held by h, with the given contents.
Allocate(b, l, n, h, contents) ==
    /\ list[b] = "free"
    /\ list' = [list EXCEPT ![b] = l]
    /\ locked' = [locked EXCEPT ![b] = n]
    /\ used' = [used EXCEPT ![b] = s_uUsedFlag]
    /\ delete' = delete \ {b}
    /\ refs' = [refs EXCEPT ![b] = contents, ![h] = @ \cup {b}]
    /\ counter' = [c \in Block |->
           IF c = b THEN 1 ELSE counter[c] + (IF c \in contents THEN 1 ELSE 0)]
    /\ destroyed' = [destroyed EXCEPT ![b] = 0]

\* hb_gcAllocRaw() for an array or an object on the stack.
New(t, b) ==
    /\ InPRG(t)
    /\ Allocate(b, "current", 0, Level(t), {})
    /\ objects' \in {objects \ {b}, objects \cup ({b} \cap program.classy)}
    /\ UNCHANGED <<program, frames, collection, world>>

\* hb_gcGripGet() of an item, or hb_gcAllocate() of C data, which outlives the
\* destructor that calls it.
Grip(t, g, contents) ==
    /\ program.locking
    /\ InPRG(t)
    /\ frames[t] = <<>> \/ program.storing \/ contents = {}
    /\ contents \subseteq refs[Level(t)] /\ Cardinality(contents) <= 1
    /\ g \notin contents
    /\ Allocate(g, "locked", 1, CCode, contents)
    /\ objects' = objects \ {g}
    /\ UNCHANGED <<program, frames, collection, world>>

\* hb_gcGripDrop().
DropGrip(t, g) ==
    /\ InPRG(t)
    /\ g \in refs[CCode]
    /\ RefFree(t, CCode, g)
    /\ UNCHANGED <<program, list, locked, used, class, collection, world>>

\* hb_gcUnlock(): the last one hands the block to the collector, flags renewed.
\* C code neither locks nor unlocks a block that is being destroyed.
UnlockAsIs(b) ==                         \* faulty: used flag not renewed
    /\ locked[b] > 0 /\ b \notin delete
    /\ locked' = [locked EXCEPT ![b] = @ - 1]
    /\ list' = [list EXCEPT ![b] = IF locked[b] = 1 THEN "current" ELSE @]
    /\ UNCHANGED <<used, delete>>

Unlock(b) ==
    /\ locked[b] > 0 /\ b \notin delete
    /\ locked' = [locked EXCEPT ![b] = @ - 1]
    /\ IF locked[b] = 1
         THEN /\ list' = [list EXCEPT ![b] = "current"]
              /\ used' = [used EXCEPT ![b] = s_uUsedFlag]
         ELSE UNCHANGED <<list, used>>
    /\ UNCHANGED delete

\* hb_gcAttach(): an item takes over the pointer that C code had.
Attach(t, g) ==
    /\ InPRG(t)
    /\ g \in refs[CCode] \ refs[Level(t)]
    /\ refs' = [refs EXCEPT ![CCode] = @ \ {g}, ![Level(t)] = @ \cup {g}]
    /\ Unlock(g)
    /\ UNCHANGED <<program, counter, class, frames, collection, world>>

\* hb_gcLock() and hb_gcUnlock() of a block that a stack item refers to.
LockBlock(t, b) ==
    /\ program.locking
    /\ InPRG(t)
    /\ b \in refs[Level(t)] \ delete
    /\ list[b] \in {"current", "locked"}
    /\ locked[b] < MaxLocked
    /\ locked' = [locked EXCEPT ![b] = @ + 1]
    /\ list' = [list EXCEPT ![b] = "locked"]
    /\ UNCHANGED <<program, refs, counter, used, delete, class, frames,
                   collection, world>>

UnlockBlock(t, b) ==
    /\ InPRG(t)
    /\ b \in refs[Level(t)] \ refs[CCode]
    /\ Unlock(b)
    /\ UNCHANGED <<program, refs, counter, class, frames, collection, world>>

-----------------------------------------------------------------------------
(* Cleanup functions: hb_arrayGarbageRelease and its callers.              *)

\* The destructor, if the block has one, is called with Self on the stack.
CallCleanup(t) ==
    /\ Runs(t) /\ At(t, "clear")
    /\ LET b == Top(t).block
       IN  IF b \in objects
             THEN /\ refs' = [refs EXCEPT ![Level(t)] = {b}]
                  /\ counter' = [counter EXCEPT ![b] = @ + 1]
                  /\ destroyed' = [destroyed EXCEPT ![b] = @ + 1]
                  /\ frames' = Staged(t, "dtor")
             ELSE /\ frames' = Staged(t, "items")
                  /\ UNCHANGED <<refs, counter, destroyed>>
    /\ UNCHANGED <<program, list, blocks, objects, collection, world>>

\* The destructor has returned, with its own items cleared; Self is popped and
\* the block loses its class.
KeepClass(b) == UNCHANGED objects        \* faulty: uiClass not reset
LoseClass(b) == objects' = objects \ {b}

Return(t) ==
    /\ InPRG(t) /\ At(t, "dtor")
    /\ refs[Level(t)] = {Top(t).block}
    /\ LET b == Top(t).block
       IN  /\ refs' = [refs EXCEPT ![Level(t)] = {}]
           /\ counter' = [counter EXCEPT ![b] = @ - 1]
           /\ LoseClass(b)
    /\ frames' = Staged(t, "items")
    /\ UNCHANGED <<program, list, blocks, destroyed, collection, world>>

\* hb_arrayReleaseItems() clears the items one by one.
ForgetItem(t, c) ==                      \* faulty: no hb_itemClear
    /\ Runs(t) /\ At(t, "items")
    /\ c \in refs[Top(t).block]
    /\ refs' = [refs EXCEPT ![Top(t).block] = @ \ {c}]
    /\ UNCHANGED <<program, counter, list, blocks, class, frames, collection,
                   world>>

ReleaseItem(t, c) ==
    /\ Runs(t) /\ At(t, "items")
    /\ c \in refs[Top(t).block]
    /\ RefFree(t, Top(t).block, c)
    /\ UNCHANGED <<program, list, locked, used, class, collection, world>>

\* Memory goes back to the allocator, whatever the contents of the block.
Free(b) ==
    /\ list' = [list EXCEPT ![b] = "free"]
    /\ refs' = [refs EXCEPT ![b] = {}]
    /\ delete' = delete \ {b}
    /\ locked' = [locked EXCEPT ![b] = 0]
    /\ objects' = objects \ {b}

\* The end of hb_gcRefFree(): free the block unless it is referred to again.
FreeAnyway(t) ==                         \* faulty: counter not looked at
    /\ Runs(t) /\ At(t, "items") /\ Top(t).by = "ref"
    /\ LET b == Top(t).block
       IN  refs[b] = {} /\ Free(b) /\ frames' = Popped(t)
    /\ UNCHANGED <<program, counter, used, destroyed, collection, world>>

FreeBlock(t) ==
    /\ Runs(t) /\ At(t, "items") /\ Top(t).by = "ref"
    /\ LET b == Top(t).block
       IN  /\ refs[b] = {}
           /\ \/ counter[b] = 0 /\ Free(b) /\ frames' = Popped(t)
              \/ /\ counter[b] # 0
                 /\ frames' = Staged(t, "keep")
                 /\ UNCHANGED <<list, refs, delete, locked, objects>>
    /\ UNCHANGED <<program, counter, used, destroyed, collection, world>>

\* Error 1301, "Reference to freed block": the block stays, emptied.
KeepBlock(t) ==
    /\ Runs(t) /\ At(t, "keep") /\ Top(t).by = "ref"
    /\ LET b == Top(t).block
       IN  IF b \in delete
             THEN /\ used' = [used EXCEPT ![b] = s_uUsedFlag]
                  /\ delete' = delete \ {b}
             ELSE UNCHANGED <<used, delete>>
    /\ frames' = Popped(t)
    /\ UNCHANGED <<program, refs, counter, list, locked, class, collection,
                   world>>

-----------------------------------------------------------------------------
(* hb_gcCollectAll().                                                      *)

\* hb_vmSuspendThreads(), unless a collection is seen to run.
Suspend(t) ==
    /\ InPRG(t)
    /\ ~s_bCollecting
    /\ Len(frames[t]) < MaxFrames
    /\ World!Ask(t)
    /\ UNCHANGED <<program, refs, counter, list, blocks, class, frames,
                   collection>>

Granted(t) ==
    /\ World!Grant(t)
    /\ UNCHANGED <<program, refs, counter, list, blocks, class, frames,
                   collection>>

\* hb_gcMark() and hb_gcItemRef() go on from a block only the first time they
\* meet it: the smallest set that holds the roots and what they lead to.
ClosedUnder(S, through) == \A c \in S \cap through : refs[c] \subseteq S
Reached(roots, through) ==
    {b \in Block : \A S \in SUBSET Block :
        roots \subseteq S /\ ClosedUnder(S, through) => b \in S}

\* The roots: stacks, variables, and the contents of locked blocks.
StackRoots == UNION {refs[h] : h \in Stack \cup {Statics}}
LockedRoots == UNION {refs[b] : b \in {c \in Block : list[c] = "locked"}}
Roots == StackRoots \cup LockedRoots

\* Blocks whose flag says that this collection has not met them.
Unmet == {b \in Block : list[b] # "free" /\ used[b] = s_uUsedFlag}
Marked == Reached(Roots, Unmet) \cap Unmet
Swept == {b \in Unmet \ Marked : list[b] = "current" /\ b \notin delete}

\* Mark, sweep, flip the meaning of the flag, and resume the other threads.
Collect(t) ==
    /\ stopper = t
    /\ Len(frames[t]) < MaxFrames
    /\ ~s_bCollecting /\ \E b \in Block : list[b] = "current"
    /\ used' = [b \in Block |-> IF b \in Marked THEN ~used[b] ELSE used[b]]
    /\ list' = [b \in Block |-> IF b \in Swept THEN "deleted" ELSE list[b]]
    /\ delete' = delete \cup Swept
    /\ unswept' = Swept
    /\ s_uUsedFlag' = ~s_uUsedFlag
    /\ s_bCollecting' = TRUE
    /\ frames' = Pushed(t, Frame(NoBlock, "final", "all"))
    /\ World!Resume(t)
    /\ UNCHANGED <<program, refs, counter, locked, class>>

\* Another thread was faster, or there is nothing to collect.
CollectNothing(t) ==
    /\ s_bCollecting \/ \A b \in Block : list[b] # "current"
    /\ World!Resume(t)
    /\ UNCHANGED <<program, refs, counter, list, blocks, class, frames,
                   collection>>

\* The cleanup function of each deleted block is called ...
ClearDeleted(t, b) ==
    /\ Runs(t) /\ At(t, "final")
    /\ b \in unswept
    /\ Len(frames[t]) < MaxFrames
    /\ unswept' = unswept \ {b}
    /\ frames' = Pushed(t, Frame(b, "clear", "gc"))
    /\ UNCHANGED <<program, refs, counter, list, blocks, class, s_uUsedFlag,
                   s_bCollecting, world>>

Cleared(t) ==
    /\ Runs(t) /\ At(t, "items") /\ Top(t).by = "gc"
    /\ refs[Top(t).block] = {}
    /\ frames' = Popped(t)
    /\ UNCHANGED <<program, refs, counter, list, blocks, class, collection,
                   world>>

\* ... then each is unlinked, and freed unless it is still referred to.
FreeDeleted(t, b) ==
    /\ Runs(t) /\ At(t, "final")
    /\ unswept = {} /\ list[b] = "deleted"
    /\ \/ /\ counter[b] = 0
          /\ Free(b)
          /\ UNCHANGED frames
       \/ /\ counter[b] # 0
          /\ Len(frames[t]) < MaxFrames
          /\ list' = [list EXCEPT ![b] = "loose"]
          /\ frames' = Pushed(t, Frame(b, "keep", "all"))
          /\ UNCHANGED <<refs, delete, locked, objects>>
    /\ UNCHANGED <<program, counter, used, destroyed, collection, world>>

\* Error 1302: the flags are reset first, the block is linked after that.
KeepDeleted(t) ==
    /\ Runs(t) /\ At(t, "keep") /\ Top(t).by = "all"
    /\ used' = [used EXCEPT ![Top(t).block] = s_uUsedFlag]
    /\ delete' = delete \ {Top(t).block}
    /\ locked' = [locked EXCEPT ![Top(t).block] = 0]
    /\ frames' = Staged(t, "link")
    /\ UNCHANGED <<program, refs, counter, list, class, collection, world>>

LinkDeleted(t) ==
    /\ Runs(t) /\ At(t, "link") /\ Top(t).by = "all"
    /\ list' = [list EXCEPT ![Top(t).block] = "current"]
    /\ frames' = Popped(t)
    /\ UNCHANGED <<program, refs, counter, blocks, class, collection, world>>

Collected(t) ==
    /\ Runs(t) /\ At(t, "final")
    /\ unswept = {} /\ \A b \in Block : list[b] # "deleted"
    /\ s_bCollecting' = FALSE
    /\ frames' = Popped(t)
    /\ UNCHANGED <<program, refs, counter, list, blocks, class, unswept,
                   s_uUsedFlag, world>>

-----------------------------------------------------------------------------
\* hb_vmUnlock() and hb_vmLock() of a thread in PRG code or below it.
Leave(t) ==
    /\ InPRG(t)
    /\ World!Leave(t)
    /\ UNCHANGED <<program, refs, counter, list, blocks, class, frames,
                   collection>>

Enter(t) ==
    /\ t \in program.threads \ inside
    /\ World!Enter(t)
    /\ UNCHANGED <<program, refs, counter, list, blocks, class, frames,
                   collection>>

Items(t) ==
    \/ \E b \in Block :
          \/ \E from, to \in Holder : Copy(t, from, to, b)
          \/ \E h \in Holder : Clear(t, h, b)
          \/ New(t, b) \/ DropGrip(t, b) \/ Attach(t, b)
          \/ \E contents \in SUBSET Block : Grip(t, b, contents)
          \/ LockBlock(t, b) \/ UnlockBlock(t, b)

Cleanup(t) ==
    \/ CallCleanup(t) \/ Return(t) \/ FreeBlock(t) \/ KeepBlock(t)
    \/ \E c \in Block : ReleaseItem(t, c)

Collector(t) ==
    \/ Suspend(t) \/ Granted(t) \/ Collect(t) \/ CollectNothing(t)
    \/ \E b \in Block : ClearDeleted(t, b) \/ FreeDeleted(t, b)
    \/ Cleared(t) \/ KeepDeleted(t) \/ LinkDeleted(t) \/ Collected(t)

Next == \E t \in Thread :
    Items(t) \/ Cleanup(t) \/ Collector(t) \/ Leave(t) \/ Enter(t)

Spec == Init /\ [][Next]_vars

-----------------------------------------------------------------------------
(* Properties.                                                             *)

CleanupFrame ==
    [block : Block, stage : {"clear", "dtor", "items", "keep", "link"},
     by : {"ref", "gc", "all"}]
CollectFrame == [block : {NoBlock}, stage : {"final"}, by : {"all"}]

\* The variables have the types of the C declarations that they stand for.
TypeOK ==
    /\ program \in Programs
    /\ refs \in [Holder -> SUBSET Block]
    /\ counter \in [Block -> Int]
    /\ list \in [Block -> {"free", "current", "locked", "deleted", "loose"}]
    /\ locked \in [Block -> 0..MaxLocked]
    /\ used \in [Block -> BOOLEAN]
    /\ delete \subseteq Block
    /\ objects \subseteq Block
    /\ destroyed \in [Block -> Nat]
    /\ frames \in [Thread -> Seq(CleanupFrame \cup CollectFrame)]
    /\ \A t \in Thread : Len(frames[t]) <= MaxFrames
    /\ unswept \subseteq Block
    /\ s_uUsedFlag \in BOOLEAN
    /\ s_bCollecting \in BOOLEAN
    /\ inside \subseteq Thread
    /\ stopper \in Thread \cup {NoThread}

\* hb_gcRefFree() and hb_gcCollectAll() free a block only when its reference
\* counter is 0: no item and no pointer of C code refers to freed memory,
\* whatever destructors do.
NoDanglingItem ==
    \A b \in Block : list[b] = "free" => Holders(b) = {}

\* The counter of a block never falls behind the references to it ...
CountCovers == \A b \in Block : Cardinality(Holders(b)) <= counter[b]

\* ... and is not above them either, unless a destructor has put items into a
\* block that the collector frees: what nothing refers to is freed.
NoLeak ==
    ~program.storing => \A b \in Block : counter[b] <= Cardinality(Holders(b))

\* No cleanup function that runs works on freed memory, and the collector does
\* not hold a freed block that it has yet to clear.  Where other threads run,
\* one may free a block between the reset of its flags and hb_gcLink().
NoDanglingCall ==
    \A b \in Block : list[b] = "free" =>
        /\ b \notin unswept
        /\ \A t \in Thread : \A i \in 1..Len(frames[t]) :
              frames[t][i].block = b =>
                  frames[t][i].stage = "link" /\ program.threads # {t}

\* What hb_gcLink() gets is a block that has been taken from its list.
LinksLoose ==
    \A t \in Thread : At(t, "link") => list[Top(t).block] = "loose"

\* A collection takes what no root leads to and nothing else: no block that
\* the program can reach, and every one that it cannot, but for those that
\* hb_gcRefFree() is already freeing, unless a destructor has put a block that is
\* being destroyed, whose flag is behind, within reach again.
Unreachable ==
    {b \in Block : list[b] = "current"} \ (Reached(Roots, Block) \cup delete)

SweepExact ==
    [][~program.storing =>
       {b \in Block : list[b] # "deleted" /\ list'[b] = "deleted"}
          = IF s_uUsedFlag' = s_uUsedFlag THEN {} ELSE Unreachable]_vars

\* "HVM only guaranties that destructors will be executed only once for each
\* object." (doc/destruct.txt)
DestructorOnce == \A b \in Block : destroyed[b] <= 1

\* "After executing destructor HVM checks if a programmer didn't store the
\* reference to the object being destroyed somewhere, and if he did then RT
\* error is generated." (doc/destruct.txt): not if he did not.
NoFalseAlarm ==
    ~program.storing => \A t \in Thread : ~At(t, "keep")
=============================================================================
