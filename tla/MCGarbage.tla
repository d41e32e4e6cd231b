----------------------------- MODULE MCGarbage -----------------------------
(* Instances of Garbage for TLC; constants are given in the .cfg files.    *)
EXTENDS Garbage, TLC

Symmetry == Permutations(Block)

\* One thread whose destructors store references, with and without locks; two
\* threads whose destructors do not.
Alone == CHOOSE t \in Thread : TRUE
Program(threads, classy, storing, locking) ==
    [threads |-> threads, classy |-> classy, storing |-> storing,
     locking |-> locking]
Quiet == {Program({Alone}, Block, TRUE, FALSE),
          Program({Alone}, {}, FALSE, TRUE),
          Program(Thread, Block, FALSE, FALSE)}
Calm == {Program({Alone}, Block, FALSE, FALSE)}
Storing == {Program(Thread, Block, TRUE, FALSE)}
=============================================================================
