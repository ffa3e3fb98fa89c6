---------------------------- MODULE MCBlockStore ----------------------------
(* Instances of BlockStore for TLC. *)
EXTENDS BlockStore, TLC

CONSTANTS n1, n2, n3, f1, f2

\* A file of one block, or of two; or two files of one.
OneBlock == f1 :> 1
TwoBlocks == f1 :> 2
OneEach == f1 :> 1 @@ f2 :> 1

\* The nodes that start alike are interchangeable.
TwoAlike == Permutations({n1, n2})
AllAlike == Permutations({n1, n2, n3})
=============================================================================
