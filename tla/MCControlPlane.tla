--------------------------- MODULE MCControlPlane ---------------------------
(***************************************************************************)
(* Instances of ControlPlane for TLC.  Sizes are in units of half a block  *)
(* (BlockSize = 2), so an odd size is an object whose last block is partly *)
(* filled, which is where the block macros and the accounting differ.      *)
(***************************************************************************)
EXTENDS ControlPlane, TLC

CONSTANTS a, b, c, r1, r2

OneItem    == {a}
TwoItems   == {a, b}
ThreeItems == {a, b, c}
OneRequest  == {r1}
TwoRequests == {r1, r2}
NoRequests  == {}

\* One block, one partly filled block, two blocks.
MixedSizes == a :> 2 @@ b :> 1 @@ c :> 4
\* Whole blocks only: the macro in OptimCache subtracts the free blocks.
WholeSizes == a :> 2 @@ b :> 2 @@ c :> 4
\* Two halves: together one block in nb_blk_required, two in the accounting.
HalfSizes  == a :> 1 @@ b :> 1 @@ c :> 4
EqualSizes == a :> 2 @@ b :> 2 @@ c :> 2
PairSizes  == [it \in Items |-> IF it = a THEN 2 ELSE 1]
\* Less than a block, and more units of size than there are blocks.
SmallSize  == [it \in Items |-> 3]

RequestSymmetry == Permutations(Requests)
=============================================================================
