-------------------------- MODULE MCOffloadTransfer --------------------------
(***************************************************************************)
(* Instances of OffloadTransfer for TLC.                                   *)
(***************************************************************************)
EXTENDS OffloadTransfer, TLC

CONSTANTS o1, o2

OneObject  == {o1}
TwoObjects == {o1, o2}

TwoChunks  == [o \in Objects |-> 2]
OneChunk   == [o \in Objects |-> 1]
EmptyFile  == [o \in Objects |-> 0]

Symmetry == Permutations(Objects)
=============================================================================
