---------------------------- MODULE MCStructures ----------------------------
(***************************************************************************)
(* The four data structures of the control plane, each driven by every     *)
(* sequence of operations its users can make, in one model: a behaviour is *)
(* one of a single structure, chosen at the start, while the others stay   *)
(* as they were created.                                                   *)
(***************************************************************************)
EXTENDS ChunkTable, CompleteBinTree, SampledSet, WaitTree

VARIABLE which             \* the structure used

allVars == <<which, tableVars, vars, cacheVars, sampleVars>>

MCInit == /\ which \in {"chunks", "wait", "cache", "sample"}
          /\ TableInit /\ Init /\ CacheInit /\ SampleInit

ChunksStep == /\ which = "chunks" /\ TableNext
              /\ UNCHANGED <<which, vars, cacheVars, sampleVars>>
WaitStep   == /\ which = "wait" /\ Next
              /\ UNCHANGED <<which, tableVars, cacheVars, sampleVars>>
CacheStep  == /\ which = "cache" /\ CacheNext
              /\ UNCHANGED <<which, tableVars, vars, sampleVars>>
SampleStep == /\ which = "sample" /\ SampleNext
              /\ UNCHANGED <<which, tableVars, vars, cacheVars>>

MCNext == ChunksStep \/ WaitStep \/ CacheStep \/ SampleStep

MCSpec == MCInit /\ [][MCNext]_allVars

(* The links a deleted item keeps in the wait tree distinguish no states.  *)
MCView == <<which, tableVars, Live, cacheVars, sampleVars>>

-----------------------------------------------------------------------------
(* Every link of every structure is an entry, an item, a sentinel or null. *)
StructuresTypeOK == TableTypeOK /\ TypeOK /\ CacheTypeOK
=============================================================================
