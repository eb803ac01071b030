------------------------- MODULE ControlPlaneProofs -------------------------
(***************************************************************************)
(* Theorems of ControlPlane for every set of items and requests, every     *)
(* size and every build switch.                                            *)
(***************************************************************************)
EXTENDS ControlPlane, TLAPS, FiniteSetTheorems

HeatLabels  == HeatPCs \cup EvictPCs \cup OffloadPCs
OptimLabels == OptimPCs \cup EvictPCs \cup OffloadPCs

(* Where either thread has an object in its hands, ...                     *)
InHands == {"ol_send", "ol_state", "ol_insert", "ol_consume", "ev_insert", "ev_free", "ev_check"}
(* ... where HeatDataplane has a file it has not placed, ...               *)
Placing == {"place", "h_enq", "h_state", "h_insert"}
(* ... where it is before the test thread runs, ...                        *)
Before  == {"next", "done"} \cup Placing
(* ... where the test thread is between its calls, ...                     *)
TestPCs == {"t_loop", "t_del", "t_enq", "t_check"}
(* ... and where get_ec holds a candidate that is still linked.            *)
Holding == {"ec_mark", "ec_read", "ec_test"}

(* What the labels of the two background threads say about their locals:   *)
(* the part of the invariant that makes TypeOK inductive.                  *)
LabelInv ==
  /\ pc["heat"] \in HeatLabels
  /\ pc["optim"] \in OptimLabels
  /\ \A th \in Threads : pc[th] \in InHands => cur[th] \in Items
  /\ pc["heat"] \in Placing => cur["heat"] \in Items
  /\ pc["optim"] \in {"oc_state", "oc_enq"} => cur["optim"] \in Items
  /\ pc["optim"] \in Holding => cur["optim"] \in Items /\ offloaded[cur["optim"]] > 0
  /\ pc["optim"] # "sleep" => RunCacheOptimization
  /\ pc["heat"] \in EvictPCs \cup TestPCs => OffloadingEvictionTest
  /\ OffloadingEvictionTest /\ pc["heat"] \notin Before => testIt \in Items
  /\ running => pc["heat"] \notin Before
  /\ running => OffloadingEvictionTest
  /\ \A r \in Requests : rpc[r] # "idle" => robj[r] \in Items

TypeInv == TypeOK /\ LabelInv

(* The number of blocks of an object is a natural number (cache_ctrl). *)
LEMMA NbBlkType == \A it \in Items : NbBlk(Size[it]) \in Nat
  BY SizeAssumption, BlocksAssumption DEF NbBlk

(* The invariant holds when the threads start. *)
LEMMA TypeInit == Init => TypeInv
<1> SUFFICES ASSUME Init PROVE TypeInv
  OBVIOUS
<1> USE BlocksAssumption DEF Init
<1>1. CacheTypes
  BY DEF CacheTypes
<1>2. ThreadTypes
  BY DEF ThreadTypes, Threads, HeatPCs, OptimPCs
<1>3. ItemTypes /\ RequestTypes
  BY DEF ItemTypes, RequestTypes, ItemStates, RequestPCs
<1>4. RoundTypes /\ BlockTypes
  BY DEF RoundTypes, BlockTypes
<1>5. TestTypes
  <2>1. testIt \in Items \cup {NoItem} /\ count \in Nat /\ before \in Nat
    OBVIOUS
  <2>2. running \in BOOLEAN
    BY Zenon
  <2> QED BY <2>1, <2>2 DEF TestTypes
<1>6. LabelInv
  BY DEF LabelInv, Threads, HeatLabels, OptimLabels, HeatPCs, OptimPCs, EvictPCs,
     InHands, Placing, Before, TestPCs, Holding
<1> QED BY <1>1, <1>2, <1>3, <1>4, <1>5, <1>6 DEF TypeInv, TypeOK, HaltReasons

(* The steps of a get or a free keep the type invariant. *)
LEMMA RequestStepTypes ==
  ASSUME TypeInv, NEW r \in Requests, ServerStep(r) \/ ServerCall(r)
  PROVE  TypeInv'
<1> USE DEF TypeInv, TypeOK, itemVars, cacheVars, blockVars, threadVars, roundVars,
        testVars, reqVars, InHands, Placing, Before, TestPCs, Holding
<1>1. ASSUME NEW it \in Items, GetLookup(r, it) PROVE TypeInv'
  <2>1. RequestTypes'
    BY <1>1 DEF GetLookup, RAt, RGoto, RequestTypes, ThreadTypes, RequestPCs, LabelInv
  <2>2. LabelInv'
    BY <1>1 DEF GetLookup, RAt, RGoto, LabelInv, ItemTypes, CacheTypes, ThreadTypes,
       TestTypes, RequestTypes
  <2> QED
    BY <1>1, <2>1, <2>2 DEF GetLookup, RAt, RGoto, ItemTypes, CacheTypes, BlockTypes,
       ThreadTypes, RoundTypes, TestTypes
<1>2. ASSUME AccessItem(r) PROVE TypeInv'
  <2>1. RequestTypes'
    BY <1>2 DEF AccessItem, RAt, RGoto, RequestTypes, ThreadTypes, RequestPCs, LabelInv
  <2>2. LabelInv'
    BY <1>2 DEF AccessItem, RAt, RGoto, LabelInv, ItemTypes, CacheTypes, ThreadTypes,
       TestTypes, RequestTypes
  <2> QED
    BY <1>2, <2>1, <2>2 DEF AccessItem, RAt, RGoto, ItemTypes, CacheTypes, BlockTypes,
       ThreadTypes, RoundTypes, TestTypes
<1>3. ASSUME IncrRefcount(r) PROVE TypeInv'
  <2>1. ItemTypes'
    BY <1>3 DEF IncrRefcount, RAt, RGoto, ItemTypes, ThreadTypes, ItemStates, LabelInv,
       Threads, HeatPCs, OptimPCs, EvictPCs, OffloadPCs
  <2>2. RequestTypes'
    BY <1>3 DEF IncrRefcount, RAt, RGoto, RequestTypes, ThreadTypes, RequestPCs, LabelInv
  <2>3. LabelInv'
    BY <1>3 DEF IncrRefcount, RAt, RGoto, LabelInv, ItemTypes, CacheTypes, ThreadTypes,
       TestTypes, RequestTypes
  <2> QED
    BY <1>3, <2>1, <2>2, <2>3 DEF IncrRefcount, RAt, RGoto, CacheTypes, BlockTypes,
       ThreadTypes, RoundTypes, TestTypes
<1>4. ASSUME IncrCheck(r) PROVE TypeInv'
  <2>1. RequestTypes'
    BY <1>4 DEF IncrCheck, RAt, RGoto, Halt, RequestTypes, ThreadTypes, RequestPCs, LabelInv
  <2>2. (halted \in HaltReasons)'
    BY <1>4 DEF IncrCheck, RAt, RGoto, Halt, HaltReasons, ThreadTypes
  <2>3. LabelInv'
    BY <1>4 DEF IncrCheck, RAt, RGoto, Halt, LabelInv, ItemTypes, CacheTypes, ThreadTypes,
       TestTypes, RequestTypes
  <2> QED
    BY <1>4, <2>1, <2>2, <2>3 DEF IncrCheck, RAt, RGoto, Halt, ItemTypes, CacheTypes,
       BlockTypes, ThreadTypes, RoundTypes, TestTypes
<1>5. ASSUME FreeLookup(r) PROVE TypeInv'
  <2>1. RequestTypes'
    BY <1>5 DEF FreeLookup, RAt, RGoto, Release, RequestTypes, ThreadTypes, RequestPCs,
       LabelInv
  <2>2. LabelInv'
    BY <1>5 DEF FreeLookup, RAt, RGoto, Release, LabelInv, ItemTypes, CacheTypes,
       ThreadTypes, TestTypes, RequestTypes
  <2> QED
    BY <1>5, <2>1, <2>2 DEF FreeLookup, RAt, RGoto, Release, ItemTypes, CacheTypes,
       BlockTypes, ThreadTypes, RoundTypes, TestTypes
<1>6. ASSUME FreeItem(r) PROVE TypeInv'
  <2>1. RequestTypes'
    BY <1>6 DEF FreeItem, RAt, RGoto, Release, RequestTypes, ThreadTypes, RequestPCs,
       LabelInv
  <2>2. LabelInv'
    BY <1>6 DEF FreeItem, RAt, RGoto, Release, LabelInv, ItemTypes, CacheTypes, ThreadTypes,
       TestTypes, RequestTypes
  <2> QED
    BY <1>6, <2>1, <2>2 DEF FreeItem, RAt, RGoto, Release, ItemTypes, CacheTypes,
       BlockTypes, ThreadTypes, RoundTypes, TestTypes
<1>7. ASSUME DecrRefcount(r) PROVE TypeInv'
  <2>1. ItemTypes'
    BY <1>7 DEF DecrRefcount, RAt, RGoto, ItemTypes, ThreadTypes, ItemStates, LabelInv,
       Threads, HeatPCs, OptimPCs, EvictPCs, OffloadPCs
  <2>2. RequestTypes'
    BY <1>7 DEF DecrRefcount, RAt, RGoto, RequestTypes, ThreadTypes, RequestPCs, LabelInv
  <2>3. LabelInv'
    BY <1>7 DEF DecrRefcount, RAt, RGoto, LabelInv, ItemTypes, CacheTypes, ThreadTypes,
       TestTypes, RequestTypes
  <2> QED
    BY <1>7, <2>1, <2>2, <2>3 DEF DecrRefcount, RAt, RGoto, CacheTypes, BlockTypes,
       ThreadTypes, RoundTypes, TestTypes
<1>8. ASSUME DecrCheck(r) PROVE TypeInv'
  <2>1. RequestTypes'
    BY <1>8 DEF DecrCheck, RAt, Release, Halt, RGoto, RequestTypes, ThreadTypes, RequestPCs,
       LabelInv
  <2>2. (halted \in HaltReasons)'
    BY <1>8 DEF DecrCheck, RAt, Release, Halt, RGoto, HaltReasons, ThreadTypes
  <2>3. LabelInv'
    BY <1>8 DEF DecrCheck, RAt, Release, Halt, RGoto, LabelInv, ItemTypes, CacheTypes,
       ThreadTypes, TestTypes, RequestTypes
  <2> QED
    BY <1>8, <2>1, <2>2, <2>3 DEF DecrCheck, RAt, Release, Halt, RGoto, ItemTypes,
       CacheTypes, BlockTypes, ThreadTypes, RoundTypes, TestTypes
<1>9. ASSUME FreeWrongHv(r) PROVE TypeInv'
  <2>1. (halted \in HaltReasons)'
    BY <1>9 DEF FreeWrongHv, RAt, Halt, HaltReasons, ThreadTypes
  <2>2. LabelInv'
    BY <1>9 DEF FreeWrongHv, RAt, Halt, LabelInv, ItemTypes, CacheTypes, ThreadTypes,
       TestTypes, RequestTypes
  <2> QED
    BY <1>9, <2>1, <2>2 DEF FreeWrongHv, RAt, Halt, ItemTypes, CacheTypes, BlockTypes,
       ThreadTypes, RoundTypes, TestTypes, RequestTypes
<1> QED
  BY <1>1, <1>2, <1>3, <1>4, <1>5, <1>6, <1>7, <1>8, <1>9 DEF ServerStep, ServerCall

(* EvictItems and OffloadItems keep the type invariant. *)
LEMMA TransferStepTypes ==
  ASSUME TypeInv, NEW th \in Threads, EvictItems(th) \/ OffloadItems(th)
  PROVE  TypeInv'
<1> USE DEF TypeInv, TypeOK, itemVars, cacheVars, blockVars, threadVars, roundVars,
        testVars, reqVars, InHands, Placing, Before, TestPCs, Holding
<1>1. ASSUME EvictEnter(th) PROVE TypeInv'
  <2>1. ThreadTypes'
    BY <1>1 DEF EvictEnter, At, Goto, AfterEvict, ThreadTypes, Threads, HeatPCs, OptimPCs,
       EvictPCs, OffloadPCs, CacheTypes
  <2>2. LabelInv'
    BY <1>1 DEF EvictEnter, At, Goto, AfterEvict, LabelInv, ItemTypes, CacheTypes,
       ThreadTypes, TestTypes, RequestTypes, Threads, HeatPCs, OptimPCs, EvictPCs, OffloadPCs,
       HeatLabels, OptimLabels
  <2> QED
    BY <1>1, <2>1, <2>2 DEF EvictEnter, At, Goto, AfterEvict, ItemTypes, CacheTypes,
       BlockTypes, RoundTypes, TestTypes, RequestTypes
<1>2. ASSUME SendEviction(th) PROVE TypeInv'
  <2>1. CacheTypes'
    BY <1>2 DEF SendEviction, At, Goto, CacheTypes, ThreadTypes, LabelInv, Threads, HeatPCs,
       OptimPCs, EvictPCs, OffloadPCs
  <2>2. BlockTypes'
    BY <1>2, NbBlkType, BlocksAssumption DEF SendEviction, At, Goto, BlockTypes,
       ThreadTypes, LabelInv, Threads, HeatPCs, OptimPCs, EvictPCs, OffloadPCs, CacheTypes
  <2>3. ThreadTypes'
    BY <1>2 DEF SendEviction, At, Goto, ThreadTypes, Threads, HeatPCs, OptimPCs, EvictPCs,
       OffloadPCs, CacheTypes
  <2>4. LabelInv'
    BY <1>2 DEF SendEviction, At, Goto, LabelInv, ItemTypes, CacheTypes, ThreadTypes,
       TestTypes, RequestTypes, Threads, HeatPCs, OptimPCs, EvictPCs, OffloadPCs, HeatLabels,
       OptimLabels
  <2> QED
    BY <1>2, <2>1, <2>2, <2>3, <2>4 DEF SendEviction, At, Goto, ItemTypes, RoundTypes,
       TestTypes, RequestTypes
<1>3. ASSUME NEW it \in Items, EvictItem(th, it) PROVE TypeInv'
  <2>1. ItemTypes'
    BY <1>3 DEF EvictItem, At, Goto, ItemTypes, ThreadTypes, ItemStates, LabelInv, Threads,
       HeatPCs, OptimPCs, EvictPCs, OffloadPCs
  <2>2. CacheTypes'
    BY <1>3 DEF EvictItem, At, Goto, CacheTypes, ThreadTypes, LabelInv, Threads, HeatPCs,
       OptimPCs, EvictPCs, OffloadPCs
  <2>3. ThreadTypes'
    BY <1>3 DEF EvictItem, At, Goto, ThreadTypes, LabelInv, CacheTypes, Threads, HeatPCs,
       OptimPCs, EvictPCs, OffloadPCs
  <2>4. LabelInv'
    BY <1>3 DEF EvictItem, At, Goto, LabelInv, ItemTypes, CacheTypes, ThreadTypes, TestTypes,
       RequestTypes, Threads, HeatPCs, OptimPCs, EvictPCs, OffloadPCs, HeatLabels, OptimLabels
  <2> QED
    BY <1>3, <2>1, <2>2, <2>3, <2>4 DEF EvictItem, At, Goto, BlockTypes, RoundTypes, TestTypes,
       RequestTypes
<1>4. ASSUME EvictDone(th) PROVE TypeInv'
  <2>1. ThreadTypes'
    BY <1>4 DEF EvictDone, At, Goto, AfterEvict, ThreadTypes, Threads, HeatPCs, OptimPCs,
       EvictPCs, OffloadPCs, CacheTypes
  <2>2. LabelInv'
    BY <1>4 DEF EvictDone, At, Goto, AfterEvict, LabelInv, ItemTypes, CacheTypes,
       ThreadTypes, TestTypes, RequestTypes, Threads, HeatPCs, OptimPCs, EvictPCs, OffloadPCs,
       HeatLabels, OptimLabels
  <2> QED
    BY <1>4, <2>1, <2>2 DEF EvictDone, At, Goto, AfterEvict, ItemTypes, CacheTypes,
       BlockTypes, RoundTypes, TestTypes, RequestTypes
<1>5. ASSUME Dequeue(th) PROVE TypeInv'
  <2>a. ocq # << >> => Head(ocq) \in Items /\ Tail(ocq) \in Seq(Items)
    BY DEF CacheTypes
  <2>1. CacheTypes'
    BY <1>5, <2>a DEF Dequeue, CacheTypes
  <2>2. ThreadTypes'
    BY <1>5 DEF Dequeue, At, Goto, AfterOffload, ThreadTypes, Threads, HeatPCs, OptimPCs,
       EvictPCs, OffloadPCs, CacheTypes
  <2>3. LabelInv'
    <3>1. CASE ocq = << >>
      BY <1>5, <3>1 DEF Dequeue, At, Goto, AfterOffload, LabelInv, CacheTypes, ThreadTypes,
         TestTypes, RequestTypes, Threads, HeatPCs, OptimPCs, EvictPCs, OffloadPCs, HeatLabels,
         OptimLabels
    <3>2. CASE ocq # << >>
      BY <1>5, <2>a, <3>2 DEF Dequeue, At, Goto, LabelInv, ThreadTypes,
         TestTypes, RequestTypes, Threads, HeatPCs, OptimPCs, EvictPCs, OffloadPCs, HeatLabels,
         OptimLabels
    <3> QED BY <3>1, <3>2
  <2> QED
    BY <1>5, <2>1, <2>2, <2>3 DEF Dequeue, At, Goto, AfterOffload, ItemTypes, BlockTypes,
       RoundTypes, TestTypes, RequestTypes
<1>6. ASSUME SendOffload(th) PROVE TypeInv'
  <2>1. BlockTypes'
    BY <1>6, NbBlkType, BlocksAssumption DEF SendOffload, At, Goto, BlockTypes, ThreadTypes,
       LabelInv, Threads, HeatPCs, OptimPCs, EvictPCs, OffloadPCs, CacheTypes
  <2>2. ThreadTypes'
    BY <1>6 DEF SendOffload, At, Goto, ThreadTypes, LabelInv, CacheTypes, Threads, HeatPCs,
       OptimPCs, EvictPCs, OffloadPCs
  <2>3. LabelInv'
    BY <1>6 DEF SendOffload, At, Goto, LabelInv, ItemTypes, CacheTypes, ThreadTypes, TestTypes,
       RequestTypes, Threads, HeatPCs, OptimPCs, EvictPCs, OffloadPCs, HeatLabels, OptimLabels
  <2> QED
    BY <1>6, <2>1, <2>2, <2>3 DEF SendOffload, At, Goto, ItemTypes, CacheTypes, RoundTypes,
       TestTypes, RequestTypes
<1>9. ASSUME ShowItem(th) PROVE TypeInv'
  <2>1. ItemTypes'
    BY <1>9 DEF ShowItem, At, Goto, ItemTypes, ThreadTypes, ItemStates, LabelInv, Threads,
       HeatPCs, OptimPCs, EvictPCs, OffloadPCs
  <2>2. ThreadTypes'
    BY <1>9 DEF ShowItem, At, Goto, ThreadTypes, LabelInv, CacheTypes, Threads, HeatPCs, OptimPCs,
       EvictPCs, OffloadPCs
  <2>3. LabelInv'
    BY <1>9 DEF ShowItem, At, Goto, LabelInv, ItemTypes, CacheTypes, ThreadTypes, TestTypes,
       RequestTypes, Threads, HeatPCs, OptimPCs, EvictPCs, OffloadPCs, HeatLabels, OptimLabels
  <2> QED
    BY <1>9, <2>1, <2>2, <2>3 DEF ShowItem, At, Goto, CacheTypes, BlockTypes, RoundTypes,
       TestTypes, RequestTypes
<1>10. ASSUME InsertUnoffloaded(th) PROVE TypeInv'
  <2>1. CacheTypes'
    BY <1>10 DEF InsertUnoffloaded, At, Goto, CacheTypes, ThreadTypes, LabelInv, Threads, HeatPCs,
       OptimPCs, EvictPCs, OffloadPCs
  <2>2. ThreadTypes'
    BY <1>10 DEF InsertUnoffloaded, At, Goto, ThreadTypes, LabelInv, CacheTypes, Threads, HeatPCs,
       OptimPCs, EvictPCs, OffloadPCs
  <2>3. LabelInv'
    BY <1>10 DEF InsertUnoffloaded, At, Goto, LabelInv, ItemTypes, CacheTypes, ThreadTypes,
       TestTypes, RequestTypes, Threads, HeatPCs, OptimPCs, EvictPCs, OffloadPCs, HeatLabels, OptimLabels
  <2> QED
    BY <1>10, <2>1, <2>2, <2>3 DEF InsertUnoffloaded, At, Goto, ItemTypes, BlockTypes, RoundTypes,
       TestTypes, RequestTypes
<1>11. ASSUME FreeBlocks(th) PROVE TypeInv'
  <2>1. BlockTypes'
    <3>1. cur[th] \in Items
      BY <1>11 DEF FreeBlocks, At, LabelInv
    <3> QED
      BY <1>11, <3>1, NbBlkType, BlocksAssumption DEF FreeBlocks, Halt, BlockTypes
  <2>2. ThreadTypes'
    BY <1>11 DEF FreeBlocks, At, Goto, Halt, ThreadTypes, LabelInv, CacheTypes, Threads, HeatPCs,
       OptimPCs, EvictPCs, OffloadPCs
  <2>3. (halted \in HaltReasons)'
    BY <1>11 DEF FreeBlocks, At, Goto, Halt, HaltReasons, ThreadTypes
  <2>4. LabelInv'
    <3>1. CASE halted' # "no"
      <4>1. UNCHANGED <<pc, cur, offloaded, running, testIt, rpc, robj>>
        BY <1>11, <3>1 DEF FreeBlocks, At, Halt
      <4> QED BY <4>1 DEF LabelInv
    <3>2. CASE halted' = "no"
      <4>1. /\ pc[th] = "ev_free"
            /\ cur' = cur /\ pc' = [pc EXCEPT ![th] = "ev_check"]
            /\ UNCHANGED <<offloaded, running, testIt, rpc, robj>>
        BY <1>11, <3>2 DEF FreeBlocks, At, Goto, Halt
      <4>2. /\ pc \in [Threads -> HeatPCs \cup OptimPCs \cup EvictPCs \cup OffloadPCs]
            /\ cur \in [Threads -> Items \cup {NoItem}]
        BY DEF ThreadTypes
      <4>3. CASE th = "heat"
        BY <4>1, <4>2, <4>3 DEF LabelInv, Threads, HeatPCs, OptimPCs, EvictPCs, OffloadPCs,
           HeatLabels, OptimLabels
      <4>4. CASE th = "optim"
        BY <4>1, <4>2, <4>4 DEF LabelInv, Threads, HeatPCs, OptimPCs, EvictPCs, OffloadPCs,
           HeatLabels, OptimLabels
      <4> QED BY <4>3, <4>4 DEF Threads
    <3> QED BY <3>1, <3>2
  <2> QED
    BY <1>11, <2>1, <2>2, <2>3, <2>4 DEF FreeBlocks, At, Goto, Halt, ItemTypes, CacheTypes,
       RoundTypes, TestTypes, RequestTypes
<1>12. ASSUME EvictCheck(th) PROVE TypeInv'
  <2>1. ThreadTypes'
    <3>1. /\ pc' \in {pc, [pc EXCEPT ![th] = "ev_apply"]}
          /\ cur' \in {cur, [cur EXCEPT ![th] = NoItem]}
      BY <1>12 DEF EvictCheck, Goto, Halt
    <3> QED BY <3>1 DEF ThreadTypes, EvictPCs
  <2>2. (halted \in HaltReasons)'
    BY <1>12 DEF EvictCheck, At, Goto, Halt, HaltReasons, ThreadTypes
  <2>3. LabelInv'
    <3>1. CASE halted' # "no"
      <4>1. UNCHANGED <<pc, cur, offloaded, running, testIt, rpc, robj>>
        BY <1>12, <3>1 DEF EvictCheck, At, Halt
      <4> QED BY <4>1 DEF LabelInv
    <3>2. CASE halted' = "no"
      <4>1. /\ pc[th] = "ev_check"
            /\ cur' = [cur EXCEPT ![th] = NoItem] /\ pc' = [pc EXCEPT ![th] = "ev_apply"]
            /\ UNCHANGED <<offloaded, running, testIt, rpc, robj>>
        BY <1>12, <3>2 DEF EvictCheck, At, Goto, Halt
      <4>2. /\ pc \in [Threads -> HeatPCs \cup OptimPCs \cup EvictPCs \cup OffloadPCs]
            /\ cur \in [Threads -> Items \cup {NoItem}]
        BY DEF ThreadTypes
      <4>3. CASE th = "heat"
        BY <4>1, <4>2, <4>3 DEF LabelInv, Threads, HeatPCs, OptimPCs, EvictPCs, OffloadPCs,
           HeatLabels, OptimLabels
      <4>4. CASE th = "optim"
        BY <4>1, <4>2, <4>4 DEF LabelInv, Threads, HeatPCs, OptimPCs, EvictPCs, OffloadPCs,
           HeatLabels, OptimLabels
      <4> QED BY <4>3, <4>4 DEF Threads
    <3> QED BY <3>1, <3>2
  <2> QED
    BY <1>12, <2>1, <2>2, <2>3 DEF EvictCheck, At, Goto, Halt, ItemTypes, CacheTypes, BlockTypes,
       RoundTypes, TestTypes, RequestTypes
<1>7. ASSUME InsertOffloaded(th) PROVE TypeInv'
  <2>1. CacheTypes'
    BY <1>7 DEF InsertOffloaded, At, Goto, OffloadedLockFree, CacheTypes, ThreadTypes,
       LabelInv, Threads, HeatPCs, OptimPCs, EvictPCs, OffloadPCs
  <2>2. ThreadTypes'
    BY <1>7 DEF InsertOffloaded, At, Goto, OffloadedLockFree, ThreadTypes, Threads, HeatPCs,
       OptimPCs, EvictPCs, OffloadPCs, CacheTypes
  <2>3. LabelInv'
    BY <1>7 DEF InsertOffloaded, At, Goto, OffloadedLockFree, LabelInv, ItemTypes,
       CacheTypes, ThreadTypes, TestTypes, RequestTypes, Threads, HeatPCs, OptimPCs, EvictPCs,
       OffloadPCs, HeatLabels, OptimLabels
  <2> QED
    BY <1>7, <2>1, <2>2, <2>3 DEF InsertOffloaded, At, Goto, OffloadedLockFree, ItemTypes,
       BlockTypes, RoundTypes, TestTypes, RequestTypes
<1>8. ASSUME ConsumeBlocks(th) PROVE TypeInv'
  <2>1. BlockTypes'
    BY <1>8, NbBlkType, BlocksAssumption DEF ConsumeBlocks, At, Goto, Halt, BlockTypes,
       ThreadTypes, LabelInv, Threads, HeatPCs, OptimPCs, EvictPCs, OffloadPCs, CacheTypes
  <2>2. ThreadTypes'
    BY <1>8 DEF ConsumeBlocks, At, Goto, Halt, ThreadTypes, Threads, HeatPCs, OptimPCs,
       EvictPCs, OffloadPCs, CacheTypes
  <2>3. (halted \in HaltReasons)'
    BY <1>8 DEF ConsumeBlocks, At, Goto, Halt, HaltReasons, ThreadTypes
  <2>4. LabelInv'
    <3>1. CASE halted' # "no"
      <4>1. UNCHANGED <<pc, cur, offloaded, running, testIt, rpc, robj>>
        BY <1>8, <3>1 DEF ConsumeBlocks, At, Halt
      <4> QED BY <4>1 DEF LabelInv
    <3>2. CASE halted' = "no"
      <4>1. /\ pc[th] = "ol_consume"
            /\ cur' = [cur EXCEPT ![th] = NoItem] /\ pc' = [pc EXCEPT ![th] = "ol_deq"]
            /\ UNCHANGED <<offloaded, running, testIt, rpc, robj>>
        BY <1>8, <3>2 DEF ConsumeBlocks, At, Goto, Halt
      <4>2. /\ pc \in [Threads -> HeatPCs \cup OptimPCs \cup EvictPCs \cup OffloadPCs]
            /\ cur \in [Threads -> Items \cup {NoItem}]
        BY DEF ThreadTypes
      <4>3. CASE th = "heat"
        BY <4>1, <4>2, <4>3 DEF LabelInv, Threads, HeatPCs, OptimPCs, EvictPCs, OffloadPCs,
           HeatLabels, OptimLabels
      <4>4. CASE th = "optim"
        BY <4>1, <4>2, <4>4 DEF LabelInv, Threads, HeatPCs, OptimPCs, EvictPCs, OffloadPCs,
           HeatLabels, OptimLabels
      <4> QED BY <4>3, <4>4 DEF Threads
    <3> QED BY <3>1, <3>2
  <2> QED
    BY <1>8, <2>1, <2>2, <2>3, <2>4 DEF ConsumeBlocks, At, Goto, Halt, ItemTypes,
       CacheTypes, RoundTypes, TestTypes, RequestTypes
<1> QED
  BY <1>1, <1>2, <1>3, <1>4, <1>5, <1>6, <1>7, <1>8, <1>9, <1>10, <1>11, <1>12
     DEF EvictItems, OffloadItems

(* HeatDataplane and the test thread keep the type invariant. *)
LEMMA HeatStepTypes ==
  ASSUME TypeInv, HeatDataplane \/ TestThread
  PROVE  TypeInv'
<1> USE DEF TypeInv, TypeOK, itemVars, cacheVars, blockVars, threadVars, roundVars,
        testVars, reqVars, InHands, Placing, Before, TestPCs, Holding
<1>1. ASSUME NEW it \in Items, HeatPut(it) PROVE TypeInv'
  <2>1. CacheTypes'
    BY <1>1 DEF HeatPut, At, Goto, CacheTypes, ThreadTypes, LabelInv, Threads, HeatPCs,
       OptimPCs, EvictPCs, OffloadPCs
  <2>2. ThreadTypes'
    BY <1>1 DEF HeatPut, At, Goto, ThreadTypes, Threads, HeatPCs, OptimPCs, EvictPCs,
       OffloadPCs, CacheTypes
  <2>3. LabelInv'
    BY <1>1 DEF HeatPut, At, Goto, LabelInv, ItemTypes, CacheTypes, ThreadTypes, TestTypes,
       RequestTypes, Threads, HeatPCs, OptimPCs, EvictPCs, OffloadPCs, HeatLabels, OptimLabels
  <2> QED
    BY <1>1, <2>1, <2>2, <2>3 DEF HeatPut, At, Goto, ItemTypes, BlockTypes, RoundTypes,
       TestTypes, RequestTypes
<1>2. ASSUME HeatPlace PROVE TypeInv'
  <2>1. ThreadTypes'
    BY <1>2 DEF HeatPlace, At, Goto, ThreadTypes, LabelInv, CacheTypes, Threads, HeatPCs,
       OptimPCs, EvictPCs, OffloadPCs
  <2>2. LabelInv'
    BY <1>2 DEF HeatPlace, At, Goto, LabelInv, ItemTypes, CacheTypes, ThreadTypes, TestTypes,
       RequestTypes, Threads, HeatPCs, OptimPCs, EvictPCs, OffloadPCs, HeatLabels, OptimLabels
  <2> QED
    BY <1>2, <2>1, <2>2 DEF HeatPlace, At, Goto, ItemTypes, CacheTypes, BlockTypes, RoundTypes,
       TestTypes, RequestTypes
<1>8. ASSUME HeatEnqueue PROVE TypeInv'
  <2>a. cur["heat"] \in Items /\ cur["heat"] \in Items \cup {NoItem}
    BY <1>8 DEF HeatEnqueue, At, LabelInv, Placing
  <2>1. CacheTypes'
    BY <1>8, <2>a DEF HeatEnqueue, HeatPlaced, CacheTypes
  <2>2. ThreadTypes'
    BY <1>8 DEF HeatEnqueue, HeatPlaced, At, Goto, ThreadTypes, LabelInv, CacheTypes, Threads, HeatPCs, OptimPCs, EvictPCs, OffloadPCs
  <2>3. TestTypes'
    BY <1>8, <2>a DEF HeatEnqueue, HeatPlaced, TestTypes
  <2>4. LabelInv'
    BY <1>8, <2>a DEF HeatEnqueue, HeatPlaced, At, Goto, LabelInv, ItemTypes, CacheTypes,
       ThreadTypes, TestTypes, RequestTypes, Threads, HeatPCs, OptimPCs, EvictPCs, OffloadPCs, HeatLabels, OptimLabels
  <2> QED
    BY <1>8, <2>1, <2>2, <2>3, <2>4 DEF HeatEnqueue, HeatPlaced, ItemTypes, BlockTypes, RoundTypes,
       RequestTypes
<1>9. ASSUME HeatKeep PROVE TypeInv'
  <2>1. ItemTypes'
    BY <1>9 DEF HeatKeep, At, Goto, ItemTypes, ThreadTypes, ItemStates, LabelInv, Threads,
       HeatPCs, OptimPCs, EvictPCs, OffloadPCs
  <2>2. ThreadTypes'
    BY <1>9 DEF HeatKeep, At, Goto, ThreadTypes, LabelInv, CacheTypes, Threads, HeatPCs, OptimPCs,
       EvictPCs, OffloadPCs
  <2>3. LabelInv'
    BY <1>9 DEF HeatKeep, At, Goto, LabelInv, ItemTypes, CacheTypes, ThreadTypes, TestTypes,
       RequestTypes, Threads, HeatPCs, OptimPCs, EvictPCs, OffloadPCs, HeatLabels, OptimLabels
  <2> QED
    BY <1>9, <2>1, <2>2, <2>3 DEF HeatKeep, At, Goto, CacheTypes, BlockTypes, RoundTypes,
       TestTypes, RequestTypes
<1>10. ASSUME HeatInsert PROVE TypeInv'
  <2>1. CacheTypes'
    BY <1>10 DEF HeatInsert, At, Goto, HeatPlaced, CacheTypes, ThreadTypes, LabelInv, Threads,
       HeatPCs, OptimPCs, EvictPCs, OffloadPCs
  <2>2. ThreadTypes'
    BY <1>10 DEF HeatInsert, At, Goto, HeatPlaced, ThreadTypes, LabelInv, CacheTypes, Threads,
       HeatPCs, OptimPCs, EvictPCs, OffloadPCs
  <2>3. TestTypes'
    BY <1>10, BlocksAssumption DEF HeatInsert, At, Goto, HeatPlaced, TestTypes, ThreadTypes,
       LabelInv, BlockTypes, Threads, HeatPCs, OptimPCs, EvictPCs, OffloadPCs
  <2>4. LabelInv'
    BY <1>10 DEF HeatInsert, At, Goto, HeatPlaced, LabelInv, ItemTypes, CacheTypes, ThreadTypes,
       TestTypes, RequestTypes, Threads, HeatPCs, OptimPCs, EvictPCs, OffloadPCs, HeatLabels, OptimLabels
  <2> QED
    BY <1>10, <2>1, <2>2, <2>3, <2>4 DEF HeatInsert, At, Goto, HeatPlaced, ItemTypes, BlockTypes,
       RoundTypes, RequestTypes
<1>3. ASSUME HeatDone PROVE TypeInv'
  <2>1. ThreadTypes'
    BY <1>3 DEF HeatDone, At, Goto, ThreadTypes, Threads, HeatPCs, OptimPCs, EvictPCs,
       OffloadPCs, CacheTypes
  <2>2. LabelInv'
    BY <1>3 DEF HeatDone, At, Goto, LabelInv, ItemTypes, CacheTypes, ThreadTypes, TestTypes,
       RequestTypes, Threads, HeatPCs, OptimPCs, EvictPCs, OffloadPCs, HeatLabels, OptimLabels
  <2> QED
    BY <1>3, <2>1, <2>2 DEF HeatDone, At, Goto, ItemTypes, CacheTypes, BlockTypes,
       RoundTypes, TestTypes, RequestTypes
<1>11. ASSUME TestBegin PROVE TypeInv'
  <2>1. ThreadTypes'
    BY <1>11 DEF TestBegin, At, Goto, ThreadTypes, Threads, HeatPCs, OptimPCs, EvictPCs, OffloadPCs
  <2>2. TestTypes'
    <3>1. before' \in Nat /\ (testIt \in Items \cup {NoItem} /\ count \in Nat)'
      BY <1>11, BlocksAssumption DEF TestBegin, TestTypes, BlockTypes
    <3>2. running' \in BOOLEAN
      BY <1>11, Zenon DEF TestBegin
    <3> QED BY <3>1, <3>2 DEF TestTypes
  <2>3. LabelInv'
    BY <1>11 DEF TestBegin, At, Goto, LabelInv, ItemTypes, CacheTypes, ThreadTypes, TestTypes,
       RequestTypes, Threads, HeatPCs, OptimPCs, EvictPCs, OffloadPCs, HeatLabels, OptimLabels
  <2> QED
    BY <1>11, <2>1, <2>2, <2>3 DEF TestBegin, ItemTypes, CacheTypes, BlockTypes, RoundTypes,
       RequestTypes
<1>4. ASSUME TestEvict PROVE TypeInv'
  <2>a. testIt \in Items
    BY <1>4 DEF TestEvict, At, LabelInv, Before, Placing, TestPCs
  <2>1. CacheTypes'
    <3>1. CASE offloaded[testIt] = 0
      BY <1>4, <3>1 DEF TestEvict, Halt, CacheTypes
    <3>2. CASE offloaded[testIt] # 0
      <4>1. offloaded[testIt] \in Nat /\ offloaded[testIt] - 1 \in Nat
        BY <2>a, <3>2 DEF CacheTypes
      <4>2. offloaded' = [offloaded EXCEPT ![testIt] = offloaded[testIt] - 1]
        BY <1>4, <3>2 DEF TestEvict
      <4>3. offloaded' \in [Items -> Nat]
        BY <2>a, <4>1, <4>2 DEF CacheTypes
      <4> QED BY <1>4, <2>a, <3>2, <4>3 DEF TestEvict, CacheTypes
    <3> QED BY <3>1, <3>2
  <2>2. ThreadTypes'
    BY <1>4 DEF TestEvict, At, Goto, Halt, ThreadTypes, Threads, HeatPCs, OptimPCs, EvictPCs, OffloadPCs
  <2>3. (halted \in HaltReasons)'
    BY <1>4 DEF TestEvict, Halt, HaltReasons
  <2>4. LabelInv'
    BY <1>4, OneEvictorAssumption DEF TestEvict, At, Goto, Halt, LabelInv, ItemTypes, CacheTypes,
       ThreadTypes, TestTypes, RequestTypes, Threads, HeatPCs, OptimPCs, EvictPCs, OffloadPCs, HeatLabels, OptimLabels
  <2> QED
    BY <1>4, <2>1, <2>2, <2>3, <2>4 DEF TestEvict, Halt, ItemTypes, BlockTypes, RoundTypes,
       TestTypes, RequestTypes
<1>5. ASSUME TestEnqueue PROVE TypeInv'
  <2>1. CacheTypes'
    BY <1>5 DEF TestEnqueue, At, Goto, CacheTypes, ThreadTypes, LabelInv, Threads, HeatPCs,
       OptimPCs, EvictPCs, OffloadPCs
  <2>2. ThreadTypes'
    BY <1>5 DEF TestEnqueue, At, Goto, ThreadTypes, Threads, HeatPCs, OptimPCs, EvictPCs,
       OffloadPCs, CacheTypes
  <2>3. LabelInv'
    BY <1>5 DEF TestEnqueue, At, Goto, LabelInv, ItemTypes, CacheTypes, ThreadTypes,
       TestTypes, RequestTypes, Threads, HeatPCs, OptimPCs, EvictPCs, OffloadPCs, HeatLabels,
       OptimLabels
  <2> QED
    BY <1>5, <2>1, <2>2, <2>3 DEF TestEnqueue, At, Goto, ItemTypes, BlockTypes, RoundTypes,
       TestTypes, RequestTypes
<1>6. ASSUME TestCheck PROVE TypeInv'
  <2>1. ThreadTypes'
    BY <1>6 DEF TestCheck, At, Goto, Halt, ThreadTypes, Threads, HeatPCs, OptimPCs,
       EvictPCs, OffloadPCs, CacheTypes
  <2>2. TestTypes'
    BY <1>6, BlocksAssumption DEF TestCheck, At, Goto, Halt, TestTypes, ThreadTypes,
       LabelInv, Threads, HeatPCs, OptimPCs, EvictPCs, OffloadPCs, BlockTypes
  <2>3. (halted \in HaltReasons)'
    BY <1>6 DEF TestCheck, At, Goto, Halt, HaltReasons, ThreadTypes
  <2>4. LabelInv'
    BY <1>6 DEF TestCheck, At, Goto, Halt, LabelInv, ItemTypes, CacheTypes, ThreadTypes,
       TestTypes, RequestTypes, Threads, HeatPCs, OptimPCs, EvictPCs, OffloadPCs, HeatLabels,
       OptimLabels
  <2> QED
    BY <1>6, <2>1, <2>2, <2>3, <2>4 DEF TestCheck, At, Goto, Halt, ItemTypes, CacheTypes,
       BlockTypes, RoundTypes, RequestTypes
<1>7. ASSUME TestDone PROVE TypeInv'
  <2>1. ThreadTypes'
    BY <1>7 DEF TestDone, At, Goto, ThreadTypes, Threads, HeatPCs, OptimPCs, EvictPCs,
       OffloadPCs, CacheTypes
  <2>2. TestTypes'
    BY <1>7, BlocksAssumption DEF TestDone, At, Goto, TestTypes, ThreadTypes, LabelInv,
       Threads, HeatPCs, OptimPCs, EvictPCs, OffloadPCs, BlockTypes
  <2>3. LabelInv'
    BY <1>7 DEF TestDone, At, Goto, LabelInv, ItemTypes, CacheTypes, ThreadTypes, TestTypes,
       RequestTypes, Threads, HeatPCs, OptimPCs, EvictPCs, OffloadPCs, HeatLabels, OptimLabels
  <2> QED
    BY <1>7, <2>1, <2>2, <2>3 DEF TestDone, At, Goto, ItemTypes, CacheTypes, BlockTypes,
       RoundTypes, RequestTypes
<1> QED
  BY <1>1, <1>2, <1>3, <1>4, <1>5, <1>6, <1>7, <1>8, <1>9, <1>10, <1>11
     DEF HeatDataplane, TestThread

(* OptimCache and get_ec keep the type invariant. *)
LEMMA OptimStepTypes ==
  ASSUME TypeInv, WakeUp \/ OptimCache
  PROVE  TypeInv'
<1> USE DEF TypeInv, TypeOK, itemVars, cacheVars, blockVars, threadVars, roundVars,
        testVars, reqVars, InHands, Placing, Before, TestPCs, Holding
<1>1. ASSUME WakeUp PROVE TypeInv'
  <2>1. ThreadTypes'
    BY <1>1 DEF WakeUp, At, Goto, ThreadTypes, Threads, HeatPCs, OptimPCs, EvictPCs,
       OffloadPCs, CacheTypes
  <2>2. RoundTypes'
    BY <1>1, SizeAssumption, BlocksAssumption, NbBlkType DEF WakeUp, At, Goto, RoundTypes,
       ThreadTypes, LabelInv, Threads, HeatPCs, OptimPCs, EvictPCs, OffloadPCs, CacheTypes,
       BlockTypes, ItemTypes
  <2>3. LabelInv'
    BY <1>1 DEF WakeUp, At, Goto, LabelInv, ItemTypes, CacheTypes, ThreadTypes, TestTypes,
       RequestTypes, Threads, HeatPCs, OptimPCs, EvictPCs, OffloadPCs, HeatLabels, OptimLabels
  <2> QED
    BY <1>1, <2>1, <2>2, <2>3 DEF WakeUp, At, Goto, ItemTypes, CacheTypes, BlockTypes,
       TestTypes, RequestTypes
<1>2. ASSUME CallGetOc PROVE TypeInv'
  <2>1. CacheTypes'
    <3>1. CASE cacheVars' = cacheVars
      BY <3>1 DEF CacheTypes
    <3>2. CASE cacheVars' # cacheVars
      <4>1. PICK oc \in Items : /\ unoffloaded[oc] > 0
                                /\ unoffloaded' = [unoffloaded EXCEPT ![oc] = unoffloaded[oc] - 1]
        BY <1>2, <3>2 DEF CallGetOc, Halt
      <4>2. unoffloaded[oc] \in Nat /\ unoffloaded[oc] - 1 \in Nat
        BY <4>1 DEF CacheTypes
      <4>3. unoffloaded' \in [Items -> Nat]
        BY <4>1, <4>2 DEF CacheTypes
      <4> QED BY <1>2, <3>2, <4>3 DEF CallGetOc, Halt, CacheTypes
    <3> QED BY <3>1, <3>2
  <2>2. ThreadTypes'
    BY <1>2 DEF CallGetOc, At, Goto, Halt, ThreadTypes, Threads, OptimPCs
  <2>3. (halted \in HaltReasons)'
    BY <1>2 DEF CallGetOc, At, Halt, HaltReasons, ThreadTypes
  <2>4. LabelInv'
    BY <1>2 DEF CallGetOc, At, Goto, Halt, LabelInv, CacheTypes, ThreadTypes,
       TestTypes, RequestTypes, Threads, HeatPCs, OptimPCs, EvictPCs, OffloadPCs, HeatLabels,
       OptimLabels
  <2> QED
    BY <1>2, <2>1, <2>2, <2>3, <2>4 DEF CallGetOc, Halt, ItemTypes, BlockTypes, RoundTypes,
       TestTypes, RequestTypes
<1>11. ASSUME MarkOc PROVE TypeInv'
  <2>1. ItemTypes'
    BY <1>11 DEF MarkOc, At, Goto, ItemTypes, ThreadTypes, ItemStates, LabelInv, Threads, HeatPCs,
       OptimPCs, EvictPCs, OffloadPCs
  <2>2. ThreadTypes'
    BY <1>11 DEF MarkOc, At, Goto, ThreadTypes, LabelInv, CacheTypes, Threads, HeatPCs, OptimPCs,
       EvictPCs, OffloadPCs
  <2>3. LabelInv'
    BY <1>11 DEF MarkOc, At, Goto, LabelInv, ItemTypes, CacheTypes, ThreadTypes, TestTypes,
       RequestTypes, Threads, HeatPCs, OptimPCs, EvictPCs, OffloadPCs, HeatLabels, OptimLabels
  <2> QED
    BY <1>11, <2>1, <2>2, <2>3 DEF MarkOc, At, Goto, CacheTypes, BlockTypes, RoundTypes,
       TestTypes, RequestTypes
<1>12. ASSUME EnqueueOc PROVE TypeInv'
  <2>a. cur["optim"] \in Items
    BY <1>12 DEF EnqueueOc, At, LabelInv
  <2>1. CacheTypes'
    BY <1>12, <2>a DEF EnqueueOc, CacheTypes
  <2>2. ThreadTypes'
    BY <1>12 DEF EnqueueOc, Goto, ThreadTypes, Threads, OptimPCs
  <2>3. RoundTypes'
    <3>1. Size[cur["optim"]] \in Nat
      BY <2>a, SizeAssumption
    <3> QED BY <1>12, <3>1 DEF EnqueueOc, RoundTypes
  <2>4. LabelInv'
    BY <1>12, <2>a DEF EnqueueOc, At, Goto, LabelInv, CacheTypes, ThreadTypes,
       TestTypes, RequestTypes, Threads, HeatPCs, OptimPCs, EvictPCs, OffloadPCs, HeatLabels,
       OptimLabels
  <2> QED
    BY <1>12, <2>1, <2>2, <2>3, <2>4 DEF EnqueueOc, ItemTypes, BlockTypes, TestTypes,
       RequestTypes
<1>3. ASSUME ComputeRequired PROVE TypeInv'
  <2>1. ThreadTypes'
    BY <1>3 DEF ComputeRequired, At, Goto, ThreadTypes, Threads, HeatPCs, OptimPCs,
       EvictPCs, OffloadPCs, CacheTypes
  <2>a. NbBlkRequired(totOcSz, freeBlks) \in Int
    BY BlocksAssumption DEF NbBlkRequired, RoundTypes, BlockTypes
  <2>2. RoundTypes'
    BY <1>3, <2>a DEF ComputeRequired, RoundTypes
  <2>3. LabelInv'
    BY <1>3 DEF ComputeRequired, At, Goto, LabelInv, ItemTypes, CacheTypes, ThreadTypes,
       TestTypes, RequestTypes, Threads, HeatPCs, OptimPCs, EvictPCs, OffloadPCs, HeatLabels,
       OptimLabels
  <2> QED
    BY <1>3, <2>1, <2>2, <2>3 DEF ComputeRequired, At, Goto, ItemTypes, CacheTypes,
       BlockTypes, TestTypes, RequestTypes
<1>4. ASSUME CallGetEc PROVE TypeInv'
  <2>1. ThreadTypes'
    BY <1>4 DEF CallGetEc, At, Goto, Halt, ThreadTypes, Threads, HeatPCs, OptimPCs,
       EvictPCs, OffloadPCs, CacheTypes
  <2>2. (halted \in HaltReasons)'
    BY <1>4 DEF CallGetEc, At, Goto, Halt, HaltReasons, ThreadTypes
  <2>3. LabelInv'
    BY <1>4 DEF CallGetEc, At, Goto, Halt, LabelInv, ItemTypes, CacheTypes, ThreadTypes,
       TestTypes, RequestTypes, Threads, HeatPCs, OptimPCs, EvictPCs, OffloadPCs, HeatLabels,
       OptimLabels
  <2> QED
    BY <1>4, <2>1, <2>2, <2>3 DEF CallGetEc, At, Goto, Halt, ItemTypes, CacheTypes,
       BlockTypes, RoundTypes, TestTypes, RequestTypes
<1>5. ASSUME NEW it \in Items, SampleEc(it) PROVE TypeInv'
  <2>1. ThreadTypes'
    BY <1>5 DEF SampleEc, At, Goto, ThreadTypes, LabelInv, CacheTypes, Threads, HeatPCs, OptimPCs,
       EvictPCs, OffloadPCs
  <2>2. LabelInv'
    BY <1>5 DEF SampleEc, At, Goto, LabelInv, ItemTypes, CacheTypes, ThreadTypes, TestTypes,
       RequestTypes, Threads, HeatPCs, OptimPCs, EvictPCs, OffloadPCs, HeatLabels, OptimLabels
  <2> QED
    BY <1>5, <2>1, <2>2 DEF SampleEc, At, Goto, ItemTypes, CacheTypes, BlockTypes, RoundTypes,
       TestTypes, RequestTypes
<1>13. ASSUME MarkEc PROVE TypeInv'
  <2>1. ItemTypes'
    BY <1>13 DEF MarkEc, At, Goto, ItemTypes, ThreadTypes, ItemStates, LabelInv, Threads, HeatPCs,
       OptimPCs, EvictPCs, OffloadPCs
  <2>2. ThreadTypes'
    BY <1>13 DEF MarkEc, At, Goto, ThreadTypes, LabelInv, CacheTypes, Threads, HeatPCs, OptimPCs,
       EvictPCs, OffloadPCs
  <2>3. LabelInv'
    BY <1>13 DEF MarkEc, At, Goto, LabelInv, ItemTypes, CacheTypes, ThreadTypes, TestTypes,
       RequestTypes, Threads, HeatPCs, OptimPCs, EvictPCs, OffloadPCs, HeatLabels, OptimLabels
  <2> QED
    BY <1>13, <2>1, <2>2, <2>3 DEF MarkEc, At, Goto, CacheTypes, BlockTypes, RoundTypes,
       TestTypes, RequestTypes
<1>6. ASSUME ReadRefcount PROVE TypeInv'
  <2>1. ThreadTypes'
    BY <1>6 DEF ReadRefcount, At, Goto, ThreadTypes, Threads, HeatPCs, OptimPCs, EvictPCs,
       OffloadPCs, CacheTypes
  <2>2. RoundTypes'
    BY <1>6, SizeAssumption, BlocksAssumption, NbBlkType DEF ReadRefcount, At, Goto,
       RoundTypes, ThreadTypes, LabelInv, Threads, HeatPCs, OptimPCs, EvictPCs, OffloadPCs,
       CacheTypes, BlockTypes, ItemTypes
  <2>3. LabelInv'
    BY <1>6 DEF ReadRefcount, At, Goto, LabelInv, ItemTypes, CacheTypes, ThreadTypes,
       TestTypes, RequestTypes, Threads, HeatPCs, OptimPCs, EvictPCs, OffloadPCs, HeatLabels,
       OptimLabels
  <2> QED
    BY <1>6, <2>1, <2>2, <2>3 DEF ReadRefcount, At, Goto, ItemTypes, CacheTypes, BlockTypes,
       TestTypes, RequestTypes
<1>7. ASSUME BackOff PROVE TypeInv'
  <2>1. ThreadTypes'
    BY <1>7 DEF BackOff, At, Goto, ThreadTypes, Threads, HeatPCs, OptimPCs, EvictPCs,
       OffloadPCs, CacheTypes
  <2>2. LabelInv'
    BY <1>7 DEF BackOff, At, Goto, LabelInv, ItemTypes, CacheTypes, ThreadTypes, TestTypes,
       RequestTypes, Threads, HeatPCs, OptimPCs, EvictPCs, OffloadPCs, HeatLabels, OptimLabels
  <2> QED
    BY <1>7, <2>1, <2>2 DEF BackOff, At, Goto, ItemTypes, CacheTypes, BlockTypes,
       RoundTypes, TestTypes, RequestTypes
<1>8. ASSUME TakeEc PROVE TypeInv'
  <2>1. CacheTypes'
    BY <1>8 DEF TakeEc, At, Goto, CacheTypes, ThreadTypes, LabelInv, Threads, HeatPCs,
       OptimPCs, EvictPCs, OffloadPCs
  <2>2. ThreadTypes'
    BY <1>8 DEF TakeEc, At, Goto, ThreadTypes, Threads, HeatPCs, OptimPCs, EvictPCs,
       OffloadPCs, CacheTypes
  <2>a. cur["optim"] \in Items
    BY <1>8 DEF TakeEc, At, LabelInv
  <2>3. RoundTypes'
    BY <1>8, <2>a, NbBlkType DEF TakeEc, RoundTypes
  <2>4. LabelInv'
    BY <1>8, OneEvictorAssumption DEF TakeEc, At, Goto, LabelInv, ItemTypes, CacheTypes,
       ThreadTypes, TestTypes, RequestTypes, Threads, HeatPCs, OptimPCs, EvictPCs, OffloadPCs,
       HeatLabels, OptimLabels
  <2> QED
    BY <1>8, <2>1, <2>2, <2>3, <2>4 DEF TakeEc, At, Goto, ItemTypes, BlockTypes, TestTypes,
       RequestTypes
<1>9. ASSUME EnoughBlocks PROVE TypeInv'
  <2>1. ThreadTypes'
    BY <1>9 DEF EnoughBlocks, At, Goto, ThreadTypes, Threads, HeatPCs, OptimPCs, EvictPCs,
       OffloadPCs, CacheTypes
  <2>2. LabelInv'
    BY <1>9 DEF EnoughBlocks, At, Goto, LabelInv, ItemTypes, CacheTypes, ThreadTypes,
       TestTypes, RequestTypes, Threads, HeatPCs, OptimPCs, EvictPCs, OffloadPCs, HeatLabels,
       OptimLabels
  <2> QED
    BY <1>9, <2>1, <2>2 DEF EnoughBlocks, At, Goto, ItemTypes, CacheTypes, BlockTypes,
       RoundTypes, TestTypes, RequestTypes
<1>10. ASSUME RoundDone PROVE TypeInv'
  <2>1. ThreadTypes'
    BY <1>10 DEF RoundDone, At, Goto, ThreadTypes, Threads, HeatPCs, OptimPCs, EvictPCs,
       OffloadPCs, CacheTypes
  <2>2. RoundTypes'
    BY <1>10, SizeAssumption, BlocksAssumption, NbBlkType DEF RoundDone, At, Goto,
       RoundTypes, ThreadTypes, LabelInv, Threads, HeatPCs, OptimPCs, EvictPCs, OffloadPCs,
       CacheTypes, BlockTypes, ItemTypes
  <2>3. LabelInv'
    BY <1>10 DEF RoundDone, At, Goto, LabelInv, ItemTypes, CacheTypes, ThreadTypes,
       TestTypes, RequestTypes, Threads, HeatPCs, OptimPCs, EvictPCs, OffloadPCs, HeatLabels,
       OptimLabels
  <2> QED
    BY <1>10, <2>1, <2>2, <2>3 DEF RoundDone, At, Goto, ItemTypes, CacheTypes, BlockTypes,
       TestTypes, RequestTypes
<1> QED
  BY <1>1, <1>2, <1>3, <1>4, <1>5, <1>6, <1>7, <1>8, <1>9, <1>10, <1>11, <1>12, <1>13
     DEF OptimCache, GetOc, GetEc

(* A step that changes nothing keeps the invariant. *)
LEMMA TypeStutter == TypeInv /\ UNCHANGED vars => TypeInv'
<1> SUFFICES ASSUME TypeInv, UNCHANGED vars PROVE TypeInv'
  OBVIOUS
<1> USE DEF vars, itemVars, cacheVars, blockVars, threadVars, roundVars, testVars, reqVars
<1>1. TypeOK'
  BY DEF TypeInv, TypeOK, ItemTypes, CacheTypes, BlockTypes, ThreadTypes, RoundTypes, TestTypes,
     RequestTypes
<1>2. LabelInv'
  BY DEF TypeInv, LabelInv
<1> QED BY <1>1, <1>2 DEF TypeInv

(* Every step keeps the invariant. *)
LEMMA TypeStep == TypeInv /\ [Next]_vars => TypeInv'
<1> SUFFICES ASSUME TypeInv, [Next]_vars PROVE TypeInv'
  OBVIOUS
<1>1. ASSUME NEW th \in Threads, EvictItems(th) \/ OffloadItems(th) PROVE TypeInv'
  BY <1>1, TransferStepTypes
<1>2. ASSUME HeatDataplane \/ TestThread PROVE TypeInv'
  BY <1>2, HeatStepTypes
<1>3. ASSUME WakeUp \/ OptimCache PROVE TypeInv'
  BY <1>3, OptimStepTypes
<1>4. ASSUME NEW r \in Requests, ServerStep(r) \/ ServerCall(r) PROVE TypeInv'
  BY <1>4, RequestStepTypes
<1>5. ASSUME UNCHANGED vars PROVE TypeInv'
  BY <1>5, TypeStutter
<1> QED
  BY <1>1, <1>2, <1>3, <1>4, <1>5 DEF Next, HeatStep, OptimStep, Threads

(* Every variable keeps its type and the free block counter its range, in  *)
(* every build, for any items, sizes, requests and number of blocks.       *)
THEOREM TypeCorrect == Spec => []TypeOK
<1>1. TypeInv => TypeOK
  BY DEF TypeInv
<1> QED
  BY <1>1, TypeInit, TypeStep, PTL DEF Spec
-----------------------------------------------------------------------------
(* The shipped build: neither switch is set.                               *)
DefaultBuild == ~RunCacheOptimization /\ ~OffloadingEvictionTest

(* HeatDataplane sees every object once, so its state moves to NIC or HOST *)
(* and stays there.                                                        *)
PlacedOnce ==
  /\ \A it \in Items : it \notin table => state[it] = "NOWHERE"
  /\ \A i \in 1 .. Len(ocq) : ocq[i] \in table
  /\ pc["heat"] \in Placing \cup {"ol_send", "ol_state"} => cur["heat"] \in table
  /\ pc["heat"] \in Placing \ {"h_insert"} => state[cur["heat"]] = "NOWHERE"

(* A request past its lookup works on an object that is on the NIC, and it *)
(* is counted between its increment and its decrement.                     *)
RequestInv ==
  \A r \in Requests :
    /\ rpc[r] \notin {"idle", "decr_chk"} => state[robj[r]] = "NIC"
    /\ counted[r] => rpc[r] \in {"incr_chk", "held", "free", "decr"}
    /\ rpc[r] \in {"incr_chk", "held", "free", "decr"} => counted[r]

CountInv == TypeInv /\ PlacedOnce /\ RequestInv /\ RefcountExact

(* In the shipped build the background threads neither touch a counter nor
   take an object off the NIC. *)
LEMMA HeatKeepsCount ==
  ASSUME CountInv, DefaultBuild, HeatStep \/ OptimStep \/ WakeUp
  PROVE  /\ PlacedOnce'
         /\ \A it \in Items : state[it] = "NIC" => state'[it] = "NIC"
         /\ UNCHANGED <<refcount, reqVars>>
<1> DEFINE Kept == /\ PlacedOnce'
                   /\ \A it \in Items : state[it] = "NIC" => state'[it] = "NIC"
                   /\ UNCHANGED <<refcount, reqVars>>
<1> SUFFICES Kept
  OBVIOUS
<1> USE DEF CountInv, TypeInv, TypeOK, itemVars, cacheVars, blockVars, threadVars, roundVars,
        testVars, reqVars, Placing
<1>1. pc["optim"] = "sleep" /\ pc["heat"] \notin EvictPCs \cup TestPCs
  BY DEF LabelInv, DefaultBuild
<1>2. ASSUME NEW th \in Threads, EvictItems(th) PROVE FALSE
  BY <1>1, <1>2 DEF EvictItems, EvictEnter, SendEviction, EvictItem, InsertUnoffloaded, FreeBlocks,
     EvictCheck, EvictDone, At, Threads, EvictPCs
<1>3. ASSUME NEW th \in Threads, OffloadItems(th) PROVE Kept
  <2>1. th = "heat"
    BY <1>1, <1>3 DEF OffloadItems, Dequeue, SendOffload, ShowItem, InsertOffloaded, ConsumeBlocks,
       At, Threads
  <2>2. ASSUME Dequeue(th) PROVE Kept
    <3>1. CASE ocq = << >>
      BY <2>1, <2>2, <3>1 DEF Dequeue, At, Goto, AfterOffload, PlacedOnce, ThreadTypes, TestTypes,
         Threads
    <3>2. CASE ocq # << >>
      <4>1. Head(ocq) \in table /\ Len(ocq) > 0 /\ Head(ocq) = ocq[1]
        BY <3>2 DEF PlacedOnce, CacheTypes
      <4>2. \A i \in 1 .. Len(Tail(ocq)) : Tail(ocq)[i] \in table
        BY <3>2 DEF PlacedOnce, CacheTypes
      <4> QED
        BY <2>1, <2>2, <3>2, <4>1, <4>2 DEF Dequeue, At, Goto, PlacedOnce, ThreadTypes, Threads
    <3> QED BY <3>1, <3>2
  <2>3. ASSUME SendOffload(th) PROVE Kept
    BY <2>1, <2>3 DEF SendOffload, At, Goto, PlacedOnce, ThreadTypes, ItemTypes, Threads
  <2>4. ASSUME InsertOffloaded(th) PROVE Kept
    BY <2>1, <2>4 DEF InsertOffloaded, At, Goto, PlacedOnce, ThreadTypes, Threads
  <2>5. ASSUME ConsumeBlocks(th) PROVE Kept
    BY <2>1, <2>5 DEF ConsumeBlocks, At, Goto, Halt, PlacedOnce, ThreadTypes, Threads
  <2>6. ASSUME ShowItem(th) PROVE Kept
    BY <2>1, <2>6 DEF ShowItem, At, Goto, PlacedOnce, ThreadTypes, ItemTypes, Threads
  <2> QED BY <1>3, <2>2, <2>3, <2>4, <2>5, <2>6 DEF OffloadItems
<1>4. ASSUME NEW it \in Items, HeatPut(it) PROVE Kept
  BY <1>4 DEF HeatPut, At, Goto, PlacedOnce, ThreadTypes, CacheTypes, Threads
<1>5. ASSUME HeatPlace PROVE Kept
  BY <1>5 DEF HeatPlace, At, Goto, PlacedOnce, ThreadTypes, Threads
<1>9. ASSUME HeatEnqueue PROVE Kept
  <2>1. cur["heat"] \in table /\ cur["heat"] \in Items
    BY <1>9 DEF HeatEnqueue, At, PlacedOnce, LabelInv
  <2>2. /\ pc' = [pc EXCEPT !["heat"] = "ol_deq"] /\ UNCHANGED <<refcount, reqVars, table, state>>
        /\ ocq' = Append(ocq, cur["heat"])
    BY <1>9 DEF HeatEnqueue, HeatPlaced, Goto
  <2>3. \A i \in 1 .. Len(ocq') : ocq'[i] \in table
    <3>1. ocq \in Seq(Items) /\ \A i \in 1 .. Len(ocq) : ocq[i] \in table
      BY DEF PlacedOnce, CacheTypes
    <3> TAKE i \in 1 .. Len(ocq')
    <3>2. Len(ocq') = Len(ocq) + 1
      BY <2>1, <2>2, <3>1
    <3>3. CASE i = Len(ocq) + 1
      <4>1. ocq'[i] = cur["heat"]
        BY <2>1, <2>2, <3>1, <3>3
      <4> QED BY <2>1, <4>1
    <3>4. CASE i \in 1 .. Len(ocq)
      <4>1. ocq'[i] = ocq[i]
        BY <2>1, <2>2, <3>1, <3>4
      <4> QED BY <3>1, <3>4, <4>1
    <3> QED BY <3>1, <3>2, <3>3, <3>4
  <2> QED BY <2>1, <2>2, <2>3 DEF PlacedOnce, ThreadTypes, Threads
<1>10. ASSUME HeatKeep PROVE Kept
  BY <1>10 DEF HeatKeep, At, Goto, PlacedOnce, LabelInv, ThreadTypes, ItemTypes, Threads
<1>11. ASSUME HeatInsert PROVE Kept
  BY <1>11 DEF HeatInsert, HeatPlaced, At, Goto, PlacedOnce, ThreadTypes, Threads
<1>6. ASSUME HeatDone PROVE Kept
  BY <1>6 DEF HeatDone, At, Goto, PlacedOnce, ThreadTypes, Threads
<1>7. ~TestThread
  BY <1>1 DEF TestThread, TestBegin, TestEvict, TestEnqueue, TestCheck, TestDone, At, TestPCs
<1>8. ~OptimCache /\ ~WakeUp
  BY <1>1 DEF OptimCache, GetEc, WakeUp, GetOc, CallGetOc, MarkOc, EnqueueOc, ComputeRequired,
     CallGetEc, SampleEc, MarkEc, ReadRefcount, BackOff, TakeEc, EnoughBlocks, RoundDone, At,
     DefaultBuild
<1> QED
  BY <1>2, <1>3, <1>4, <1>5, <1>6, <1>7, <1>8, <1>9, <1>10, <1>11
     DEF HeatStep, OptimStep, HeatDataplane, Threads

(* Steps that leave every counter and every request alone keep the counts. *)
LEMMA CountFrame ==
  ASSUME CountInv, UNCHANGED <<refcount, reqVars>>,
         \A it \in Items : state[it] = "NIC" => state'[it] = "NIC"
  PROVE  RequestInv' /\ RefcountExact'
<1>1. RequestInv'
  BY DEF CountInv, TypeInv, LabelInv, RequestInv, reqVars
<1>2. RefcountExact'
  BY DEF CountInv, RefcountExact, Holders, reqVars
<1> QED BY <1>1, <1>2

(* Finitely many requests hold an object. *)
LEMMA HoldersFinite == \A it \in Items : IsFiniteSet(Holders(it))
  BY RequestsAssumption, FS_Subset DEF Holders

(* Adding a new element to a finite set makes it one larger. *)
LEMMA OneMore ==
  ASSUME NEW S, NEW T, NEW x, IsFiniteSet(S), x \notin S, T = S \cup {x}
  PROVE  Cardinality(T) = Cardinality(S) + 1
  BY FS_AddElement

(* Removing an element from a finite set makes it one smaller. *)
LEMMA OneLess ==
  ASSUME NEW S, NEW T, NEW x, IsFiniteSet(S), x \in S, T = S \ {x}
  PROVE  Cardinality(T) = Cardinality(S) - 1
  BY FS_RemoveElement

(* A get counts itself once and a free takes that one count back. *)
LEMMA ServerKeepsCount ==
  ASSUME CountInv, NEW r \in Requests, ServerStep(r) \/ ServerCall(r)
  PROVE  PlacedOnce' /\ RequestInv' /\ RefcountExact'
<1> DEFINE Kept == RequestInv' /\ RefcountExact'
<1> USE DEF CountInv, TypeInv, TypeOK, RequestTypes, itemVars, cacheVars, blockVars, threadVars,
        roundVars, testVars, reqVars
<1>1. UNCHANGED <<state, table, ocq, pc, cur>>
  BY DEF ServerStep, ServerCall, GetLookup, AccessItem, IncrRefcount, IncrCheck, FreeLookup,
     FreeItem, DecrRefcount, DecrCheck, FreeWrongHv, Halt
<1>2. PlacedOnce'
  BY <1>1 DEF PlacedOnce
<1>3. ASSUME UNCHANGED <<refcount, counted>>, \A q \in Requests : counted[q] => robj'[q] = robj[q]
      PROVE  RefcountExact'
  BY <1>3 DEF RefcountExact, Holders
<1>4. ASSUME NEW it \in Items, GetLookup(r, it) PROVE Kept
  <2>1. RequestInv'
    BY <1>4 DEF GetLookup, RAt, RGoto, RequestInv
  <2> QED BY <1>3, <1>4, <2>1 DEF GetLookup, RAt, RequestInv
<1>5. ASSUME AccessItem(r) PROVE Kept
  <2>1. RequestInv'
    BY <1>5 DEF AccessItem, RAt, RGoto, RequestInv
  <2> QED BY <1>3, <1>5, <2>1 DEF AccessItem
<1>6. ASSUME IncrRefcount(r) PROVE Kept
  <2>1. RequestInv'
    BY <1>6 DEF IncrRefcount, RAt, RGoto, RequestInv
  <2>2. r \notin Holders(robj[r]) /\ robj[r] \in Items
    BY <1>6 DEF IncrRefcount, RAt, RequestInv, LabelInv, Holders
  <2>3. Holders(robj[r])' = Holders(robj[r]) \cup {r}
    BY <1>6 DEF IncrRefcount, Holders
  <2>4. \A it \in Items : it # robj[r] => Holders(it)' = Holders(it)
    BY <1>6 DEF IncrRefcount, Holders
  <2>5. Cardinality(Holders(robj[r])') = Cardinality(Holders(robj[r])) + 1
    <3>1. IsFiniteSet(Holders(robj[r]))
      BY <2>2, HoldersFinite
    <3> QED BY ONLY <2>2, <2>3, <3>1, OneMore
  <2>6. RefcountExact'
    BY <1>6, <2>2, <2>4, <2>5 DEF IncrRefcount, RefcountExact, ItemTypes
  <2> QED BY <2>1, <2>6
<1>7. ASSUME IncrCheck(r) PROVE Kept
  <2>1. RequestInv'
    BY <1>7 DEF IncrCheck, Halt, RAt, RGoto, RequestInv
  <2> QED BY <1>3, <1>7, <2>1 DEF IncrCheck, Halt
<1>8. ASSUME FreeLookup(r) \/ FreeItem(r) PROVE Kept
  <2>1. state[robj[r]] = "NIC"
    BY <1>8 DEF FreeLookup, FreeItem, RAt, RequestInv
  <2>2. RequestInv'
    BY <1>8, <2>1 DEF FreeLookup, FreeItem, RAt, RGoto, RequestInv
  <2> QED BY <1>3, <1>8, <2>1, <2>2 DEF FreeLookup, FreeItem
<1>9. ASSUME DecrRefcount(r) PROVE Kept
  <2>1. RequestInv'
    BY <1>9 DEF DecrRefcount, RAt, RGoto, RequestInv
  <2>2. r \in Holders(robj[r]) /\ robj[r] \in Items
    BY <1>9 DEF DecrRefcount, RAt, RequestInv, LabelInv, Holders
  <2>3. Holders(robj[r])' = Holders(robj[r]) \ {r}
    BY <1>9 DEF DecrRefcount, Holders
  <2>4. \A it \in Items : it # robj[r] => Holders(it)' = Holders(it)
    BY <1>9 DEF DecrRefcount, Holders
  <2>5. Cardinality(Holders(robj[r])') = Cardinality(Holders(robj[r])) - 1
    <3>1. IsFiniteSet(Holders(robj[r]))
      BY <2>2, HoldersFinite
    <3> QED BY ONLY <2>2, <2>3, <3>1, OneLess
  <2>6. RefcountExact'
    BY <1>9, <2>2, <2>4, <2>5 DEF DecrRefcount, RefcountExact, ItemTypes
  <2> QED BY <2>1, <2>6
<1>10. ASSUME DecrCheck(r) PROVE Kept
  <2>1. RequestInv'
    BY <1>10 DEF DecrCheck, Release, Halt, RAt, RGoto, RequestInv
  <2>2. counted[r] = FALSE
    BY <1>10 DEF DecrCheck, RAt, RequestInv
  <2>3. UNCHANGED <<refcount, counted>> /\ \A q \in Requests : counted[q] => robj'[q] = robj[q]
    BY <1>10, <2>2 DEF DecrCheck, Release, Halt
  <2> QED BY <1>3, <2>1, <2>3
<1>11. ASSUME FreeWrongHv(r) PROVE Kept
  <2>1. UNCHANGED <<refcount, reqVars, state>>
    BY <1>11 DEF FreeWrongHv, Halt
  <2> QED BY <2>1, CountFrame
<1> QED
  BY <1>2, <1>4, <1>5, <1>6, <1>7, <1>8, <1>9, <1>10, <1>11 DEF ServerStep, ServerCall

(* No object is referenced when the threads start. *)
LEMMA CountInit == Init => CountInv
<1> SUFFICES ASSUME Init PROVE CountInv
  OBVIOUS
<1>1. PlacedOnce /\ RequestInv
  BY DEF Init, PlacedOnce, RequestInv, Threads, Placing
<1>2. \A it \in Items : Holders(it) = {}
  BY DEF Init, Holders
<1>3. RefcountExact
  BY <1>2, FS_EmptySet DEF Init, RefcountExact
<1> QED BY <1>1, <1>3, TypeInit DEF CountInv

(* No step of the shipped build loses or doubles a reference. *)
LEMMA CountStep ==
  ASSUME DefaultBuild, CountInv, [Next]_vars
  PROVE  CountInv'
<1>1. TypeInv'
  BY TypeStep DEF CountInv
<1>2. ASSUME HeatStep \/ OptimStep \/ WakeUp PROVE CountInv'
  <2>1. PlacedOnce' /\ RequestInv' /\ RefcountExact'
    BY <1>2, HeatKeepsCount, CountFrame
  <2> QED BY <1>1, <2>1 DEF CountInv
<1>3. ASSUME NEW r \in Requests, ServerStep(r) \/ ServerCall(r) PROVE CountInv'
  BY <1>1, <1>3, ServerKeepsCount DEF CountInv
<1>4. ASSUME UNCHANGED vars PROVE CountInv'
  <2>1. UNCHANGED <<refcount, reqVars, state>> /\ PlacedOnce'
    BY <1>4 DEF vars, itemVars, cacheVars, threadVars, PlacedOnce, CountInv
  <2> QED BY <1>1, <2>1, CountFrame DEF CountInv
<1> QED BY <1>2, <1>3, <1>4 DEF Next

(* In the shipped build the reference count of every object is exactly the *)
(* number of requests that hold it: no interleaving of gets, frees and the *)
(* heating thread loses or doubles a reference.                            *)
THEOREM RefcountCorrect == DefaultBuild /\ Spec => []RefcountExact
<1> SUFFICES ASSUME DefaultBuild PROVE Spec => []RefcountExact
  BY DEF DefaultBuild
<1>1. CountInv /\ [Next]_vars => CountInv'
  BY CountStep
<1>2. CountInv => RefcountExact
  BY DEF CountInv
<1> QED
  BY <1>1, <1>2, CountInit, PTL DEF Spec

(* In the shipped build the assertions of item_incr_refcount and           *)
(* item_decr_refcount hold whenever the counter is read a second time,     *)
(* whatever other requests did to it in between.                           *)
THEOREM RefcountNeverAsserts == DefaultBuild /\ Spec => []RefcountAssertHolds
<1> SUFFICES ASSUME DefaultBuild PROVE Spec => []RefcountAssertHolds
  BY DEF DefaultBuild
<1>1. CountInv /\ RefcountAssertHolds /\ [Next]_vars => RefcountAssertHolds'
  <2> SUFFICES ASSUME CountInv, RefcountAssertHolds, [Next]_vars PROVE RefcountAssertHolds'
    OBVIOUS
  <2>1. ASSUME NEW r \in Requests, RAt(r, "incr_chk") PROVE refcount[robj[r]] # 0
    <3>1. robj[r] \in Items /\ r \in Holders(robj[r])
      BY <2>1 DEF RAt, CountInv, TypeInv, LabelInv, RequestInv, Holders
    <3>2. Cardinality(Holders(robj[r])) # 0
      BY <3>1, HoldersFinite, FS_EmptySet
    <3> QED BY <3>1, <3>2 DEF CountInv, RefcountExact
  <2>2. ASSUME NEW r \in Requests, RAt(r, "decr_chk") PROVE refcount[robj[r]] >= 0
    <3>1. robj[r] \in Items
      BY <2>2 DEF RAt, CountInv, TypeInv, LabelInv
    <3>2. Cardinality(Holders(robj[r])) \in Nat
      BY <3>1, HoldersFinite, FS_CardinalityType
    <3> QED BY <3>1, <3>2 DEF CountInv, RefcountExact
  <2>3. ASSUME NEW r \in Requests, ServerStep(r) \/ ServerCall(r) PROVE RefcountAssertHolds'
    <3>1. /\ IncrCheck(r) => UNCHANGED halted
          /\ DecrCheck(r) => UNCHANGED halted
      BY <2>1, <2>2 DEF IncrCheck, DecrCheck
    <3> QED BY <2>3, <3>1 DEF ServerStep, ServerCall, GetLookup, AccessItem, IncrRefcount, FreeLookup,
               FreeItem, DecrRefcount, FreeWrongHv, Halt, RefcountAssertHolds
  <2>4. ASSUME HeatStep \/ OptimStep \/ WakeUp PROVE RefcountAssertHolds'
    BY <2>4 DEF HeatStep, OptimStep, EvictItems, OffloadItems, HeatDataplane, TestThread,
       OptimCache, GetEc, WakeUp, EvictEnter, SendEviction, EvictItem, InsertUnoffloaded,
       FreeBlocks, EvictCheck, EvictDone, Dequeue, SendOffload, ShowItem, InsertOffloaded,
       ConsumeBlocks, HeatPut, HeatPlace, HeatEnqueue, HeatKeep, HeatInsert, HeatPlaced, HeatDone,
       TestBegin, TestEvict, TestEnqueue, TestCheck, TestDone, GetOc, CallGetOc, MarkOc, EnqueueOc,
       ComputeRequired, CallGetEc, SampleEc, MarkEc, ReadRefcount, BackOff, TakeEc, EnoughBlocks,
       RoundDone, Halt, RefcountAssertHolds
  <2> QED BY <2>3, <2>4 DEF Next, vars, RefcountAssertHolds
<1>2. Init => RefcountAssertHolds
  BY DEF Init, RefcountAssertHolds
<1>3. CountInv /\ [Next]_vars => CountInv'
  BY CountStep
<1> QED
  BY <1>1, <1>2, <1>3, CountInit, PTL DEF Spec
-----------------------------------------------------------------------------
(* The books of the host: where an object is, whether the data plane holds *)
(* what the server threads can find, and how many blocks are free.  First  *)
(* every build without the test thread, with or without cache              *)
(* optimisation; then the test build, and with it the blocks of every      *)
(* build.  All for any items, sizes, requests and number of blocks.        *)

(* The number of homes of an object as a sum over places.                  *)
Carries(th, it) == IF cur[th] = it /\ pc[th] \in Carrying THEN 1 ELSE 0
In(S, it) == IF it \in S THEN 1 ELSE 0
NbQueued(it) == Cardinality(Queued(it))
HomesSum(it) == NbQueued(it) + (Carries("heat", it) + Carries("optim", it))
                + offloaded[it] + unoffloaded[it] + In(ecWait, it) + In(evicted, it)

(* Answered evictions are applied before the next one is sent.             *)
EvictedInv == evicted # {} => pc["optim"] \in {"ev_apply", "ev_insert", "ev_free", "ev_check"}

(* Homes are counted by place. *)
LEMMA HomesAre == \A it : Homes(it) = HomesSum(it)
<1> TAKE it
<1>1. Cardinality(InHand(it)) = Carries("heat", it) + Carries("optim", it)
  <2> DEFINE c(th) == cur[th] = it /\ pc[th] \in Carrying
  <2>0. "heat" # "optim" /\ Threads = {"heat", "optim"}
    BY DEF Threads
  <2>a. Cardinality({"heat"}) = 1 /\ Cardinality({"optim"}) = 1
    BY FS_Singleton
  <2>b. /\ Carries("heat", it) = IF c("heat") THEN 1 ELSE 0
        /\ Carries("optim", it) = IF c("optim") THEN 1 ELSE 0
    BY DEF Carries
  <2> HIDE DEF c
  <2>1. CASE c("heat") /\ c("optim")
    <3>1. InHand(it) = {"heat"} \cup {"optim"}
      BY <2>0, <2>1 DEF InHand, c
    <3>2. "optim" \notin {"heat"}
      BY <2>0
    <3>3. IsFiniteSet({"heat"}) /\ Cardinality({"heat"}) = 1
      BY FS_Singleton
    <3>4. Cardinality(InHand(it)) = 1 + 1
      BY ONLY <3>1, <3>2, <3>3, FS_AddElement
    <3> QED BY <2>1, <2>b, <3>4
  <2>2. CASE c("heat") /\ ~c("optim")
    <3>1. InHand(it) = {"heat"}
      BY <2>0, <2>2 DEF InHand, c
    <3> QED BY <2>2, <2>a, <2>b, <3>1
  <2>3. CASE ~c("heat") /\ c("optim")
    <3>1. InHand(it) = {"optim"}
      BY <2>0, <2>3 DEF InHand, c
    <3> QED BY <2>3, <2>a, <2>b, <3>1
  <2>4. CASE ~c("heat") /\ ~c("optim")
    <3>1. InHand(it) = {}
      BY <2>0, <2>4 DEF InHand, c
    <3> QED BY <2>4, <2>b, <3>1, FS_EmptySet
  <2> QED BY <2>1, <2>2, <2>3, <2>4
<1>2. \A S : Cardinality({it} \cap S) = In(S, it)
  <2> TAKE S
  <2>1. CASE it \in S
    BY <2>1, FS_Singleton, {it} \cap S = {it} DEF In
  <2>2. CASE it \notin S
    BY <2>2, FS_EmptySet, {it} \cap S = {} DEF In
  <2> QED BY <2>1, <2>2
<1> QED BY <1>1, <1>2 DEF Homes, HomesSum, NbQueued

(* The same of the next state. *)
LEMMA HomesNext == (\A it : Homes(it) = HomesSum(it))'
  BY HomesAre, PTL

(* Queueing an object gives it, and nothing else, one place in the queue. *)
LEMMA QueuePut ==
  ASSUME ocq \in Seq(Items), NEW it \in Items, ocq' = Append(ocq, it), NEW x
  PROVE  /\ NbQueued(x) \in Nat
         /\ NbQueued(x)' = NbQueued(x) + (IF x = it THEN 1 ELSE 0)
<1>1. IsFiniteSet(Queued(x))
  <2>1. IsFiniteSet(1 .. Len(ocq))
    BY FS_Interval
  <2> QED BY <2>1, FS_Subset DEF Queued
<1>2. Cardinality(Queued(x)) \in Nat
  BY <1>1, FS_CardinalityType
<1>3. Len(ocq') = Len(ocq) + 1 /\ Len(ocq) \in Nat
  OBVIOUS
<1>4. \A i \in 1 .. Len(ocq') : ocq'[i] = IF i = Len(ocq) + 1 THEN it ELSE ocq[i]
  OBVIOUS
<1>5. CASE x = it
  <2>1. Queued(x)' = Queued(x) \cup {Len(ocq) + 1} /\ Len(ocq) + 1 \notin Queued(x)
    BY <1>3, <1>4, <1>5 DEF Queued
  <2>2. Cardinality(Queued(x)') = Cardinality(Queued(x)) + 1
    BY ONLY <1>1, <2>1, FS_AddElement
  <2> QED BY <1>2, <1>5, <2>2 DEF NbQueued
<1>6. CASE x # it
  <2>1. Queued(x)' = Queued(x)
    BY <1>3, <1>4, <1>6 DEF Queued
  <2> QED BY <1>2, <1>6, <2>1 DEF NbQueued
<1> QED BY <1>5, <1>6

(* Taking the oldest object from the queue takes one place from it alone. *)
LEMMA QueueTake ==
  ASSUME ocq \in Seq(Items), ocq # << >>, ocq' = Tail(ocq), NEW x
  PROVE  /\ NbQueued(x) \in Nat
         /\ NbQueued(x)' = NbQueued(x) - (IF x = Head(ocq) THEN 1 ELSE 0)
<1>1. IsFiniteSet(Queued(x))
  <2>1. IsFiniteSet(1 .. Len(ocq))
    BY FS_Interval
  <2> QED BY <2>1, FS_Subset DEF Queued
<1>2. Cardinality(Queued(x)) \in Nat
  BY <1>1, FS_CardinalityType
<1>3. Len(ocq) \in Nat \ {0} /\ Len(ocq') = Len(ocq) - 1 /\ Head(ocq) = ocq[1]
  OBVIOUS
<1>4. \A i \in 1 .. Len(ocq') : ocq'[i] = ocq[i + 1]
  OBVIOUS
<1> DEFINE Rest == Queued(x) \ {1}
           shift == [i \in Rest |-> i - 1]
<1>5. IsFiniteSet(Rest) /\ Cardinality(Rest) = Cardinality(Queued(x)) - (IF x = Head(ocq) THEN 1 ELSE 0)
  <2>1. 1 \in Queued(x) <=> x = Head(ocq)
    BY <1>3 DEF Queued
  <2>2. /\ IsFiniteSet(Rest)
        /\ Cardinality(Rest) = IF 1 \in Queued(x) THEN Cardinality(Queued(x)) - 1 ELSE Cardinality(Queued(x))
    BY <1>1, FS_RemoveElement
  <2> QED BY <1>2, <2>1, <2>2
<1>6. shift \in Bijection(Rest, Queued(x)')
  <2>1. \A i \in Rest : i \in Int /\ i - 1 \in Queued(x)'
    BY <1>3, <1>4 DEF Queued
  <2>2. \A j \in Queued(x)' : j \in Int /\ j + 1 \in Rest /\ shift[j + 1] = j
    BY <1>3, <1>4 DEF Queued
  <2>3. shift \in [Rest -> Queued(x)']
    BY <2>1
  <2>4. \A i, j \in Rest : shift[i] = shift[j] => i = j
    BY <2>1
  <2> HIDE DEF shift
  <2>5. shift \in Injection(Rest, Queued(x)')
    BY <2>3, <2>4 DEF Injection, IsInjective
  <2>6. shift \in Surjection(Rest, Queued(x)')
    BY <2>2, <2>3 DEF Surjection
  <2> QED BY <2>5, <2>6 DEF Bijection
<1>7. Cardinality(Queued(x)') = Cardinality(Rest)
  BY <1>5, <1>6, FS_Bijection DEF ExistsBijection
<1> QED BY <1>2, <1>5, <1>7 DEF NbQueued
-----------------------------------------------------------------------------
PlaceInv == TypeInv /\ EvictedInv /\ OneHome

(* What OneHome says of the sum over places, and the types of its parts. *)
LEMMA HomeNow ==
  ASSUME PlaceInv, NEW x \in Items
  PROVE  /\ HomesSum(x) = In(table, x)
         /\ NbQueued(x) \in Nat /\ offloaded[x] \in Nat /\ unoffloaded[x] \in Nat
         /\ \A th : Carries(th, x) \in {0, 1}
         /\ \A S : In(S, x) \in {0, 1}
<1>1. HomesSum(x) = In(table, x)
  BY HomesAre DEF PlaceInv, OneHome, In
<1>2. IsFiniteSet(Queued(x))
  <2>1. IsFiniteSet(1 .. Len(ocq))
    BY FS_Interval DEF PlaceInv, TypeInv, TypeOK, CacheTypes
  <2> QED BY <2>1, FS_Subset DEF Queued
<1>3. NbQueued(x) \in Nat
  BY <1>2, FS_CardinalityType DEF NbQueued
<1> QED BY <1>1, <1>3 DEF Carries, In, PlaceInv, TypeInv, TypeOK, CacheTypes

(* Conversely, the next state has OneHome if its sums are right. *)
LEMMA HomeThen ==
  ASSUME \A x \in Items : HomesSum(x)' = In(table, x)'
  PROVE  OneHome'
  BY HomesNext DEF OneHome, In

(* Nothing moves when no place changes. *)
LEMMA HomeFrame ==
  ASSUME PlaceInv, UNCHANGED <<table, ocq, offloaded, unoffloaded, ecWait, evicted>>,
         \A x \in Items : \A th \in Threads : Carries(th, x)' = Carries(th, x)
  PROVE  OneHome'
<1> SUFFICES ASSUME NEW x \in Items PROVE HomesSum(x)' = In(table, x)'
  BY HomeThen
<1>1. NbQueued(x)' = NbQueued(x)
  BY DEF NbQueued, Queued
<1> QED BY <1>1, HomeNow DEF HomesSum, In, Threads

(* EvictItems and OffloadItems move an object from one place to the next. *)
LEMMA TransferKeepsHomes ==
  ASSUME PlaceInv, ~OffloadingEvictionTest, NEW th \in Threads, EvictItems(th) \/ OffloadItems(th)
  PROVE  OneHome' /\ EvictedInv'
<1> DEFINE Kept == OneHome' /\ EvictedInv'
<1> SUFFICES Kept
  OBVIOUS
<1>h. TypeInv /\ EvictedInv /\ OneHome
  BY DEF PlaceInv
<1>t. /\ pc \in [Threads -> HeatPCs \cup OptimPCs \cup EvictPCs \cup OffloadPCs]
      /\ cur \in [Threads -> Items \cup {NoItem}]
      /\ offloaded \in [Items -> Nat] /\ unoffloaded \in [Items -> Nat] /\ ocq \in Seq(Items)
      /\ pc["heat"] \notin EvictPCs
      /\ pc[th] \in InHands => cur[th] \in Items
  BY <1>h DEF TypeInv, TypeOK, ThreadTypes, CacheTypes, LabelInv
<1> USE DEF cacheVars, Threads, Carrying, InHands
<1>1. ASSUME EvictEnter(th) PROVE Kept
  <2>1. th = "optim"
    BY <1>1, <1>t DEF EvictEnter, At, EvictPCs
  <2>2. EvictedInv'
    BY <1>1, <1>h, <2>1 DEF EvictEnter, At, EvictedInv
  <2>3. \A x \in Items : \A t \in Threads : Carries(t, x)' = Carries(t, x)
    BY <1>1, <1>t, <2>1 DEF EvictEnter, At, Goto, AfterEvict, Carries
  <2> QED BY <1>1, <2>2, <2>3, HomeFrame DEF EvictEnter
<1>2. ASSUME SendEviction(th) PROVE Kept
  <2>1. th = "optim"
    BY <1>2, <1>t DEF SendEviction, At, EvictPCs
  <2>2. evicted = {} /\ EvictedInv'
    BY <1>2, <1>h, <1>t, <2>1 DEF SendEviction, At, Goto, EvictedInv
  <2> SUFFICES ASSUME NEW x \in Items PROVE HomesSum(x)' = In(table, x)'
    BY <2>2, HomeThen
  <2>3. NbQueued(x)' = NbQueued(x)
    BY <1>2 DEF SendEviction, NbQueued, Queued
  <2>4. \A t \in Threads : Carries(t, x)' = Carries(t, x)
    BY <1>2, <1>t, <2>1 DEF SendEviction, At, Goto, Carries
  <2>5. In(ecWait, x)' = 0 /\ In(evicted, x)' = In(ecWait, x) /\ In(evicted, x) = 0
    BY <1>2, <2>2 DEF SendEviction, In
  <2>6. UNCHANGED <<table, offloaded, unoffloaded>>
    BY <1>2 DEF SendEviction
  <2> QED BY <2>3, <2>4, <2>5, <2>6, HomeNow DEF HomesSum, In
<1>3. ASSUME NEW it \in Items, EvictItem(th, it) PROVE Kept
  <2>1. /\ th = "optim" /\ pc[th] = "ev_apply" /\ it \in evicted
        /\ pc' = [pc EXCEPT ![th] = "ev_insert"] /\ cur' = [cur EXCEPT ![th] = it]
        /\ evicted' = evicted \ {it}
        /\ UNCHANGED <<table, ocq, offloaded, unoffloaded, ecWait>>
    BY <1>3, <1>t DEF EvictItem, At, Goto, EvictPCs
  <2>2. EvictedInv'
    BY <1>t, <2>1 DEF EvictedInv
  <2> SUFFICES ASSUME NEW x \in Items PROVE HomesSum(x)' = In(table, x)'
    BY <2>2, HomeThen
  <2>3. NbQueued(x)' = NbQueued(x)
    BY <2>1 DEF NbQueued, Queued
  <2>4. /\ Carries("optim", x)' = Carries("optim", x) + (IF x = it THEN 1 ELSE 0)
        /\ Carries("heat", x)' = Carries("heat", x)
    BY <1>t, <2>1 DEF Carries
  <2>5. In(evicted, x)' = In(evicted, x) - (IF x = it THEN 1 ELSE 0)
    BY <2>1 DEF In
  <2>6. In(table, x)' = In(table, x) /\ In(ecWait, x)' = In(ecWait, x)
    BY <2>1 DEF In
  <2> QED BY <2>1, <2>3, <2>4, <2>5, <2>6, HomeNow DEF HomesSum
<1>9. ASSUME InsertUnoffloaded(th) PROVE Kept
  <2>1. EvictedInv'
    BY <1>9, <1>h, <1>t DEF InsertUnoffloaded, At, Goto, EvictedInv
  <2> SUFFICES ASSUME NEW x \in Items PROVE HomesSum(x)' = In(table, x)'
    BY <2>1, HomeThen
  <2>2. /\ pc[th] = "ev_insert" /\ pc' = [pc EXCEPT ![th] = "ev_free"] /\ cur' = cur
        /\ unoffloaded' = [unoffloaded EXCEPT ![cur[th]] = @ + 1]
        /\ UNCHANGED <<table, ocq, offloaded, ecWait, evicted>>
    BY <1>9 DEF InsertUnoffloaded, At, Goto
  <2>3. NbQueued(x)' = NbQueued(x)
    BY <2>2 DEF NbQueued, Queued
  <2>4. \A t \in Threads : Carries(t, x)' = Carries(t, x)
                                          - (IF t = th /\ x = cur[th] THEN 1 ELSE 0)
    BY <1>t, <2>2 DEF Carries
  <2>5. Carries("heat", x)' + Carries("optim", x)'
        = Carries("heat", x) + Carries("optim", x) - (IF x = cur[th] THEN 1 ELSE 0)
    BY <2>4, HomeNow
  <2>6. unoffloaded'[x] = unoffloaded[x] + (IF x = cur[th] THEN 1 ELSE 0)
    BY <1>t, <2>2
  <2>7. /\ In(table, x)' = In(table, x) /\ In(ecWait, x)' = In(ecWait, x)
        /\ In(evicted, x)' = In(evicted, x) /\ offloaded'[x] = offloaded[x]
    BY <2>2 DEF In
  <2> QED BY <2>3, <2>5, <2>6, <2>7, HomeNow DEF HomesSum
<1>10. ASSUME FreeBlocks(th) \/ EvictCheck(th) PROVE Kept
  <2>1. EvictedInv'
    BY <1>10, <1>h, <1>t DEF FreeBlocks, EvictCheck, Halt, At, Goto, EvictedInv, threadVars
  <2>2. \A x \in Items : \A t \in Threads : Carries(t, x)' = Carries(t, x)
    BY <1>10, <1>t DEF FreeBlocks, EvictCheck, Halt, At, Goto, Carries, threadVars
  <2> QED BY <1>10, <2>1, <2>2, HomeFrame DEF FreeBlocks, EvictCheck, Halt
<1>4. ASSUME EvictDone(th) PROVE Kept
  <2>1. th = "optim"
    BY <1>4, <1>t DEF EvictDone, At, EvictPCs
  <2>2. EvictedInv'
    BY <1>4 DEF EvictDone, EvictedInv
  <2>3. \A x \in Items : \A t \in Threads : Carries(t, x)' = Carries(t, x)
    BY <1>4, <1>t, <2>1 DEF EvictDone, At, Goto, AfterEvict, Carries
  <2> QED BY <1>4, <2>2, <2>3, HomeFrame DEF EvictDone
<1>5. ASSUME Dequeue(th) PROVE Kept
  <2>1. EvictedInv'
    BY <1>5, <1>h, <1>t DEF Dequeue, At, Goto, EvictedInv
  <2>2. CASE ocq = << >>
    <3>1. UNCHANGED <<ocq, cur>> /\ pc' = [pc EXCEPT ![th] = AfterOffload(th)] /\ pc[th] = "ol_deq"
      BY <1>5, <2>2 DEF Dequeue, At, Goto
    <3>2. AfterOffload(th) \notin Carrying
      BY DEF AfterOffload
    <3>3. \A x \in Items : \A t \in Threads : Carries(t, x)' = Carries(t, x)
      BY <1>t, <3>1, <3>2 DEF Carries
    <3> QED BY <1>5, <2>1, <3>1, <3>3, HomeFrame DEF Dequeue
  <2>3. CASE ocq # << >>
    <3> SUFFICES ASSUME NEW x \in Items PROVE HomesSum(x)' = In(table, x)'
      BY <2>1, HomeThen
    <3>1. /\ ocq' = Tail(ocq) /\ cur' = [cur EXCEPT ![th] = Head(ocq)]
          /\ pc' = [pc EXCEPT ![th] = "ol_send"] /\ pc[th] = "ol_deq"
          /\ UNCHANGED <<table, offloaded, unoffloaded, ecWait, evicted>>
      BY <1>5, <2>3 DEF Dequeue, At, Goto
    <3>2. NbQueued(x)' = NbQueued(x) - (IF x = Head(ocq) THEN 1 ELSE 0)
      BY <1>t, <2>3, <3>1, QueueTake
    <3>3. \A t \in Threads : Carries(t, x)' = Carries(t, x)
                                            + (IF t = th /\ x = Head(ocq) THEN 1 ELSE 0)
      BY <1>t, <3>1 DEF Carries
    <3>4. Carries("heat", x)' + Carries("optim", x)'
          = Carries("heat", x) + Carries("optim", x) + (IF x = Head(ocq) THEN 1 ELSE 0)
      BY <3>3, HomeNow
    <3> QED BY <3>1, <3>2, <3>4, HomeNow DEF HomesSum, In
  <2> QED BY <2>2, <2>3
<1>6. ASSUME SendOffload(th) PROVE Kept
  <2>1. EvictedInv'
    BY <1>6, <1>h, <1>t DEF SendOffload, At, Goto, EvictedInv
  <2>2. \A x \in Items : \A t \in Threads : Carries(t, x)' = Carries(t, x)
    BY <1>6, <1>t DEF SendOffload, At, Goto, Carries
  <2> QED BY <1>6, <2>1, <2>2, HomeFrame DEF SendOffload
<1>7. ASSUME InsertOffloaded(th) PROVE Kept
  <2>1. EvictedInv'
    BY <1>7, <1>h, <1>t DEF InsertOffloaded, At, Goto, EvictedInv
  <2> SUFFICES ASSUME NEW x \in Items PROVE HomesSum(x)' = In(table, x)'
    BY <2>1, HomeThen
  <2>2. /\ pc[th] = "ol_insert" /\ pc' = [pc EXCEPT ![th] = "ol_consume"] /\ cur' = cur
        /\ offloaded' = [offloaded EXCEPT ![cur[th]] = @ + 1]
        /\ UNCHANGED <<table, ocq, unoffloaded, ecWait, evicted>>
    BY <1>7 DEF InsertOffloaded, At, Goto
  <2>3. NbQueued(x)' = NbQueued(x)
    BY <2>2 DEF NbQueued, Queued
  <2>4. \A t \in Threads : Carries(t, x)' = Carries(t, x)
                                          - (IF t = th /\ x = cur[th] THEN 1 ELSE 0)
    BY <1>t, <2>2 DEF Carries
  <2>5. Carries("heat", x)' + Carries("optim", x)'
        = Carries("heat", x) + Carries("optim", x) - (IF x = cur[th] THEN 1 ELSE 0)
    BY <2>4, HomeNow
  <2>6. offloaded'[x] = offloaded[x] + (IF x = cur[th] THEN 1 ELSE 0)
    BY <1>t, <2>2
  <2> QED BY <2>2, <2>3, <2>5, <2>6, HomeNow DEF HomesSum, In
<1>8. ASSUME ConsumeBlocks(th) PROVE Kept
  <2>1. EvictedInv'
    BY <1>8, <1>h, <1>t DEF ConsumeBlocks, Halt, At, Goto, EvictedInv, threadVars
  <2>2. \A x \in Items : \A t \in Threads : Carries(t, x)' = Carries(t, x)
    BY <1>8, <1>t DEF ConsumeBlocks, Halt, At, Goto, Carries, threadVars
  <2> QED BY <1>8, <2>1, <2>2, HomeFrame DEF ConsumeBlocks, Halt
<1>11. ASSUME ShowItem(th) PROVE Kept
  <2>1. EvictedInv'
    BY <1>11, <1>h, <1>t DEF ShowItem, At, Goto, EvictedInv
  <2>2. \A x \in Items : \A t \in Threads : Carries(t, x)' = Carries(t, x)
    BY <1>11, <1>t DEF ShowItem, At, Goto, Carries
  <2> QED BY <1>11, <2>1, <2>2, HomeFrame DEF ShowItem
<1> QED
  BY <1>1, <1>2, <1>3, <1>4, <1>5, <1>6, <1>7, <1>8, <1>9, <1>10, <1>11
     DEF EvictItems, OffloadItems

(* HeatDataplane puts an object it has just created in its first place. *)
LEMMA HeatKeepsHomes ==
  ASSUME PlaceInv, ~OffloadingEvictionTest, HeatDataplane \/ TestThread
  PROVE  OneHome' /\ EvictedInv'
<1> DEFINE Kept == OneHome' /\ EvictedInv'
<1> SUFFICES Kept
  OBVIOUS
<1>h. TypeInv /\ EvictedInv /\ OneHome
  BY DEF PlaceInv
<1>t. /\ pc \in [Threads -> HeatPCs \cup OptimPCs \cup EvictPCs \cup OffloadPCs]
      /\ cur \in [Threads -> Items \cup {NoItem}] /\ table \subseteq Items
      /\ offloaded \in [Items -> Nat] /\ unoffloaded \in [Items -> Nat] /\ ocq \in Seq(Items)
      /\ pc["heat"] \notin TestPCs
      /\ pc["heat"] \in Placing => cur["heat"] \in Items
  BY <1>h DEF TypeInv, TypeOK, ThreadTypes, CacheTypes, LabelInv
<1> USE DEF cacheVars, Threads, Carrying, Placing
<1>1. ASSUME NEW it \in Items, HeatPut(it) PROVE Kept
  <2>1. EvictedInv'
    BY <1>1, <1>h, <1>t DEF HeatPut, At, Goto, EvictedInv
  <2> SUFFICES ASSUME NEW x \in Items PROVE HomesSum(x)' = In(table, x)'
    BY <2>1, HomeThen
  <2>2. /\ pc["heat"] = "next" /\ pc' = [pc EXCEPT !["heat"] = "place"]
        /\ cur' = [cur EXCEPT !["heat"] = it]
        /\ it \notin table /\ table' = table \cup {it}
        /\ UNCHANGED <<ocq, offloaded, unoffloaded, ecWait, evicted>>
    BY <1>1 DEF HeatPut, At, Goto
  <2>3. NbQueued(x)' = NbQueued(x)
    BY <2>2 DEF NbQueued, Queued
  <2>4. /\ Carries("heat", x) = 0 /\ Carries("heat", x)' = (IF x = it THEN 1 ELSE 0)
        /\ Carries("optim", x)' = Carries("optim", x)
    BY <1>t, <2>2 DEF Carries
  <2>5. In(table, x)' = In(table, x) + (IF x = it THEN 1 ELSE 0)
    BY <2>2 DEF In
  <2>6. In(ecWait, x)' = In(ecWait, x) /\ In(evicted, x)' = In(evicted, x)
    BY <2>2 DEF In
  <2> QED BY <2>2, <2>3, <2>4, <2>5, <2>6, HomeNow DEF HomesSum
<1>2. ASSUME HeatPlace \/ HeatKeep PROVE Kept
  <2>1. EvictedInv'
    BY <1>2, <1>h, <1>t DEF HeatPlace, HeatKeep, At, Goto, EvictedInv
  <2>2. \A x \in Items : \A t \in Threads : Carries(t, x)' = Carries(t, x)
    BY <1>2, <1>t DEF HeatPlace, HeatKeep, At, Goto, Carries
  <2> QED BY <1>2, <2>1, <2>2, HomeFrame DEF HeatPlace, HeatKeep
<1>5. ASSUME HeatEnqueue \/ HeatInsert PROVE Kept
  <2> DEFINE it == cur["heat"]
  <2>1. /\ pc["heat"] \in {"h_enq", "h_insert"} /\ pc' = [pc EXCEPT !["heat"] = "ol_deq"]
        /\ cur' = [cur EXCEPT !["heat"] = NoItem]
        /\ UNCHANGED <<table, offloaded, ecWait, evicted>>
        /\ \/ ocq' = Append(ocq, it) /\ UNCHANGED unoffloaded
           \/ unoffloaded' = [unoffloaded EXCEPT ![it] = @ + 1] /\ UNCHANGED ocq
    BY <1>5 DEF HeatEnqueue, HeatInsert, HeatPlaced, At, Goto
  <2>2. EvictedInv'
    BY <1>h, <1>t, <2>1 DEF EvictedInv
  <2> SUFFICES ASSUME NEW x \in Items PROVE HomesSum(x)' = In(table, x)'
    BY <2>2, HomeThen
  <2> DEFINE one == IF x = it THEN 1 ELSE 0
  <2>3. it \in Items
    BY <1>t, <2>1
  <2>4. /\ Carries("heat", x) = one /\ Carries("heat", x)' = 0
        /\ Carries("optim", x)' = Carries("optim", x)
    BY <1>t, <2>1 DEF Carries
  <2>5. UNCHANGED ocq => NbQueued(x)' = NbQueued(x)
    BY DEF NbQueued, Queued
  <2>6. ocq' = Append(ocq, it) => NbQueued(x)' = NbQueued(x) + one
    BY <1>t, <2>3, QueuePut
  <2>a. one \in {0, 1} /\ NbQueued(x) \in Nat /\ unoffloaded[x] \in Nat
    BY HomeNow
  <2>b. unoffloaded' = [unoffloaded EXCEPT ![it] = @ + 1] => unoffloaded'[x] = unoffloaded[x] + one
    BY <1>t, <2>3, <2>a
  <2> HIDE DEF it, one
  <2>7. \/ NbQueued(x)' = NbQueued(x) + one /\ unoffloaded'[x] = unoffloaded[x]
        \/ NbQueued(x)' = NbQueued(x) /\ unoffloaded'[x] = unoffloaded[x] + one
    BY <2>1, <2>5, <2>6, <2>b
  <2>9. /\ In(table, x)' = In(table, x) /\ In(ecWait, x)' = In(ecWait, x)
        /\ In(evicted, x)' = In(evicted, x) /\ offloaded'[x] = offloaded[x]
    BY <2>1 DEF In
  <2> QED BY <2>4, <2>7, <2>9, <2>a, HomeNow DEF HomesSum
<1>3. ASSUME HeatDone PROVE Kept
  <2>1. EvictedInv'
    BY <1>3, <1>h, <1>t DEF HeatDone, At, Goto, EvictedInv
  <2>2. \A x \in Items : \A t \in Threads : Carries(t, x)' = Carries(t, x)
    BY <1>3, <1>t DEF HeatDone, At, Goto, Carries
  <2> QED BY <1>3, <2>1, <2>2, HomeFrame DEF HeatDone
<1>4. ~TestThread
  BY <1>t DEF TestThread, TestBegin, TestEvict, TestEnqueue, TestCheck, TestDone, At,
     TestPCs
<1> QED BY <1>1, <1>2, <1>3, <1>4, <1>5 DEF HeatDataplane

(* OptimCache moves candidates from the caches to the queue and the tree. *)
LEMMA OptimKeepsHomes ==
  ASSUME PlaceInv, ~OffloadingEvictionTest, WakeUp \/ OptimCache
  PROVE  OneHome' /\ EvictedInv'
<1> DEFINE Kept == OneHome' /\ EvictedInv'
<1> SUFFICES Kept
  OBVIOUS
<1>h. TypeInv /\ EvictedInv /\ OneHome
  BY DEF PlaceInv
<1>t. /\ pc \in [Threads -> HeatPCs \cup OptimPCs \cup EvictPCs \cup OffloadPCs]
      /\ cur \in [Threads -> Items \cup {NoItem}]
      /\ offloaded \in [Items -> Nat] /\ unoffloaded \in [Items -> Nat] /\ ocq \in Seq(Items)
      /\ pc["optim"] \in {"oc_state", "oc_enq"} => cur["optim"] \in Items
      /\ pc["optim"] \in Holding => cur["optim"] \in Items /\ offloaded[cur["optim"]] > 0
  BY <1>h DEF TypeInv, TypeOK, ThreadTypes, CacheTypes, LabelInv
<1> USE DEF cacheVars, Threads, Carrying, Holding
<1>1. ASSUME CallGetOc PROVE Kept
  <2>1. CASE UNCHANGED <<cacheVars, pc, cur>>
    <3>1. \A x \in Items : \A t \in Threads : Carries(t, x)' = Carries(t, x)
      BY <2>1 DEF Carries
    <3> QED BY <1>h, <2>1, <3>1, HomeFrame DEF EvictedInv
  <2>2. ASSUME NEW oc \in Items, unoffloaded[oc] > 0, pc["optim"] = "choose",
               unoffloaded' = [unoffloaded EXCEPT ![oc] = @ - 1],
               pc' = [pc EXCEPT !["optim"] = "oc_state"], cur' = [cur EXCEPT !["optim"] = oc],
               UNCHANGED <<table, ocq, offloaded, ecWait, evicted>>
        PROVE  Kept
    <3>1. EvictedInv'
      BY <1>h, <1>t, <2>2 DEF EvictedInv
    <3> SUFFICES ASSUME NEW x \in Items PROVE HomesSum(x)' = In(table, x)'
      BY <3>1, HomeThen
    <3>2. NbQueued(x)' = NbQueued(x)
      BY <2>2 DEF NbQueued, Queued
    <3>3. unoffloaded'[x] = unoffloaded[x] - (IF x = oc THEN 1 ELSE 0)
      BY <1>t, <2>2
    <3>4. /\ In(table, x)' = In(table, x) /\ In(ecWait, x)' = In(ecWait, x)
          /\ In(evicted, x)' = In(evicted, x) /\ offloaded'[x] = offloaded[x]
      BY <2>2 DEF In
    <3>5. /\ Carries("heat", x)' = Carries("heat", x)
          /\ Carries("optim", x)' = Carries("optim", x) + (IF x = oc THEN 1 ELSE 0)
      BY <1>t, <2>2 DEF Carries
    <3> QED BY <3>2, <3>3, <3>4, <3>5, HomeNow DEF HomesSum
  <2> QED BY <1>1, <2>1, <2>2 DEF CallGetOc, Halt, At, Goto, threadVars
<1>4. ASSUME MarkOc \/ MarkEc PROVE Kept
  <2>1. EvictedInv'
    BY <1>4, <1>h, <1>t DEF MarkOc, MarkEc, At, Goto, EvictedInv
  <2>2. \A x \in Items : \A t \in Threads : Carries(t, x)' = Carries(t, x)
    BY <1>4, <1>t DEF MarkOc, MarkEc, At, Goto, Carries
  <2> QED BY <1>4, <2>1, <2>2, HomeFrame DEF MarkOc, MarkEc
<1>5. ASSUME EnqueueOc PROVE Kept
  <2> DEFINE oc == cur["optim"]
  <2>1. /\ pc["optim"] = "oc_enq" /\ pc' = [pc EXCEPT !["optim"] = "choose"]
        /\ cur' = [cur EXCEPT !["optim"] = NoItem] /\ ocq' = Append(ocq, oc)
        /\ UNCHANGED <<table, offloaded, unoffloaded, ecWait, evicted>>
    BY <1>5 DEF EnqueueOc, At, Goto
  <2>2. EvictedInv' /\ oc \in Items
    BY <1>h, <1>t, <2>1 DEF EvictedInv
  <2> SUFFICES ASSUME NEW x \in Items PROVE HomesSum(x)' = In(table, x)'
    BY <2>2, HomeThen
  <2>3. NbQueued(x)' = NbQueued(x) + (IF x = oc THEN 1 ELSE 0)
    BY <1>t, <2>1, <2>2, QueuePut
  <2>4. /\ Carries("heat", x)' = Carries("heat", x)
        /\ Carries("optim", x)' = Carries("optim", x) - (IF x = oc THEN 1 ELSE 0)
    BY <1>t, <2>1 DEF Carries
  <2>5. /\ In(table, x)' = In(table, x) /\ In(ecWait, x)' = In(ecWait, x)
        /\ In(evicted, x)' = In(evicted, x)
        /\ offloaded'[x] = offloaded[x] /\ unoffloaded'[x] = unoffloaded[x]
    BY <2>1 DEF In
  <2> QED BY <2>3, <2>4, <2>5, HomeNow DEF HomesSum
<1>2. ASSUME TakeEc PROVE Kept
  <2> DEFINE ec == cur["optim"]
  <2>1. /\ pc["optim"] = "ec_test" /\ pc' = [pc EXCEPT !["optim"] = "ec_pick"]
        /\ cur' = [cur EXCEPT !["optim"] = NoItem]
        /\ offloaded' = [offloaded EXCEPT ![ec] = @ - 1] /\ ecWait' = ecWait \cup {ec}
        /\ UNCHANGED <<table, ocq, unoffloaded, evicted>>
    BY <1>2 DEF TakeEc, At, Goto
  <2>2. EvictedInv'
    BY <1>h, <2>1 DEF EvictedInv
  <2>3. ec \in Items /\ offloaded[ec] > 0
    BY <1>t, <2>1
  <2>4. ec \notin ecWait
    <3>0. /\ HomesSum(ec) = In(table, ec) /\ In(table, ec) \in {0, 1}
          /\ NbQueued(ec) \in Nat /\ offloaded[ec] \in Nat /\ unoffloaded[ec] \in Nat
          /\ Carries("heat", ec) \in {0, 1} /\ Carries("optim", ec) \in {0, 1}
          /\ In(ecWait, ec) \in {0, 1} /\ In(evicted, ec) \in {0, 1}
      BY <2>3, HomeNow
    <3>1. In(ecWait, ec) = 0
      <4> HIDE DEF ec
      <4> QED BY <2>3, <3>0 DEF HomesSum
    <3> QED BY <3>1 DEF In
  <2> SUFFICES ASSUME NEW x \in Items PROVE HomesSum(x)' = In(table, x)'
    BY <2>2, HomeThen
  <2>5. NbQueued(x)' = NbQueued(x)
    BY <2>1 DEF NbQueued, Queued
  <2>6. \A t \in Threads : Carries(t, x)' = Carries(t, x)
    BY <1>t, <2>1 DEF Carries
  <2>7. /\ offloaded'[x] = offloaded[x] - (IF x = ec THEN 1 ELSE 0)
        /\ In(ecWait, x)' = In(ecWait, x) + (IF x = ec THEN 1 ELSE 0)
    BY <1>t, <2>1, <2>3, <2>4 DEF In
  <2>8. /\ In(table, x)' = In(table, x) /\ In(evicted, x)' = In(evicted, x)
        /\ unoffloaded'[x] = unoffloaded[x]
    BY <2>1 DEF In
  <2> QED BY <2>5, <2>6, <2>7, <2>8, HomeNow DEF HomesSum
<1>3. ASSUME \/ WakeUp \/ ComputeRequired \/ CallGetEc \/ (\E ec \in Items : SampleEc(ec))
             \/ ReadRefcount \/ BackOff \/ EnoughBlocks \/ RoundDone
      PROVE  Kept
  <2>1. /\ UNCHANGED cacheVars
        /\ pc["optim"] \in OptimPCs \ Carrying
        /\ \E label \in (OptimPCs \ Carrying) \cup {"ev_enter"} : pc' = [pc EXCEPT !["optim"] = label]
        /\ cur'["heat"] = cur["heat"]
    <3>1. pc["optim"] \in OptimPCs \ Carrying /\ UNCHANGED cacheVars
      BY <1>3 DEF WakeUp, ComputeRequired, CallGetEc, SampleEc, MarkEc, ReadRefcount, BackOff,
         EnoughBlocks, RoundDone, At, Halt, OptimPCs
    <3>2. cur'["heat"] = cur["heat"]
      BY <1>3, <1>t DEF WakeUp, ComputeRequired, CallGetEc, SampleEc, MarkEc, ReadRefcount, BackOff,
         EnoughBlocks, RoundDone, Halt, threadVars
    <3>3. \/ \E label \in (OptimPCs \ Carrying) \cup {"ev_enter"} : pc' = [pc EXCEPT !["optim"] = label]
          \/ pc' = pc
      BY <1>3 DEF WakeUp, ComputeRequired, CallGetEc, SampleEc, MarkEc, ReadRefcount, BackOff,
         EnoughBlocks, RoundDone, Goto, Halt, threadVars, OptimPCs
    <3>4. pc' = pc => pc' = [pc EXCEPT !["optim"] = pc["optim"]]
      BY <1>t
    <3> QED BY <3>1, <3>2, <3>3, <3>4
  <2>2. EvictedInv'
    BY <1>h, <1>t, <2>1 DEF EvictedInv, OptimPCs
  <2>3. \A x \in Items : \A t \in Threads : Carries(t, x)' = Carries(t, x)
    BY <1>t, <2>1 DEF Carries, OptimPCs
  <2> QED BY <2>1, <2>2, <2>3, HomeFrame
<1> QED BY <1>1, <1>2, <1>3, <1>4, <1>5 DEF OptimCache, GetEc, GetOc

(* Server threads move nothing. *)
LEMMA ServerMovesNothing ==
  ASSUME NEW r \in Requests, ServerStep(r) \/ ServerCall(r)
  PROVE  UNCHANGED <<state, cacheVars, blockVars, threadVars>>
  BY DEF ServerStep, ServerCall, GetLookup, AccessItem, IncrRefcount, IncrCheck, FreeLookup,
     FreeItem, DecrRefcount, DecrCheck, FreeWrongHv, Halt, itemVars

(* No step leaves an object without a home or gives it a second one. *)
LEMMA PlaceStep == ~OffloadingEvictionTest /\ PlaceInv /\ [Next]_vars => PlaceInv'
<1> SUFFICES ASSUME ~OffloadingEvictionTest, PlaceInv, [Next]_vars PROVE PlaceInv'
  OBVIOUS
<1>1. TypeInv'
  BY TypeStep DEF PlaceInv
<1>2. ASSUME UNCHANGED <<cacheVars, pc, cur>> PROVE OneHome' /\ EvictedInv'
  <2>1. \A x \in Items : \A t \in Threads : Carries(t, x)' = Carries(t, x)
    BY <1>2 DEF Carries
  <2> QED BY <1>2, <2>1, HomeFrame DEF cacheVars, PlaceInv, EvictedInv
<1>3. ASSUME NEW r \in Requests, ServerStep(r) \/ ServerCall(r) PROVE OneHome' /\ EvictedInv'
  BY <1>2, <1>3, ServerMovesNothing DEF threadVars
<1>4. ASSUME UNCHANGED vars PROVE OneHome' /\ EvictedInv'
  BY <1>2, <1>4 DEF vars, threadVars
<1>5. OneHome' /\ EvictedInv'
  BY <1>3, <1>4, TransferKeepsHomes, HeatKeepsHomes, OptimKeepsHomes
     DEF Next, HeatStep, OptimStep, Threads
<1> QED BY <1>1, <1>5 DEF PlaceInv

(* Nothing is anywhere when the threads start. *)
LEMMA PlaceInit == Init => PlaceInv
<1> SUFFICES ASSUME Init PROVE PlaceInv
  OBVIOUS
<1>1. TypeInv
  BY TypeInit
<1>2. \A x \in Items : HomesSum(x) = 0
  <2> TAKE x \in Items
  <2>1. Queued(x) = {}
    BY DEF Init, Queued
  <2>2. NbQueued(x) = 0
    BY <2>1, FS_EmptySet DEF NbQueued
  <2> QED BY <2>2 DEF Init, HomesSum, Carries, In, Threads, Carrying
<1>3. OneHome
  BY <1>2, HomesAre DEF OneHome, Init
<1> QED BY <1>1, <1>3 DEF Init, PlaceInv, EvictedInv

(* Every object that was heated is in exactly one place - the queue, a     *)
(* thread's hands, one of the two caches, the wait tree or the evictions   *)
(* that were answered - with or without optimisation, for any objects and  *)
(* numbers of blocks.                                                      *)
THEOREM ObjectsHaveOneHome == ~OffloadingEvictionTest /\ Spec => []OneHome
<1> SUFFICES ASSUME ~OffloadingEvictionTest PROVE Spec => []OneHome
  OBVIOUS
<1>1. PlaceInv /\ [Next]_vars => PlaceInv'
  BY PlaceStep
<1>2. PlaceInv => OneHome
  BY DEF PlaceInv
<1> QED BY <1>1, <1>2, PlaceInit, PTL DEF Spec

(* An object in a thread's hands, or whose eviction was answered, is       *)
(* nowhere else.                                                           *)
LEMMA OnePlace ==
  ASSUME PlaceInv, NEW x \in Items
  PROVE  /\ \A th \in Threads : cur[th] = x /\ pc[th] \in Carrying =>
              offloaded[x] = 0 /\ unoffloaded[x] = 0 /\ x \notin ecWait \cup evicted
         /\ x \in evicted => offloaded[x] = 0 /\ x \notin ecWait
         /\ unoffloaded[x] > 0 => offloaded[x] = 0 /\ x \notin ecWait \cup evicted
         /\ ~ \A th \in Threads : cur[th] = x /\ pc[th] \in Carrying
<1>1. /\ HomesSum(x) = In(table, x) /\ In(table, x) \in {0, 1}
      /\ NbQueued(x) \in Nat /\ offloaded[x] \in Nat /\ unoffloaded[x] \in Nat
      /\ Carries("heat", x) \in {0, 1} /\ Carries("optim", x) \in {0, 1}
      /\ In(ecWait, x) \in {0, 1} /\ In(evicted, x) \in {0, 1}
  BY HomeNow
<1>2. \/ Carries("heat", x) = 1 \/ Carries("optim", x) = 1
      => offloaded[x] = 0 /\ unoffloaded[x] = 0 /\ In(ecWait, x) = 0 /\ In(evicted, x) = 0
  BY <1>1 DEF HomesSum
<1>3. In(evicted, x) = 1 => offloaded[x] = 0 /\ In(ecWait, x) = 0
  BY <1>1 DEF HomesSum
<1>4. unoffloaded[x] > 0 => offloaded[x] = 0 /\ In(ecWait, x) = 0 /\ In(evicted, x) = 0
  BY <1>1 DEF HomesSum
<1>5. Carries("heat", x) + Carries("optim", x) <= 1
  BY <1>1 DEF HomesSum
<1> QED BY <1>2, <1>3, <1>4, <1>5 DEF Carries, In, Threads
-----------------------------------------------------------------------------
(* An object on its way out is out of service, from get_ec's choice on; an *)
(* object about to be shown to the server threads has been sent.           *)
OutInv ==
  /\ \A it \in ecWait : state[it] # "NIC"
  /\ pc["optim"] \in {"ec_read", "ec_test"} => state[cur["optim"]] # "NIC"
  /\ \A th \in Threads : pc[th] = "ol_state" => cur[th] \in nic

ServiceInv == PlaceInv /\ VisibleImpliesResident /\ OutInv

(* Steps that change neither the state, the places of objects on their way *)
(* out nor what the data plane holds.                                      *)
LEMMA ServiceFrame ==
  ASSUME ServiceInv, UNCHANGED <<state, nic, ecWait>>,
         \A th \in Threads : pc'[th] \in {"ec_read", "ec_test", "ol_state"} =>
                             pc'[th] = pc[th] /\ cur'[th] = cur[th]
  PROVE  VisibleImpliesResident' /\ OutInv'
<1>1. VisibleImpliesResident'
  BY DEF ServiceInv, VisibleImpliesResident
<1>2. OutInv'
  BY DEF ServiceInv, OutInv, Threads
<1> QED BY <1>1, <1>2

(* An object becomes visible after it is resident and ceases to be before. *)
LEMMA TransferKeepsService ==
  ASSUME ServiceInv, NEW th \in Threads, EvictItems(th) \/ OffloadItems(th)
  PROVE  VisibleImpliesResident' /\ OutInv'
<1> DEFINE Kept == VisibleImpliesResident' /\ OutInv'
<1> SUFFICES Kept
  OBVIOUS
<1>t. /\ pc \in [Threads -> HeatPCs \cup OptimPCs \cup EvictPCs \cup OffloadPCs]
      /\ cur \in [Threads -> Items \cup {NoItem}] /\ state \in [Items -> ItemStates]
      /\ ecWait \subseteq Items
      /\ pc[th] \in InHands => cur[th] \in Items
      /\ pc["optim"] \in Holding => cur["optim"] \in Items /\ offloaded[cur["optim"]] > 0
  BY DEF ServiceInv, PlaceInv, TypeInv, TypeOK, ThreadTypes, CacheTypes, ItemTypes, LabelInv
<1>v. VisibleImpliesResident /\ OutInv /\ PlaceInv
  BY DEF ServiceInv
<1> USE DEF cacheVars, blockVars, itemVars, Threads, InHands, Holding
<1>1. ASSUME \/ EvictEnter(th) \/ InsertUnoffloaded(th) \/ FreeBlocks(th) \/ EvictCheck(th)
             \/ EvictDone(th) \/ InsertOffloaded(th) \/ ConsumeBlocks(th) \/ Dequeue(th)
      PROVE  Kept
  <2>1. /\ UNCHANGED <<state, nic, ecWait>> /\ pc[th] \notin {"ec_read", "ec_test", "ol_state"}
        /\ \A t \in Threads : t # th => cur'[t] = cur[t]
        /\ \/ pc' = pc
           \/ \E label \in {"ev_wait", "ev_free", "ev_check", "ev_apply", "ol_deq", "ol_send",
                             "ol_consume", "t_enq", "t_check", "t_loop", "next", "dec"} :
                pc' = [pc EXCEPT ![th] = label]
    <3>1. UNCHANGED <<state, nic, ecWait>> /\ pc[th] \notin {"ec_read", "ec_test", "ol_state"}
      BY <1>1 DEF EvictEnter, InsertUnoffloaded, FreeBlocks, EvictCheck, EvictDone,
         InsertOffloaded, ConsumeBlocks, Dequeue, Halt, At
    <3>2. \A t \in Threads : t # th => cur'[t] = cur[t]
      BY <1>1, <1>t DEF EvictEnter, InsertUnoffloaded, FreeBlocks, EvictCheck, EvictDone,
         InsertOffloaded, ConsumeBlocks, Dequeue, Halt, threadVars
    <3>3. \/ pc' = pc
          \/ \E label \in {"ev_wait", "ev_free", "ev_check", "ev_apply", "ol_deq", "ol_send",
                            "ol_consume", "t_enq", "t_check", "t_loop", "next", "dec"} :
               pc' = [pc EXCEPT ![th] = label]
      BY <1>1 DEF EvictEnter, InsertUnoffloaded, FreeBlocks, EvictCheck, EvictDone,
         InsertOffloaded, ConsumeBlocks, Dequeue, Halt, Goto, AfterEvict, AfterOffload, threadVars
    <3> QED BY <3>1, <3>2, <3>3
  <2>2. \A t \in Threads : pc'[t] \in {"ec_read", "ec_test", "ol_state"} =>
                           pc'[t] = pc[t] /\ cur'[t] = cur[t]
    BY <1>t, <2>1
  <2> QED BY <2>1, <2>2, ServiceFrame
<1>2. ASSUME SendEviction(th) PROVE Kept
  <2>1. /\ pc[th] = "ev_wait" /\ pc' = [pc EXCEPT ![th] = "ev_apply"]
        /\ nic' = nic \ ecWait /\ ecWait' = {} /\ UNCHANGED <<state, cur>>
    BY <1>2 DEF SendEviction, At, Goto
  <2>2. VisibleImpliesResident'
    BY <1>v, <2>1 DEF VisibleImpliesResident, OutInv
  <2>3. \A t \in Threads : pc'[t] = "ol_state" => cur'[t] \in nic'
    <3> TAKE t \in Threads
    <3> HAVE pc'[t] = "ol_state"
    <3>1. pc[t] = "ol_state" /\ cur[t] \in nic
      BY <1>t, <1>v, <2>1 DEF OutInv
    <3>2. cur[t] \in Items
      BY <1>v, <3>1 DEF PlaceInv, TypeInv, LabelInv
    <3>3. cur[t] \notin ecWait
      BY <1>v, <3>1, <3>2, OnePlace DEF Carrying
    <3> QED BY <2>1, <3>1, <3>3
  <2> QED BY <1>t, <1>v, <2>1, <2>2, <2>3 DEF OutInv
<1>3. ASSUME NEW it \in Items, EvictItem(th, it) PROVE Kept
  <2>1. /\ UNCHANGED <<nic, ecWait>> /\ state' = [state EXCEPT ![it] = "HOST"]
        /\ pc' = [pc EXCEPT ![th] = "ev_insert"] /\ cur' = [cur EXCEPT ![th] = it]
    BY <1>3 DEF EvictItem, Goto
  <2>2. \A x \in Items : state'[x] = "NIC" => state[x] = "NIC"
    BY <1>t, <2>1
  <2>3. \A t \in Threads : pc'[t] \in {"ec_read", "ec_test", "ol_state"} =>
                           pc'[t] = pc[t] /\ cur'[t] = cur[t]
    BY <1>t, <2>1
  <2> QED BY <1>t, <1>v, <2>1, <2>2, <2>3 DEF VisibleImpliesResident, OutInv
<1>4. ASSUME SendOffload(th) PROVE Kept
  <2>1. /\ pc[th] = "ol_send" /\ pc' = [pc EXCEPT ![th] = "ol_state"]
        /\ nic' = nic \cup {cur[th]} /\ UNCHANGED <<state, ecWait, cur>>
    BY <1>4 DEF SendOffload, At, Goto
  <2>2. \A t \in Threads : pc'[t] \in {"ec_read", "ec_test", "ol_state"} =>
                           pc'[t] = pc[t] \/ t = th
    BY <1>t, <2>1
  <2>3. pc'[th] = "ol_state"
    BY <1>t, <2>1
  <2> QED BY <1>t, <1>v, <2>1, <2>2, <2>3 DEF VisibleImpliesResident, OutInv
<1>5. ASSUME ShowItem(th) PROVE Kept
  <2> DEFINE it == cur[th]
  <2>1. /\ pc[th] = "ol_state" /\ pc' = [pc EXCEPT ![th] = "ol_insert"] /\ cur' = cur
        /\ nic' = nic /\ state' = [state EXCEPT ![it] = "NIC"] /\ ecWait' = ecWait
    BY <1>5 DEF ShowItem, At, Goto
  <2>2. it \in Items /\ it \in nic
    BY <1>t, <1>v, <2>1 DEF OutInv
  <2>3. offloaded[it] = 0 /\ it \notin ecWait
    BY <1>v, <2>1, <2>2, OnePlace DEF Carrying
  <2>4. VisibleImpliesResident'
    BY <1>t, <1>v, <2>1, <2>2 DEF VisibleImpliesResident
  <2>5. \A x \in Items : x # it => state'[x] = state[x]
    BY <1>t, <2>1
  <2>6. \A x \in ecWait' : state'[x] # "NIC"
    BY <1>t, <1>v, <2>1, <2>3, <2>5 DEF OutInv
  <2>7. pc'["optim"] \in {"ec_read", "ec_test"} => state'[cur'["optim"]] # "NIC"
    <3> SUFFICES ASSUME pc'["optim"] \in {"ec_read", "ec_test"} PROVE state'[cur'["optim"]] # "NIC"
      OBVIOUS
    <3>1. pc["optim"] \in {"ec_read", "ec_test"}
      BY <1>t, <2>1
    <3>2. cur["optim"] \in Items /\ cur["optim"] # it
      BY <1>t, <2>3, <3>1
    <3> QED BY <1>v, <2>1, <2>5, <3>1, <3>2 DEF OutInv
  <2>8. \A t \in Threads : pc'[t] = "ol_state" => cur'[t] \in nic'
    BY <1>t, <1>v, <2>1 DEF OutInv
  <2> QED BY <2>4, <2>6, <2>7, <2>8 DEF OutInv
<1> QED BY <1>1, <1>2, <1>3, <1>4, <1>5 DEF EvictItems, OffloadItems

(* HeatDataplane and OptimCache make nothing visible. *)
LEMMA OthersKeepService ==
  ASSUME ServiceInv, ~OffloadingEvictionTest,
         HeatDataplane \/ TestThread \/ WakeUp \/ OptimCache
  PROVE  VisibleImpliesResident' /\ OutInv'
<1> DEFINE Kept == VisibleImpliesResident' /\ OutInv'
<1> SUFFICES Kept
  OBVIOUS
<1>t. /\ pc \in [Threads -> HeatPCs \cup OptimPCs \cup EvictPCs \cup OffloadPCs]
      /\ cur \in [Threads -> Items \cup {NoItem}] /\ state \in [Items -> ItemStates]
      /\ ecWait \subseteq Items
      /\ pc["heat"] \notin TestPCs
      /\ pc["heat"] \in Placing => cur["heat"] \in Items
      /\ pc["optim"] \in {"oc_state", "oc_enq"} => cur["optim"] \in Items
      /\ pc["optim"] \in Holding => cur["optim"] \in Items
  BY DEF ServiceInv, PlaceInv, TypeInv, TypeOK, ThreadTypes, CacheTypes, ItemTypes, LabelInv
<1>v. VisibleImpliesResident /\ OutInv
  BY DEF ServiceInv
<1> USE DEF cacheVars, blockVars, itemVars, Threads, Placing, Holding
<1>1. ASSUME HeatPlace \/ HeatEnqueue \/ HeatInsert \/ HeatDone \/ \E it \in Items : HeatPut(it)
      PROVE  Kept
  <2>1. UNCHANGED <<state, nic, ecWait>>
    BY <1>1 DEF HeatPlace, HeatEnqueue, HeatInsert, HeatDone, HeatPut
  <2>2. \A t \in Threads : pc'[t] \in {"ec_read", "ec_test", "ol_state"} =>
                           pc'[t] = pc[t] /\ cur'[t] = cur[t]
    BY <1>1, <1>t DEF HeatPlace, HeatEnqueue, HeatInsert, HeatPlaced, HeatDone, HeatPut, Goto
  <2> QED BY <2>1, <2>2, ServiceFrame
<1>2. ASSUME HeatKeep PROVE Kept
  <2>1. /\ UNCHANGED <<nic, ecWait, cur>> /\ state' = [state EXCEPT ![cur["heat"]] = "HOST"]
        /\ pc' = [pc EXCEPT !["heat"] = "h_insert"]
    BY <1>2 DEF HeatKeep, Goto
  <2>2. \A x \in Items : state'[x] = "NIC" => state[x] = "NIC"
    BY <1>t, <2>1
  <2> QED BY <1>t, <1>v, <2>1, <2>2 DEF VisibleImpliesResident, OutInv
<1>3. ~TestThread
  BY <1>t DEF TestThread, TestBegin, TestEvict, TestEnqueue, TestCheck, TestDone, At, TestPCs
<1>4. ASSUME \/ WakeUp \/ CallGetOc \/ EnqueueOc \/ ComputeRequired \/ CallGetEc
             \/ (\E ec \in Items : SampleEc(ec)) \/ ReadRefcount \/ BackOff
             \/ EnoughBlocks \/ RoundDone
      PROVE  Kept
  <2>1. UNCHANGED <<state, nic, ecWait>>
    BY <1>4 DEF WakeUp, CallGetOc, EnqueueOc, ComputeRequired, CallGetEc, SampleEc, ReadRefcount,
       BackOff, EnoughBlocks, RoundDone, Halt
  <2>2. \A t \in Threads : pc'[t] \in {"ec_read", "ec_test", "ol_state"} =>
           cur'[t] = cur[t] /\ (pc'[t] = pc[t] \/ {pc[t], pc'[t]} = {"ec_read", "ec_test"})
    BY <1>4, <1>t DEF WakeUp, CallGetOc, EnqueueOc, ComputeRequired, CallGetEc, SampleEc,
       ReadRefcount, BackOff, EnoughBlocks, RoundDone, At, Goto, Halt, threadVars
  <2> QED BY <1>v, <2>1, <2>2 DEF VisibleImpliesResident, OutInv
<1>5. ASSUME MarkOc PROVE Kept
  <2>1. /\ UNCHANGED <<nic, ecWait, cur>> /\ pc' = [pc EXCEPT !["optim"] = "oc_enq"]
        /\ state' = [state EXCEPT ![cur["optim"]] = "WAITING_FOR_OFFLOADING"]
    BY <1>5 DEF MarkOc, Goto
  <2>2. \A x \in Items : state'[x] = "NIC" => state[x] = "NIC"
    BY <1>t, <2>1
  <2> QED BY <1>t, <1>v, <2>1, <2>2 DEF VisibleImpliesResident, OutInv
<1>6. ASSUME MarkEc PROVE Kept
  <2>1. /\ UNCHANGED <<nic, ecWait, cur>> /\ state' = [state EXCEPT ![cur["optim"]] = "NOWHERE"]
        /\ pc["optim"] = "ec_mark" /\ pc' = [pc EXCEPT !["optim"] = "ec_read"]
    BY <1>6 DEF MarkEc, At, Goto
  <2>2. /\ state'[cur["optim"]] # "NIC"
        /\ \A x \in Items : state'[x] = "NIC" => state[x] = "NIC"
    BY <1>t, <2>1
  <2> QED BY <1>t, <1>v, <2>1, <2>2 DEF VisibleImpliesResident, OutInv
<1>7. ASSUME TakeEc PROVE Kept
  <2>1. /\ UNCHANGED <<nic, state>> /\ ecWait' = ecWait \cup {cur["optim"]}
        /\ pc' = [pc EXCEPT !["optim"] = "ec_pick"] /\ pc["optim"] = "ec_test"
        /\ cur' = [cur EXCEPT !["optim"] = NoItem]
    BY <1>7 DEF TakeEc, At, Goto
  <2> QED BY <1>t, <1>v, <2>1 DEF VisibleImpliesResident, OutInv
<1> QED
  BY <1>1, <1>2, <1>3, <1>4, <1>5, <1>6, <1>7 DEF HeatDataplane, OptimCache, GetEc, GetOc

(* A server thread never finds AT_NIC an object that the data plane does   *)
(* not hold, with or without optimisation.                                 *)
THEOREM VisibleIsResident == ~OffloadingEvictionTest /\ Spec => []VisibleImpliesResident
<1> SUFFICES ASSUME ~OffloadingEvictionTest PROVE Spec => []VisibleImpliesResident
  OBVIOUS
<1>1. ServiceInv /\ [Next]_vars => ServiceInv'
  <2> SUFFICES ASSUME ServiceInv, [Next]_vars PROVE ServiceInv'
    OBVIOUS
  <2>1. PlaceInv'
    BY PlaceStep DEF ServiceInv
  <2>2. ASSUME NEW r \in Requests, ServerStep(r) \/ ServerCall(r)
        PROVE  VisibleImpliesResident' /\ OutInv'
    BY <2>2, ServerMovesNothing, ServiceFrame DEF cacheVars, blockVars, threadVars
  <2>3. ASSUME UNCHANGED vars PROVE VisibleImpliesResident' /\ OutInv'
    BY <2>3, ServiceFrame DEF vars, itemVars, cacheVars, blockVars, threadVars
  <2>4. VisibleImpliesResident' /\ OutInv'
    BY <2>2, <2>3, TransferKeepsService, OthersKeepService DEF Next, HeatStep, OptimStep, Threads
  <2> QED BY <2>1, <2>4 DEF ServiceInv
<1>2. Init => ServiceInv
  <2> SUFFICES ASSUME Init PROVE ServiceInv
    OBVIOUS
  <2> QED BY PlaceInit DEF Init, ServiceInv, VisibleImpliesResident, OutInv, Threads
<1>3. ServiceInv => VisibleImpliesResident
  BY DEF ServiceInv
<1> QED BY <1>1, <1>2, <1>3, PTL DEF Spec
-----------------------------------------------------------------------------
(* The first n blocks of y, y being an object or a thread. *)
Pile(y, n) == {y} \X {k \in Blocks : k <= n}

(* An object that is in the offloaded cache or on its way out. *)
Out(it) == offloaded[it] > 0 \/ it \in ecWait \cup evicted \/ Leaving(it)

(* An eviction whose blocks are to be given back is linked at the host.    *)
FreeInv == pc["optim"] = "ev_free" => unoffloaded[cur["optim"]] > 0

BookInv == PlaceInv /\ FreeInv /\ BlockAccounting

(* A pile is as large whoever it belongs to, and its size is the number of *)
(* blocks asked for if the NIC has that many.                              *)
LEMMA PileSize ==
  ASSUME NEW n \in Nat
  PROVE  \E m \in Nat : /\ n <= TotBlocks => m = n
                        /\ \A y : IsFiniteSet(Pile(y, n)) /\ Cardinality(Pile(y, n)) = m
<1> DEFINE m == IF n <= TotBlocks THEN n ELSE TotBlocks
<1>1. m \in Nat /\ (n <= TotBlocks => m = n)
  BY BlocksAssumption
<1>2. {k \in Blocks : k <= n} = 1 .. m
  BY BlocksAssumption DEF Blocks
<1> HIDE DEF m
<1>3. IsFiniteSet(1 .. m) /\ Cardinality(1 .. m) = m
  BY <1>1, FS_Interval
<1>4. ASSUME NEW y PROVE IsFiniteSet(Pile(y, n)) /\ Cardinality(Pile(y, n)) = m
  <2>1. IsFiniteSet({y}) /\ Cardinality({y}) = 1
    BY FS_Singleton
  <2>2. /\ IsFiniteSet({y} \X (1 .. m))
        /\ Cardinality({y} \X (1 .. m)) = Cardinality({y}) * Cardinality(1 .. m)
    BY <1>3, <2>1, FS_Product
  <2>3. Pile(y, n) = {y} \X (1 .. m)
    BY <1>2 DEF Pile
  <2>4. Cardinality({y} \X (1 .. m)) = 1 * m
    BY <1>3, <2>1, <2>2
  <2>5. 1 * m = m
    BY <1>1
  <2> QED BY <2>2, <2>3, <2>4, <2>5
<1> QED BY <1>1, <1>4

(* The books are finite. *)
LEMMA BooksFinite ==
  /\ IsFiniteSet(UsedBlks) /\ IsFiniteSet(OwedBlks)
  /\ Cardinality(UsedBlks) \in Nat /\ Cardinality(OwedBlks) \in Nat
<1>1. IsFiniteSet(Blocks)
  BY BlocksAssumption, FS_Interval DEF Blocks
<1>2. IsFiniteSet(Threads)
  <2>1. IsFiniteSet({"heat"})
    BY FS_Singleton
  <2>2. IsFiniteSet({"heat"} \cup {"optim"})
    BY <2>1, FS_AddElement
  <2>3. Threads = {"heat"} \cup {"optim"}
    BY DEF Threads
  <2> QED BY <2>2, <2>3
<1>3. IsFiniteSet(Items \X Blocks) /\ IsFiniteSet(Threads \X Blocks)
  BY <1>1, <1>2, ItemsAssumption, FS_Product
<1>4. UsedBlks \subseteq Items \X Blocks /\ OwedBlks \subseteq Threads \X Blocks
  BY DEF UsedBlks, OwedBlks
<1>5. IsFiniteSet(UsedBlks) /\ IsFiniteSet(OwedBlks)
  BY <1>3, <1>4, FS_Subset
<1> QED BY <1>5, FS_CardinalityType

(* A pile added to finite books, or taken from them, changes their size by *)
(* the size of the pile.                                                   *)
LEMMA PilePut ==
  ASSUME NEW S, NEW P, IsFiniteSet(S), IsFiniteSet(P), S \cap P = {}
  PROVE  Cardinality(S \cup P) = Cardinality(S) + Cardinality(P)
<1>1. Cardinality(S \cap P) = 0
  BY FS_EmptySet
<1>2. Cardinality(S) \in Nat /\ Cardinality(P) \in Nat
  BY FS_CardinalityType
<1>3. Cardinality(S \cup P) = Cardinality(S) + Cardinality(P) - Cardinality(S \cap P)
  BY FS_Union
<1> QED BY <1>1, <1>2, <1>3

LEMMA PileTake ==
  ASSUME NEW S, NEW P, IsFiniteSet(S), P \subseteq S
  PROVE  Cardinality(S \ P) = Cardinality(S) - Cardinality(P)
<1>1. IsFiniteSet(P) /\ IsFiniteSet(S \ P)
  BY FS_Subset
<1>2. (S \ P) \cup P = S /\ (S \ P) \cap P = {}
  OBVIOUS
<1>3. Cardinality(S) = Cardinality(S \ P) + Cardinality(P)
  BY <1>1, <1>2, PilePut
<1>4. Cardinality(P) \in Nat /\ Cardinality(S \ P) \in Nat
  BY <1>1, FS_CardinalityType
<1> QED BY <1>3, <1>4

(* The books do not change when no object enters or leaves the cache and   *)
(* no thread starts or ceases to owe blocks.                               *)
LEMMA BookFrame ==
  ASSUME BlockAccounting, freeBlks' = freeBlks,
         \A it \in Items : Out(it)' <=> Out(it),
         \A th \in Threads : /\ pc'[th] = "ol_consume" <=> pc[th] = "ol_consume"
                             /\ pc[th] = "ol_consume" => cur'[th] = cur[th]
  PROVE  BlockAccounting'
<1>1. UsedBlks' = UsedBlks
  BY DEF UsedBlks, Out
<1>2. OwedBlks' = OwedBlks
  BY DEF OwedBlks
<1> QED BY <1>1, <1>2 DEF BlockAccounting

(* Inserting an object in the cache: it is in the books, and owed for.     *)
LEMMA InsertBooks ==
  ASSUME TypeInv, BlockAccounting, NEW th \in Threads, InsertOffloaded(th), ~Out(cur[th])
  PROVE  BlockAccounting'
<1> DEFINE x == cur[th]
           n == NbBlk(Size[x])
<1>t. /\ pc \in [Threads -> HeatPCs \cup OptimPCs \cup EvictPCs \cup OffloadPCs]
      /\ offloaded \in [Items -> Nat] /\ freeBlks \in Nat
      /\ pc[th] = "ol_insert" => x \in Items
  BY BlocksAssumption
     DEF TypeInv, TypeOK, ThreadTypes, CacheTypes, BlockTypes, LabelInv, InHands
<1>1. /\ pc[th] = "ol_insert" /\ pc' = [pc EXCEPT ![th] = "ol_consume"] /\ cur' = cur
      /\ offloaded' = [offloaded EXCEPT ![x] = @ + 1]
      /\ UNCHANGED <<ecWait, evicted, freeBlks>>
  BY DEF InsertOffloaded, At, Goto, blockVars
<1>2. x \in Items /\ n \in Nat
  BY <1>t, <1>1, NbBlkType
<1>3. ~Out(x)
  OBVIOUS
<1>4. UsedBlks' = UsedBlks \cup Pile(x, n) /\ UsedBlks \cap Pile(x, n) = {}
  <2>1. \A it \in Items : Out(it)' <=> Out(it) \/ it = x
    <3>1. \A it \in Items : Leaving(it)' <=> Leaving(it)
      BY <1>t, <1>1 DEF Leaving
    <3> QED BY <1>t, <1>1, <1>2, <3>1 DEF Out
  <2>2. \A it, k : <<it, k>> \in UsedBlks <=> it \in Items /\ k \in Blocks /\ Out(it) /\ k <= NbBlk(Size[it])
    BY DEF UsedBlks, Out
  <2>3. \A it, k : <<it, k>> \in UsedBlks'
                     <=> it \in Items /\ k \in Blocks /\ Out(it)' /\ k <= NbBlk(Size[it])
    BY DEF UsedBlks, Out
  <2>4. \A it, k : <<it, k>> \in Pile(x, n) <=> it = x /\ k \in Blocks /\ k <= n
    BY DEF Pile
  <2>5. /\ UsedBlks \subseteq Items \X Blocks /\ UsedBlks' \subseteq Items \X Blocks
        /\ Pile(x, n) \subseteq Items \X Blocks
    BY <1>2 DEF UsedBlks, Pile
  <2> QED BY <1>2, <1>3, <2>1, <2>2, <2>3, <2>4, <2>5
<1>5. OwedBlks' = OwedBlks \cup Pile(th, n) /\ OwedBlks \cap Pile(th, n) = {}
  BY <1>t, <1>1 DEF OwedBlks, Pile
<1> HIDE DEF x, n
<1>6. PICK m \in Nat : \A y : IsFiniteSet(Pile(y, n)) /\ Cardinality(Pile(y, n)) = m
  BY <1>2, PileSize
<1>7. /\ Cardinality(UsedBlks') = Cardinality(UsedBlks) + m
      /\ Cardinality(OwedBlks') = Cardinality(OwedBlks) + m
  BY <1>4, <1>5, <1>6, BooksFinite, PilePut
<1> QED BY <1>1, <1>7, <1>t, BooksFinite, BlocksAssumption DEF BlockAccounting

(* Consuming the blocks of the object: they are free no more, nor owed.    *)
LEMMA ConsumeBooks ==
  ASSUME TypeInv, BlockAccounting, NEW th \in Threads, ConsumeBlocks(th)
  PROVE  BlockAccounting'
<1> DEFINE x == cur[th]
           n == NbBlk(Size[x])
<1>t. /\ pc \in [Threads -> HeatPCs \cup OptimPCs \cup EvictPCs \cup OffloadPCs]
      /\ cur \in [Threads -> Items \cup {NoItem}]
      /\ freeBlks \in Nat /\ freeBlks <= TotBlocks /\ TotBlocks \in Nat
      /\ pc[th] = "ol_consume" => x \in Items
  BY BlocksAssumption
     DEF TypeInv, TypeOK, ThreadTypes, BlockTypes, LabelInv, InHands
<1>0. BlockAccounting
  OBVIOUS
<1>1. pc[th] = "ol_consume" /\ UNCHANGED <<offloaded, ecWait, evicted>>
  BY DEF ConsumeBlocks, At, Halt, cacheVars
<1>2. x \in Items /\ n \in Nat
  BY <1>t, <1>1, NbBlkType
<1>3. CASE UNCHANGED <<freeBlks, pc, cur>>
  BY <1>0, <1>1, <1>3, BookFrame DEF Out, Leaving
<1>4. CASE /\ n <= freeBlks /\ freeBlks' = freeBlks - n
           /\ cur' = [cur EXCEPT ![th] = NoItem] /\ pc' = [pc EXCEPT ![th] = "ol_deq"]
  <2>1. UsedBlks' = UsedBlks
    <3>1. \A it \in Items : Leaving(it)' <=> Leaving(it)
      BY <1>t, <1>1, <1>4 DEF Leaving
    <3> QED BY <1>1, <3>1 DEF UsedBlks
  <2>2. OwedBlks' = OwedBlks \ Pile(th, n) /\ Pile(th, n) \subseteq OwedBlks
    BY <1>t, <1>1, <1>4 DEF OwedBlks, Pile
  <2> HIDE DEF x, n
  <2>3. n <= TotBlocks
    BY <1>t, <1>2, <1>4
  <2>4. Cardinality(Pile(th, n)) = n
    BY <1>2, <2>3, PileSize
  <2>5. Cardinality(OwedBlks') = Cardinality(OwedBlks) - n
    BY <2>2, <2>4, BooksFinite, PileTake
  <2> QED BY <1>0, <1>2, <1>4, <1>t, <2>1, <2>5, BooksFinite DEF BlockAccounting
<1>5. \/ UNCHANGED <<freeBlks, pc, cur>>
      \/ /\ n <= freeBlks /\ freeBlks' = freeBlks - n
         /\ cur' = [cur EXCEPT ![th] = NoItem] /\ pc' = [pc EXCEPT ![th] = "ol_deq"]
  BY <1>t, <1>2 DEF ConsumeBlocks, Goto, Halt, blockVars, threadVars
<1> QED BY <1>3, <1>4, <1>5

(* Giving back the blocks of an eviction: the object leaves the books.     *)
LEMMA FreeBooks ==
  ASSUME TypeInv, BlockAccounting, NEW th \in Threads, FreeBlocks(th),
         offloaded[cur[th]] = 0, cur[th] \notin ecWait \cup evicted,
         \A t \in Threads : t # th => pc[t] \notin {"ev_insert", "ev_free"}
  PROVE  BlockAccounting'
<1> DEFINE x == cur[th]
           n == NbBlk(Size[x])
<1>t. /\ pc \in [Threads -> HeatPCs \cup OptimPCs \cup EvictPCs \cup OffloadPCs]
      /\ freeBlks \in Nat /\ TotBlocks \in Nat
      /\ pc[th] = "ev_free" => x \in Items
  BY BlocksAssumption DEF TypeInv, TypeOK, BlockTypes, ThreadTypes, LabelInv, InHands
<1>0. BlockAccounting
  OBVIOUS
<1>1. pc[th] = "ev_free" /\ UNCHANGED <<cur, offloaded, ecWait, evicted>>
  BY DEF FreeBlocks, At, Halt, cacheVars, threadVars
<1>2. x \in Items /\ n \in Nat
  BY <1>t, <1>1, NbBlkType
<1>3. CASE UNCHANGED <<freeBlks, pc>>
  BY <1>0, <1>1, <1>3, BookFrame DEF Out, Leaving
<1>4. CASE /\ freeBlks' = freeBlks + n /\ freeBlks + n <= TotBlocks
           /\ pc' = [pc EXCEPT ![th] = "ev_check"]
  <2>1. OwedBlks' = OwedBlks
    <3>1. \A t \in Threads : pc'[t] = "ol_consume" <=> pc[t] = "ol_consume"
      BY <1>t, <1>1, <1>4
    <3> QED BY <1>1, <3>1 DEF OwedBlks
  <2>2. UsedBlks' = UsedBlks \ Pile(x, n) /\ Pile(x, n) \subseteq UsedBlks
    <3>1. \A it \in Items : Out(it)' <=> Out(it) /\ it # x
      <4>1. \A it \in Items : Leaving(it) <=> it = x
        BY <1>1 DEF Leaving
      <4>2. \A it \in Items : ~Leaving(it)'
        BY <1>t, <1>1, <1>4 DEF Leaving
      <4> QED BY <1>1, <4>1, <4>2 DEF Out
    <3>2. Out(x)
      BY <1>1 DEF Out, Leaving
    <3>3. \A it, k : <<it, k>> \in UsedBlks
                      <=> it \in Items /\ k \in Blocks /\ Out(it) /\ k <= NbBlk(Size[it])
      BY DEF UsedBlks, Out
    <3>4. \A it, k : <<it, k>> \in UsedBlks'
                      <=> it \in Items /\ k \in Blocks /\ Out(it)' /\ k <= NbBlk(Size[it])
      BY DEF UsedBlks, Out
    <3>5. \A it, k : <<it, k>> \in Pile(x, n) <=> it = x /\ k \in Blocks /\ k <= n
      BY DEF Pile
    <3>6. /\ UsedBlks \subseteq Items \X Blocks /\ UsedBlks' \subseteq Items \X Blocks
          /\ Pile(x, n) \subseteq Items \X Blocks
      BY <1>2 DEF UsedBlks, Pile
    <3> QED BY <1>2, <3>1, <3>2, <3>3, <3>4, <3>5, <3>6
  <2> HIDE DEF x, n
  <2>3. n <= TotBlocks
    BY <1>t, <1>2, <1>4
  <2>4. Cardinality(Pile(x, n)) = n
    BY <1>2, <2>3, PileSize
  <2>5. Cardinality(UsedBlks') = Cardinality(UsedBlks) - n
    BY <2>2, <2>4, BooksFinite, PileTake
  <2> QED BY <1>0, <1>2, <1>4, <1>t, <2>1, <2>5, BooksFinite DEF BlockAccounting
<1>5. \/ UNCHANGED <<freeBlks, pc>>
      \/ /\ freeBlks' = freeBlks + n /\ freeBlks + n <= TotBlocks
         /\ pc' = [pc EXCEPT ![th] = "ev_check"]
  BY <1>t, <1>2 DEF FreeBlocks, Goto, Halt, blockVars, threadVars
<1> QED BY <1>3, <1>4, <1>5

(* Taking an answered eviction in hand leaves its object on its way out.   *)
LEMMA EvictBooks ==
  ASSUME TypeInv, BlockAccounting, NEW th \in Threads, NEW it \in Items, EvictItem(th, it)
  PROVE  BlockAccounting'
<1>t. /\ pc \in [Threads -> HeatPCs \cup OptimPCs \cup EvictPCs \cup OffloadPCs]
      /\ cur \in [Threads -> Items \cup {NoItem}]
  BY DEF TypeInv, TypeOK, ThreadTypes
<1>1. /\ pc[th] = "ev_apply" /\ pc' = [pc EXCEPT ![th] = "ev_insert"]
      /\ it \in evicted /\ evicted' = evicted \ {it} /\ cur' = [cur EXCEPT ![th] = it]
      /\ UNCHANGED <<freeBlks, offloaded, ecWait>>
  BY DEF EvictItem, At, Goto, blockVars
<1>2. \A x \in Items : Leaving(x)' <=> Leaving(x) \/ x = it
  BY <1>t, <1>1 DEF Leaving
<1>3. \A x \in Items : Out(x)' <=> Out(x)
  BY <1>1, <1>2 DEF Out
<1>4. \A t \in Threads : /\ pc'[t] = "ol_consume" <=> pc[t] = "ol_consume"
                         /\ pc[t] = "ol_consume" => cur'[t] = cur[t]
  BY <1>t, <1>1
<1> QED BY <1>1, <1>3, <1>4, BookFrame

(* Nothing is out but what was, if no object starts or ceases to leave.    *)
LEMMA OutFrame ==
  ASSUME UNCHANGED <<offloaded, ecWait, evicted>>,
         \A t \in Threads :
           /\ pc'[t] \in {"ev_insert", "ev_free"} <=> pc[t] \in {"ev_insert", "ev_free"}
           /\ pc[t] \in {"ev_insert", "ev_free"} => cur'[t] = cur[t]
  PROVE  \A it : Out(it)' <=> Out(it)
<1>1. \A it : Leaving(it)' <=> Leaving(it)
  BY DEF Leaving
<1> QED BY <1>1 DEF Out

(* The other steps move objects between the cache, the wait tree and the   *)
(* replies, or elsewhere, and leave the books alone.                       *)
LEMMA TransferKeepsBooks ==
  ASSUME BookInv, ~OffloadingEvictionTest, NEW th \in Threads, EvictItems(th) \/ OffloadItems(th)
  PROVE  BlockAccounting'
<1>t. /\ pc \in [Threads -> HeatPCs \cup OptimPCs \cup EvictPCs \cup OffloadPCs]
      /\ cur \in [Threads -> Items \cup {NoItem}] /\ unoffloaded \in [Items -> Nat]
      /\ offloaded \in [Items -> Nat] /\ pc["heat"] \notin EvictPCs
      /\ pc[th] \in InHands => cur[th] \in Items
  BY DEF BookInv, PlaceInv, TypeInv, TypeOK, ThreadTypes, CacheTypes, LabelInv
<1>v. TypeInv /\ BlockAccounting /\ EvictedInv /\ FreeInv /\ PlaceInv
  BY DEF BookInv, PlaceInv
<1> USE DEF cacheVars, blockVars, Threads
<1>1. ASSUME \/ EvictEnter(th) \/ InsertUnoffloaded(th) \/ EvictCheck(th) \/ EvictDone(th)
             \/ Dequeue(th) \/ SendOffload(th) \/ ShowItem(th)
      PROVE  BlockAccounting'
  <2>1. UNCHANGED <<offloaded, ecWait, evicted, freeBlks>>
    BY <1>1 DEF EvictEnter, InsertUnoffloaded, EvictCheck, EvictDone, Dequeue, SendOffload,
       ShowItem, Halt
  <2>2. \A t \in Threads : pc'[t] = "ol_consume" <=> pc[t] = "ol_consume"
    BY <1>1, <1>t DEF EvictEnter, InsertUnoffloaded, EvictCheck, EvictDone, Dequeue,
       SendOffload, ShowItem, At, Goto, AfterEvict, AfterOffload, Halt, threadVars
  <2>3. \A t \in Threads :
           pc'[t] \in {"ev_insert", "ev_free"} <=> pc[t] \in {"ev_insert", "ev_free"}
    BY <1>1, <1>t DEF EvictEnter, InsertUnoffloaded, EvictCheck, EvictDone, Dequeue,
       SendOffload, ShowItem, At, Goto, AfterEvict, AfterOffload, Halt, threadVars
  <2>4. \A t \in Threads :
           pc[t] \in {"ev_insert", "ev_free", "ol_consume"} => cur'[t] = cur[t]
    BY <1>1, <1>t DEF EvictEnter, InsertUnoffloaded, EvictCheck, EvictDone, Dequeue,
       SendOffload, ShowItem, At, Halt, threadVars
  <2>5. \A it : Out(it)' <=> Out(it)
    BY <2>1, <2>3, <2>4, OutFrame
  <2> QED BY <1>v, <2>1, <2>2, <2>4, <2>5, BookFrame
<1>2. ASSUME SendEviction(th) PROVE BlockAccounting'
  <2>1. th = "optim" /\ evicted = {} /\ pc[th] = "ev_wait"
    BY <1>2, <1>t, <1>v DEF SendEviction, At, EvictPCs, EvictedInv
  <2>2. /\ pc' = [pc EXCEPT ![th] = "ev_apply"] /\ cur' = cur
        /\ ecWait' = {} /\ evicted' = ecWait /\ UNCHANGED <<offloaded, freeBlks>>
    BY <1>2 DEF SendEviction, Goto
  <2>3. \A it \in Items : Leaving(it)' <=> Leaving(it)
    BY <1>t, <2>1, <2>2 DEF Leaving
  <2>4. \A it \in Items : Out(it)' <=> Out(it)
    BY <2>1, <2>2, <2>3 DEF Out
  <2>5. \A t \in Threads : pc'[t] = "ol_consume" <=> pc[t] = "ol_consume"
    BY <1>t, <2>1, <2>2
  <2> QED BY <1>v, <2>2, <2>4, <2>5, BookFrame
<1>3. ASSUME FreeBlocks(th) PROVE BlockAccounting'
  <2>1. pc[th] = "ev_free" /\ th = "optim" /\ cur[th] \in Items
    BY <1>3, <1>t DEF FreeBlocks, At, EvictPCs, InHands
  <2>2. unoffloaded[cur[th]] > 0
    BY <1>v, <2>1 DEF FreeInv
  <2>3. offloaded[cur[th]] = 0 /\ cur[th] \notin ecWait \cup evicted
    BY <1>v, <2>1, <2>2, OnePlace
  <2>4. \A t \in Threads : t # th => pc[t] \notin {"ev_insert", "ev_free"}
    BY <1>t, <2>1 DEF EvictPCs
  <2> QED BY <1>3, <1>v, <2>3, <2>4, FreeBooks
<1>4. ASSUME InsertOffloaded(th) PROVE BlockAccounting'
  <2>1. pc[th] = "ol_insert" /\ cur[th] \in Items
    BY <1>4, <1>t DEF InsertOffloaded, At, InHands
  <2>2. offloaded[cur[th]] = 0 /\ unoffloaded[cur[th]] = 0 /\ cur[th] \notin ecWait \cup evicted
    BY <1>v, <2>1, OnePlace DEF Carrying
  <2>3. ~Leaving(cur[th])
    <3> SUFFICES ASSUME NEW t \in Threads, cur[t] = cur[th], pc[t] \in {"ev_insert", "ev_free"}
                 PROVE  FALSE
      BY DEF Leaving
    <3>1. t = "optim" /\ th = "heat"
      BY <1>t, <2>1 DEF EvictPCs
    <3>2. pc[t] = "ev_insert"
      BY <1>v, <2>2, <3>1 DEF FreeInv
    <3> QED BY <1>v, <2>1, <3>1, <3>2, OnePlace DEF Carrying
  <2>4. ~Out(cur[th])
    BY <2>2, <2>3 DEF Out
  <2> QED BY <1>4, <1>v, <2>4, InsertBooks
<1>5. ASSUME NEW it \in Items, EvictItem(th, it) PROVE BlockAccounting'
  BY <1>5, <1>v, EvictBooks
<1>6. ASSUME ConsumeBlocks(th) PROVE BlockAccounting'
  BY <1>6, <1>v, ConsumeBooks
<1> QED
  BY <1>1, <1>2, <1>3, <1>4, <1>5, <1>6 DEF EvictItems, OffloadItems

LEMMA OthersKeepBooks ==
  ASSUME BookInv, ~OffloadingEvictionTest,
         HeatDataplane \/ TestThread \/ WakeUp \/ OptimCache
  PROVE  BlockAccounting'
<1>t. /\ pc \in [Threads -> HeatPCs \cup OptimPCs \cup EvictPCs \cup OffloadPCs]
      /\ cur \in [Threads -> Items \cup {NoItem}] /\ offloaded \in [Items -> Nat]
      /\ pc["heat"] \notin TestPCs
      /\ pc["optim"] \in Holding => cur["optim"] \in Items /\ offloaded[cur["optim"]] > 0
  BY DEF BookInv, PlaceInv, TypeInv, TypeOK, ThreadTypes, CacheTypes, LabelInv
<1>v. BlockAccounting
  BY DEF BookInv
<1> USE DEF cacheVars, blockVars, Threads
<1>1. ASSUME HeatDataplane PROVE BlockAccounting'
  <2>1. UNCHANGED <<offloaded, ecWait, evicted, freeBlks>>
    BY <1>1 DEF HeatDataplane, HeatPut, HeatPlace, HeatEnqueue, HeatKeep, HeatInsert, HeatPlaced,
       HeatDone
  <2>2. /\ cur'["optim"] = cur["optim"] /\ pc'["optim"] = pc["optim"]
        /\ {pc["heat"], pc'["heat"]} \cap {"ol_consume", "ev_insert", "ev_free"} = {}
    BY <1>1, <1>t DEF HeatDataplane, HeatPut, HeatPlace, HeatEnqueue, HeatKeep, HeatInsert,
       HeatPlaced, HeatDone, At, Goto
  <2>3. \A it : Out(it)' <=> Out(it)
    BY <2>1, <2>2, OutFrame
  <2> QED BY <1>v, <2>1, <2>2, <2>3, BookFrame
<1>2. ~TestThread
  BY <1>t DEF TestThread, TestBegin, TestEvict, TestEnqueue, TestCheck, TestDone, At, TestPCs
<1>3. ASSUME \/ WakeUp \/ GetOc \/ ComputeRequired \/ CallGetEc \/ ReadRefcount \/ BackOff
             \/ EnoughBlocks \/ RoundDone \/ MarkEc \/ \E ec \in Items : SampleEc(ec)
      PROVE  BlockAccounting'
  <2>1. UNCHANGED <<offloaded, ecWait, evicted, freeBlks>>
    BY <1>3 DEF WakeUp, GetOc, CallGetOc, MarkOc, EnqueueOc, ComputeRequired, CallGetEc,
       ReadRefcount, BackOff, EnoughBlocks, RoundDone, SampleEc, MarkEc, Halt
  <2>2. \/ UNCHANGED <<pc, cur>>
        \/ /\ {pc["optim"], pc'["optim"]} \cap {"ol_consume", "ev_insert", "ev_free"} = {}
           /\ pc'["heat"] = pc["heat"] /\ cur'["heat"] = cur["heat"]
    BY <1>3, <1>t DEF WakeUp, GetOc, CallGetOc, MarkOc, EnqueueOc, ComputeRequired, CallGetEc,
       ReadRefcount, BackOff, EnoughBlocks, RoundDone, SampleEc, MarkEc, Halt, At, Goto, threadVars
  <2>3. \A it : Out(it)' <=> Out(it)
    BY <2>1, <2>2, OutFrame
  <2> QED BY <1>v, <2>1, <2>2, <2>3, BookFrame
<1>4. ASSUME TakeEc PROVE BlockAccounting'
  <2> DEFINE ec == cur["optim"]
  <2>1. /\ pc["optim"] = "ec_test" /\ pc' = [pc EXCEPT !["optim"] = "ec_pick"]
        /\ cur' = [cur EXCEPT !["optim"] = NoItem]
        /\ offloaded' = [offloaded EXCEPT ![ec] = @ - 1] /\ ecWait' = ecWait \cup {ec}
        /\ UNCHANGED <<evicted, freeBlks>>
    BY <1>4 DEF TakeEc, At, Goto
  <2>2. ec \in Items /\ offloaded[ec] > 0
    BY <1>t, <2>1 DEF Holding
  <2>3. \A it \in Items : Leaving(it)' <=> Leaving(it)
    BY <1>t, <2>1 DEF Leaving
  <2>4. \A it \in Items : Out(it)' <=> Out(it)
    BY <1>t, <2>1, <2>2, <2>3 DEF Out
  <2>5. \A t \in Threads : /\ pc'[t] = "ol_consume" <=> pc[t] = "ol_consume"
                           /\ pc[t] = "ol_consume" => cur'[t] = cur[t]
    BY <1>t, <2>1
  <2> QED BY <1>v, <2>1, <2>4, <2>5, BookFrame
<1> QED BY <1>1, <1>2, <1>3, <1>4 DEF OptimCache, GetEc

(* Only OptimCache takes objects from the unoffloaded cache, and not while *)
(* it evicts.                                                              *)
LEMMA FreeStep ==
  ASSUME BookInv, ~OffloadingEvictionTest, [Next]_vars
  PROVE  FreeInv'
<1>t. /\ pc \in [Threads -> HeatPCs \cup OptimPCs \cup EvictPCs \cup OffloadPCs]
      /\ cur \in [Threads -> Items \cup {NoItem}] /\ unoffloaded \in [Items -> Nat]
      /\ pc["heat"] \notin EvictPCs \cup TestPCs
      /\ pc["heat"] \in Placing => cur["heat"] \in Items
      /\ pc["optim"] \in InHands => cur["optim"] \in Items
      /\ FreeInv
  BY DEF BookInv, PlaceInv, TypeInv, TypeOK, ThreadTypes, CacheTypes, LabelInv, Threads
<1> USE DEF cacheVars, Threads, FreeInv
<1>1. ASSUME UNCHANGED <<unoffloaded, pc, cur>> PROVE FreeInv'
  BY <1>1, <1>t
<1>2. ASSUME NEW r \in Requests, ServerStep(r) \/ ServerCall(r) PROVE FreeInv'
  BY <1>1, <1>2, ServerMovesNothing DEF threadVars
<1>3. ASSUME HeatStep PROVE FreeInv'
  <2>1. pc'["optim"] = pc["optim"] /\ cur'["optim"] = cur["optim"]
    BY <1>3, <1>t DEF HeatStep, EvictItems, OffloadItems, HeatDataplane, TestThread, EvictEnter,
       SendEviction, EvictItem, InsertUnoffloaded, FreeBlocks, EvictCheck, EvictDone, Dequeue,
       SendOffload, ShowItem, InsertOffloaded, ConsumeBlocks, HeatPut, HeatPlace, HeatEnqueue,
       HeatKeep, HeatInsert, HeatPlaced, HeatDone, TestBegin, TestEvict, TestEnqueue, TestCheck,
       TestDone, Goto, Halt, threadVars
  <2>2. \/ UNCHANGED unoffloaded
        \/ /\ cur["heat"] \in Items
           /\ unoffloaded' = [unoffloaded EXCEPT ![cur["heat"]] = @ + 1]
    BY <1>3, <1>t DEF HeatStep, EvictItems, OffloadItems, HeatDataplane, TestThread, EvictEnter,
       SendEviction, EvictItem, InsertUnoffloaded, FreeBlocks, EvictCheck, EvictDone, Dequeue,
       SendOffload, ShowItem, InsertOffloaded, ConsumeBlocks, HeatPut, HeatPlace, HeatEnqueue,
       HeatKeep, HeatInsert, HeatPlaced, HeatDone, TestBegin, TestEvict, TestEnqueue, TestCheck,
       TestDone, At, Halt, EvictPCs, Placing
  <2>3. \A x \in Items : unoffloaded[x] > 0 => unoffloaded'[x] > 0
    BY <1>t, <2>2
  <2>4. pc["optim"] = "ev_free" => cur["optim"] \in Items
    BY <1>t DEF InHands
  <2> QED BY <1>t, <2>1, <2>3, <2>4
<1>4. ASSUME OptimStep \/ WakeUp PROVE FreeInv'
  <2>1. CASE InsertUnoffloaded("optim")
    <3>1. /\ pc["optim"] = "ev_insert" /\ cur' = cur
          /\ unoffloaded' = [unoffloaded EXCEPT ![cur["optim"]] = @ + 1]
      BY <2>1 DEF InsertUnoffloaded, At
    <3>2. cur["optim"] \in Items
      BY <1>t, <3>1 DEF InHands
    <3> QED BY <1>t, <3>1, <3>2
  <2>2. CASE ~InsertUnoffloaded("optim")
    <3>1. UNCHANGED <<unoffloaded, pc, cur>> \/ pc'["optim"] # "ev_free"
      BY <1>4, <1>t, <2>2 DEF OptimStep, WakeUp, EvictItems, OffloadItems, OptimCache, GetOc, GetEc,
         EvictEnter, SendEviction, EvictItem, FreeBlocks, EvictCheck, EvictDone, Dequeue,
         SendOffload, ShowItem, InsertOffloaded, ConsumeBlocks, CallGetOc, MarkOc, EnqueueOc,
         ComputeRequired, CallGetEc, SampleEc, MarkEc, ReadRefcount, BackOff, TakeEc,
         EnoughBlocks, RoundDone, Goto, AfterEvict, AfterOffload, Halt, threadVars
    <3> QED BY <1>1, <3>1
  <2> QED BY <2>1, <2>2
<1> QED BY <1>1, <1>2, <1>3, <1>4 DEF Next, vars, threadVars

(* The free block counter agrees with the offloaded cache and with the     *)
(* objects on their way out, whatever the order in which HeatDataplane and *)
(* OptimCache insert, consume, evict and free.                             *)
LEMMA BooksBalance == ~OffloadingEvictionTest /\ Spec => []BlockAccounting
<1> SUFFICES ASSUME ~OffloadingEvictionTest PROVE Spec => []BlockAccounting
  OBVIOUS
<1>1. BookInv /\ [Next]_vars => BookInv'
  <2> SUFFICES ASSUME BookInv, [Next]_vars PROVE BookInv'
    OBVIOUS
  <2>1. PlaceInv' /\ BlockAccounting
    BY PlaceStep DEF BookInv
  <2>2. ASSUME NEW r \in Requests, ServerStep(r) \/ ServerCall(r) PROVE BlockAccounting'
    BY <2>1, <2>2, ServerMovesNothing, BookFrame DEF cacheVars, blockVars, threadVars, Out, Leaving
  <2>3. ASSUME UNCHANGED vars PROVE BlockAccounting'
    BY <2>1, <2>3, BookFrame DEF vars, cacheVars, blockVars, threadVars, Out, Leaving
  <2>4. BlockAccounting'
    BY <2>2, <2>3, TransferKeepsBooks, OthersKeepBooks DEF Next, HeatStep, OptimStep, Threads
  <2> QED BY <2>1, <2>4, FreeStep DEF BookInv
<1>2. Init => BookInv
  <2> SUFFICES ASSUME Init PROVE BookInv
    OBVIOUS
  <2>1. UsedBlks = {} /\ OwedBlks = {}
    BY DEF Init, UsedBlks, OwedBlks, Threads, Leaving
  <2>2. FreeInv
    BY DEF Init, FreeInv, Threads
  <2> QED BY <2>1, <2>2, PlaceInit, FS_EmptySet, BlocksAssumption DEF Init, BookInv, BlockAccounting
<1>3. BookInv => BlockAccounting
  BY DEF BookInv
<1> QED BY <1>1, <1>2, <1>3, PTL DEF Spec
-----------------------------------------------------------------------------
(* In the shipped build one object at a time is between HeatDataplane's    *)
(* test of the free blocks and their consumption.                          *)
Offloading == {"ol_send", "ol_state", "ol_insert", "ol_consume"}
FitInv ==
  /\ TypeInv
  /\ pc["heat"] \in Before \cup Offloading => ocq = << >>
  /\ pc["heat"] = "h_enq" => NbBlk(Size[cur["heat"]]) <= freeBlks
  /\ pc["heat"] = "ol_deq" =>
       Len(ocq) <= 1 /\ (ocq # << >> => NbBlk(Size[Head(ocq)]) <= freeBlks)
  /\ pc["heat"] \in Offloading => NbBlk(Size[cur["heat"]]) <= freeBlks
  /\ ConsumeAssertHolds

(* Steps that leave the queue, the free blocks and HeatDataplane alone.    *)
LEMMA FitFrame ==
  ASSUME FitInv, TypeInv', UNCHANGED <<ocq, freeBlks, pc, cur>>, ConsumeAssertHolds'
  PROVE  FitInv'
  BY DEF FitInv

LEMMA FitStep ==
  ASSUME DefaultBuild, FitInv, [Next]_vars
  PROVE  FitInv'
<1>t. TypeInv'
  BY TypeStep DEF FitInv
<1>1. /\ pc["optim"] = "sleep" /\ pc["heat"] \notin EvictPCs \cup TestPCs
      /\ pc \in [Threads -> HeatPCs \cup OptimPCs \cup EvictPCs \cup OffloadPCs]
      /\ cur \in [Threads -> Items \cup {NoItem}] /\ ocq \in Seq(Items) /\ freeBlks \in Nat
      /\ pc["heat"] \in Placing => cur["heat"] \in Items
      /\ running = FALSE
  BY BlocksAssumption
     DEF FitInv, TypeInv, TypeOK, LabelInv, DefaultBuild, ThreadTypes, CacheTypes, BlockTypes, TestTypes
<1>h. halted # "consume_assert"
  BY DEF FitInv, ConsumeAssertHolds
<1> USE DEF cacheVars, blockVars, Threads, Before, Placing, Offloading
<1>2. ASSUME NEW r \in Requests, ServerStep(r) \/ ServerCall(r) PROVE FitInv'
  <2>1. ConsumeAssertHolds'
    BY <1>2, <1>h DEF ServerStep, ServerCall, GetLookup, AccessItem, IncrRefcount, IncrCheck,
       FreeLookup, FreeItem, DecrRefcount, DecrCheck, FreeWrongHv, Halt, ConsumeAssertHolds
  <2> QED BY <1>2, <1>t, <2>1, ServerMovesNothing, FitFrame DEF threadVars
<1>3. ASSUME NEW th \in Threads, EvictItems(th) PROVE FALSE
  BY <1>1, <1>3 DEF EvictItems, EvictEnter, SendEviction, EvictItem, InsertUnoffloaded, FreeBlocks,
     EvictCheck, EvictDone, At, EvictPCs
<1>4. ASSUME NEW th \in Threads, OffloadItems(th) PROVE FitInv'
  <2>1. th = "heat"
    BY <1>1, <1>4 DEF OffloadItems, Dequeue, SendOffload, ShowItem, InsertOffloaded, ConsumeBlocks,
       At
  <2>2. CASE Dequeue(th) /\ ocq = << >>
    <3>1. /\ pc' = [pc EXCEPT !["heat"] = "next"] /\ UNCHANGED <<ocq, halted>>
      BY <1>1, <2>1, <2>2 DEF Dequeue, Goto, AfterOffload, DefaultBuild
    <3> QED BY <1>1, <1>t, <1>h, <2>2, <3>1 DEF FitInv, ConsumeAssertHolds
  <2>3. CASE Dequeue(th) /\ ocq # << >>
    <3>1. /\ pc["heat"] = "ol_deq" /\ pc' = [pc EXCEPT !["heat"] = "ol_send"]
          /\ cur' = [cur EXCEPT !["heat"] = Head(ocq)] /\ ocq' = Tail(ocq)
          /\ UNCHANGED <<freeBlks, halted>>
      BY <2>1, <2>3 DEF Dequeue, At, Goto
    <3>2. Len(ocq) <= 1 /\ NbBlk(Size[Head(ocq)]) <= freeBlks
      BY <2>3, <3>1 DEF FitInv
    <3>3. ocq' = << >>
      BY <1>1, <2>3, <3>1, <3>2
    <3> QED BY <1>1, <1>t, <1>h, <3>1, <3>2, <3>3 DEF FitInv, ConsumeAssertHolds
  <2>4. CASE SendOffload(th) \/ ShowItem(th) \/ InsertOffloaded(th)
    <3>1. /\ pc["heat"] \in Offloading /\ UNCHANGED <<ocq, freeBlks, cur, halted>>
          /\ \E label \in Offloading : pc' = [pc EXCEPT !["heat"] = label]
      BY <2>1, <2>4 DEF SendOffload, ShowItem, InsertOffloaded, At, Goto
    <3> QED BY <1>1, <1>t, <1>h, <3>1 DEF FitInv, ConsumeAssertHolds
  <2>5. CASE ConsumeBlocks(th)
    <3>1. pc["heat"] = "ol_consume" /\ ocq = << >> /\ ~(NbBlk(Size[cur["heat"]]) > freeBlks)
      <4>1. pc["heat"] = "ol_consume" /\ cur["heat"] \in Items
        BY <2>1, <2>5 DEF ConsumeBlocks, At, FitInv, TypeInv, LabelInv, InHands
      <4>2. NbBlk(Size[cur["heat"]]) \in Nat
        BY <4>1, NbBlkType
      <4> QED BY <1>1, <4>1, <4>2 DEF FitInv
    <3>2. pc' = [pc EXCEPT !["heat"] = "ol_deq"] /\ UNCHANGED <<ocq, halted>>
      BY <2>1, <2>5, <3>1 DEF ConsumeBlocks, Goto
    <3> QED BY <1>1, <1>t, <1>h, <3>1, <3>2 DEF FitInv, ConsumeAssertHolds
  <2> QED BY <1>4, <2>2, <2>3, <2>4, <2>5 DEF OffloadItems
<1>5. ASSUME NEW it \in Items, HeatPut(it) PROVE FitInv'
  <2>1. /\ pc["heat"] = "next" /\ pc' = [pc EXCEPT !["heat"] = "place"]
        /\ UNCHANGED <<ocq, freeBlks, halted>>
    BY <1>5 DEF HeatPut, At, Goto
  <2> QED BY <1>1, <1>t, <1>h, <2>1 DEF FitInv, ConsumeAssertHolds
<1>6. ASSUME HeatPlace PROVE FitInv'
  <2> DEFINE it == cur["heat"]
  <2>1. /\ pc["heat"] = "place" /\ UNCHANGED <<ocq, cur, freeBlks, halted>>
        /\ pc' = [pc EXCEPT !["heat"] = IF NbBlk(Size[it]) < freeBlks THEN "h_enq" ELSE "h_state"]
    BY <1>6 DEF HeatPlace, At, Goto
  <2>2. it \in Items /\ NbBlk(Size[it]) \in Nat
    BY <1>1, <2>1, NbBlkType
  <2> QED BY <1>1, <1>t, <1>h, <2>1, <2>2 DEF FitInv, ConsumeAssertHolds
<1>11. ASSUME HeatEnqueue PROVE FitInv'
  <2> DEFINE it == cur["heat"]
  <2>1. /\ pc["heat"] = "h_enq" /\ pc' = [pc EXCEPT !["heat"] = "ol_deq"]
        /\ UNCHANGED <<freeBlks, halted>> /\ ocq = << >> /\ ocq' = Append(<< >>, it)
    BY <1>11 DEF HeatEnqueue, HeatPlaced, At, Goto, FitInv
  <2>2. it \in Items /\ NbBlk(Size[it]) <= freeBlks
    BY <1>1, <2>1 DEF FitInv
  <2>3. Len(ocq') = 1 /\ Head(ocq') = it
    BY <2>1, <2>2
  <2> QED BY <1>1, <1>t, <1>h, <2>1, <2>2, <2>3 DEF FitInv, ConsumeAssertHolds
<1>12. ASSUME HeatKeep \/ HeatInsert PROVE FitInv'
  <2>1. /\ UNCHANGED <<ocq, freeBlks, halted>> /\ ocq = << >>
        /\ \E label \in {"h_insert", "ol_deq"} : pc' = [pc EXCEPT !["heat"] = label]
    BY <1>12 DEF HeatKeep, HeatInsert, HeatPlaced, At, Goto, FitInv
  <2> QED BY <1>1, <1>t, <1>h, <2>1 DEF FitInv, ConsumeAssertHolds
<1>7. ASSUME HeatDone PROVE FitInv'
  <2>1. /\ pc["heat"] = "next" /\ pc' = [pc EXCEPT !["heat"] = "done"]
        /\ UNCHANGED <<ocq, freeBlks, halted>>
    BY <1>7 DEF HeatDone, At, Goto
  <2> QED BY <1>1, <1>t, <1>h, <2>1 DEF FitInv, ConsumeAssertHolds
<1>8. ~TestThread
  BY <1>1 DEF TestThread, TestBegin, TestEvict, TestEnqueue, TestCheck, TestDone, At, TestPCs
<1>9. ~OptimCache /\ ~WakeUp
  BY <1>1 DEF OptimCache, GetEc, WakeUp, GetOc, CallGetOc, MarkOc, EnqueueOc, ComputeRequired,
     CallGetEc, SampleEc, MarkEc, ReadRefcount, BackOff, TakeEc, EnoughBlocks, RoundDone, At,
     DefaultBuild
<1>10. ASSUME UNCHANGED vars PROVE FitInv'
  BY <1>10, <1>h, <1>t, FitFrame DEF vars, threadVars, ConsumeAssertHolds
<1> QED
  BY <1>2, <1>3, <1>4, <1>5, <1>6, <1>7, <1>8, <1>9, <1>10, <1>11, <1>12
     DEF Next, HeatStep, OptimStep, HeatDataplane, Threads

(* In the shipped build OffloadItems never runs out of blocks: what        *)
(* HeatDataplane tested before it queued an object still holds when the    *)
(* object's blocks are consumed, a whole transfer later.                   *)
LEMMA ConsumeNeverFails == DefaultBuild /\ Spec => []ConsumeAssertHolds
<1> SUFFICES ASSUME DefaultBuild PROVE Spec => []ConsumeAssertHolds
  BY DEF DefaultBuild
<1>1. FitInv /\ [Next]_vars => FitInv'
  BY FitStep
<1>2. Init => FitInv
  <2> SUFFICES ASSUME Init PROVE FitInv
    OBVIOUS
  <2> QED BY TypeInit DEF Init, FitInv, ConsumeAssertHolds, Threads, Before, Offloading
<1>3. FitInv => ConsumeAssertHolds
  BY DEF FitInv
<1> QED BY <1>1, <1>2, <1>3, PTL DEF Spec

-----------------------------------------------------------------------------
(* The test build: the test thread evicts every file right after it was    *)
(* offloaded and offloads it again.                                        *)

(* The blocks of the object under test.                                    *)
TestBlks == NbBlk(Size[testIt])

(* The object under test is on its way to the data plane.                  *)
OnTheWay == \/ pc["heat"] \in Offloading
            \/ pc["heat"] = "ol_deq" /\ ocq # << >>
(* Its blocks were given back.                                             *)
GivenBack == \/ OnTheWay \/ pc["heat"] \in {"ev_check", "t_enq"}
             \/ pc["heat"] = "ev_apply" /\ evicted = {}

(* Only the object under test is queued, sent, waiting or evicted ...      *)
OnlyTestIt ==
  /\ ocq # << >> => pc["heat"] = "ol_deq" /\ ocq = << testIt >>
  /\ pc["heat"] \in InHands => cur["heat"] = testIt
  /\ ecWait = IF pc["heat"] \in {"ev_enter", "ev_wait"} THEN {testIt} ELSE {}
  /\ evicted # {} => pc["heat"] = "ev_apply" /\ evicted = {testIt}

(* ... it is in the offloaded cache at most once, and not while it is on   *)
(* its way ...                                                             *)
TestItPlace ==
  /\ \A it \in Items \ table : offloaded[it] = 0
  /\ pc["heat"] \in Placing => cur["heat"] \in table /\ offloaded[cur["heat"]] = 0
  /\ pc["heat"] \notin Before => testIt \in table
  /\ pc["heat"] \in EvictPCs \cup {"t_enq", "ol_send", "ol_state", "ol_insert"} => offloaded[testIt] = 0
  /\ pc["heat"] = "ol_deq" /\ ocq # << >> => offloaded[testIt] = 0
  /\ pc["heat"] \in {"ol_consume", "ol_deq", "t_check", "t_loop", "t_del"} => offloaded[testIt] <= 1

(* ... and between its eviction and the check exactly its blocks are free  *)
(* in addition to those that were free before, if any are.                 *)
TestBooks ==
  /\ pc["heat"] \in EvictPCs \cup {"t_enq", "t_check", "t_del"} => running
  /\ running /\ pc["heat"] # "t_loop" =>
       freeBlks = before + (IF GivenBack THEN TestBlks ELSE 0)
  /\ OnTheWay => TestBlks <= freeBlks
  /\ pc["heat"] = "h_enq" => NbBlk(Size[cur["heat"]]) <= freeBlks
  /\ /\ pc["heat"] \notin Before
     /\ pc["heat"] \in EvictPCs \/ offloaded[testIt] > 0
     => TestBlks <= TotBlocks

TestInv == /\ TypeInv /\ OnlyTestIt /\ TestItPlace /\ TestBooks
           /\ TestAssertHolds /\ ConsumeAssertHolds

(* What the steps below need of the types.                                 *)
LEMMA TestTypeFacts ==
  ASSUME TypeInv, OffloadingEvictionTest
  PROVE  /\ pc \in [Threads -> HeatPCs \cup OptimPCs \cup EvictPCs \cup OffloadPCs]
         /\ cur \in [Threads -> Items \cup {NoItem}] /\ offloaded \in [Items -> Nat]
         /\ ocq \in Seq(Items) /\ freeBlks \in Nat /\ freeBlks <= TotBlocks /\ before \in Nat /\ running \in BOOLEAN
         /\ pc["optim"] = "sleep" /\ ~RunCacheOptimization
         /\ pc["heat"] \in Placing \cup InHands => cur["heat"] \in Items
         /\ pc["heat"] \notin Before => testIt \in Items
         /\ running => pc["heat"] \notin Before
         /\ \A it \in Items : NbBlk(Size[it]) \in Nat
<1>1. ~RunCacheOptimization
  BY OneEvictorAssumption, SwitchesAssumption
<1> QED
  BY <1>1, NbBlkType, BlocksAssumption
     DEF TypeInv, TypeOK, LabelInv, ThreadTypes, CacheTypes, BlockTypes, TestTypes, Threads

(* OptimCache never runs in the test build. *)
LEMMA OptimAsleep ==
  ASSUME pc["optim"] = "sleep", ~RunCacheOptimization
  PROVE  ~OptimStep /\ ~WakeUp
  BY DEF OptimStep, WakeUp, OptimCache, GetEc, GetOc, CallGetOc, MarkOc, EnqueueOc, ComputeRequired,
     CallGetEc, SampleEc, MarkEc, ReadRefcount, BackOff, TakeEc, EnoughBlocks, RoundDone,
     EvictItems, OffloadItems, EvictEnter, SendEviction, EvictItem, InsertUnoffloaded, FreeBlocks,
     EvictCheck, EvictDone, Dequeue, SendOffload, ShowItem, InsertOffloaded, ConsumeBlocks, At

(* Steps that do not concern the object under test. *)
LEMMA TestFrame ==
  ASSUME OnlyTestIt, TestItPlace, TestBooks, UNCHANGED <<cacheVars, freeBlks, threadVars>>
  PROVE  OnlyTestIt' /\ TestItPlace' /\ TestBooks'
  BY DEF OnlyTestIt, TestItPlace, TestBooks, cacheVars, threadVars, testVars, GivenBack, OnTheWay,
     TestBlks

(* The eviction of the object under test gives back its blocks, once. *)
LEMMA EvictKeepsTest ==
  ASSUME TestInv, OffloadingEvictionTest, EvictItems("heat")
  PROVE  /\ OnlyTestIt' /\ TestItPlace' /\ TestBooks'
         /\ TestAssertHolds' /\ ConsumeAssertHolds'
<1> DEFINE Kept == OnlyTestIt' /\ TestItPlace' /\ TestBooks'
<1>a. TestAssertHolds' /\ ConsumeAssertHolds'
  BY DEF TestInv, TestAssertHolds, ConsumeAssertHolds, EvictItems, EvictEnter, SendEviction,
     EvictItem, InsertUnoffloaded, FreeBlocks, EvictCheck, EvictDone, Halt
<1> USE TestTypeFacts DEF TestInv, Threads, Before, Placing, InHands, Offloading
<1>1. ASSUME EvictEnter("heat") PROVE Kept
  <2>1. ecWait # {} /\ pc["heat"] = "ev_enter"
    BY <1>1 DEF EvictEnter, At, OnlyTestIt
  <2>2. /\ pc' = [pc EXCEPT !["heat"] = "ev_wait"]
        /\ UNCHANGED <<cacheVars, freeBlks, cur, testVars>>
    BY <1>1, <2>1 DEF EvictEnter, Goto, blockVars
  <2> QED BY <2>1, <2>2 DEF OnlyTestIt, TestItPlace, TestBooks, GivenBack, OnTheWay, TestBlks,
             cacheVars, testVars, EvictPCs
<1>2. ASSUME SendEviction("heat") PROVE Kept
  <2>1. /\ pc["heat"] = "ev_wait" /\ pc' = [pc EXCEPT !["heat"] = "ev_apply"]
        /\ evicted' = ecWait /\ ecWait' = {}
        /\ UNCHANGED <<table, ocq, offloaded, freeBlks, cur, testVars>>
    BY <1>2 DEF SendEviction, At, Goto
  <2>2. ecWait = {testIt}
    BY <2>1 DEF OnlyTestIt
  <2> QED BY <2>1, <2>2 DEF OnlyTestIt, TestItPlace, TestBooks, GivenBack, OnTheWay, TestBlks,
             testVars, EvictPCs
<1>3. ASSUME NEW it \in Items, EvictItem("heat", it) PROVE Kept
  <2>1. /\ pc["heat"] = "ev_apply" /\ it \in evicted /\ evicted' = evicted \ {it}
        /\ pc' = [pc EXCEPT !["heat"] = "ev_insert"] /\ cur' = [cur EXCEPT !["heat"] = it]
        /\ UNCHANGED <<table, ocq, offloaded, ecWait, freeBlks, testVars>>
    BY <1>3 DEF EvictItem, At, Goto, blockVars
  <2>2. it = testIt /\ evicted' = {}
    BY <2>1 DEF OnlyTestIt
  <2> QED BY <2>1, <2>2 DEF OnlyTestIt, TestItPlace, TestBooks, GivenBack, OnTheWay, TestBlks,
             testVars, EvictPCs
<1>5. ASSUME InsertUnoffloaded("heat") PROVE Kept
  <2>1. /\ pc["heat"] = "ev_insert" /\ pc' = [pc EXCEPT !["heat"] = "ev_free"]
        /\ UNCHANGED <<table, ocq, offloaded, ecWait, evicted, freeBlks, cur, testVars>>
    BY <1>5 DEF InsertUnoffloaded, At, Goto, blockVars
  <2> QED BY <2>1 DEF OnlyTestIt, TestItPlace, TestBooks, GivenBack, OnTheWay, TestBlks,
             testVars, EvictPCs
<1>6. ASSUME FreeBlocks("heat") PROVE Kept
  <2>1. pc["heat"] = "ev_free" /\ cur["heat"] = testIt /\ evicted = {}
    BY <1>6 DEF FreeBlocks, At, OnlyTestIt
  <2>2. CASE UNCHANGED <<cacheVars, freeBlks, threadVars>>
    BY <2>2, TestFrame
  <2>3. CASE /\ freeBlks' = freeBlks + TestBlks /\ pc' = [pc EXCEPT !["heat"] = "ev_check"]
             /\ UNCHANGED <<cacheVars, cur, testVars>>
    <3>1. OnlyTestIt' /\ TestItPlace'
      BY <2>1, <2>3 DEF OnlyTestIt, TestItPlace, EvictPCs, cacheVars, testVars
    <3>2. GivenBack' /\ ~GivenBack /\ ~OnTheWay'
      BY <2>1, <2>3 DEF GivenBack, OnTheWay
    <3> QED BY <2>1, <2>3, <3>1, <3>2 DEF TestBooks, TestBlks, EvictPCs, cacheVars, testVars
  <2> QED BY <1>6, <2>1, <2>2, <2>3 DEF FreeBlocks, Halt, Goto, TestBlks, blockVars
<1>7. ASSUME EvictCheck("heat") PROVE Kept
  <2>1. pc["heat"] = "ev_check" /\ evicted = {}
    BY <1>7 DEF EvictCheck, At, OnlyTestIt
  <2>2. CASE UNCHANGED <<cacheVars, freeBlks, threadVars>>
    BY <2>2, TestFrame
  <2>3. CASE /\ pc' = [pc EXCEPT !["heat"] = "ev_apply"]
             /\ UNCHANGED <<cacheVars, freeBlks, testVars>>
    BY <2>1, <2>3 DEF OnlyTestIt, TestItPlace, TestBooks, GivenBack, OnTheWay, TestBlks,
       cacheVars, testVars, EvictPCs
  <2> QED BY <1>7, <2>2, <2>3 DEF EvictCheck, Halt, Goto, blockVars
<1>4. ASSUME EvictDone("heat") PROVE Kept
  <2>1. /\ pc["heat"] = "ev_apply" /\ pc' = [pc EXCEPT !["heat"] = "t_enq"] /\ evicted = {}
        /\ UNCHANGED <<cacheVars, freeBlks, cur, testVars>>
    BY <1>4 DEF EvictDone, At, Goto, AfterEvict, blockVars
  <2> QED BY <2>1 DEF OnlyTestIt, TestItPlace, TestBooks, GivenBack, OnTheWay, TestBlks,
             cacheVars, testVars, EvictPCs
<1> QED BY <1>1, <1>2, <1>3, <1>4, <1>5, <1>6, <1>7, <1>a DEF EvictItems

(* Its offload takes exactly the blocks it gave back. *)
LEMMA OffloadKeepsTest ==
  ASSUME TestInv, OffloadingEvictionTest, OffloadItems("heat")
  PROVE  /\ OnlyTestIt' /\ TestItPlace' /\ TestBooks'
         /\ TestAssertHolds' /\ ConsumeAssertHolds'
<1> DEFINE Kept == /\ OnlyTestIt' /\ TestItPlace' /\ TestBooks'
                   /\ TestAssertHolds' /\ ConsumeAssertHolds'
<1> USE TestTypeFacts DEF TestInv, Threads, Before, Placing, InHands, Offloading
<1>1. ASSUME Dequeue("heat"), ocq = << >> PROVE Kept
  <2>1. /\ pc["heat"] = "ol_deq"
        /\ pc' = [pc EXCEPT !["heat"] = IF running THEN "t_check" ELSE "t_loop"]
        /\ UNCHANGED <<cacheVars, freeBlks, cur, testVars, halted>>
    BY <1>1 DEF Dequeue, At, Goto, AfterOffload, cacheVars, blockVars
  <2> QED BY <1>1, <2>1 DEF OnlyTestIt, TestItPlace, TestBooks, GivenBack, OnTheWay, TestBlks,
             cacheVars, testVars, EvictPCs, TestAssertHolds, ConsumeAssertHolds
<1>2. ASSUME Dequeue("heat"), ocq # << >> PROVE Kept
  <2>1. /\ pc["heat"] = "ol_deq" /\ pc' = [pc EXCEPT !["heat"] = "ol_send"]
        /\ cur' = [cur EXCEPT !["heat"] = Head(ocq)] /\ ocq' = Tail(ocq)
        /\ UNCHANGED <<table, offloaded, ecWait, evicted, freeBlks, testVars, halted>>
    BY <1>2 DEF Dequeue, At, Goto, blockVars
  <2>2. ocq = << testIt >>
    BY <1>2 DEF OnlyTestIt
  <2>3. Head(ocq) = testIt /\ ocq' = << >>
    BY <2>1, <2>2
  <2> QED BY <1>2, <2>1, <2>3 DEF OnlyTestIt, TestItPlace, TestBooks, GivenBack, OnTheWay, TestBlks,
             testVars, EvictPCs, TestAssertHolds, ConsumeAssertHolds
<1>3. ASSUME SendOffload("heat") \/ ShowItem("heat") PROVE Kept
  <2>1. /\ \/ pc["heat"] = "ol_send" /\ pc' = [pc EXCEPT !["heat"] = "ol_state"]
           \/ pc["heat"] = "ol_state" /\ pc' = [pc EXCEPT !["heat"] = "ol_insert"]
        /\ UNCHANGED <<cacheVars, cur, freeBlks, testVars, halted>>
    BY <1>3 DEF SendOffload, ShowItem, At, Goto, blockVars
  <2> QED BY <2>1 DEF OnlyTestIt, TestItPlace, TestBooks, GivenBack, OnTheWay, TestBlks,
             cacheVars, testVars, EvictPCs, TestAssertHolds, ConsumeAssertHolds
<1>4. ASSUME InsertOffloaded("heat") PROVE Kept
  <2>1. /\ pc["heat"] = "ol_insert" /\ pc' = [pc EXCEPT !["heat"] = "ol_consume"]
        /\ offloaded' = [offloaded EXCEPT ![cur["heat"]] = @ + 1]
        /\ UNCHANGED <<table, ocq, ecWait, evicted, cur, freeBlks, testVars, halted>>
    BY <1>4 DEF InsertOffloaded, At, Goto, blockVars
  <2>2. cur["heat"] = testIt /\ testIt \in table /\ offloaded'[testIt] = 1
    BY <2>1 DEF OnlyTestIt, TestItPlace
  <2>3. TestBlks \in Nat /\ TestBlks <= freeBlks /\ TestBlks <= TotBlocks
    <3>1. TestBlks \in Nat /\ TestBlks <= freeBlks
      BY <2>1 DEF TestBooks, OnTheWay, TestBlks
    <3> QED BY <3>1, BlocksAssumption
  <2>4. OnlyTestIt' /\ TestItPlace'
    BY <2>1, <2>2 DEF OnlyTestIt, TestItPlace, testVars, EvictPCs
  <2>5. TestBooks'
    BY <2>1, <2>3 DEF TestBooks, GivenBack, OnTheWay, TestBlks, testVars, EvictPCs
  <2> QED BY <2>1, <2>4, <2>5 DEF TestAssertHolds, ConsumeAssertHolds
<1>5. ASSUME ConsumeBlocks("heat") PROVE Kept
  <2>1. pc["heat"] = "ol_consume" /\ cur["heat"] = testIt /\ OnTheWay /\ TestBlks \in Nat
    BY <1>5 DEF ConsumeBlocks, At, OnlyTestIt, OnTheWay, TestBlks
  <2>2. TestBlks <= freeBlks /\ ocq = << >>
    BY <2>1 DEF TestBooks, OnlyTestIt
  <2>3. /\ freeBlks' = freeBlks - TestBlks /\ pc' = [pc EXCEPT !["heat"] = "ol_deq"]
        /\ UNCHANGED <<cacheVars, testVars, halted>>
    BY <1>5, <2>1, <2>2 DEF ConsumeBlocks, Goto, TestBlks
  <2> QED BY <2>1, <2>2, <2>3 DEF OnlyTestIt, TestItPlace, TestBooks, GivenBack, OnTheWay, TestBlks,
             cacheVars, testVars, EvictPCs, TestAssertHolds, ConsumeAssertHolds
<1> QED BY <1>1, <1>2, <1>3, <1>4, <1>5 DEF OffloadItems

(* A file becomes the object under test; the test thread compares the free *)
(* blocks with what it read before the eviction, and goes round.           *)
LEMMA HeatKeepsTest ==
  ASSUME TestInv, OffloadingEvictionTest, HeatDataplane \/ TestThread
  PROVE  /\ OnlyTestIt' /\ TestItPlace' /\ TestBooks'
         /\ TestAssertHolds' /\ ConsumeAssertHolds'
<1> DEFINE Kept == /\ OnlyTestIt' /\ TestItPlace' /\ TestBooks'
                   /\ TestAssertHolds' /\ ConsumeAssertHolds'
<1> USE TestTypeFacts DEF TestInv, Threads, Before, Placing, InHands, Offloading
<1>1. ASSUME NEW it \in Items, HeatPut(it) PROVE Kept
  <2>1. /\ pc["heat"] = "next" /\ pc' = [pc EXCEPT !["heat"] = "place"] /\ it \notin table
        /\ table' = table \cup {it} /\ cur' = [cur EXCEPT !["heat"] = it]
        /\ UNCHANGED <<ocq, offloaded, ecWait, evicted, freeBlks, testVars, halted>>
    BY <1>1 DEF HeatPut, At, Goto, blockVars
  <2> QED BY <2>1 DEF OnlyTestIt, TestItPlace, TestBooks, GivenBack, OnTheWay, TestBlks,
             testVars, EvictPCs, TestAssertHolds, ConsumeAssertHolds
<1>2. ASSUME HeatPlace \/ HeatKeep PROVE Kept
  <2> DEFINE it == cur["heat"]
  <2>1. /\ \/ /\ pc["heat"] = "place"
              /\ pc' = [pc EXCEPT !["heat"] = IF NbBlk(Size[it]) < freeBlks THEN "h_enq" ELSE "h_state"]
           \/ pc["heat"] = "h_state" /\ pc' = [pc EXCEPT !["heat"] = "h_insert"]
        /\ UNCHANGED <<cacheVars, freeBlks, cur, testVars, halted>>
    BY <1>2 DEF HeatPlace, HeatKeep, At, Goto, blockVars
  <2>2. it \in Items /\ NbBlk(Size[it]) \in Nat
    BY <2>1
  <2> QED BY <2>1, <2>2 DEF OnlyTestIt, TestItPlace, TestBooks, GivenBack, OnTheWay, TestBlks,
             cacheVars, testVars, EvictPCs, TestAssertHolds, ConsumeAssertHolds
<1>8. ASSUME HeatEnqueue \/ HeatInsert PROVE Kept
  <2> DEFINE it == cur["heat"]
  <2>1. /\ pc["heat"] \in {"h_enq", "h_insert"} /\ pc' = [pc EXCEPT !["heat"] = "ol_deq"]
        /\ testIt' = it /\ ocq' = IF pc["heat"] = "h_enq" THEN Append(ocq, it) ELSE ocq
        /\ UNCHANGED <<table, offloaded, ecWait, evicted, freeBlks, running, halted>>
    BY <1>8 DEF HeatEnqueue, HeatInsert, HeatPlaced, At, Goto, blockVars
  <2>2. /\ ocq = << >> /\ it \in table /\ offloaded[it] = 0 /\ ~running
        /\ pc["heat"] = "h_enq" => NbBlk(Size[it]) <= freeBlks
    BY <2>1 DEF OnlyTestIt, TestItPlace, TestBooks
  <2>3. ocq' = IF pc["heat"] = "h_enq" THEN << it >> ELSE << >>
    BY <2>1, <2>2
  <2> QED BY <2>1, <2>2, <2>3 DEF OnlyTestIt, TestItPlace, TestBooks, GivenBack, OnTheWay, TestBlks,
             EvictPCs, TestAssertHolds, ConsumeAssertHolds
<1>3. ASSUME HeatDone PROVE Kept
  <2>1. /\ pc["heat"] = "next" /\ pc' = [pc EXCEPT !["heat"] = "done"]
        /\ UNCHANGED <<cacheVars, freeBlks, testVars, halted>>
    BY <1>3 DEF HeatDone, At, Goto, blockVars
  <2> QED BY <2>1 DEF OnlyTestIt, TestItPlace, TestBooks, GivenBack, OnTheWay, TestBlks,
             cacheVars, testVars, EvictPCs, TestAssertHolds, ConsumeAssertHolds
<1>9. ASSUME TestBegin PROVE Kept
  <2>1. /\ pc["heat"] = "t_loop" /\ pc' = [pc EXCEPT !["heat"] = "t_del"]
        /\ running' = TRUE /\ before' = freeBlks /\ testIt' = testIt
        /\ UNCHANGED <<cacheVars, freeBlks, cur, halted>>
    BY <1>9 DEF TestBegin, At, Goto, blockVars
  <2> QED BY <2>1 DEF OnlyTestIt, TestItPlace, TestBooks, GivenBack, OnTheWay, TestBlks,
             cacheVars, EvictPCs, TestAssertHolds, ConsumeAssertHolds
<1>4. ASSUME TestEvict PROVE Kept
  <2>1. pc["heat"] = "t_del" /\ testIt \in Items
    BY <1>4 DEF TestEvict, At
  <2>2. CASE offloaded[testIt] = 0
    <3>1. UNCHANGED <<cacheVars, freeBlks, threadVars>> /\ halted' = "unlinked_delete"
      BY <1>4, <2>2 DEF TestEvict, Halt, blockVars
    <3> QED BY <3>1, TestFrame DEF TestAssertHolds, ConsumeAssertHolds
  <2>3. CASE offloaded[testIt] # 0
    <3>1. /\ offloaded' = [offloaded EXCEPT ![testIt] = @ - 1] /\ ecWait' = ecWait \cup {testIt}
          /\ pc' = [pc EXCEPT !["heat"] = "ev_enter"]
          /\ UNCHANGED <<table, ocq, evicted, freeBlks, cur, testVars, halted>>
      BY <1>4, <2>3 DEF TestEvict, Goto, blockVars
    <3>2. offloaded[testIt] = 1 /\ ecWait = {}
      BY <2>1, <2>3 DEF TestItPlace, OnlyTestIt
    <3>3. \A it \in Items : offloaded'[it] = IF it = testIt THEN 0 ELSE offloaded[it]
      BY <3>1, <3>2
    <3>4. OnlyTestIt' /\ TestItPlace'
      BY <2>1, <3>1, <3>2, <3>3 DEF OnlyTestIt, TestItPlace, EvictPCs, testVars
    <3>5. TestBooks'
      BY <2>1, <3>1, <3>2 DEF TestBooks, GivenBack, OnTheWay, TestBlks, EvictPCs, testVars
    <3> QED BY <3>1, <3>4, <3>5 DEF TestAssertHolds, ConsumeAssertHolds
  <2> QED BY <2>2, <2>3
<1>5. ASSUME TestEnqueue PROVE Kept
  <2>1. /\ pc["heat"] = "t_enq" /\ pc' = [pc EXCEPT !["heat"] = "ol_deq"]
        /\ ocq' = Append(ocq, testIt)
        /\ UNCHANGED <<table, offloaded, ecWait, evicted, freeBlks, cur, testVars, halted>>
    BY <1>5 DEF TestEnqueue, At, Goto, blockVars
  <2>a. ocq = << >> /\ testIt \in Items
    BY <2>1 DEF OnlyTestIt
  <2>b. ocq' = << testIt >> /\ << testIt >> # << >>
    BY <2>1, <2>a
  <2>2. ocq = << >> /\ ocq' = << testIt >> /\ GivenBack /\ GivenBack'
    BY <2>1, <2>a, <2>b DEF GivenBack, OnTheWay
  <2>3. TestBlks <= freeBlks
    BY <2>1, <2>2 DEF TestBooks, TestBlks
  <2> QED BY <2>1, <2>2, <2>3 DEF OnlyTestIt, TestItPlace, TestBooks, TestBlks, OnTheWay,
             testVars, EvictPCs, TestAssertHolds, ConsumeAssertHolds
<1>6. ASSUME TestCheck PROVE Kept
  <2>1. pc["heat"] = "t_check"
    BY <1>6 DEF TestCheck, At
  <2>2. before = freeBlks
    BY <2>1 DEF TestBooks, GivenBack, OnTheWay
  <2>3. /\ pc' = [pc EXCEPT !["heat"] = "t_loop"]
        /\ UNCHANGED <<cacheVars, freeBlks, cur, testIt, running, before, halted>>
    BY <1>6, <2>2 DEF TestCheck, Goto, blockVars
  <2> QED BY <2>1, <2>3 DEF OnlyTestIt, TestItPlace, TestBooks, GivenBack, OnTheWay, TestBlks,
             cacheVars, EvictPCs, TestAssertHolds, ConsumeAssertHolds
<1>7. ASSUME TestDone PROVE Kept
  <2>1. /\ pc["heat"] = "t_loop" /\ pc' = [pc EXCEPT !["heat"] = "next"] /\ running' = FALSE
        /\ UNCHANGED <<cacheVars, freeBlks, cur, testIt, before, halted>>
    BY <1>7 DEF TestDone, At, Goto, blockVars
  <2> QED BY <2>1 DEF OnlyTestIt, TestItPlace, TestBooks, GivenBack, OnTheWay, TestBlks,
             cacheVars, EvictPCs, TestAssertHolds, ConsumeAssertHolds
<1> QED BY <1>1, <1>2, <1>3, <1>4, <1>5, <1>6, <1>7, <1>8, <1>9 DEF HeatDataplane, TestThread

LEMMA TestStep ==
  ASSUME OffloadingEvictionTest, TestInv, [Next]_vars
  PROVE  TestInv'
<1>1. TypeInv'
  BY TypeStep DEF TestInv
<1>2. ~OptimStep /\ ~WakeUp
  BY TestTypeFacts, OptimAsleep DEF TestInv
<1>3. ASSUME HeatStep PROVE TestInv'
  BY <1>1, <1>3, EvictKeepsTest, OffloadKeepsTest, HeatKeepsTest DEF HeatStep, TestInv
<1>4. ASSUME UNCHANGED <<cacheVars, freeBlks, threadVars>>,
             halted' \in {halted, "refcount_assert", "null_deref"}
      PROVE  TestInv'
  BY <1>1, <1>4, TestFrame DEF TestInv, TestAssertHolds, ConsumeAssertHolds
<1>5. ASSUME NEW r \in Requests, ServerStep(r) \/ ServerCall(r) PROVE TestInv'
  <2>1. halted' \in {halted, "refcount_assert", "null_deref"}
    BY <1>5 DEF ServerStep, ServerCall, GetLookup, AccessItem, IncrRefcount, IncrCheck,
       FreeLookup, FreeItem, DecrRefcount, DecrCheck, FreeWrongHv, Halt
  <2> QED BY <1>4, <1>5, <2>1, ServerMovesNothing DEF blockVars
<1>6. ASSUME UNCHANGED vars PROVE TestInv'
  BY <1>4, <1>6 DEF vars, blockVars
<1> QED BY <1>2, <1>3, <1>5, <1>6 DEF Next

LEMMA TestInit == Init => TestInv
<1> SUFFICES ASSUME Init PROVE TestInv
  OBVIOUS
<1>1. pc["heat"] = "next" /\ running = FALSE
  BY DEF Init, Threads
<1> QED BY <1>1, TypeInit
       DEF Init, TestInv, OnlyTestIt, TestItPlace, TestBooks, OnTheWay, EvictPCs, TestAssertHolds,
           ConsumeAssertHolds, Before, Placing, InHands, Offloading

(* In every build, for any objects, sizes and number of blocks: evicting   *)
(* an object and offloading it again gives back exactly the blocks it took *)
(* (OffloadingEvictionTestThread: assert(before == after)).                *)
THEOREM TestThreadGivesBack == Spec => []TestAssertHolds
<1>1. CASE OffloadingEvictionTest
  <2>1. TestInv /\ [Next]_vars => TestInv'
    BY <1>1, TestStep
  <2>2. TestInv => TestAssertHolds
    BY DEF TestInv
  <2> QED BY <2>1, <2>2, TestInit, PTL DEF Spec
<1>2. CASE ~OffloadingEvictionTest
  <2> DEFINE I == TypeInv /\ TestAssertHolds
  <2>1. I /\ [Next]_vars => I'
    <3> SUFFICES ASSUME I, [Next]_vars PROVE TestAssertHolds'
      BY TypeStep
    <3>1. ~TestThread
      BY <1>2 DEF TestThread, TestBegin, TestEvict, TestEnqueue, TestCheck, TestDone, At, TypeInv,
         LabelInv, TestPCs
    <3>2. UNCHANGED halted \/ halted' # "test_assert"
      BY <3>1 DEF Next, HeatStep, OptimStep, EvictItems, OffloadItems, HeatDataplane, OptimCache,
         GetEc, WakeUp, ServerStep, ServerCall, EvictEnter, SendEviction, EvictItem,
         InsertUnoffloaded, FreeBlocks, EvictCheck, EvictDone, Dequeue, SendOffload, ShowItem,
         InsertOffloaded, ConsumeBlocks, HeatPut, HeatPlace, HeatEnqueue, HeatKeep, HeatInsert,
         HeatPlaced, HeatDone, GetOc, CallGetOc, MarkOc, EnqueueOc, ComputeRequired, CallGetEc,
         SampleEc, MarkEc, ReadRefcount, BackOff, TakeEc, EnoughBlocks, RoundDone, GetLookup,
         AccessItem, IncrRefcount, IncrCheck, FreeLookup, FreeItem, DecrRefcount, DecrCheck,
         FreeWrongHv, Halt, vars
    <3> QED BY <3>2 DEF TestAssertHolds
  <2>2. Init => I
    BY TypeInit DEF Init, TestAssertHolds
  <2> QED BY <2>1, <2>2, PTL DEF Spec
<1> QED BY <1>1, <1>2

(* As long as OptimCache does not run, in the shipped build and in the     *)
(* test build, OffloadItems never runs out of blocks.                      *)
THEOREM ConsumeNeverFailsAlone == ~RunCacheOptimization /\ Spec => []ConsumeAssertHolds
<1>1. CASE OffloadingEvictionTest
  <2>1. TestInv /\ [Next]_vars => TestInv'
    BY <1>1, TestStep
  <2>2. TestInv => ConsumeAssertHolds
    BY DEF TestInv
  <2> QED BY <2>1, <2>2, TestInit, PTL DEF Spec
<1>2. CASE ~OffloadingEvictionTest
  BY <1>2, ConsumeNeverFails DEF DefaultBuild
<1> QED BY <1>1, <1>2
-----------------------------------------------------------------------------
(* The steps of the test build keep the books. *)
LEMMA TestKeepsBooks ==
  ASSUME OffloadingEvictionTest, TestInv, BlockAccounting, [Next]_vars
  PROVE  BlockAccounting'
<1>t. /\ pc \in [Threads -> HeatPCs \cup OptimPCs \cup EvictPCs \cup OffloadPCs]
      /\ cur \in [Threads -> Items \cup {NoItem}] /\ offloaded \in [Items -> Nat]
      /\ pc["optim"] = "sleep" /\ ~RunCacheOptimization
      /\ pc["heat"] \in InHands => cur["heat"] \in Items
      /\ pc["heat"] \notin Before => testIt \in Items
  BY TestTypeFacts DEF TestInv
<1>v. TypeInv /\ BlockAccounting /\ OnlyTestIt /\ TestItPlace
  BY DEF TestInv
<1> USE DEF cacheVars, blockVars, Threads
<1>1. ASSUME EvictItems("heat") PROVE BlockAccounting'
  <2>1. ASSUME EvictEnter("heat") \/ InsertUnoffloaded("heat") \/ EvictCheck("heat")
               \/ EvictDone("heat")
        PROVE  BlockAccounting'
    <3>1. UNCHANGED <<offloaded, ecWait, evicted, freeBlks>>
      BY <2>1 DEF EvictEnter, InsertUnoffloaded, EvictCheck, EvictDone, Halt
    <3>2. /\ \A t \in Threads :
               pc'[t] \in {"ev_insert", "ev_free"} <=> pc[t] \in {"ev_insert", "ev_free"}
          /\ \A t \in Threads : pc'[t] = "ol_consume" <=> pc[t] = "ol_consume"
      BY <1>t, <2>1 DEF EvictEnter, InsertUnoffloaded, EvictCheck, EvictDone, At, Goto,
         AfterEvict, Halt, threadVars
    <3>3. \A t \in Threads :
             pc[t] \in {"ev_insert", "ev_free", "ol_consume"} => cur'[t] = cur[t]
      BY <1>t, <2>1 DEF EvictEnter, InsertUnoffloaded, EvictCheck, EvictDone, At, Halt, threadVars
    <3>4. \A it : Out(it)' <=> Out(it)
      BY <3>1, <3>2, <3>3, OutFrame
    <3> QED BY <1>v, <3>1, <3>2, <3>3, <3>4, BookFrame
  <2>2. ASSUME SendEviction("heat") PROVE BlockAccounting'
    <3>1. /\ pc["heat"] = "ev_wait" /\ pc' = [pc EXCEPT !["heat"] = "ev_apply"] /\ cur' = cur
          /\ evicted = {} /\ ecWait' = {} /\ evicted' = ecWait /\ UNCHANGED <<offloaded, freeBlks>>
      BY <1>v, <2>2 DEF SendEviction, At, Goto, OnlyTestIt
    <3>2. \A it \in Items : Leaving(it)' <=> Leaving(it)
      BY <1>t, <3>1 DEF Leaving
    <3>3. \A it \in Items : Out(it)' <=> Out(it)
      BY <3>1, <3>2 DEF Out
    <3>4. \A t \in Threads : pc'[t] = "ol_consume" <=> pc[t] = "ol_consume"
      BY <1>t, <3>1
    <3> QED BY <1>v, <3>1, <3>3, <3>4, BookFrame
  <2>3. ASSUME NEW it \in Items, EvictItem("heat", it) PROVE BlockAccounting'
    BY <1>v, <2>3, EvictBooks
  <2>4. ASSUME FreeBlocks("heat") PROVE BlockAccounting'
    <3>1. pc["heat"] = "ev_free" /\ cur["heat"] = testIt
      BY <1>v, <2>4 DEF FreeBlocks, At, OnlyTestIt, InHands
    <3>2. offloaded[cur["heat"]] = 0 /\ cur["heat"] \notin ecWait \cup evicted
      BY <1>v, <3>1 DEF OnlyTestIt, TestItPlace, EvictPCs
    <3> QED BY <1>t, <1>v, <2>4, <3>2, FreeBooks
  <2> QED BY <1>1, <2>1, <2>2, <2>3, <2>4 DEF EvictItems
<1>2. ASSUME OffloadItems("heat") PROVE BlockAccounting'
  <2>1. ASSUME Dequeue("heat") \/ SendOffload("heat") \/ ShowItem("heat") PROVE BlockAccounting'
    <3>1. UNCHANGED <<offloaded, ecWait, evicted, freeBlks>>
      BY <2>1 DEF Dequeue, SendOffload, ShowItem
    <3>2. /\ \A t \in Threads :
               pc'[t] \in {"ev_insert", "ev_free"} <=> pc[t] \in {"ev_insert", "ev_free"}
          /\ \A t \in Threads : pc'[t] = "ol_consume" <=> pc[t] = "ol_consume"
          /\ \A t \in Threads :
               pc[t] \in {"ev_insert", "ev_free", "ol_consume"} => cur'[t] = cur[t]
      BY <1>t, <2>1 DEF Dequeue, SendOffload, ShowItem, At, Goto, AfterOffload
    <3>3. \A it : Out(it)' <=> Out(it)
      BY <3>1, <3>2, OutFrame
    <3> QED BY <1>v, <3>1, <3>2, <3>3, BookFrame
  <2>2. ASSUME InsertOffloaded("heat") PROVE BlockAccounting'
    <3>1. pc["heat"] = "ol_insert" /\ cur["heat"] = testIt
      BY <1>v, <2>2 DEF InsertOffloaded, At, OnlyTestIt, InHands
    <3>2. offloaded[cur["heat"]] = 0 /\ cur["heat"] \notin ecWait \cup evicted
      BY <1>v, <3>1 DEF OnlyTestIt, TestItPlace
    <3>3. ~Out(cur["heat"])
      BY <1>t, <3>1, <3>2 DEF Out, Leaving
    <3> QED BY <1>v, <2>2, <3>3, InsertBooks
  <2>3. ASSUME ConsumeBlocks("heat") PROVE BlockAccounting'
    BY <1>v, <2>3, ConsumeBooks
  <2> QED BY <1>2, <2>1, <2>2, <2>3 DEF OffloadItems
<1>3. ASSUME HeatDataplane \/ TestBegin \/ TestEnqueue \/ TestCheck \/ TestDone
      PROVE  BlockAccounting'
  <2>1. UNCHANGED <<offloaded, ecWait, evicted, freeBlks>>
    BY <1>3 DEF HeatDataplane, HeatPut, HeatPlace, HeatEnqueue, HeatKeep, HeatInsert, HeatPlaced,
       HeatDone, TestBegin, TestEnqueue, TestCheck, TestDone, Halt
  <2>2. \/ UNCHANGED <<pc, cur>>
        \/ /\ {pc["heat"], pc'["heat"]} \cap {"ol_consume", "ev_insert", "ev_free"} = {}
           /\ pc'["optim"] = pc["optim"] /\ cur'["optim"] = cur["optim"]
    BY <1>3, <1>t DEF HeatDataplane, HeatPut, HeatPlace, HeatEnqueue, HeatKeep, HeatInsert,
       HeatPlaced, HeatDone, TestBegin, TestEnqueue, TestCheck, TestDone, Halt, At, Goto, threadVars
  <2>3. \A it : Out(it)' <=> Out(it)
    BY <2>1, <2>2, OutFrame
  <2> QED BY <1>v, <2>1, <2>2, <2>3, BookFrame
<1>4. ASSUME TestEvict PROVE BlockAccounting'
  <2>1. pc["heat"] = "t_del" /\ testIt \in Items
    BY <1>4, <1>t DEF TestEvict, At, Before, Placing
  <2>2. CASE offloaded[testIt] = 0
    <3>1. UNCHANGED <<offloaded, ecWait, evicted, freeBlks, pc, cur>>
      BY <1>4, <2>2 DEF TestEvict, Halt, threadVars
    <3>2. \A it : Out(it)' <=> Out(it)
      BY <3>1, OutFrame
    <3> QED BY <1>v, <3>1, <3>2, BookFrame
  <2>3. CASE offloaded[testIt] # 0
    <3>1. /\ offloaded' = [offloaded EXCEPT ![testIt] = @ - 1] /\ ecWait' = ecWait \cup {testIt}
          /\ pc' = [pc EXCEPT !["heat"] = "ev_enter"] /\ UNCHANGED <<evicted, freeBlks, cur>>
      BY <1>4, <2>3 DEF TestEvict, Goto
    <3>2. \A it \in Items : Leaving(it)' <=> Leaving(it)
      BY <1>t, <2>1, <3>1 DEF Leaving
    <3>3. offloaded[testIt] = 1
      BY <1>t, <1>v, <2>1, <2>3 DEF TestItPlace
    <3>4. \A it \in Items : Out(it)' <=> Out(it)
      BY <1>t, <2>1, <2>3, <3>1, <3>2, <3>3 DEF Out
    <3>5. \A t \in Threads : pc'[t] = "ol_consume" <=> pc[t] = "ol_consume"
      BY <1>t, <2>1, <3>1
    <3> QED BY <1>v, <3>1, <3>4, <3>5, BookFrame
  <2> QED BY <2>2, <2>3
<1>5. ASSUME UNCHANGED <<cacheVars, blockVars, threadVars>> PROVE BlockAccounting'
  <2>1. UNCHANGED <<offloaded, ecWait, evicted, freeBlks, pc, cur>>
    BY <1>5 DEF threadVars
  <2>2. \A it : Out(it)' <=> Out(it)
    BY <2>1, OutFrame
  <2> QED BY <1>v, <2>1, <2>2, BookFrame
<1>6. ~OptimStep /\ ~WakeUp
  BY <1>t, OptimAsleep
<1>7. ASSUME NEW r \in Requests, ServerStep(r) \/ ServerCall(r) PROVE BlockAccounting'
  BY <1>5, <1>7, ServerMovesNothing
<1>8. ASSUME UNCHANGED vars PROVE BlockAccounting'
  BY <1>5, <1>8 DEF vars
<1> QED
  BY <1>1, <1>2, <1>3, <1>4, <1>6, <1>7, <1>8 DEF Next, HeatStep, TestThread

(* In every build, for any objects, sizes, requests and number of blocks,  *)
(* the free block counter agrees with the offloaded cache and with the     *)
(* objects on their way out, whoever evicts and offloads meanwhile.        *)
THEOREM BooksAlwaysBalance == Spec => []BlockAccounting
<1>1. CASE OffloadingEvictionTest
  <2> DEFINE I == TestInv /\ BlockAccounting
  <2>1. I /\ [Next]_vars => I'
    BY <1>1, TestStep, TestKeepsBooks
  <2>2. Init => I
    <3> SUFFICES ASSUME Init PROVE BlockAccounting
      BY TestInit
    <3>1. UsedBlks = {} /\ OwedBlks = {}
      BY DEF Init, UsedBlks, OwedBlks, Leaving, Threads
    <3> QED BY <3>1, FS_EmptySet, BlocksAssumption DEF Init, BlockAccounting
  <2> QED BY <2>1, <2>2, PTL DEF Spec
<1>2. CASE ~OffloadingEvictionTest
  BY <1>2, BooksBalance
<1> QED BY <1>1, <1>2

(* As long as OptimCache does not run, cache_ctrl_free_blocks never gives  *)
(* back more blocks than the NIC has.                                      *)
THEOREM FreeNeverAsserts == ~RunCacheOptimization /\ Spec => []FreeAssertHolds
<1> SUFFICES ASSUME ~RunCacheOptimization PROVE Spec => []FreeAssertHolds
  OBVIOUS
<1> DEFINE I == /\ TypeInv /\ FreeAssertHolds
                /\ OffloadingEvictionTest => TestInv /\ BlockAccounting
<1>1. I /\ [Next]_vars => I'
  <2> SUFFICES ASSUME I, [Next]_vars PROVE FreeAssertHolds'
    BY TypeStep, TestStep, TestKeepsBooks
  <2>1. ASSUME NEW th \in Threads, FreeBlocks(th)
        PROVE  freeBlks + NbBlk(Size[cur[th]]) <= TotBlocks
    <3> DEFINE n == NbBlk(Size[testIt])
    <3>1. th = "heat" /\ pc["heat"] = "ev_free" /\ OffloadingEvictionTest
      BY <2>1 DEF FreeBlocks, At, Threads, EvictPCs, OptimPCs, TypeInv, LabelInv
    <3>2. TestInv /\ BlockAccounting
      BY <3>1
    <3>3. cur["heat"] = testIt /\ testIt \in Items /\ pc["optim"] = "sleep"
      BY <3>1, <3>2, TestTypeFacts DEF TestInv, OnlyTestIt, InHands, Before, Placing
    <3>4. n \in Nat /\ n <= TotBlocks
      BY <3>1, <3>2, <3>3, NbBlkType DEF TestInv, TestBooks, TestBlks, EvictPCs, Before,
         Placing
    <3>5. OwedBlks = {}
      BY <3>1, <3>3 DEF OwedBlks, Threads
    <3>6. Pile(testIt, n) \subseteq UsedBlks
      BY <3>1, <3>3 DEF Pile, UsedBlks, Leaving, Threads
    <3> HIDE DEF n
    <3>7. IsFiniteSet(Pile(testIt, n)) /\ Cardinality(Pile(testIt, n)) = n
      BY <3>3, <3>4, PileSize
    <3>8. n <= Cardinality(UsedBlks)
      BY <3>6, <3>7, BooksFinite, FS_Subset
    <3>9. freeBlks + Cardinality(UsedBlks) = TotBlocks + 0
      BY <3>2, <3>5, FS_EmptySet DEF BlockAccounting
    <3>10. freeBlks \in Nat /\ TotBlocks \in Nat /\ Cardinality(UsedBlks) \in Nat
      BY BooksFinite, BlocksAssumption DEF TypeInv, TypeOK, BlockTypes
    <3>11. freeBlks + n <= TotBlocks
      BY <3>4, <3>8, <3>9, <3>10
    <3> QED BY <3>1, <3>3, <3>11 DEF n
  <2>2. ASSUME NEW th \in Threads, EvictItems(th) PROVE FreeAssertHolds'
    <3>1. ASSUME FreeBlocks(th) PROVE FreeAssertHolds'
      <4>1. cur[th] \in Items
        BY <3>1 DEF FreeBlocks, At, TypeInv, LabelInv, InHands
      <4>2. ~(freeBlks + NbBlk(Size[cur[th]]) > TotBlocks)
        BY <3>1, <2>1, <4>1, NbBlkType, BlocksAssumption DEF TypeInv, TypeOK, BlockTypes
      <4> QED BY <3>1, <4>2 DEF FreeBlocks, Halt, FreeAssertHolds
    <3> QED BY <2>2, <3>1 DEF EvictItems, EvictEnter, SendEviction, EvictItem, InsertUnoffloaded,
               EvictCheck, EvictDone, Halt, FreeAssertHolds
  <2>3. UNCHANGED halted \/ halted' # "free_assert" \/ \E th \in Threads : EvictItems(th)
    BY DEF Next, HeatStep, OptimStep, OffloadItems, HeatDataplane, OptimCache, TestThread, GetEc,
       WakeUp, ServerStep, ServerCall, Dequeue, SendOffload, ShowItem, InsertOffloaded,
       ConsumeBlocks, HeatPut, HeatPlace, HeatEnqueue, HeatKeep, HeatInsert, HeatPlaced, HeatDone,
       TestBegin, TestEvict, TestEnqueue, TestCheck, TestDone, GetOc, CallGetOc, MarkOc, EnqueueOc,
       ComputeRequired, CallGetEc, SampleEc, MarkEc, ReadRefcount, BackOff, TakeEc, EnoughBlocks,
       RoundDone, GetLookup, AccessItem, IncrRefcount, IncrCheck, FreeLookup, FreeItem,
       DecrRefcount, DecrCheck, FreeWrongHv, Halt, vars, Threads
  <2> QED BY <2>2, <2>3 DEF FreeAssertHolds
<1>2. Init => I
  <2> SUFFICES ASSUME Init PROVE FreeAssertHolds /\ BlockAccounting
    BY TypeInit, TestInit
  <2>1. UsedBlks = {} /\ OwedBlks = {}
    BY DEF Init, UsedBlks, OwedBlks, Leaving, Threads
  <2> QED BY <2>1, FS_EmptySet, BlocksAssumption DEF Init, BlockAccounting, FreeAssertHolds
<1>3. I => FreeAssertHolds
  OBVIOUS
<1> QED BY <1>1, <1>2, <1>3, PTL DEF Spec
=============================================================================
