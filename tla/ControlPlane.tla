---------------------------- MODULE ControlPlane ----------------------------
(***************************************************************************)
(* The control plane of one core: the server threads that look an object   *)
(* up and release it, the OptimCache thread that swaps objects between the *)
(* host and the NIC, and the HeatDataplane thread that fills the NIC at    *)
(* start-up.  They share the items (state and reference count), the two    *)
(* caches, the offloading queue, the eviction wait tree and the count of   *)
(* free NIC blocks.                                                        *)
(*                                                                         *)
(* Every access to something two threads share (an item's state or count,  *)
(* the hash table, a cache or the block counter under its spinlock, the    *)
(* offloading queue) is a step of its own.  What only its own thread reads *)
(* (locals, the wait tree, the replies) changes with the step it follows.  *)
(*                                                                         *)
(* net_send_offloading_message and net_send_eviction_message are one step  *)
(* each: the step is the moment they return, which may never come, so no   *)
(* fairness is assumed of it.  The exchanges themselves are specified in   *)
(* OffloadTransfer and EvictionExchange.                                   *)
(***************************************************************************)
EXTENDS Integers, Sequences, FiniteSets

CONSTANTS
  Items,                  \* the objects of the configured directories
  Requests,               \* the server's request slots, each on its own thread
  Size,                   \* Size[it]: it->sv->sz
  BlockSize,              \* DATAPLANE_BLOCK_SIZE
  TotBlocks,              \* ctrl.tot_nb_blks
  NbOffloads,             \* CP_CONFIG.nb_offloads
  RunCacheOptimization,   \* RUN_CACHE_OPTIMIZATION
  OffloadingEvictionTest, \* OFFLOADING_EVICTION_TEST
  MaxTestCount,           \* MAX_TEST_COUNT
  OffloadedType,          \* the cache type cm_offloaded is created with
  UnoffloadedType,        \* the cache type cm_unoffloaded is created with
  WrongHv,                \* whether the server may free an unknown hv
  NoItem

ASSUME ItemsAssumption == IsFiniteSet(Items) /\ NoItem \notin Items
ASSUME RequestsAssumption == IsFiniteSet(Requests)
ASSUME SizeAssumption == Size \in [Items -> Nat]
ASSUME BlocksAssumption == BlockSize \in Nat \ {0} /\ TotBlocks \in Nat
ASSUME BoundsAssumption == NbOffloads \in Nat /\ MaxTestCount \in Nat
ASSUME TypesAssumption ==
         {OffloadedType, UnoffloadedType} \subseteq {"HOST_CACHE", "NIC_CACHE"}
ASSUME SwitchesAssumption ==
         /\ RunCacheOptimization \in BOOLEAN
         /\ OffloadingEvictionTest \in BOOLEAN
         /\ WrongHv \in BOOLEAN
\* The test thread and OptimCache would share one reply queue and one wait tree.
ASSUME OneEvictorAssumption == ~(RunCacheOptimization /\ OffloadingEvictionTest)

VARIABLES
  state,        \* state[it]: it->state
  refcount,     \* refcount[it]: it->vv->refcount
  table,        \* the items in the hash table
  ocq,          \* the offloading queue, oldest first
  offloaded,    \* offloaded[it]: times it is linked in the offloaded cache
  unoffloaded,  \* unoffloaded[it]: times it is linked in the unoffloaded cache
  ecWait,       \* the eviction wait tree
  freeBlks,     \* ctrl.nb_free_blks
  nic,          \* the objects the data plane holds (external)
  pc,           \* pc[th]: where a background thread is
  cur,          \* cur[th]: the item it works on
  evicted,      \* items whose eviction replies EvictItems has yet to apply
  nbOcs,        \* OptimCache's nb_ocs,
  totOcSz,      \* its tot_oc_sz,
  required,     \* its nb_blk_required
  refs,         \* and get_ec's copy of a reference count
  testIt,       \* the test thread's test_it,
  running,      \* whether it is between its eviction and its check,
  count,        \* its count
  before,       \* and its nb_blks_before_eviction
  rpc,          \* rpc[r]: where a request is
  robj,         \* robj[r]: the object it asked for
  counted,      \* counted[r]: its reference is in refcount (history variable)
  halted        \* why the process stopped, or "no"

itemVars   == <<state, refcount>>
cacheVars  == <<table, ocq, offloaded, unoffloaded, ecWait, evicted>>
blockVars  == <<freeBlks, nic>>
roundVars  == <<nbOcs, totOcSz, required, refs>>
testVars   == <<testIt, running, count, before>>
threadVars == <<pc, cur, roundVars, testVars>>
reqVars    == <<rpc, robj, counted>>
vars == <<itemVars, cacheVars, blockVars, threadVars, reqVars, halted>>

Threads == {"heat", "optim"}

ItemStates == {"NOWHERE", "HOST", "NIC", "WAITING_FOR_OFFLOADING"}

HeatPCs    == {"next", "place", "h_enq", "h_state", "h_insert",
               "t_loop", "t_del", "t_enq", "t_check", "done"}
OptimPCs   == {"sleep", "choose", "oc_state", "oc_enq",
               "ec_pick", "ec_scan", "ec_mark", "ec_read", "ec_test", "dec"}
EvictPCs   == {"ev_enter", "ev_wait", "ev_apply", "ev_insert", "ev_free", "ev_check"}
OffloadPCs == {"ol_deq", "ol_send", "ol_state", "ol_insert", "ol_consume"}

RequestPCs == {"idle", "access", "incr", "incr_chk", "held", "free", "decr", "decr_chk"}

HaltReasons == {"no", "null_call", "null_deref", "bad_index", "unlinked_delete",
                "refcount_assert", "consume_assert", "free_assert",
                "evict_assert", "test_assert"}

(* cache_create: a HOST_CACHE has only get_oc, a NIC_CACHE only get_ec.    *)
HasGetOc(ct) == ct = "HOST_CACHE"
HasGetEc(ct) == ct = "NIC_CACHE"

(* Blocks an object of sz bytes takes (cache_ctrl_consume_blocks).         *)
NbBlk(sz) == sz \div BlockSize + (IF sz % BlockSize # 0 THEN 1 ELSE 0)

(* GET_NB_BLK(tot) - free as the unparenthesised macro expands: free is    *)
(* only subtracted when tot is a multiple of the block size.               *)
NbBlkRequired(tot, free) ==
  IF tot % BlockSize # 0 THEN tot \div BlockSize + 1 ELSE tot \div BlockSize - free

(* free >= GET_NB_BLK(sz), expanded: a conditional on free >= sz % BlockSize. *)
EvictAssertion(free, sz) ==
  (IF free >= sz % BlockSize THEN sz \div BlockSize + 1 ELSE sz \div BlockSize) # 0

Init ==
  /\ state = [it \in Items |-> "NOWHERE"]
  /\ refcount = [it \in Items |-> 0]
  /\ table = {}
  /\ ocq = << >>
  /\ offloaded = [it \in Items |-> 0]
  /\ unoffloaded = [it \in Items |-> 0]
  /\ ecWait = {}
  /\ evicted = {}
  /\ freeBlks = TotBlocks
  /\ nic = {}
  /\ pc = [th \in Threads |-> IF th = "heat" THEN "next" ELSE "sleep"]
  /\ cur = [th \in Threads |-> NoItem]
  /\ nbOcs = 0 /\ totOcSz = 0 /\ required = 0 /\ refs = 0
  /\ testIt = NoItem /\ running = FALSE /\ count = 0 /\ before = 0
  /\ rpc = [r \in Requests |-> "idle"]
  /\ robj = [r \in Requests |-> NoItem]
  /\ counted = [r \in Requests |-> FALSE]
  /\ halted = "no"

Goto(th, label) == pc' = [pc EXCEPT ![th] = label]
At(th, label)   == halted = "no" /\ pc[th] = label
Halt(reason)    == /\ halted' = reason
                   /\ UNCHANGED <<itemVars, cacheVars, blockVars, threadVars, reqVars>>

-----------------------------------------------------------------------------
(* Server threads: control_plane_get_obj_hv and control_plane_free_obj_by_hv. *)

RGoto(r, label) == rpc' = [rpc EXCEPT ![r] = label]
RAt(r, label)   == halted = "no" /\ rpc[r] = label

(* The lookup reads the state under the bucket lock; an object that is not *)
(* on the NIC is refused and nothing changes.                              *)
GetLookup(r, it) ==
  /\ RAt(r, "idle")
  /\ it \in table
  /\ state[it] = "NIC"
  /\ RGoto(r, "access")
  /\ robj' = [robj EXCEPT ![r] = it]
  /\ UNCHANGED <<itemVars, cacheVars, blockVars, threadVars, counted, halted>>

(* hyperbolic_cache_access_item reads the state again; whatever it finds,  *)
(* the get succeeds, but only an item on the NIC is referenced.            *)
AccessItem(r) ==
  /\ RAt(r, "access")
  /\ RGoto(r, IF state[robj[r]] = "NIC" THEN "incr" ELSE "held")
  /\ UNCHANGED <<itemVars, cacheVars, blockVars, threadVars, robj, counted, halted>>

IncrRefcount(r) ==
  /\ RAt(r, "incr")
  /\ refcount' = [refcount EXCEPT ![robj[r]] = @ + 1]
  /\ counted' = [counted EXCEPT ![r] = TRUE]
  /\ RGoto(r, "incr_chk")
  /\ UNCHANGED <<state, cacheVars, blockVars, threadVars, robj, halted>>

(* item_incr_refcount asserts on a second, unsigned read of the counter.   *)
IncrCheck(r) ==
  /\ RAt(r, "incr_chk")
  /\ IF refcount[robj[r]] # 0
     THEN /\ RGoto(r, "held")
          /\ UNCHANGED <<itemVars, cacheVars, blockVars, threadVars, robj, counted, halted>>
     ELSE Halt("refcount_assert")

(* The request is over: a reference it still holds stays in the counter.   *)
Release(r) ==
  /\ RGoto(r, "idle")
  /\ robj' = [robj EXCEPT ![r] = NoItem]
  /\ counted' = [counted EXCEPT ![r] = FALSE]

(* Mutant: the free never reaches the cache.                               *)
FreeLookupOnly(r) ==
  /\ RAt(r, "held")
  /\ Release(r)
  /\ UNCHANGED <<itemVars, cacheVars, blockVars, threadVars, halted>>

(* control_plane_free_obj_by_hv refuses (-1) an item that left the NIC.    *)
FreeLookup(r) ==
  /\ RAt(r, "held")
  /\ IF state[robj[r]] = "NIC"
     THEN RGoto(r, "free") /\ UNCHANGED <<robj, counted>>
     ELSE Release(r)
  /\ UNCHANGED <<itemVars, cacheVars, blockVars, threadVars, halted>>

(* hyperbolic_cache_free_item reads the state once more before decrementing. *)
FreeItem(r) ==
  /\ RAt(r, "free")
  /\ IF state[robj[r]] = "NIC"
     THEN RGoto(r, "decr") /\ UNCHANGED <<robj, counted>>
     ELSE Release(r)
  /\ UNCHANGED <<itemVars, cacheVars, blockVars, threadVars, halted>>

DecrRefcount(r) ==
  /\ RAt(r, "decr")
  /\ refcount' = [refcount EXCEPT ![robj[r]] = @ - 1]
  /\ counted' = [counted EXCEPT ![r] = FALSE]
  /\ RGoto(r, "decr_chk")
  /\ UNCHANGED <<state, cacheVars, blockVars, threadVars, robj, halted>>

DecrCheck(r) ==
  /\ RAt(r, "decr_chk")
  /\ IF refcount[robj[r]] >= 0
     THEN Release(r) /\ UNCHANGED <<itemVars, cacheVars, blockVars, threadVars, halted>>
     ELSE Halt("refcount_assert")

(* hashtable_get_with_hv unlocks for an unknown hv and then reads its state. *)
FreeWrongHv(r) ==
  /\ RAt(r, "idle")
  /\ WrongHv
  /\ Halt("null_deref")

-----------------------------------------------------------------------------
(* EvictItems and OffloadItems, run by either background thread.           *)

AfterEvict(th)   == IF th = "optim" THEN "ol_deq" ELSE "t_enq"
AfterOffload(th) == IF th = "optim" THEN "dec"
                    ELSE IF running THEN "t_check"
                    ELSE IF OffloadingEvictionTest THEN "t_loop" ELSE "next"

EvictEnter(th) ==
  /\ At(th, "ev_enter")
  /\ Goto(th, IF ecWait = {} THEN AfterEvict(th) ELSE "ev_wait")
  /\ UNCHANGED <<itemVars, cacheVars, blockVars, cur, roundVars, testVars, reqVars, halted>>

(* net_send_eviction_message returns, if it does: the data plane dropped   *)
(* every object of the wait tree and the tree is empty.                    *)
SendEviction(th) ==
  /\ At(th, "ev_wait")
  /\ nic' = nic \ ecWait
  /\ evicted' = ecWait
  /\ ecWait' = {}
  /\ Goto(th, "ev_apply")
  /\ UNCHANGED <<itemVars, table, ocq, offloaded, unoffloaded, freeBlks, cur, roundVars,
                 testVars, reqVars, halted>>

(* Mutant: the object is linked without its state being changed.           *)
EvictItemUnmarked(th, it) ==
  /\ At(th, "ev_apply")
  /\ it \in evicted
  /\ evicted' = evicted \ {it}
  /\ cur' = [cur EXCEPT ![th] = it]
  /\ Goto(th, "ev_insert")
  /\ UNCHANGED <<itemVars, table, ocq, offloaded, unoffloaded, ecWait, blockVars, roundVars,
                 testVars, reqVars, halted>>

(* One turn of the loop over the replies: the state is written, ...        *)
EvictItem(th, it) ==
  /\ At(th, "ev_apply")
  /\ it \in evicted
  /\ state' = [state EXCEPT ![it] = "HOST"]
  /\ evicted' = evicted \ {it}
  /\ cur' = [cur EXCEPT ![th] = it]
  /\ Goto(th, "ev_insert")
  /\ UNCHANGED <<refcount, table, ocq, offloaded, unoffloaded, ecWait, blockVars, roundVars,
                 testVars, reqVars, halted>>

(* ... the item linked, ...                                                *)
InsertUnoffloaded(th) ==
  /\ At(th, "ev_insert")
  /\ unoffloaded' = [unoffloaded EXCEPT ![cur[th]] = @ + 1]
  /\ Goto(th, "ev_free")
  /\ UNCHANGED <<itemVars, table, ocq, offloaded, ecWait, evicted, blockVars, cur,
                 roundVars, testVars, reqVars, halted>>

(* ... its blocks given back (cache_ctrl_free_blocks), ...                 *)
FreeBlocks(th) ==
  LET free == freeBlks + NbBlk(Size[cur[th]])
  IN /\ At(th, "ev_free")
     /\ IF free > TotBlocks THEN Halt("free_assert")
        ELSE /\ freeBlks' = free
             /\ Goto(th, "ev_check")
             /\ UNCHANGED <<itemVars, cacheVars, nic, cur, roundVars, testVars, reqVars,
                            halted>>

(* ... and the counter read again, by when another thread may have used it. *)
EvictCheck(th) ==
  /\ At(th, "ev_check")
  /\ IF ~EvictAssertion(freeBlks, Size[cur[th]]) THEN Halt("evict_assert")
     ELSE /\ cur' = [cur EXCEPT ![th] = NoItem]
          /\ Goto(th, "ev_apply")
          /\ UNCHANGED <<itemVars, cacheVars, blockVars, roundVars, testVars, reqVars, halted>>

EvictDone(th) ==
  /\ At(th, "ev_apply")
  /\ evicted = {}
  /\ Goto(th, AfterEvict(th))
  /\ UNCHANGED <<itemVars, cacheVars, blockVars, cur, roundVars, testVars, reqVars, halted>>

Dequeue(th) ==
  /\ At(th, "ol_deq")
  /\ IF ocq = << >>
     THEN /\ Goto(th, AfterOffload(th))
          /\ UNCHANGED <<ocq, cur>>
     ELSE /\ cur' = [cur EXCEPT ![th] = Head(ocq)]
          /\ ocq' = Tail(ocq)
          /\ Goto(th, "ol_send")
  /\ UNCHANGED <<itemVars, table, offloaded, unoffloaded, ecWait, evicted, blockVars,
                 roundVars, testVars, reqVars, halted>>

(* net_send_offloading_message returns, if it does: every chunk was        *)
(* acknowledged.                                                           *)
SendOffload(th) ==
  /\ At(th, "ol_send")
  /\ nic' = nic \cup {cur[th]}
  /\ Goto(th, "ol_state")
  /\ UNCHANGED <<itemVars, cacheVars, freeBlks, cur, roundVars, testVars, reqVars, halted>>

(* From here on the server threads find the item.                          *)
ShowItem(th) ==
  /\ At(th, "ol_state")
  /\ state' = [state EXCEPT ![cur[th]] = "NIC"]
  /\ Goto(th, "ol_insert")
  /\ UNCHANGED <<refcount, cacheVars, blockVars, cur, roundVars, testVars, reqVars, halted>>

(* The offloaded cache's spinlock, which get_ec holds until it returns.    *)
OffloadedLockFree == pc["optim"] \notin {"ec_scan", "ec_mark", "ec_read", "ec_test"}

InsertOffloaded(th) ==
  /\ At(th, "ol_insert")
  /\ OffloadedLockFree
  /\ offloaded' = [offloaded EXCEPT ![cur[th]] = @ + 1]
  /\ Goto(th, "ol_consume")
  /\ UNCHANGED <<itemVars, table, ocq, unoffloaded, ecWait, evicted, blockVars, cur,
                 roundVars, testVars, reqVars, halted>>

(* Mutants: the blocks are taken twice, or not at all.                     *)
ConsumeTwice(th) ==
  /\ At(th, "ol_consume")
  /\ IF NbBlk(Size[cur[th]]) > freeBlks THEN Halt("consume_assert")
     ELSE /\ freeBlks' = freeBlks - 2 * NbBlk(Size[cur[th]])
          /\ cur' = [cur EXCEPT ![th] = NoItem]
          /\ Goto(th, "ol_deq")
          /\ UNCHANGED <<itemVars, cacheVars, nic, roundVars, testVars, reqVars, halted>>
ConsumeNothing(th) ==
  /\ At(th, "ol_consume")
  /\ cur' = [cur EXCEPT ![th] = NoItem]
  /\ Goto(th, "ol_deq")
  /\ UNCHANGED <<itemVars, cacheVars, blockVars, roundVars, testVars, reqVars, halted>>

(* cache_ctrl_consume_blocks, whose failure OffloadItems asserts away.     *)
ConsumeBlocks(th) ==
  /\ At(th, "ol_consume")
  /\ IF NbBlk(Size[cur[th]]) > freeBlks THEN Halt("consume_assert")
     ELSE /\ freeBlks' = freeBlks - NbBlk(Size[cur[th]])
          /\ cur' = [cur EXCEPT ![th] = NoItem]
          /\ Goto(th, "ol_deq")
          /\ UNCHANGED <<itemVars, cacheVars, nic, roundVars, testVars, reqVars, halted>>

-----------------------------------------------------------------------------
(* HeatDataplane: every file of the directories, in readdir's order.       *)

HeatPut(it) ==
  /\ At("heat", "next")
  /\ it \notin table
  /\ table' = table \cup {it}
  /\ cur' = [cur EXCEPT !["heat"] = it]
  /\ Goto("heat", "place")
  /\ UNCHANGED <<itemVars, ocq, offloaded, unoffloaded, ecWait, evicted, blockVars,
                 roundVars, testVars, reqVars, halted>>

(* Mutant: every file is queued.                                           *)
HeatPlaceAlways ==
  /\ At("heat", "place")
  /\ Goto("heat", "h_enq")
  /\ UNCHANGED <<itemVars, cacheVars, blockVars, cur, roundVars, testVars, reqVars, halted>>

(* The file is offloaded when its blocks are fewer than the free ones.     *)
HeatPlace ==
  /\ At("heat", "place")
  /\ Goto("heat", IF NbBlk(Size[cur["heat"]]) < freeBlks THEN "h_enq" ELSE "h_state")
  /\ UNCHANGED <<itemVars, cacheVars, blockVars, cur, roundVars, testVars, reqVars, halted>>

(* The file is where it belongs; the test, if it is built in, is of it.    *)
HeatPlaced ==
  /\ cur' = [cur EXCEPT !["heat"] = NoItem]
  /\ testIt' = IF OffloadingEvictionTest THEN cur["heat"] ELSE NoItem
  /\ Goto("heat", "ol_deq")

HeatEnqueue ==
  /\ At("heat", "h_enq")
  /\ ocq' = Append(ocq, cur["heat"])
  /\ HeatPlaced
  /\ UNCHANGED <<itemVars, table, offloaded, unoffloaded, ecWait, evicted, blockVars,
                 roundVars, running, count, before, reqVars, halted>>

HeatKeep ==
  /\ At("heat", "h_state")
  /\ state' = [state EXCEPT ![cur["heat"]] = "HOST"]
  /\ Goto("heat", "h_insert")
  /\ UNCHANGED <<refcount, cacheVars, blockVars, cur, roundVars, testVars, reqVars, halted>>

HeatInsert ==
  /\ At("heat", "h_insert")
  /\ unoffloaded' = [unoffloaded EXCEPT ![cur["heat"]] = @ + 1]
  /\ HeatPlaced
  /\ UNCHANGED <<itemVars, table, ocq, offloaded, ecWait, evicted, blockVars,
                 roundVars, running, count, before, reqVars, halted>>

HeatDone ==
  /\ At("heat", "next")
  /\ table = Items
  /\ Goto("heat", "done")
  /\ UNCHANGED <<itemVars, cacheVars, blockVars, cur, roundVars, testVars, reqVars, halted>>

(* OffloadingEvictionTestThread, joined by HeatDataplane after each file:  *)
(* it evicts the file straight from the cache and offloads it again.       *)
TestBegin ==
  /\ At("heat", "t_loop")
  /\ count < MaxTestCount
  /\ running' = TRUE
  /\ before' = freeBlks
  /\ Goto("heat", "t_del")
  /\ UNCHANGED <<itemVars, cacheVars, blockVars, cur, roundVars, testIt, count, reqVars,
                 halted>>

(* The wait tree is used by this thread alone: the insertion follows.      *)
TestEvict ==
  /\ At("heat", "t_del")
  /\ IF offloaded[testIt] = 0 THEN Halt("unlinked_delete")
     ELSE /\ offloaded' = [offloaded EXCEPT ![testIt] = @ - 1]
          /\ ecWait' = ecWait \cup {testIt}
          /\ Goto("heat", "ev_enter")
          /\ UNCHANGED <<itemVars, table, ocq, unoffloaded, evicted, blockVars, cur,
                         roundVars, testVars, reqVars, halted>>

TestEnqueue ==
  /\ At("heat", "t_enq")
  /\ ocq' = Append(ocq, testIt)
  /\ Goto("heat", "ol_deq")
  /\ UNCHANGED <<itemVars, table, offloaded, unoffloaded, ecWait, evicted, blockVars,
                 cur, roundVars, testVars, reqVars, halted>>

TestCheck ==
  /\ At("heat", "t_check")
  /\ IF before # freeBlks THEN Halt("test_assert")
     ELSE /\ count' = count + 1
          /\ Goto("heat", "t_loop")
          /\ UNCHANGED <<itemVars, cacheVars, blockVars, cur, roundVars, testIt, running,
                         before, reqVars, halted>>

TestDone ==
  /\ At("heat", "t_loop")
  /\ count >= MaxTestCount
  /\ running' = FALSE
  /\ count' = 0
  /\ Goto("heat", "next")
  /\ UNCHANGED <<itemVars, cacheVars, blockVars, cur, roundVars, testIt, before, reqVars,
                 halted>>

-----------------------------------------------------------------------------
(* OptimCache: one round per wake-up, under mutex_optim_cache.  Counting   *)
(* the requests that lead to a signal is left out: a round may start at    *)
(* any time.                                                               *)

WakeUp ==
  /\ At("optim", "sleep")
  /\ RunCacheOptimization
  /\ nbOcs' = 0 /\ totOcSz' = 0
  /\ Goto("optim", "choose")
  /\ UNCHANGED <<itemVars, cacheVars, blockVars, cur, required, refs, testVars, reqVars,
                 halted>>

(* Mutant: the candidate stays in the unoffloaded cache.                   *)
GetOcKeeps ==
  /\ At("optim", "choose")
  /\ nbOcs < NbOffloads
  /\ \E oc \in {it \in Items : unoffloaded[it] > 0} :
       cur' = [cur EXCEPT !["optim"] = oc]
  /\ Goto("optim", "oc_state")
  /\ UNCHANGED <<itemVars, cacheVars, blockVars, roundVars, testVars, reqVars, halted>>

(* get_oc samples at random and takes the best of the sample, so any item  *)
(* of the cache may come out; on an empty cache it indexes set[-1].        *)
CallGetOc ==
  /\ At("optim", "choose")
  /\ nbOcs < NbOffloads
  /\ IF ~HasGetOc(UnoffloadedType) THEN Halt("null_call")
     ELSE IF \A it \in Items : unoffloaded[it] = 0 THEN Halt("bad_index")
     ELSE /\ \E oc \in {it \in Items : unoffloaded[it] > 0} :
               /\ unoffloaded' = [unoffloaded EXCEPT ![oc] = @ - 1]
               /\ cur' = [cur EXCEPT !["optim"] = oc]
          /\ Goto("optim", "oc_state")
          /\ UNCHANGED <<itemVars, table, ocq, offloaded, ecWait, evicted, blockVars,
                         roundVars, testVars, reqVars, halted>>

MarkOc ==
  /\ At("optim", "oc_state")
  /\ state' = [state EXCEPT ![cur["optim"]] = "WAITING_FOR_OFFLOADING"]
  /\ Goto("optim", "oc_enq")
  /\ UNCHANGED <<refcount, cacheVars, blockVars, cur, roundVars, testVars, reqVars, halted>>

EnqueueOc ==
  LET oc == cur["optim"]
  IN /\ At("optim", "oc_enq")
     /\ ocq' = Append(ocq, oc)
     /\ nbOcs' = nbOcs + 1
     /\ totOcSz' = totOcSz + Size[oc]
     /\ cur' = [cur EXCEPT !["optim"] = NoItem]
     /\ Goto("optim", "choose")
     /\ UNCHANGED <<itemVars, table, offloaded, unoffloaded, ecWait, evicted, blockVars,
                    required, refs, testVars, reqVars, halted>>

ComputeRequired ==
  /\ At("optim", "choose")
  /\ nbOcs >= NbOffloads
  /\ required' = NbBlkRequired(totOcSz, freeBlks)
  /\ Goto("optim", "ec_pick")
  /\ UNCHANGED <<itemVars, cacheVars, blockVars, cur, nbOcs, totOcSz, refs, testVars,
                 reqVars, halted>>

(* get_ec, holding the cache's spinlock.  With no item in service in the   *)
(* cache it samples again for ever.                                        *)
CallGetEc ==
  /\ At("optim", "ec_pick")
  /\ required > 0
  /\ IF ~HasGetEc(OffloadedType) THEN Halt("null_call")
     ELSE /\ Goto("optim", "ec_scan")
          /\ UNCHANGED <<itemVars, cacheVars, blockVars, cur, roundVars, testVars, reqVars, halted>>

SampleEc(ec) ==
  /\ At("optim", "ec_scan")
  /\ offloaded[ec] > 0
  /\ state[ec] = "NIC"
  /\ cur' = [cur EXCEPT !["optim"] = ec]
  /\ Goto("optim", "ec_mark")
  /\ UNCHANGED <<itemVars, cacheVars, blockVars, roundVars, testVars, reqVars, halted>>

(* Mutant: the candidate stays in service while its eviction is prepared.  *)
MarkEcInService ==
  /\ At("optim", "ec_mark")
  /\ Goto("optim", "ec_read")
  /\ UNCHANGED <<itemVars, cacheVars, blockVars, cur, roundVars, testVars, reqVars, halted>>

(* The candidate is taken out of service.                                  *)
MarkEc ==
  /\ At("optim", "ec_mark")
  /\ state' = [state EXCEPT ![cur["optim"]] = "NOWHERE"]
  /\ Goto("optim", "ec_read")
  /\ UNCHANGED <<refcount, cacheVars, blockVars, cur, roundVars, testVars, reqVars, halted>>

(* The back-off loop tests the unsigned count it read before the sleep.    *)
ReadRefcount ==
  /\ At("optim", "ec_read")
  /\ refs' = refcount[cur["optim"]]
  /\ Goto("optim", "ec_test")
  /\ UNCHANGED <<itemVars, cacheVars, blockVars, cur, nbOcs, totOcSz, required, testVars,
                 reqVars, halted>>

BackOff ==
  /\ At("optim", "ec_test")
  /\ refs # 0
  /\ Goto("optim", "ec_read")
  /\ UNCHANGED <<itemVars, cacheVars, blockVars, cur, roundVars, testVars, reqVars, halted>>

(* The item is unlinked and the spinlock released; the wait tree and       *)
(* nb_blk_required are used by this thread alone, so their change follows. *)
TakeEc ==
  LET ec == cur["optim"]
  IN /\ At("optim", "ec_test")
     /\ refs = 0
     /\ offloaded' = [offloaded EXCEPT ![ec] = @ - 1]
     /\ ecWait' = ecWait \cup {ec}
     /\ required' = required - NbBlk(Size[ec])
     /\ cur' = [cur EXCEPT !["optim"] = NoItem]
     /\ Goto("optim", "ec_pick")
     /\ UNCHANGED <<itemVars, table, ocq, unoffloaded, evicted, blockVars, nbOcs, totOcSz,
                    refs, testVars, reqVars, halted>>

EnoughBlocks ==
  /\ At("optim", "ec_pick")
  /\ required <= 0
  /\ Goto("optim", "ev_enter")
  /\ UNCHANGED <<itemVars, cacheVars, blockVars, cur, roundVars, testVars, reqVars, halted>>

RoundDone ==
  /\ At("optim", "dec")
  /\ nbOcs' = 0 /\ totOcSz' = 0 /\ required' = 0 /\ refs' = 0
  /\ Goto("optim", "sleep")
  /\ UNCHANGED <<itemVars, cacheVars, blockVars, cur, testVars, reqVars, halted>>

-----------------------------------------------------------------------------
EvictItems(th)   == \/ EvictEnter(th)
                    \/ SendEviction(th)
                    \/ \E it \in Items : EvictItem(th, it)
                    \/ InsertUnoffloaded(th) \/ FreeBlocks(th) \/ EvictCheck(th)
                    \/ EvictDone(th)
OffloadItems(th) == \/ Dequeue(th) \/ SendOffload(th) \/ ShowItem(th)
                    \/ InsertOffloaded(th) \/ ConsumeBlocks(th)

HeatDataplane == \/ \E it \in Items : HeatPut(it)
                 \/ HeatPlace \/ HeatEnqueue \/ HeatKeep \/ HeatInsert \/ HeatDone
TestThread    == TestBegin \/ TestEvict \/ TestEnqueue \/ TestCheck \/ TestDone

GetOc      == CallGetOc \/ MarkOc \/ EnqueueOc
GetEc      == \/ CallGetEc \/ (\E ec \in Items : SampleEc(ec))
              \/ MarkEc \/ ReadRefcount \/ BackOff \/ TakeEc
OptimCache == GetOc \/ ComputeRequired \/ GetEc \/ EnoughBlocks \/ RoundDone

HeatStep  == EvictItems("heat") \/ OffloadItems("heat") \/ HeatDataplane \/ TestThread
OptimStep == EvictItems("optim") \/ OffloadItems("optim") \/ OptimCache

(* The steps of a get or a free that was called.                           *)
ServerStep(r) == \/ AccessItem(r) \/ IncrRefcount(r) \/ IncrCheck(r)
                 \/ FreeLookup(r) \/ FreeItem(r) \/ DecrRefcount(r) \/ DecrCheck(r)
ServerCall(r) == (\E it \in Items : GetLookup(r, it)) \/ FreeWrongHv(r)

Next == \/ HeatStep
        \/ OptimStep
        \/ WakeUp
        \/ \E r \in Requests : ServerStep(r) \/ ServerCall(r)

Spec == Init /\ [][Next]_vars

(* get_ec keeps running and the server releases what it was given; nobody  *)
(* is obliged to ask for an object or to wake OptimCache, and the exchanges *)
(* with the data plane need not return.                                    *)
Fairness == WF_vars(GetEc) /\ \A r \in Requests : WF_vars(ServerStep(r))
FairSpec == Spec /\ Fairness

-----------------------------------------------------------------------------
ItemTypes  == state \in [Items -> ItemStates] /\ refcount \in [Items -> Int]
CacheTypes == /\ offloaded \in [Items -> Nat]
              /\ unoffloaded \in [Items -> Nat]
              /\ ocq \in Seq(Items)
              /\ table \subseteq Items /\ ecWait \subseteq Items /\ evicted \subseteq Items
BlockTypes == freeBlks \in 0 .. TotBlocks /\ nic \subseteq Items
ThreadTypes == /\ pc \in [Threads -> HeatPCs \cup OptimPCs \cup EvictPCs \cup OffloadPCs]
               /\ cur \in [Threads -> Items \cup {NoItem}]
RoundTypes == nbOcs \in Nat /\ totOcSz \in Nat /\ required \in Int /\ refs \in Int
TestTypes  == /\ testIt \in Items \cup {NoItem} /\ running \in BOOLEAN
              /\ count \in Nat /\ before \in Nat
RequestTypes == /\ rpc \in [Requests -> RequestPCs]
                /\ robj \in [Requests -> Items \cup {NoItem}]
                /\ counted \in [Requests -> BOOLEAN]

(* Every variable has its type; the free block counter never leaves the    *)
(* range cache_ctrl_consume_blocks and cache_ctrl_free_blocks assert.      *)
TypeOK == /\ ItemTypes /\ CacheTypes /\ BlockTypes /\ ThreadTypes
          /\ RoundTypes /\ TestTypes /\ RequestTypes
          /\ halted \in HaltReasons

Holders(it) == {r \in Requests : counted[r] /\ robj[r] = it}

(* As long as no object leaves the NIC (the shipped build), the reference  *)
(* count of an object is the number of requests between the increment of   *)
(* their get and the decrement of their free: no interleaving of gets and  *)
(* frees loses or doubles one (item_incr_refcount, item_decr_refcount).    *)
RefcountExact == \A it \in Items : refcount[it] = Cardinality(Holders(it))

(* item_decr_refcount: assert((int)refcount >= 0), and its counterpart in  *)
(* item_incr_refcount.                                                     *)
RefcountAssertHolds == halted # "refcount_assert"

Blocks == 1 .. TotBlocks

(* The item an eviction is between its reply and the return of its blocks. *)
Leaving(it) == \E th \in Threads : cur[th] = it /\ pc[th] \in {"ev_insert", "ev_free"}

(* Blocks of the objects the books say are on the NIC or on their way out. *)
UsedBlks == {ik \in Items \X Blocks :
               /\ offloaded[ik[1]] > 0 \/ ik[1] \in ecWait \cup evicted \/ Leaving(ik[1])
               /\ ik[2] <= NbBlk(Size[ik[1]])}
(* Blocks a thread has inserted in the cache and not consumed yet.         *)
OwedBlks == {tk \in Threads \X Blocks : /\ pc[tk[1]] = "ol_consume"
                                        /\ tk[2] <= NbBlk(Size[cur[tk[1]]])}

(* The free block counter, the offloaded cache and the objects on their    *)
(* way out always agree: every consume is undone by exactly one free, in   *)
(* whatever order HeatDataplane, OptimCache and the test thread run, even  *)
(* when an object is evicted before its own consume.                       *)
BlockAccounting == freeBlks + Cardinality(UsedBlks) = TotBlocks + Cardinality(OwedBlks)

(* cache_ctrl_free_blocks: assert(nb_free_blks <= tot_nb_blks).            *)
FreeAssertHolds == halted # "free_assert"

(* The host never lets a server thread find (state AT_NIC) an object that  *)
(* the data plane does not hold: the state changes after the last offload  *)
(* reply and before the eviction is sent.                                  *)
VisibleImpliesResident == \A it \in Items : state[it] = "NIC" => it \in nic

(* Where the object a thread works on is in no queue, cache or tree.       *)
Carrying == {"place", "h_enq", "h_state", "h_insert", "oc_state", "oc_enq",
             "ol_send", "ol_state", "ol_insert", "ev_insert"}
InHand(it) == {th \in Threads : cur[th] = it /\ pc[th] \in Carrying}
Queued(it) == {i \in 1 .. Len(ocq) : ocq[i] = it}

Homes(it) == Cardinality(Queued(it)) + Cardinality(InHand(it)) + offloaded[it] + unoffloaded[it]
             + Cardinality({it} \cap ecWait) + Cardinality({it} \cap evicted)

(* Every object heated is in exactly one place: queued, in the hands of a  *)
(* thread, in one cache, waiting for its eviction or evicted.  The caches  *)
(* and the wait tree link an item through its own left, right and parent,  *)
(* so an item in two of them, or twice in one, would corrupt both.         *)
OneHome == \A it \in Items : Homes(it) = IF it \in table THEN 1 ELSE 0

(* What the caches offer as candidates is ready to be moved: get_ec finds  *)
(* every item of the offloaded cache in service, but for the one it is     *)
(* taking out, so it never samples a cache of items it has to pass over;   *)
(* and get_oc finds every item of the unoffloaded cache at the host.       *)
CandidatesReady ==
  \A it \in Items :
    /\ offloaded[it] > 0 => \/ state[it] = "NIC"
                            \/ cur["optim"] = it /\ pc["optim"] \in {"ec_read", "ec_test"}
    /\ unoffloaded[it] > 0 => state[it] = "HOST"

(* OffloadItems: assert(ret >= 0) after cache_ctrl_consume_blocks.         *)
ConsumeAssertHolds == halted # "consume_assert"

(* EvictItems: assert(free >= GET_NB_BLK(sz)) after the blocks are freed.  *)
EvictAssertHolds == halted # "evict_assert"

(* OffloadingEvictionTestThread: evicting and offloading an object again   *)
(* gives back exactly the blocks it took.                                  *)
TestAssertHolds == halted # "test_assert"

(* Every function of the interface that the build calls exists.            *)
NoNullCall == halted # "null_call"

(* control_plane_free_obj_by_hv answers a wrong hv with -1.                *)
WrongHvRefused == halted # "null_deref"

BackingOff(it) == cur["optim"] = it /\ pc["optim"] \in {"ec_mark", "ec_read", "ec_test"}

(* An eviction candidate that was taken out of service is evicted in the   *)
(* end, for the server frees whatever it was given.                        *)
EvictionCompletes == \A it \in Items : BackingOff(it) ~> ~BackingOff(it) \/ halted # "no"
=============================================================================
