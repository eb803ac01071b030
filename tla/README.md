# The Dasher control plane in TLA+

Dasher is a web file server that offloads files to a NIC data plane (a DPU).
The control plane on the host decides which files live in the NIC's memory,
tells the data plane to fetch (*offload*) or drop (*evict*) them, and lends the
offloaded files to the server threads, which hold a reference while the data
plane sends one. This directory models that control plane: the code is under
`src/src/`, the public interface is `control_plane.h`.

File names below are relative to `src/src/` unless they end in `.tla` or `.cfg`.

## 1. Inventory

### Threads

| thread | code | does |
|---|---|---|
| server threads | `control_plane_get_obj_hv`, `control_plane_free_obj_by_hv`, `control_plane_enqueue_reply`, `control_plane_signal_to_replyq`, `control_plane_flush_message` | look objects up, take and drop references, hand replies of the data plane to the optimisation threads, flush the transmit queue |
| HeatDataplane | `core.c:138` | once, at the start: reads every file, creates its item, offloads it while it fits, keeps the rest in the unoffloaded cache |
| OptimCache (one per core, `RUN_CACHE_OPTIMIZATION`) | `core.c:327` | on a trigger: chooses offloading candidates, evicts until they fit, offloads them |
| OffloadingEvictionTestThread (`OFFLOADING_EVICTION_TEST`) | `core.c:84` | evicts and offloads every heated file a number of times and asserts that the block counter returns |

The build as shipped defines neither macro. Server thread and optimisation
thread of a core share the core's reply queues, its transmit queue and its
condition variable. `log.c` has a flush thread too, which nothing starts:
`debug_setup` and the log macros have no caller, the module is dead code.

### Components

| component | state | operations | interacts with | what is hard | what makes it correct |
|---|---|---|---|---|---|
| item state and references (`core.c`, `item.c`) | `state`, `sv->refcount` | get, free | both caches; `get_ec` reads both | check-then-act on an atomic state and an atomic counter, asserts on a second read | the counter is the number of holders; the back-off ends |
| block accounting (`cache_ctrl`) | `nb_free_blks`, `tot_nb_blks` | consume, free, read | HeatDataplane, OptimCache, EvictItems | compare and consume are separate; consume comes after publication | free + used = total at all times, the assertions hold |
| caches (`cache.c`, `cache/hyperbolic.c`) | a complete binary tree per cache, a sampled set, a spinlock | insert, delete, access, free, get_oc, get_ec | the item; null functions by cache type | `get_ec` keeps the lock while it waits for references; a delete moves the last item through parent pointers; priorities that are not numbers | an object is in at most one place; a random position finds an item, every item has one; a sample is sorted without loss |
| offloading queue (`item_queue.c`) | linked list | enqueue, dequeue | producers: HeatDataplane, get_oc | it has a link of its own (`queueLink`), so nothing but the callers keeps an object out of the queue and a cache at once | FIFO, each object once |
| offload exchange (`net.c:192`) | chunks to acknowledge, timer, `orq`, `proc` | send, wait, process replies, back off, retransmit | transmit queue, server thread, data plane | lost, late and repeated replies, retransmissions without bytes, signals without the mutex | it returns only when the data plane has every chunk, and it returns |
| transmit queue (`net.c:19`, `net.c:54`, `net.c:264`) | `len`, `mq` | generate a packet, flush | producer(s), server thread | the flush's trylock excludes nobody; a packet is counted before it is built; a full queue drops it silently | what was queued is sent once, complete |
| eviction exchange (`core.c:283`, `net.c:148`) | wait tree, `erq`, `proc`, timer | send, wait, process replies, retransmit, apply | wait tree, transmit queue, caches, block counter | replies are processed again at every wake-up; the queue is read and reset without its mutex; evictions are lost in the transmit queue and answered twice when sent again | every chosen object is evicted, its blocks freed exactly once, after the data plane dropped it |
| chunk sequence table (`chnk_seq_tbl.c`) | buckets, free list, `nb_chnk` | insert, delete, empty, send_una | offload exchange | hand-linked lists, arbitrary order of deletes | it is the set of unacknowledged chunks |
| red-black tree (`rb_tree.c`) | nodes with parent, children, colour; a sentinel | insert, delete, traverse, empty | eviction exchange | two mirrored fixups; repeated deletes of an item that has left | it holds what was inserted and not deleted, balanced, no null followed |
| hash table (`hashtable.c`) | buckets with spinlocks | put, get by key, get by hash | item | what happens on a miss | an unknown hash value is refused |
| optimisation trigger (`core.c:390-478`) | `nb_tot_requests`, `g_nb_optim_cache_tasks`, condition variable | count, signal, wait | server threads, OptimCache | non-atomic compare and subtract, `if` around the wait, signal without the mutex | every request counts towards one round; no round without a task; no task forgotten |
| start-up (`core.c:194`, `core.c:328`, `core.c:399-438`, `core.c:569`) | `is_ready`, `g_oc_ctx`, a named packet pool | launch, create context, publish, announce, heat | every thread | one flag for all threads, set by the first that is ready; a second core's pool has the name of the first's | whoever heats finds the context it uses |
| item pools (`item_mp.c`), configuration (`config.c`), log (`log.c`), debug helpers (`debug.c`), LRU/LFU caches (not built) | | | | | |

`PROJECT.json` repeats the components with their status, and lists under
`hazards` what is hard to test, each at its line, with the properties that
would catch it and a note where none does yet.

## 2. Modules

```
ControlPlane ──────────── MCControlPlane (TLC)
   └── ControlPlaneProofs (TLAPS)
OptimScheduler ────────── OptimSchedulerProofs (TLAPS)
ReliableOffload  <── OffloadTransfer ── MCOffloadTransfer (TLC)
                        └── OffloadTransferProofs (TLAPS)
PendingChunks    <── ChunkTable ──────┐  └── ChunkTableProofs (TLAPS)
                     RBTree ── WaitTree ── MCStructures (TLC)
                     CompleteBinTree ─┤
                     SampledSet ──────┘  └── HyperbolicProofs (TLAPS, of these two)
ReliableEviction <── EvictionExchange (EXTENDS RBTree)
                        └── EvictionExchangeProofs (TLAPS)
RBTreeProofs (TLAPS: lemmas about RBTree)
   └── WaitTreeProofs (and WaitTree)
        (A <── B: B is shown to implement A)
```

| module | models | granularity |
|---|---|---|
| `ControlPlane` | items, caches, block counter, offloading queue, HeatDataplane, OptimCache, test thread, get and free; constants `RunCacheOptimization`, `OffloadingEvictionTest`, `OffloadedType`, `UnoffloadedType` stand for the two macros and for the types `control_plane_setup` passes to `cache_create` | every access to what two threads share is a step of its own: the state, the reference counter, the hash table, the offloading queue, a cache or the block counter under its spinlock. What only its own thread uses (locals, the wait tree, the replies) changes with the step it follows; `net_send_*_message` is one step, the return, of which no fairness is assumed; a failed assertion, a null call or a bad index sets `halted` |
| `ControlPlaneProofs` | theorems about `ControlPlane`: types and references; places and books, without the test thread and then with it | |
| `OptimScheduler` | from `control_plane_setup` on: the launch of the threads, their contexts and `is_ready`; the counter of requests, the counter of tasks, `mutex_optim_cache` and `cond_optim_cache` | an access to a shared variable, a lock, an unlock, a wait or a signal is a step; a whole round of optimisation is one |
| `OptimSchedulerProofs` | theorems about `OptimScheduler` | |
| `ChunkTable` | the table pointer by pointer, driven by one sender and any replies | one operation |
| `PendingChunks` | what the table promises: the set of unacknowledged chunks | |
| `OffloadTransfer` | `net_send_offloading_message`, `GenerateOffloadPacket`, the flush, the server thread's enqueue and signal, data plane and network (external) | taking a slot, counting it, writing the header and reading the bytes are four steps; the flush reads the length in one and sends and resets in another |
| `OffloadTransferProofs` | theorems about it, the refinement among them | |
| `ReliableOffload` | what an offload promises to `OffloadItems` | |
| `RBTree` | `rb_tree.c`, line by line in its control, as operators on a record; `fate` becomes `null_deref` or `endless` (a loop that passes `LoopBound`) where the C code would crash or hang (a traversal is the one operation that changes nothing: `TraversalEnds` says whether it would do either); the history field `skewed` records that the last case of DeleteFixup ran on its faulty side | one operation |
| `WaitTree` | any sequence of inserts and deletes on it | one operation |
| `CompleteBinTree` | the tree of a cache, pointer by pointer: insert, delete, search by position | one operation (the cache's spinlock) |
| `SampledSet` | the QuickSort of a sample, with priorities that may be 0/0; the recursion is a function of the depth and the call | one sample |
| `RBTreeProofs` | lemmas about the operators of `RBTree` | |
| `ChunkTableProofs`, `WaitTreeProofs`, `HyperbolicProofs` | theorems about the four | |
| `MCStructures` | the four data structures in one model for TLC (it EXTENDS the four): a behaviour is one of a single structure | |
| `EvictionExchange` | `EvictItems` with `net_send_eviction_message` and `GenerateEvictionPacket` over `RBTree`, the flush, the server thread's enqueue and signal, data plane and network (external) | taking a slot of the transmit queue, counting it and writing the header are three steps; so are writing a reply, counting it, and the reset they race with; a look at the reply queue is one step, a reply applied another |
| `EvictionExchangeProofs` | theorems about it, the refinement among them | |
| `ReliableEviction` | what an eviction promises to the block accounting | |

How state corresponds to code is said at each VARIABLE; `PROJECT.json`'s `map`
gives the lines of every definition. `ControlPlane` takes `net_send_*_message`
as one step each, the moment of their return, and assumes nothing of when that
comes. Its effect there, that the data plane has the whole object, or has dropped
it, is `ReliableOffload` and `ReliableEviction` with nothing excused; the
exchanges below it show what must be excused and that they may never return.

Abstractions. In `ControlPlane` the priorities of the hyperbolic cache and its
random samples are a free choice of an item; what makes the choice, the tree and
the sort, is in `CompleteBinTree` and `SampledSet`. A round of optimisation may
start there whenever the thread waits; what starts one is in `OptimScheduler`,
where the round is one step. `n_requests` and statistics are not modelled. In
`SampledSet` an item is its priority, and a priority is a number or not one:
`NaN` compares with nothing, as a double does.
Object contents are a tag that says whether a packet carries bytes; a chunk is
received when one arrives that does. The reply queue of an offload is a set
(repeated replies have no further effect there), that of an eviction a sequence
(they have). An object takes one block in `EvictionExchange`. Sleeping is a step
that can take any time; `expired` says only whether the timer will be found to
have run out at the next check.

The transmit queue, in both exchanges. The mutex excludes nobody, so it is left
out. `len++` races with the flush's reset and may store the value compared before
or one more than the value now. `rte_eth_tx_burst` hands an mbuf to the NIC, which
reads it later and frees it; `GoesOut` says what the NIC may read: of a packet that
is complete, that packet; of one whose bytes are not read yet, it or the packet
without bytes; of one whose header is not written yet, also nothing sensible or
whatever the reused buffer held before (`held`: every packet written so far); of an
mbuf that was sent before, nothing sensible or whatever its buffer was used for
since.

What the abstract specifications excuse. `ReliableOffload` has a set `inVain`, chunks
the data plane answered for and does not have: `hollow`, because the packet had
no bytes (the table stores no size, and the flush may overtake the read), and
`stale`, because the answer is from before the object's last eviction.
`ReliableEviction` has a set `excused`: the objects the data plane was told to drop
while it did not hold them, and answered for (`surplus`), and every object once a
reply has been added across a reset of the reply queue (`revived`). Each of the four
is a history variable of the exchange, set in the one step where it happens, and
each has a configuration in section 4 that shows it do harm (`OTHollow`, `OTStale`,
`EETwice`, `EERevived`). All other behaviour is covered by the refinement.

Other history variables: `redeleted` in `EvictionExchange` (objects deleted from the tree in
this round that were not in it); `counted` (a request's increment happened) in
`ControlPlane`; `counted`, `signals`, `rounds` and `idleWakeup` in
`OptimScheduler`; `cached`, `members`, `drawn` and the tree's `skewed` in the
structures.

## 3. Runs

| run | module, cfg | instance | properties | shows |
|---|---|---|---|---|
| `default_build` | `MCControlPlane`, `CPDefault` | 3 files (2 units, 1 unit, 4 units; a block is 2 units; 3 blocks: one does not fit), 2 concurrent requests | `TypeOK` `RefcountExact` `BlockAccounting` `ConsumeAssertHolds` | as shipped, no interleaving of gets and frees loses or doubles a reference, and the books balance between publication and consumption too |
| `optimisation` | `MCControlPlane`, `CPOptim` | 3 files, 3 blocks, 1 request, one candidate a round, frees with an unknown hash value | `BlockAccounting` `VisibleImpliesResident` `OneHome` `CandidatesReady` | HeatDataplane, OptimCache and a request together, the caches created with the types the surrounding code needs: one place for each object, visible only while resident, the books balanced, and every candidate a cache offers in the state that get_oc and get_ec need |
| `test_build` | `MCControlPlane`, `CPTest` | 3 files, 2 rounds | `TestAssertHolds` `BlockAccounting` | the test thread's own assertion holds |
| `uncounted` (violation) | `MCControlPlane`, `CPUncounted` | 1 file, 1 request, test build | `RefcountAssertHolds` | a get that loses the race with an eviction returns success without a reference; its free, after the object is back, drives the counter below zero |
| `structures` | `MCStructures`, `Structures` | chunk table: 8 entries, objects of up to 9 chunks, replies to any sequence number at any time; wait tree: 9 items; cache: 6 items; sample: up to 5 draws of 4 priorities and `NaN` | `StructuresTypeOK`; `FreeNotLinked` `CountExact` `ShortBuckets` `RefinesPending`; `HoldsMembers` `SearchTree` `ParentsMirror` `RedBlack`; `EveryItemSampled` `NothingBelow` `CacheParentsMirror` `CacheNeverCrashes`; `SortKeepsAll` `SortAscending` | whatever the order of replies, the chunk table is the set of unacknowledged chunks and no bucket ever holds two entries (whose `c_prev` is never set); the wait tree holds what waits, in order and for every traversal to find, until a delete follows a null pointer, and is red-black until one takes the faulty branch of the fixup (`wait_tree_crash`); every item of a cache has one position and every position an item, whatever comes and goes; a sort loses nothing and ascends if all priorities are numbers |
| `chunk_pool` (violation) | `ChunkTable`, `ChunkPool` | 4 entries, objects of up to 3 chunks | `PoolNeverEmpty` | every delete loses an entry of the free list |
| `offload` | `MCOffloadTransfer`, `OTSafe` | two objects of 1 chunk, transmit queue of 1, lossy, evictions and late replies, symmetry | `TypeOK` `RefinesOffload` | an offload returns only when the data plane has the bytes of every chunk that it did not answer in vain |
| `offload_replies` | `MCOffloadTransfer`, `OTReplies` | one object of 1 chunk, transmit queue of 2, lossy, `FairSpec` | `RepliesProcessed` | no signal is lost for good |
| `offload_lost` (violation) | `MCOffloadTransfer`, `OTLost` | one object of 2 chunks, queue of 2, **not** lossy, `FairSpec` | `OffloadCompletes` | the flush overtakes the sender, a chunk is gone, and the timer is never looked at |
| `wait_tree_crash` (violation) | `WaitTree`, `WTFour` | 4 items | `DeleteSafe` | the mirrored half of DeleteFixup blackens `x->left` instead of `w->left`: a null pointer when `x` is the sentinel |
| `scheduler` | `OptimScheduler`, `Scheduler` | up to 2 cores, a threshold of 2, counters modulo 16, 9 requests, 5 rounds, spurious wake-ups, `FairSpec` | `TypeOK` `RequestsConserved` `RoundsDue` `ContextsReady` `WaiterRuns` `HeatingStarts` | no request is lost or counted twice although compare and subtract are two steps with other cores' increments between them; a round without a task happens only after a wait that ended without one; a thread that waits is not missed; once the network stack has called `control_plane_mtcp_master_thread_ready` heating starts, and on one core in the right order |
| `eviction` | `EvictionExchange`, `EESafe` | 3 items in rounds of up to 3, transmit queue of 1, 3 moves, 1 surplus answer; a packet that is never delivered is lost | `TypeOK` `FreedOnce` `RoundComplete` `RefinesEviction` | every answer frees its object once, although each wake-up processes the old replies again and the queue is reset without its mutex; the blocks of an object are booked while the data plane holds it; a round that nothing was deleted in twice, or that has at most two objects, evicts them all |

Bounds and why they are enough.

* `ControlPlane`: sizes in units of half a block, so that a partly filled block
  occurs, where the macro of `core.h` and `cache_ctrl` differ; one block too few,
  so that a file does not fit; two requests, so that increments and decrements
  interleave (each is two steps). Under optimisation one request is enough for
  the race with `get_ec`, which reads one counter. `NbOffloads` is
  `OPTIM_CACHE_NB_OFFLOADS`, `MaxTestCount` the test thread's count.
* `ChunkTable`: `MaxChunks` greater than the table has buckets, so that sequence
  numbers wrap around it.
* `CompleteBinTree`: six items, so that the last one is a left or a right child, on
  the second or the third level, and the deleted one the root, the last, its
  parent or elsewhere. `SampledSet`: five draws, so that a partition of three is
  partitioned again; repeated draws and priorities that are not numbers included.
* `OptimScheduler`: nine requests make four rounds due with a threshold of 2;
  five rounds, one more than can be due, so that a round without a task fits;
  counters that are wider than all requests (a wrap by counting upwards takes
  2^32 requests between two reductions) but wrap downwards. Two cores: one whose
  server starts rounds and one whose server only counts.
* `OffloadTransfer`: what goes wrong with chunks is that one is taken for another:
  one of another object (two objects), of an earlier offload (an object may be
  evicted and offloaded again without end), or one without bytes. A queue of one
  slot is full as soon as the flush is late, and its slot is reused at once.
  Two chunks of one object, and a queue of two, are in the counterexample
  configurations (section 4), and `OffloadReliable` is proved for any number. The
  objects are interchangeable, in the refined specification too, and the
  refinement is a safety property, so the symmetry is sound; the liveness run has
  none.
* `WaitTree`: nine items, all trees of which TLC reaches within minutes. A red
  sibling with black children, the first case of the delete fixup, needs six; nine
  leave room for it on both sides and for a fixup that climbs. The VIEW leaves out the links an item keeps after its deletion
  (`Live`), which the next insert overwrites; `EvictionExchange`, where they
  matter, has no view.
* `EvictionExchange`: three items, so that a round may be one of three, the smallest in
  which an old reply can cut the wrong item out of the tree (`EEThree`).
  `MaxMoves` counts evictions and offloads of evicted objects together: three are a
  round of three, or an eviction, the offload of the same object and its second
  eviction, by when old replies and packets of the first may still be under way.
  `MaxSurplus` counts answers for an object that was dropped before: one is
  enough for an object to be freed twice (`EETwice`). It bounds the model's
  external part; without it evictions sent again would be answered without end.
  A transmit queue of one fills up and is reused at once.

`CHECK_DEADLOCK FALSE` is in every configuration: threads end (HeatDataplane),
wait for a trigger that is outside the model, or stop at a failed assertion.

Fairness. The safety runs assume none. `OffloadTransfer`: weak fairness of the sender,
of the passing of time and of delivery; strong fairness of each call the server
thread's polling loop makes again and again, because each is enabled only between
the sender's steps (its mutex, its wait). `OptimScheduler`: weak fairness of
the setup, of each server thread between a request that makes a round due and the
end of its reduction, and of each OptimCache thread; requests, spurious wake-ups
and the call of `control_plane_mtcp_master_thread_ready` need not come (nothing in
the repository makes that call), and a mutex is not fair. Lossy networks stay
unfair: nothing says that a retransmission arrives. In the configurations of section
4: `ControlPlane` (`CPLeak`) has weak fairness of `get_ec` and of each server thread
between its calls; `EvictionExchange` (`EEReplies`, `EELost`) that of the offload
exchange, and `EELost` fairness of the arrival of packets and replies in
addition, so that what is lost is lost by the host.

## 4. Disagreements between code and comments

Five findings are listed in `PROJECT.json` with the four violation runs. The
other configurations below are kept for the same purpose; each but `EEReplies`
makes TLC find the one property it names violated, and none belongs to the
regular runs.

| cfg | property | what the code does |
|---|---|---|
| `CPWiring` | `NoNullCall` | `control_plane_setup` creates the offloaded cache as HOST_CACHE and the other as NIC_CACHE; the first round of OptimCache calls a null `get_oc`. Everything said about optimisation below is behind this one, hence the swapped types in `CPOptim` |
| `CPLeak` | `EvictionCompletes` | `get_ec` takes the object out of service and waits for its references, whose frees are now refused (`core.c:495`) |
| `CPConsume` | `ConsumeAssertHolds` | HeatDataplane and OptimCache count on the same free blocks |
| `CPFreeRace` | `FreeAssertHolds` | an object is evicted between its insertion and the consumption of its blocks |
| `CPEvictMacro` | `EvictAssertHolds` | `GET_NB_BLK` is not parenthesised, the assertion is a conditional |
| `CPWrongHv` | `WrongHvRefused` | an unknown hash value reads the state of a null item (`hashtable.c:103`) |
| `OSLost` | `TasksRun` | the signal is sent without the mutex, between the test of the counter and the wait: the task stays until the next signal |
| `OSWrap` | `TasksNeverWrap` | a wait that ends without a task is followed by a round, for the wait is under an `if`; the unsigned counter of tasks wraps |
| `OSReady` | `AllContextsReady` | with two cores `is_ready` is set by the first thread, while the other's context may be unset |
| `OSTwo` | `NeverExits` | the second core's packet pool has the name of the first's; its creation fails and the process exits |
| `SSNaN` | `SortTotal` | an object below 1 KB that nobody asked for has priority 0/0, which compares with nothing: the "ascending" order is not one |
| `OTFlush` | `FlushSendsAll` | the flush resets the length over packets queued meanwhile |
| `OTEmpty` | `OffloadCompletes` | a file of size zero waits for a reply to nothing |
| `OTResend` | `ChunksCarryData` | the table stores neither size nor offset: a chunk is sent again with size zero |
| `OTHollow` | `AnswersFull` | an offload returns although the data plane has no bytes of a chunk: the flush sent the packet between its header and its bytes, or the retransmission had none |
| `OTStale` | `AnswersCurrent` | a late reply to an earlier offload acknowledges a chunk of the next one of the same object |
| `OTFull` | `TpqNeverFull` | a file of more chunks than the transmit queue has slots fills it |
| `EEThree` | `AlwaysComplete` | with three evictions an item is cut out of the tree by the second processing of a reply; the same may leave an item below itself, and the retransmission's traversal of such a tree never returns |
| `WTBalance` | `StaysBalanced` | when `x` is not the sentinel the same line blackens a node of the wrong subtree: with ten items the tree is out of balance and nothing has crashed |
| `EETwice` | `FreeAssertHolds` | two answers to an eviction sent twice free its blocks twice |
| `EERevived` | `FreedByAnswer` | a reply that is counted across the reset of the queue (`len++` against `len = 0`) brings the replies before it back, and they are applied again |
| `EELost` | `EvictionReturns` | on a network that loses nothing an eviction never returns: the flush sends the packet before its header is written, no reply comes, and the timer is looked at only after one |
| `EEReplies` | `KeepsTrying` | (holds) once there is a reply the eviction completes or is sent again |

## 5. Proofs

TLAPS with SMT, Zenon and PTL. Eight modules hold theorems; each preservation lemma
covers the actions of one thread or component and has a step per action.

### `ControlPlaneProofs`

* `TypeCorrect == Spec => []TypeOK`, for every build, set of items, sizes, set of
  requests and number of blocks. The inductive invariant is `TypeInv`, `TypeOK`
  with the labels each thread can be at and what a thread holds there (an
  item in hand when it is at a label that uses one): without it a step that
  indexes a function with the item in hand could not be typed.
* `RefcountCorrect == DefaultBuild /\ Spec => []RefcountExact`, `DefaultBuild`
  being neither macro: the reference counter is the number of requests that hold
  the object, for any number of objects and requests. The inductive
  invariant is `CountInv`: `TypeInv`; `PlacedOnce`, an object HeatDataplane has
  not placed yet is AT_NOWHERE and it places each object once, so a state that
  became AT_NIC stays so; `RequestInv`, a request past its lookup works on an
  object that is AT_NIC, and it is counted exactly from its increment to its
  decrement; and `RefcountExact`. The middle two are what the C code relies on
  silently: in this build no access finds the state changed and no free is
  refused. In the other builds the theorem is false (`uncounted`).
* `RefcountNeverAsserts`: `RefcountAssertHolds` in the same build, from the same
  invariant: whoever reads the counter a second time, for the assertion, still
  has its own reference in it or has just taken it out. In the other builds it is
  what the run `uncounted` violates.
The places of objects and the books of blocks, in both builds without the test thread, that is, with HeatDataplane and
OptimCache running concurrently or HeatDataplane alone. The test thread evicts a
file "straight from the cache" whatever the file's place, so a file that did not
fit is in two places, and the first two theorems are false in that build.

* `ObjectsHaveOneHome`: `OneHome`. The invariant is `PlaceInv`: `TypeInv`, `OneHome`
  and `EvictedInv`, answered evictions are applied before the next are sent. `Homes`
  counts places; `HomesAre` turns it into a sum of one term per place, and every
  action moves one unit from one term to another (`QueuePut` and `QueueTake` say
  what a queue operation does to the number of positions an object has).
* `VisibleIsResident`: `VisibleImpliesResident`. The invariant `ServiceInv` adds
  `OutInv`, what waits for its eviction, and what `get_ec` has chosen, is out of
  service. An offload that finishes cannot put such an object back in service,
  because it has one home (`OnePlace`).
* `BooksBalance` (a lemma): `BlockAccounting`. `PlaceInv` and the property itself are inductive:
  an object inserted was in no book, and an object whose eviction is applied is in
  no other one (again `OnePlace`), so a pile of `NbBlk` blocks is added to or taken
  from each book as a whole (`PilePut`, `PileTake`). It holds although blocks may be
  freed before they are consumed (`CPFreeRace`): the counter is then too large by
  exactly what is owed.
* `ConsumeNeverFails` (a lemma): `ConsumeAssertHolds` in the shipped build. The
  invariant `FitInv` follows the one object that is between HeatDataplane's test of
  the free blocks and their consumption. With OptimCache it is false (`CPConsume`).

The second half is about the test thread, and with it every build:

* `TestThreadGivesBack == Spec => []TestAssertHolds`: evicting an object and
  offloading it again leaves the free block counter as it was. The invariant
  `TestInv` is `TypeInv` with `OnlyTestIt` (nothing but the object under test is
  queued, sent, waiting or evicted), `TestItPlace` (it is in the offloaded cache at
  most once, and not while it is on its way: this takes the place of `OneHome`)
  and `TestBooks` (between the eviction and the check, exactly its blocks are free
  in addition to what was free before, so they are still free when consumed).
* `BooksAlwaysBalance == Spec => []BlockAccounting`: in every build. The object under
  test may be in the unoffloaded cache as well, but that cache is in no book, so
  `TestInv` is enough where `PlaceInv` fails.
* `ConsumeNeverFailsAlone`, `FreeNeverAsserts`: `ConsumeAssertHolds` and
  `FreeAssertHolds` as long as OptimCache does not run. Both are false with it
  (`CPConsume`, `CPFreeRace`). That a free never gives back more than the NIC has
  follows from the books: what is freed was in them.

### `OptimSchedulerProofs`

For any number of cores, any threshold, and fewer requests than the counter holds
(`BoundsAssumption`; more would take 2^32 requests in one run):

* `SchedulerTypes`: `TypeOK`, and `RequestsCounted`: `RequestsConserved`, from `TotalInv`,
  which says that only the master's server leaves its loop (`RolesInv`) and that
  the requests of a task that is not subtracted yet are still in the counter
  (`CountInv`), so the subtraction cannot wrap.
* `RoundsHaveTasks`: `RoundsDue`, from `SoloInv` (one OptimCache thread at most is
  past the creation of its packet pool) and `DueInv` (as long as no wait ended
  without a task, the counter of tasks is exact and a thread about to run a round
  has one).
* `StartUpOrdered`: `ContextsReady`, from `ReadyInv` (publish before announce).

### `OffloadTransferProofs`

* `TransferTypes`: `TypeOK`, for any objects, sizes and queue length. `TypeInv` adds
  `SenderInv` (the sender has an object from its start to the look that ends it, and
  nothing left to generate when it waits), `SlotInv` (the slot being filled lies at
  or above the end of the queue, which the flush may have reset) and `FilledInv`
  (slots that count have been taken).
* `OffloadReliable`: `Spec => RefinesOffload`, a refinement proof without any
  assumption on the network or on the order of evictions. `AckInv`: a reply is about
  a chunk that was `Answered`, one the data plane has or that is in `hollow` or
  `stale`; a chunk the sender does not wait for was answered or is not generated
  yet. With it every step is a step of `ReliableOffload` or a stutter: a delivery is
  `Receive` or `AnswerInVain`, the look that finds nothing pending is `Finish`.

### `ChunkTableProofs`

For any pool (`MaxNbEles`) and any number of chunks an object may have (`MaxChunks`, also
beyond the pool):

* `TableTypeCorrect`, `FreeListApart`, `ChunksCounted`, `BucketsHoldOne`: `TableTypeOK`,
  `FreeNotLinked`, `CountExact`, `ShortBuckets`. The invariant is `TableInv`. Its core is
  an observation about the damaged free list: an entry that
  `chnk_seq_tbl_delete` loses is lost for good, so the pool shrinks by one a
  delete and the sequence number of an object cannot pass the number of buckets
  before the pool is empty. Hence no two chunks share a bucket, and the `c_prev`
  that insertion forgets is never followed. `FreeIn(F)` says that some set `F` of
  entries, apart from the buckets, is not left by the links of the free list:
  after a delete the list may be any part of what it was.
* `TableKeepsPending`: `Spec => RefinesPending`, a refinement proof: an insert adds
  the next chunk, a reply removes its chunk the first time and stutters
  otherwise, the next object finds the set empty.

### `RBTreeProofs`

No theorem of its own: what the operators of `RBTree` do, for any number of items.

* `Iterated` is the loop of the code. It stays in any set its body stays in (`IteratedStays`);
  `Broken` is a tree on which an operation has
  followed a null pointer or failed to end.
* A `Layout` gives each item the open interval `(lo, hi)` of the hash values its
  subtree may hold: a child's interval is the part of its parent's on its side of
  the parent, where there is no child there is no member, and two intervals are
  apart or nested (`Intervals`). So membership, order and parent pointers follow
  from one thing, which speaks about each link by itself; reachability would not
  have done so. `Good` is a tree with a `Layout`, not broken, whose sentinel is
  black. Each change of shape is a lemma about links and intervals alone:
  the rotations (`RotatedLeft`, `RotatedRight`), a new leaf, an item with at most
  one child cut out, and a successor that takes its place (`SuccessorTakesOver`);
  then come the pointer assignments that make each of them (`LeftRotation`,
  `CutOut`, `Dealt`). `FreeSuccessor` and `PlaceSuccessor`, the two halves of a
  delete with two children, are operators of `RBTree` so that each has its lemma.
* The fixups are loops around recolourings and rotations, so they keep `Good`
  however far they run, the faulty last case of `DeleteFixup` included: it
  blackens a node of the tree, an item that was cut out or null, never the
  shape. `Inserted` and `Deleted` put the pieces together.
* `TraversalComplete` says that a traversal meets every member: after `k` links
  the intervals it has not met are shorter by `k` than the whole.

### `WaitTreeProofs`

About `WaitTree`, for any number of items and any order of inserts and deletes.

As long as no operation has followed a null pointer or failed to end (`Intact`;
`wait_tree_crash` shows that it may not last):

* `WaitTreeTypes`, `WaitTreeHoldsMembers`, `WaitTreeSearches`, `WaitTreeParentsMirror`:
  `TypeOK`, `HoldsMembers`, `SearchTree`, `ParentsMirror`. The invariant is `IInv`:
  `TypeOK`, and while the tree is intact it is `Good`.

Until the last case of `DeleteFixup` first runs on the right (the code blackens the
wrong node there, and `skewed` records it):

* `WaitTreeRedBlack`: `RedBlack`, which includes `Intact`. So in everything but the
  faulty half of one case the tree is red-black, follows no null pointer and
  every loop ends. `RedBlack` is not inductive; `BInv` is: `IInv`, and unless the
  tree is skewed there is a function `c` with `Level(tree, members, c)`.
* `c[q]` is the number of black nodes on every path below `q`. `Even` says so of each
  link by itself, `Reds` that a red item has black children, so that every case of a
  fixup is about the few links it writes. `Even` has a place for one missing
  black node, at one side of one item, and `Reds` for one red child: the state of a
  fixup between two passes.
* Insertion: from a red leaf, each pass of `InsertFixup` ends it or moves the one
  red child of a red item two links up (`Climbing`, `InsertFixupLevels`,
  `InsertLevels`).
* Deletion: an item with at most one child is cut out (`SplicedOut`), or its
  successor takes its place and colour (`TakenOver`); what was black leaves its
  black to the child that moved up. `DeleteFixup` starts there: `Sinking`, with the
  node `x` whose paths are one short. Every pass pays, passes the debt up,
  or meets the faulty case (`ExtraBlackPassed`, `DeletePassSinks`,
  `DeleteFixupLevels`, `DeleteLevels`).
* The loops end because the intervals of a `Layout` grow with every pass upwards and
  shrink with every step of a descent (`DescentFinds`, `MinimumEnds`), and `LoopBound`
  is more than there is room for.
* `BlackHeightsAgree` turns the local counts into what `Balanced` says of all paths,
  by induction over the number of links; `BlackHeightsUnfold` shows that
  the recursive definition has a solution.
* A skewed tree stays skewed, whatever is done to it (`SkewInserted`, `SkewDeleted`),
  which needs that every write of every operation keeps the history field.

### `EvictionExchangeProofs`

For any number of items, moves and surplus answers, any length of the transmit queue and
rounds of any size, whatever becomes of the wait tree:

* `EveryReplyFreesOnce`: `Spec => []FreedOnce`. The invariant is `BookInv`: the types
  of what is counted (`ReplyTypes`), `FreedOnce`, and `EnqueueInv`, that the queue has
  not changed while a reply is being added, or was reset. `FreedOnce` is an
  inequality for each object, between its frees, its replies not applied yet, the one being
  added and those on the network on one side and the answers of the data plane
  on the other (`Credit`). Applying a reply moves one from the second term to the first,
  a reset and a lost reply lower the left side, an answer raises both.
* `ExchangeIsReliable`: `Spec => RefinesEviction`. A delivery is `Drop` the first time,
  an applied reply is `Free` the first time, an object offloaded again is `Offload`,
  a surplus answer and a revival are `Excuse`, every other step is a stutter. That
  a `Free` finds its object dropped is `FreedOnce`: without surplus an object on the
  NIC has no reply to come.

### `HyperbolicProofs`

`CompleteBinTree`, for any number of items:

* `SamplingReachesAll`, `TreeHasNoTail`, `TreeParentsMirror`, `TreeNeverCrashes`,
  `TreeTypeCorrect`: `EveryItemSampled`, `NothingBelow`,
  `CacheParentsMirror`, `CacheNeverCrashes`, `CacheTypeOK`. The invariant `TreeInv` says that there is a `Layout`: a
  function from positions to nodes that follows the links (`Walk`), is one to one
  between `1 .. n_items` and the cached items, ends in sentinels below, and is
  what the parent pointers say. An insert extends the layout by one position; a
  delete puts the last item at the place of the deleted one (`DeleteShape`,
  `DeleteKeepsTree`), with the cases of the code: the last itself, its parent,
  the root, any other.

`SampledSet`, for any size of the sample and any priorities:

* `SortLosesNothing`: `SortKeepsAll`, whatever compares with what. Every pass of the
  partition swaps two entries of its segment (`PassKeeps`), so the sort only moves
  entries about: `Rearranged`, a permutation that fixes what lies outside.
* `SortOrders`: `SortAscending` where every priority is a number. A partition
  ends within its segment's length in passes, each side strictly shorter than
  the segment and on its side of the pivot (`PartitionSplits`); then the sides
  are sorted (`SidesSorted`, `QuickSortCorrect`). With a `NaN` it is false
  (`SSNaN`).

### Common to them

`ChunkTableProofs`, `RBTreeProofs`, `WaitTreeProofs` and `HyperbolicProofs`
need induction over data, for what a recursive function is and for what it
computes. The library's induction theorems take an operator and
cannot be used; the least counterexample can: `Least`, from the library's theorem
on minimal elements of a well-founded relation, gives the smallest `n` for which a
claim fails, and the definition leads from there to a smaller one. The same
argument shows that the recursion of `Nth`, `Iterated`, `NodeAt` and `QuickSort` has
a solution at all, without which their definitions say nothing.

Assumptions: the named `ASSUME`s of the modules, all about the types of constants,
the finiteness of sets, in `RBTree` that there is an item, and, in `ControlPlane`,
that the two macros are not defined together.

Model-checked only: liveness (`RepliesProcessed`, `WaiterRuns`, `HeatingStarts`, and
`KeepsTrying` of `EEReplies`), which is beyond the prover; `CandidatesReady`; of the
eviction exchange, `TypeOK` and `RoundComplete`, which depend on what a delete does to
a tree its item has left: `RBTreeProofs` is about trees without such deletes; and
`StructuresTypeOK`, which is no more than the type invariants of three structures
together, each of which is proved.

## 6. Not modelled

* The log: nothing in the build calls it. LRU and LFU caches: not in the build
  (`meson.build`), nor compilable against the present interface.
* The item pools: three pools of one size that are taken from and given back to
  together, so only the first can be found empty, and the caller then exits.
* Configuration parsing (once, before any thread), the debugging helpers, tools.
* `control_plane_teardown`, whose body is a TODO; failed allocations, which exit.
* Of `rb_tree.c`, search by key, minimum, maximum and pop have no caller. Of
  `hashtable.c`, the update of an existing object, which its own comment says never
  occurs.
* Two senders (HeatDataplane and OptimCache) in one exchange, packets of both kinds in
  one transmit queue, and the capacity of the reply queues, which nothing checks.
  With two senders the table of chunks, the reply queue and the timer have no
  owner; `OffloadTransfer` shows what holds with one.

## 7. Plan

Done: `ControlPlane` in every build, the offload and the eviction exchange, the
scheduler, the chunk table, the wait tree, the tree and the sort of a cache, each with
its theorems. What is left:

1. Two producers on one core: a transmit queue with packets of both kinds, and one
   table of chunks and one timer shared by HeatDataplane and OptimCache.
2. The reply queues with their capacity, `PKT_QUEUE_SIZE`, which nothing checks.
3. `RoundComplete` of the eviction exchange for any number of items, which needs lemmas about
   the deletion of an item that has left the tree.
