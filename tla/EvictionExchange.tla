--------------------------- MODULE EvictionExchange ---------------------------
(***************************************************************************)
(* EvictItems with net_send_eviction_message, over the red-black tree of   *)
(* RBTree: the thread that evicts, the server thread of its core, which    *)
(* enqueues replies, signals and flushes the transmit queue, and the data  *)
(* plane (external) behind a network that reorders and loses: a packet     *)
(* that is never delivered is lost.                                        *)
(*                                                                         *)
(* The reply queue is reset only when the round is over, so replies are    *)
(* processed again at every wake-up; after net_send_eviction_message it is *)
(* read and reset without its mutex, while the server thread may be in the *)
(* middle of enqueueing.  The transmit queue is written and flushed as in  *)
(* OffloadTransfer; what else than evictions its buffers have held is left *)
(* out.                                                                    *)
(*                                                                         *)
(* An object takes one block, and all blocks are taken at the start.       *)
(***************************************************************************)
EXTENDS RBTree, Sequences, Functions

CONSTANTS
  QSize,        \* PKT_QUEUE_SIZE, of the transmit queue
  MaxMoves,     \* bound: evictions and offloads of evicted objects, altogether
  MaxSurplus    \* bound: answers for objects that were dropped before

ASSUME QSizeAssumption == QSize \in Nat \ {0}
ASSUME BoundsAssumption == MaxMoves \in Nat /\ MaxSurplus \in Nat

VARIABLES
  epc,        \* where the evicting thread is
  tree,       \* ec_wait
  round,      \* the objects of this round
  gen,        \* the objects it has yet to generate a packet for
  resend,     \* whether it generates them with the mutex of the reply queue
  idx,        \* the slot of tpq->mq it is filling
  expired,    \* ms_recv - ms_sent >= MAX_EVICTION_BACKOFF_TIME
  i,          \* EvictItems' i
  offloaded,  \* the objects in the offloaded cache
  linked,     \* linked[it]: times it was inserted in the unoffloaded cache and not taken
  moves,      \* the evictions and offloads so far
  len,        \* tpq->len
  mq,         \* tpq->mq
  held,       \* the objects whose evictions were written to buffers of pktmbuf_pool
  nbPkts,     \* net_flush_tx_pkts' nb_pkts, 0 when it does not run
  erq,        \* the eviction reply queue
  enq,        \* the queue with the reply the server thread is adding, or << >>
  proc,       \* erq->proc
  toDpu,      \* evictions on their way to the data plane
  toHost,     \* toHost[it]: replies on their way to the host
  nic,        \* the objects the data plane holds
  redeleted,  \* history: objects deleted in this round that were not in the tree
  surplus,    \* history: surplus[it]: answers for it while the data plane did not hold it
  revived,    \* history: a reply was added across a reset of the queue
  halted

treeVars  == <<tree, round, redeleted>>
sendVars  == <<gen, resend, idx>>
itemVars  == <<offloaded, linked, moves>>
queueVars == <<len, mq, held, nbPkts>>
replyVars == <<erq, enq, proc, revived>>
netVars   == <<toDpu, toHost, nic, surplus>>
threadVars == <<epc, treeVars, sendVars, expired, i>>
vars == <<threadVars, itemVars, queueVars, replyVars, netVars, halted>>

Nobody == 0
Slots  == 0 .. QSize - 1
(* An mbuf: the object its packet is for, and whether that is written.     *)
RawMbuf(it) == [it |-> it, written |-> "nothing"]
Unused == [it |-> Nobody, written |-> "unused"]
(* An mbuf the NIC was given; its buffer may be in use again.              *)
Sent   == [it |-> Nobody, written |-> "sent"]
Mbufs  == [it : Nodes, written : {"nothing", "header"}] \cup {Unused, Sent}

Init ==
  /\ epc = "choose" /\ tree = EmptyTree /\ round = {} /\ redeleted = {}
  /\ gen = {} /\ resend = FALSE /\ idx = 0 /\ expired = FALSE /\ i = 1
  /\ offloaded = Nodes /\ linked = [it \in Nodes |-> 0] /\ moves = 0
  /\ len = 0 /\ mq = [s \in Slots |-> Unused] /\ held = {} /\ nbPkts = 0
  /\ erq = << >> /\ enq = << >> /\ proc = FALSE /\ revived = FALSE
  /\ toDpu = {} /\ toHost = [it \in Nodes |-> 0] /\ nic = Nodes
  /\ surplus = [it \in Nodes |-> 0]
  /\ halted = "no"

At(label) == halted = "no" /\ epc = label
Total(f)  == FoldFunction(LAMBDA a, b : a + b, 0, f)

-----------------------------------------------------------------------------
(* The evicting thread, between two rounds.                                *)

(* get_ec took the candidate out of the offloaded cache.                   *)
Choose(it) ==
  /\ At("choose")
  /\ it \in offloaded
  /\ moves < MaxMoves
  /\ moves' = moves + 1
  /\ offloaded' = offloaded \ {it}
  /\ tree' = rb_tree_insert(tree, it)
  /\ halted' = IF Broken(tree') THEN tree'.fate ELSE "no"
  /\ round' = round \cup {it}
  /\ UNCHANGED <<epc, redeleted, sendVars, expired, i, linked, queueVars, replyVars, netVars>>

(* A whole offload of an object that was evicted, before the next round.   *)
OffloadAgain(it) ==
  /\ At("choose")
  /\ round = {}
  /\ linked[it] > 0
  /\ moves < MaxMoves
  /\ moves' = moves + 1
  /\ linked' = [linked EXCEPT ![it] = @ - 1]
  /\ offloaded' = offloaded \cup {it}
  /\ nic' = nic \cup {it}
  /\ UNCHANGED <<threadVars, queueVars, replyVars, toDpu, toHost, surplus, halted>>

-----------------------------------------------------------------------------
(* net_send_eviction_message.                                              *)

(* A packet for every item of the wait tree, if the traversal of it ends.  *)
Traverse == /\ gen' = rb_tree_inorder_traversal(tree)
            /\ halted' = IF TraversalEnds(tree) THEN "no" ELSE "endless"

Send ==
  /\ At("choose")
  /\ ~rb_tree_is_empty(tree)
  /\ Traverse
  /\ expired' = FALSE
  /\ epc' = "slot"
  /\ UNCHANGED <<treeVars, resend, idx, i, itemVars, queueVars, replyVars, netVars>>

First(it) == it \in gen /\ \A q \in gen : it <= q

(* Mutant: a full transmit queue is written to.                            *)
TakeSlotUnchecked(it) ==
  /\ At("slot")
  /\ First(it)
  /\ mq' = [mq EXCEPT ![len] = RawMbuf(it)]
  /\ idx' = len
  /\ epc' = "publish"
  /\ UNCHANGED <<treeVars, gen, resend, expired, i, itemVars, len, held, nbPkts, replyVars,
                 netVars, halted>>

(* GenerateEvictionPacket, the slot.                                       *)
TakeSlot(it) ==
  /\ At("slot")
  /\ First(it)
  /\ len < QSize
  /\ mq' = [mq EXCEPT ![len] = RawMbuf(it)]
  /\ idx' = len
  /\ epc' = "publish"
  /\ UNCHANGED <<treeVars, gen, resend, expired, i, itemVars, len, held, nbPkts, replyVars,
                 netVars, halted>>

(* On a full queue it returns without a packet.                            *)
QueueFull(it) ==
  /\ At("slot")
  /\ First(it)
  /\ len = QSize
  /\ gen' = gen \ {it}
  /\ UNCHANGED <<epc, treeVars, resend, idx, expired, i, itemVars, queueVars, replyVars,
                 netVars, halted>>

(* len++ races with the flush: the compiler may have kept the value that   *)
(* was compared or read it again.                                          *)
Publish ==
  /\ At("publish")
  /\ len' \in {idx + 1, len + 1}
  /\ epc' = "header"
  /\ UNCHANGED <<treeVars, sendVars, expired, i, itemVars, mq, held, nbPkts, replyVars,
                 netVars, halted>>

(* The header is written to a packet that can be sent.                     *)
WriteHeader(it) ==
  /\ At("header")
  /\ First(it)
  /\ mq' = [mq EXCEPT ![idx] = IF @ = Sent THEN @ ELSE [@ EXCEPT !.written = "header"]]
  /\ held' = held \cup {it}
  /\ gen' = gen \ {it}
  /\ epc' = "slot"
  /\ UNCHANGED <<treeVars, resend, idx, expired, i, itemVars, len, nbPkts, replyVars,
                 netVars, halted>>

(* All packets are generated; after a retransmission the reply queue is    *)
(* given back.                                                             *)
Generated ==
  /\ At("slot")
  /\ gen = {}
  /\ resend' = FALSE
  /\ proc' = FALSE
  /\ epc' = "lock"
  /\ UNCHANGED <<treeVars, gen, idx, expired, i, itemVars, queueVars, erq, enq, revived,
                 netVars, halted>>

(* The server thread has the mutex of the reply queue.                     *)
Enqueueing == enq # << >>

(* pthread_cond_wait, with no look at the queue first.                     *)
Wait ==
  /\ At("lock")
  /\ ~Enqueueing
  /\ epc' = "wait"
  /\ UNCHANGED <<treeVars, sendVars, expired, i, itemVars, queueVars, replyVars, netVars, halted>>

Wake ==
  /\ At("wait")
  /\ ~Enqueueing
  /\ proc' = TRUE
  /\ epc' = "woken"
  /\ UNCHANGED <<treeVars, sendVars, expired, i, itemVars, queueVars, erq, enq, revived,
                 netVars, halted>>

SpuriousWake == Wake

(* ProcessEvictionReplyQueue deletes the item of every reply in the queue, *)
(* those it deleted at an earlier wake-up included.                        *)
Process ==
  LET after[k \in 0 .. Len(erq)] == IF k = 0 THEN tree ELSE rb_tree_delete(after[k - 1], erq[k])
      inTree(k) == erq[k] \in rb_tree_inorder_traversal(after[k - 1])
  IN /\ At("woken")
     /\ tree' = after[Len(erq)]
     /\ redeleted' = redeleted \cup {erq[k] : k \in {j \in 1 .. Len(erq) : ~inTree(j)}}
     /\ IF Broken(tree') THEN halted' = tree'.fate /\ UNCHANGED <<epc, proc, expired>>
        ELSE /\ proc' = ~rb_tree_is_empty(tree')
             /\ epc' = IF rb_tree_is_empty(tree') THEN "apply" ELSE "check"
             /\ expired' = (expired /\ ~rb_tree_is_empty(tree'))
             /\ UNCHANGED halted
     /\ UNCHANGED <<round, sendVars, i, itemVars, queueVars, erq, enq, revived, netVars>>

BackOff ==
  /\ At("check")
  /\ ~expired
  /\ proc' = FALSE
  /\ epc' = "lock"
  /\ UNCHANGED <<treeVars, sendVars, expired, i, itemVars, queueVars, erq, enq, revived,
                 netVars, halted>>

Retransmit ==
  /\ At("check")
  /\ expired
  /\ Traverse
  /\ expired' = FALSE
  /\ resend' = TRUE
  /\ epc' = "slot"
  /\ UNCHANGED <<treeVars, idx, i, itemVars, queueVars, replyVars, netVars>>

(* Only the time that has passed by the next check matters.                *)
Tick ==
  /\ At("wait")
  /\ ~expired
  /\ expired' = TRUE
  /\ UNCHANGED <<epc, treeVars, sendVars, i, itemVars, queueVars, replyVars, netVars, halted>>

-----------------------------------------------------------------------------
(* EvictItems, after it.                                                   *)

(* The loop over the queue, which may still be growing: the object is      *)
(* inserted in the unoffloaded cache and its block is freed.               *)
Apply ==
  /\ At("apply")
  /\ i <= Len(erq)
  /\ linked' = [linked EXCEPT ![erq[i]] = @ + 1]
  /\ halted' = IF Total(linked') > N THEN "free_assert" ELSE "no"
  /\ i' = i + 1
  /\ UNCHANGED <<epc, treeVars, sendVars, expired, offloaded, moves, queueVars, replyVars, netVars>>

(* Mutant: the last reply is left out.                                     *)
ApplyDoneEarly ==
  /\ At("apply")
  /\ i >= Len(erq)
  /\ epc' = "reset"
  /\ UNCHANGED <<treeVars, sendVars, expired, i, itemVars, queueVars, replyVars, netVars, halted>>

ApplyDone ==
  /\ At("apply")
  /\ i > Len(erq)
  /\ epc' = "reset"
  /\ UNCHANGED <<treeVars, sendVars, expired, i, itemVars, queueVars, replyVars, netVars, halted>>

(* Mutant: the queue is not reset.                                         *)
ResetNothing ==
  /\ At("reset")
  /\ round' = {} /\ redeleted' = {}
  /\ i' = 1
  /\ epc' = "choose"
  /\ UNCHANGED <<tree, sendVars, expired, itemVars, queueVars, replyVars, netVars, halted>>

(* A reply that is enqueued between the last test and the reset is lost.   *)
Reset ==
  /\ At("reset")
  /\ erq' = << >>
  /\ round' = {} /\ redeleted' = {}
  /\ i' = 1
  /\ epc' = "choose"
  /\ UNCHANGED <<tree, sendVars, expired, itemVars, queueVars, enq, proc, revived, netVars, halted>>

-----------------------------------------------------------------------------
(* The server thread.                                                      *)

(* The evicting thread has the mutex of the reply queue from its wake-up   *)
(* until it waits again or returns.                                        *)
ErqFree == epc \notin {"woken", "check"} /\ ~resend

(* A reply is written behind the queue, ...                                *)
EnqueueReply(it) ==
  /\ halted = "no"
  /\ nbPkts = 0
  /\ ErqFree /\ ~Enqueueing
  /\ toHost[it] > 0
  /\ toHost' = [toHost EXCEPT ![it] = @ - 1]
  /\ enq' = Append(erq, it)
  /\ UNCHANGED <<threadVars, itemVars, queueVars, erq, proc, revived, toDpu, nic, surplus, halted>>

(* ... and counted.  len++ races with the reset: the compiler may have     *)
(* kept the length that was the index or read it again.                    *)
CountReply ==
  /\ halted = "no"
  /\ Enqueueing
  /\ \E n \in {Len(enq), Len(erq) + 1} : erq' = SubSeq(enq, 1, n)
  /\ revived' = (revived \/ Len(enq) # Len(erq) + 1)
  /\ enq' = << >>
  /\ UNCHANGED <<threadVars, itemVars, queueVars, proc, netVars, halted>>

SignalToReplyq == nbPkts = 0 /\ erq # << >> /\ ~proc /\ Wake

(* net_flush_tx_pkts reads the length ...                                  *)
FlushRead ==
  /\ halted = "no"
  /\ nbPkts = 0 /\ ~Enqueueing
  /\ len > 0
  /\ nbPkts' = len
  /\ UNCHANGED <<threadVars, itemVars, len, mq, held, replyVars, netVars, halted>>

(* What the NIC may read in an mbuf it is given: a packet before its       *)
(* header is written as whatever the reused buffer held, one that was      *)
(* given to it before as anything the buffer has been used for since.      *)
GoesOut(m) == CASE m.written = "header"  -> {m.it}
                [] m.written = "nothing" -> {m.it, Nobody} \cup held
                [] m = Sent              -> {Nobody} \cup held

Sending == {s \in Slots : s < nbPkts}

(* ... and later sends that many packets and empties the queue.            *)
FlushSend ==
  /\ halted = "no"
  /\ nbPkts > 0
  /\ \E out \in [Sending -> UNION {GoesOut(mq[s]) : s \in Sending}] :
       /\ \A s \in Sending : out[s] \in GoesOut(mq[s])
       /\ toDpu' = toDpu \cup ({out[s] : s \in Sending} \ {Nobody})
  /\ mq' = [s \in Slots |-> IF s \in Sending THEN Sent ELSE mq[s]]
  /\ len' = 0
  /\ nbPkts' = 0
  /\ UNCHANGED <<threadVars, itemVars, held, replyVars, toHost, nic, surplus, halted>>

-----------------------------------------------------------------------------
(* The data plane (external) drops the object and answers, again if it is  *)
(* told again.                                                             *)
Deliver(it) ==
  /\ halted = "no"
  /\ it \in toDpu
  /\ it \in nic \/ Total(surplus) < MaxSurplus
  /\ toDpu' = toDpu \ {it}
  /\ nic' = nic \ {it}
  /\ toHost' = [toHost EXCEPT ![it] = @ + 1]
  /\ surplus' = IF it \in nic THEN surplus ELSE [surplus EXCEPT ![it] = @ + 1]
  /\ UNCHANGED <<threadVars, itemVars, queueVars, replyVars, halted>>

-----------------------------------------------------------------------------
EvictStep == \/ \E it \in Nodes : TakeSlot(it) \/ QueueFull(it) \/ WriteHeader(it)
             \/ Publish \/ Generated \/ Wait \/ Process \/ BackOff \/ Retransmit
             \/ Apply \/ ApplyDone \/ Reset

Next == \/ \E it \in Nodes : Choose(it) \/ OffloadAgain(it) \/ EnqueueReply(it) \/ Deliver(it)
        \/ Send \/ EvictStep \/ SpuriousWake \/ Tick
        \/ CountReply \/ SignalToReplyq \/ FlushRead \/ FlushSend

Spec == Init /\ [][Next]_vars

(* The threads run, time passes, and the server thread's loop makes each   *)
(* of its calls again and again.                                           *)
Fairness == /\ WF_vars(EvictStep)
            /\ SF_vars(Tick)
            /\ SF_vars(SignalToReplyq)
            /\ SF_vars(FlushRead) /\ WF_vars(FlushSend) /\ WF_vars(CountReply)
FairSpec == Spec /\ Fairness

(* A network that loses nothing.                                           *)
Delivery == \A it \in Nodes : WF_vars(Deliver(it)) /\ SF_vars(EnqueueReply(it))
ReliableSpec == FairSpec /\ Delivery

-----------------------------------------------------------------------------
(* Every variable has its type; the transmit queue never outgrows mq.      *)
TypeOK ==
  /\ epc \in {"choose", "slot", "publish", "header", "lock", "wait", "woken", "check",
              "apply", "reset"}
  /\ tree \in Trees /\ round \subseteq Nodes /\ redeleted \subseteq Nodes
  /\ gen \subseteq Nodes /\ resend \in BOOLEAN /\ idx \in Slots
  /\ expired \in BOOLEAN /\ i \in Nat \ {0}
  /\ offloaded \subseteq Nodes /\ linked \in [Nodes -> Nat] /\ moves \in 0 .. MaxMoves
  /\ len \in 0 .. QSize /\ mq \in [Slots -> Mbufs] /\ held \subseteq Nodes /\ nbPkts \in 0 .. QSize
  /\ erq \in Seq(Nodes) /\ enq \in Seq(Nodes) /\ proc \in BOOLEAN /\ revived \in BOOLEAN
  /\ toDpu \subseteq Nodes /\ toHost \in [Nodes -> Nat] /\ nic \subseteq Nodes
  /\ surplus \in [Nodes -> Nat]
  /\ halted \in {"no", "null_deref", "endless", "free_assert"}

(* The replies that were enqueued and are not applied yet: their places.   *)
Unapplied(it) ==
  {k \in (IF epc \in {"apply", "reset"} THEN i ELSE 1) .. Len(erq) : erq[k] = it}

(* An object is freed once each time the data plane drops it, and once     *)
(* more at most for each answer it gave while it did not hold it.          *)
FreedByAnswer == \A it \in Nodes :
  linked[it] + Cardinality(Unapplied(it)) + (IF Enqueueing /\ enq[Len(enq)] = it THEN 1 ELSE 0)
    + toHost[it] <= (IF it \in nic THEN 0 ELSE 1) + surplus[it]

(* EvictItems: every reply frees its object once, although the queue is    *)
(* processed again at every wake-up, may grow while it is read and is      *)
(* reset without its mutex, and although evictions are sent again, late    *)
(* and from reused buffers; unless a reply is added across the reset.      *)
FreedOnce == ~revived => FreedByAnswer

(* net_send_eviction_message: "Send all evition message".  A round that is *)
(* over has evicted every object it chose.  Deleting an object of the      *)
(* round again does not matter as long as the round has two.               *)
RoundComplete ==
  (epc = "reset" /\ redeleted \subseteq round /\ (redeleted = {} \/ Cardinality(round) <= 2)) =>
    \A it \in round : linked[it] > 0

(* The same of every round.                                                *)
AlwaysComplete == epc = "reset" => \A it \in round : linked[it] > 0

(* cache_ctrl_free_blocks: assert(nb_free_blks <= tot_nb_blks).            *)
FreeAssertHolds == halted # "free_assert"

(* The blocks of an object are booked as long as the data plane holds it:  *)
(* no late reply frees an object that is there again, unless the data      *)
(* plane answered for it more often than it dropped it.                    *)
Eviction == INSTANCE ReliableEviction
  WITH Items <- Nodes,
       booked <- {it \in Nodes : linked[it] = 0},
       resident <- nic,
       excused <- {it \in Nodes : revived \/ surplus[it] > 0}
RefinesEviction == Eviction!Spec

(* Once there is a reply an eviction goes on: it is complete or is sent    *)
(* again, although signals are sent without the mutex, only when proc is   *)
(* clear, and the time is looked at only after one.                        *)
KeepsTrying == (erq # << >> /\ epc = "wait") ~> (resend \/ epc = "apply" \/ halted # "no")

(* On a network that loses nothing an eviction returns.                    *)
EvictionReturns == epc = "lock" ~> (epc = "choose" \/ halted # "no")
=============================================================================
