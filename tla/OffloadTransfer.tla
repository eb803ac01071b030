--------------------------- MODULE OffloadTransfer ---------------------------
(***************************************************************************)
(* net_send_offloading_message and what it talks to: the thread that       *)
(* offloads (the sender), the server thread of the core, which enqueues    *)
(* replies, signals the sender and flushes the transmit queue, and the     *)
(* data plane (external) behind a network that may lose packets.           *)
(*                                                                         *)
(* The sender and net_flush_tx_pkts both write the length of the transmit  *)
(* queue.  pthread_mutex_trylock returns EBUSY as a positive number, so    *)
(* the flush never backs off and the mutex excludes nobody; the model has  *)
(* no such mutex.  The chunks to be acknowledged are a set: ChunkTable     *)
(* shows that the table implements PendingChunks.                          *)
(*                                                                         *)
(* An object may be evicted and offloaded again while packets and replies  *)
(* of its earlier offload are still under way.                             *)
(***************************************************************************)
EXTENDS Naturals, FiniteSets

CONSTANTS
  Objects,     \* the objects to offload
  NbChunks,    \* NbChunks[o]: its size in DATAPLANE_MAX_OFFLOAD_CHUNK_SIZE
  QSize,       \* PKT_QUEUE_SIZE, of the transmit queue
  Lossy,       \* whether the network loses packets
  NoObject

ASSUME ObjectsAssumption == IsFiniteSet(Objects) /\ NoObject \notin Objects
ASSUME NbChunksAssumption == NbChunks \in [Objects -> Nat]
ASSUME QSizeAssumption == QSize \in Nat \ {0}
ASSUME SwitchesAssumption == Lossy \in BOOLEAN

VARIABLES
  pc,          \* where the sender is
  obj,         \* its oc
  gen,         \* the sequence numbers it has yet to generate a packet for
  resend,      \* whether it is in chnk_seq_tbl_send_una_chunk
  idx,         \* the slot of tpq->mq it is filling
  una,         \* oc_wait: the chunks of obj that are not acknowledged
  expired,     \* ms_recv - ms_sent >= MAX_OFFLOADING_BACKOFF_TIME
  len,         \* tpq->len
  mq,          \* tpq->mq
  held,        \* the packets that were written to buffers of pktmbuf_pool
  spc,         \* where the server thread is
  nbPkts,      \* net_flush_tx_pkts' nb_pkts
  orq,         \* the replies in the offload reply queue
  proc,        \* orq->proc
  toDpu,       \* packets on their way to the data plane
  toHost,      \* replies on their way to the host
  got,         \* got[o]: the chunks of o whose bytes the data plane has
  finished,    \* the objects whose offload returned
  hollow,      \* history: chunks it has answered for without having them
  stale        \* history: chunks it has answered for before an eviction

senderVars == <<pc, obj, gen, resend, idx, una>>
queueVars  == <<len, mq, held>>
serverVars == <<spc, nbPkts>>
replyVars  == <<orq, proc>>
netVars    == <<toDpu, toHost>>
dpuVars    == <<got, hollow, stale>>
vars == <<senderVars, expired, queueVars, serverVars, replyVars, netVars, dpuVars, finished>>

SenderPCs == {"idle", "slot", "publish", "header", "bytes", "lock", "wait", "woken", "check"}

Seqs(o) == 0 .. NbChunks[o] - 1
Chunks  == {os \in Objects \X UNION {Seqs(o) : o \in Objects} : os[2] \in Seqs(os[1])}
(* A packet of a chunk, with its bytes or without.                         *)
Packets == [chunk : Chunks, data : {"full", "none"}]
Hollow(p) == [p EXCEPT !.data = "none"]
(* An mbuf of the transmit queue: the packet it is for, and how far that   *)
(* is written.                                                             *)
Mbufs   == [pkt : Packets, written : {"nothing", "header", "all"}]
Slots   == 0 .. QSize - 1
NoPacket == [chunk |-> <<NoObject, 0>>, data |-> "none"]
Unused   == [pkt |-> NoPacket, written |-> "unused"]
(* An mbuf the NIC was given; its buffer may be in use again.              *)
Sent     == [pkt |-> NoPacket, written |-> "sent"]

Init ==
  /\ pc = "idle" /\ obj = NoObject /\ gen = {} /\ resend = FALSE /\ idx = 0
  /\ una = {} /\ expired = FALSE
  /\ len = 0 /\ mq = [i \in Slots |-> Unused] /\ held = {}
  /\ spc = "loop" /\ nbPkts = 0
  /\ orq = {} /\ proc = FALSE
  /\ toDpu = {} /\ toHost = {}
  /\ got = [o \in Objects |-> {}] /\ hollow = {} /\ stale = {}
  /\ finished = {}

-----------------------------------------------------------------------------
(* The sender.                                                             *)

(* Packets are generated in ascending order, and in that of the table's    *)
(* buckets when they are sent again, which is the same up to as many       *)
(* chunks as there are buckets.                                            *)
First(s) == \A t \in gen : s <= t

Start(o) ==
  /\ pc = "idle"
  /\ o \notin finished
  /\ obj' = o
  /\ gen' = Seqs(o)
  /\ expired' = FALSE
  /\ pc' = "slot"
  /\ UNCHANGED <<resend, idx, una, queueVars, serverVars, replyVars, netVars, dpuVars, finished>>

(* A chunk is inserted in the table after its packet, but not again.       *)
Registered(s) == IF resend THEN una ELSE una \cup {s}

(* chnk_seq_tbl_insert does not store a size or an offset, so the packet   *)
(* of a retransmission has a size of zero.                                 *)
RawMbuf(s) == [pkt |-> [chunk |-> <<obj, s>>, data |-> IF resend THEN "none" ELSE "full"],
               written |-> "nothing"]

(* Mutant: a full transmit queue is written to.                            *)
TakeSlotUnchecked ==
  /\ pc = "slot"
  /\ \E s \in gen : First(s) /\ mq' = [mq EXCEPT ![len] = RawMbuf(s)]
  /\ idx' = len
  /\ pc' = "publish"
  /\ UNCHANGED <<obj, gen, resend, una, expired, len, held, serverVars, replyVars, netVars, dpuVars, finished>>

(* GenerateOffloadPacket, the slot.                                        *)
TakeSlot ==
  /\ pc = "slot"
  /\ len < QSize
  /\ \E s \in gen : First(s) /\ mq' = [mq EXCEPT ![len] = RawMbuf(s)]
  /\ idx' = len
  /\ pc' = "publish"
  /\ UNCHANGED <<obj, gen, resend, una, expired, len, held, serverVars, replyVars, netVars, dpuVars, finished>>

(* GenerateOffloadPacket on a full queue returns without a packet; its     *)
(* caller registers the chunk all the same.                                *)
QueueFull ==
  /\ pc = "slot"
  /\ len = QSize
  /\ \E s \in gen : First(s) /\ una' = Registered(s) /\ gen' = gen \ {s}
  /\ UNCHANGED <<pc, obj, resend, idx, expired, queueVars, serverVars, replyVars, netVars, dpuVars, finished>>

(* len++ races with the flush: the compiler may have kept the value that   *)
(* was compared or read it again.                                          *)
Publish ==
  /\ pc = "publish"
  /\ len' \in {idx + 1, len + 1}
  /\ pc' = "header"
  /\ UNCHANGED <<obj, gen, resend, idx, una, expired, mq, held, serverVars, replyVars, netVars, dpuVars, finished>>

Write(amount) ==
  mq' = [mq EXCEPT ![idx] = IF @ = Sent THEN @ ELSE [@ EXCEPT !.written = amount]]

(* The header is written to a packet that can be sent, ...                 *)
WriteHeader ==
  /\ pc = "header"
  /\ Write("header")
  /\ pc' = "bytes"
  /\ UNCHANGED <<obj, gen, resend, idx, una, expired, len, held, serverVars, replyVars, netVars, dpuVars, finished>>

(* ... and then the bytes are read from the file.                          *)
ReadBytes ==
  /\ pc = "bytes"
  /\ Write("all")
  /\ \E s \in gen : /\ First(s)
                    /\ held' = held \cup {RawMbuf(s).pkt}
                    /\ una' = Registered(s)
                    /\ gen' = gen \ {s}
  /\ pc' = "slot"
  /\ UNCHANGED <<obj, resend, idx, expired, len, serverVars, replyVars, netVars, dpuVars, finished>>

(* All packets are generated; after a retransmission the reply queue is    *)
(* given back.                                                             *)
Generated ==
  /\ pc = "slot"
  /\ gen = {}
  /\ resend' = FALSE
  /\ proc' = FALSE
  /\ pc' = "lock"
  /\ UNCHANGED <<obj, gen, idx, una, expired, queueVars, serverVars, orq, netVars, dpuVars, finished>>

(* pthread_cond_wait, with no look at the queue first.                     *)
Wait ==
  /\ pc = "lock"
  /\ pc' = "wait"
  /\ UNCHANGED <<obj, gen, resend, idx, una, expired, queueVars, serverVars, replyVars, netVars, dpuVars, finished>>

SpuriousWake ==
  /\ pc = "wait"
  /\ pc' = "woken"
  /\ UNCHANGED <<obj, gen, resend, idx, una, expired, queueVars, serverVars, replyVars, netVars, dpuVars, finished>>

(* Mutant: the hash value of a reply is not compared.                      *)
AckedByAnyReply == {os[2] : os \in orq}

(* The chunks a look at the reply queue acknowledges.                      *)
Acked == {os[2] : os \in {r \in orq : r[1] = obj}}

(* ProcessOffloadReplyQueue drops replies of other objects.  When nothing  *)
(* is pending the offload returns.                                         *)
Process ==
  /\ pc = "woken"
  /\ una' = una \ Acked
  /\ orq' = {}
  /\ IF una \subseteq Acked
     THEN /\ proc' = FALSE
          /\ finished' = finished \cup {obj}
          /\ obj' = NoObject
          /\ pc' = "idle"
     ELSE /\ proc' = TRUE
          /\ pc' = "check"
          /\ UNCHANGED <<finished, obj>>
  /\ UNCHANGED <<gen, resend, idx, expired, queueVars, serverVars, netVars, dpuVars>>

(* Mutant: orq->proc stays set.                                            *)
BackOffBusy ==
  /\ pc = "check"
  /\ ~expired
  /\ pc' = "lock"
  /\ UNCHANGED <<obj, gen, resend, idx, una, expired, queueVars, serverVars, replyVars, netVars, dpuVars, finished>>

(* The sleep holds the reply queue's mutex.                                *)
BackOff ==
  /\ pc = "check"
  /\ ~expired
  /\ proc' = FALSE
  /\ pc' = "lock"
  /\ UNCHANGED <<obj, gen, resend, idx, una, expired, queueVars, serverVars, orq, netVars, dpuVars, finished>>

(* chnk_seq_tbl_send_una_chunk, in the order of the table's buckets.       *)
Retransmit ==
  /\ pc = "check"
  /\ expired
  /\ expired' = FALSE
  /\ resend' = TRUE
  /\ gen' = una
  /\ pc' = "slot"
  /\ UNCHANGED <<obj, idx, una, queueVars, serverVars, replyVars, netVars, dpuVars, finished>>

(* Only the time that has passed by the next check matters.                *)
Tick ==
  /\ pc = "wait"
  /\ ~expired
  /\ expired' = TRUE
  /\ UNCHANGED <<senderVars, queueVars, serverVars, replyVars, netVars, dpuVars, finished>>

-----------------------------------------------------------------------------
(* The server thread of the core.                                          *)

(* The reply queue's mutex, which the sender holds from its wake-up until  *)
(* it waits again.                                                         *)
OrqFree == pc \notin {"woken", "check"} /\ ~resend

EnqueueReply(os) ==
  /\ spc = "loop"
  /\ OrqFree
  /\ os \in toHost
  /\ toHost' = toHost \ {os}
  /\ orq' = orq \cup {os}
  /\ UNCHANGED <<senderVars, expired, queueVars, serverVars, proc, toDpu, dpuVars, finished>>

SignalToReplyq ==
  /\ spc = "loop"
  /\ orq # {} /\ ~proc
  /\ pc = "wait"
  /\ pc' = "woken"
  /\ UNCHANGED <<obj, gen, resend, idx, una, expired, queueVars, serverVars, replyVars, netVars, dpuVars, finished>>

(* net_flush_tx_pkts reads the length ...                                  *)
FlushRead ==
  /\ spc = "loop"
  /\ len > 0
  /\ nbPkts' = len
  /\ spc' = "flush"
  /\ UNCHANGED <<senderVars, expired, queueVars, replyVars, netVars, dpuVars, finished>>

(* What the NIC may read in an mbuf it is given: a packet that is being    *)
(* written as it should be (it is read late), without its bytes or, before *)
(* its header, as whatever the reused buffer held; one that was given to   *)
(* it before as anything the buffer has been used for since.               *)
GoesOut(m) == CASE m.written = "all"     -> {m.pkt}
                [] m.written = "header"  -> {m.pkt, Hollow(m.pkt)}
                [] m.written = "nothing" -> {m.pkt, Hollow(m.pkt), NoPacket} \cup held
                [] m = Sent              -> {NoPacket} \cup held

Sending == {i \in Slots : i < nbPkts}

(* ... and later sends that many packets and empties the queue.            *)
FlushSend ==
  /\ spc = "flush"
  /\ \E out \in [Sending -> UNION {GoesOut(mq[i]) : i \in Sending}] :
       /\ \A i \in Sending : out[i] \in GoesOut(mq[i])
       /\ toDpu' = toDpu \cup ({out[i] : i \in Sending} \ {NoPacket})
  /\ mq' = [i \in Slots |-> IF i \in Sending THEN Sent ELSE mq[i]]
  /\ len' = 0
  /\ nbPkts' = 0
  /\ spc' = "loop"
  /\ UNCHANGED <<senderVars, expired, held, replyVars, toHost, dpuVars, finished>>

-----------------------------------------------------------------------------
(* The data plane and the network (external).                              *)

(* The data plane answers every packet of a chunk; one without bytes gives *)
(* it nothing to store.                                                    *)
Deliver(p) ==
  /\ p \in toDpu
  /\ toDpu' = toDpu \ {p}
  /\ toHost' = toHost \cup {p.chunk}
  /\ IF p.data = "full"
     THEN /\ got' = [got EXCEPT ![p.chunk[1]] = @ \cup {p.chunk[2]}]
          /\ hollow' = hollow \ {p.chunk} /\ stale' = stale \ {p.chunk}
     ELSE /\ hollow' = IF p.chunk[2] \in got[p.chunk[1]] THEN hollow ELSE hollow \cup {p.chunk}
          /\ UNCHANGED <<got, stale>>
  /\ UNCHANGED <<senderVars, expired, queueVars, serverVars, replyVars, finished>>

Lose ==
  /\ Lossy
  /\ \/ \E p \in toDpu : toDpu' = toDpu \ {p} /\ UNCHANGED toHost
     \/ \E os \in toHost : toHost' = toHost \ {os} /\ UNCHANGED toDpu
  /\ UNCHANGED <<senderVars, expired, queueVars, serverVars, replyVars, dpuVars, finished>>

ChunksOf(o) == {os \in Chunks : os[1] = o}

(* Between two offloads, a whole eviction of an object.                    *)
Evict(o) ==
  /\ pc = "idle"
  /\ o \in finished
  /\ finished' = finished \ {o}
  /\ got' = [got EXCEPT ![o] = {}]
  /\ hollow' = hollow \ ChunksOf(o)
  /\ stale' = (stale \ ChunksOf(o)) \cup ((toHost \cup orq) \cap ChunksOf(o))
  /\ UNCHANGED <<senderVars, expired, queueVars, serverVars, replyVars, netVars>>

-----------------------------------------------------------------------------
SenderStep == \/ \E o \in Objects : Start(o)
              \/ TakeSlot \/ QueueFull \/ Publish \/ WriteHeader \/ ReadBytes \/ Generated
              \/ Wait \/ Process \/ BackOff \/ Retransmit
ServerStep == \/ \E os \in Chunks : EnqueueReply(os)
              \/ SignalToReplyq \/ FlushRead \/ FlushSend
Network    == (\E p \in Packets : Deliver(p)) \/ Lose

Next == SenderStep \/ SpuriousWake \/ Tick \/ ServerStep \/ Network \/ (\E o \in Objects : Evict(o))

Spec == Init /\ [][Next]_vars

(* The threads run, time passes, packets that are not lost arrive, and the *)
(* server thread's loop makes each of its calls again and again.           *)
Fairness == /\ WF_vars(SenderStep)
            /\ WF_vars(Tick)
            /\ \A os \in Chunks : SF_vars(EnqueueReply(os))
            /\ SF_vars(SignalToReplyq)
            /\ SF_vars(FlushRead) /\ WF_vars(FlushSend)
            /\ \A p \in Packets : WF_vars(Deliver(p))
FairSpec == Spec /\ Fairness

-----------------------------------------------------------------------------
(* Every variable has its type; the transmit queue never outgrows mq.      *)
TypeOK ==
  /\ pc \in SenderPCs /\ obj \in Objects \cup {NoObject}
  /\ gen \subseteq {os[2] : os \in Chunks} /\ resend \in BOOLEAN /\ idx \in Slots
  /\ una \subseteq {os[2] : os \in Chunks} /\ expired \in BOOLEAN
  /\ len \in 0 .. QSize /\ mq \in [Slots -> Mbufs \cup {Unused, Sent}] /\ held \subseteq Packets
  /\ spc \in {"loop", "flush"} /\ nbPkts \in 0 .. QSize
  /\ orq \subseteq Chunks /\ proc \in BOOLEAN
  /\ toDpu \subseteq Packets /\ toHost \subseteq Chunks
  /\ got \in [Objects -> SUBSET Nat] /\ \A o \in Objects : got[o] \subseteq Seqs(o)
  /\ hollow \subseteq Chunks /\ stale \subseteq Chunks
  /\ finished \subseteq Objects

(* The chunks the data plane has.                                          *)
Stored == {os \in Chunks : os[2] \in got[os[1]]}

(* An offload returns only when the data plane has the bytes of every      *)
(* chunk that was not answered in vain: for a packet without bytes, or     *)
(* before the object was evicted the last time.  Whatever else happens -   *)
(* replies to other objects, lost, repeated and reordered packets, a full  *)
(* transmit queue and the race on it, buffers sent before they are written *)
(* or after they are reused - no missing chunk counts as acknowledged.     *)
Offload == INSTANCE ReliableOffload WITH stored <- Stored, inVain <- hollow \cup stale
RefinesOffload == Offload!Spec

(* chnk_seq_tbl.c: "already deleted".  An answer is for what was sent      *)
(* since the last eviction: no reply of an earlier offload lets a later    *)
(* one return.                                                             *)
AnswersCurrent == \A o \in finished : \A s \in Seqs(o) : s \in got[o] \/ <<o, s>> \in hollow

(* Every chunk an offload waited for has its bytes at the data plane.      *)
AnswersFull == \A o \in finished : \A s \in Seqs(o) : s \in got[o] \/ <<o, s>> \in stale

(* Replies that are queued while the sender waits are processed: no signal *)
(* is lost for good, although it is sent without the mutex and only when   *)
(* proc is clear.                                                          *)
RepliesProcessed == (orq # {} /\ pc = "wait") ~> orq = {}

OnTheWay(os) ==
  \/ \E i \in Slots : i < len /\ mq[i].written = "all" /\ mq[i].pkt.chunk = os
  \/ \E p \in toDpu : p.chunk = os
  \/ os \in toHost \cup orq

(* control_plane.h: "Flush all packets in tx packet queue".  On a network  *)
(* that loses nothing, what is not acknowledged yet is somewhere between   *)
(* the transmit queue and the reply queue while the sender waits.          *)
FlushSendsAll == pc = "wait" => \A s \in una : OnTheWay(<<obj, s>>)

(* control_plane.h: "Offload all packets".  The offload of an object that  *)
(* is begun returns.                                                       *)
OffloadCompletes == \A o \in Objects : obj = o ~> o \in finished

(* A packet of a chunk carries the chunk's bytes, sent again or not.       *)
ChunksCarryData == \A i \in Slots : i < len /\ mq[i] # Sent => mq[i].pkt.data = "full"

(* GenerateOffloadPacket on a full queue: "Never occurs".                  *)
TpqNeverFull == ~(pc = "slot" /\ gen # {} /\ len = QSize)
=============================================================================
