------------------------ MODULE OffloadTransferProofs ------------------------
(***************************************************************************)
(* Theorems of OffloadTransfer for any objects, chunks and queue length,   *)
(* on a network that may lose packets, with a full transmit queue, a flush *)
(* that races the sender, evictions and offloads of the same object again. *)
(***************************************************************************)
EXTENDS OffloadTransfer, TLAPS

(* The sender works for one object from Start to the Process that ends it, *)
(* and has no packet left to generate when it waits.                       *)
SenderInv ==
  /\ pc = "idle" <=> obj = NoObject
  /\ pc = "idle" => una = {}
  /\ pc \in {"idle", "lock", "wait", "woken", "check"} => gen = {} /\ ~resend
  /\ \A o \in Objects : obj = o => una \subseteq Seqs(o) /\ gen \subseteq Seqs(o)

(* The slot that is being filled lies at or above the end of the queue.    *)
SlotInv == pc = "publish" => len <= idx

Filling == pc \in {"publish", "header", "bytes"}

(* The slots of the queue, those the flush is about to send and those up   *)
(* to the one that is being filled hold a packet, sent before or not.      *)
FilledInv == \A i \in Slots :
  i < len \/ i < nbPkts \/ (Filling /\ i <= idx) => mq[i] \in Mbufs \cup {Sent}

TypeInv == TypeOK /\ SenderInv /\ SlotInv /\ FilledInv

(* A chunk the data plane has, or has answered for in vain.                *)
Answered(os) == os[2] \in got[os[1]] \/ os \in hollow \cup stale

(* Replies are answers, and a chunk the sender forgets is one that was     *)
(* answered.                                                               *)
AckInv ==
  /\ \A os \in toHost \cup orq : Answered(os)
  /\ \A o \in Objects : obj = o =>
       \A s \in Seqs(o) : s \in una \/ Answered(<<o, s>>) \/ (~resend /\ s \in gen)

SafeInv == TypeInv /\ AckInv

(* What a chunk is. *)
LEMMA ChunkFacts ==
  /\ \A os \in Chunks : /\ os[1] \in Objects /\ os[2] \in Seqs(os[1]) /\ os[2] \in Nat
                        /\ os = <<os[1], os[2]>>
  /\ \A o \in Objects : \A s \in Seqs(o) : <<o, s>> \in Chunks
  /\ \A o \in Objects : \A s \in Seqs(o) : s \in {os[2] : os \in Chunks} /\ s \in Nat
<1>1. ASSUME NEW os \in Chunks
      PROVE  /\ os[1] \in Objects /\ os[2] \in Seqs(os[1]) /\ os[2] \in Nat
             /\ os = <<os[1], os[2]>>
  BY <1>1, NbChunksAssumption DEF Chunks, Seqs
<1>2. ASSUME NEW o \in Objects, NEW s \in Seqs(o)
      PROVE  <<o, s>> \in Chunks /\ s \in {os[2] : os \in Chunks} /\ s \in Nat
  <2>1. s \in UNION {Seqs(p) : p \in Objects}
    OBVIOUS
  <2>2. <<o, s>> \in Chunks
    BY <2>1 DEF Chunks
  <2> QED BY <2>2, NbChunksAssumption DEF Seqs
<1> QED BY <1>1, <1>2

(* The invariant holds at the start. *)
LEMMA InitInv == Init => SafeInv
<1> SUFFICES ASSUME Init PROVE SafeInv
  OBVIOUS
<1>1. TypeOK
  <2>1. resend \in BOOLEAN /\ expired \in BOOLEAN /\ proc \in BOOLEAN
    BY Zenon DEF Init
  <2> QED BY <2>1, QSizeAssumption, NbChunksAssumption DEF Init, TypeOK, SenderPCs, Slots, Seqs
<1>2. SenderInv /\ SlotInv /\ FilledInv
  BY ObjectsAssumption DEF Init, SenderInv, SlotInv, FilledInv, Filling, Slots
<1>3. AckInv
  BY ObjectsAssumption DEF Init, AckInv
<1> QED BY <1>1, <1>2, <1>3 DEF SafeInv, TypeInv

(* A packet of the sender's is a packet. *)
LEMMA RawMbufs ==
  ASSUME TypeOK, SenderInv, pc # "idle", NEW s \in gen
  PROVE  RawMbuf(s) \in Mbufs /\ obj \in Objects /\ s \in Seqs(obj)
<1>1. obj \in Objects /\ s \in Seqs(obj)
  BY DEF TypeOK, SenderInv
<1>2. <<obj, s>> \in Chunks
  BY <1>1, ChunkFacts
<1> QED BY <1>1, <1>2 DEF RawMbuf, Mbufs, Packets

(* The sender's steps up to the wait keep the types. *)
LEMMA GenerateTypes ==
  ASSUME TypeInv,
         \/ (\E o \in Objects : Start(o)) \/ TakeSlot \/ QueueFull \/ Publish
         \/ WriteHeader \/ ReadBytes \/ Generated
  PROVE  TypeInv'
<1> USE DEF TypeInv, TypeOK, SenderPCs, Filling, queueVars, serverVars, replyVars, netVars, dpuVars
<1>1. ASSUME NEW o \in Objects, Start(o) PROVE TypeInv'
  <2>1. Seqs(o) \subseteq {os[2] : os \in Chunks}
    BY ChunkFacts
  <2>2. TypeOK'
    BY <1>1, <2>1, Zenon DEF Start
  <2>3. SenderInv'
    BY <1>1, ObjectsAssumption DEF Start, SenderInv
  <2>4. SlotInv' /\ FilledInv'
    BY <1>1 DEF Start, SlotInv, FilledInv
  <2> QED BY <2>2, <2>3, <2>4
<1>2. CASE TakeSlot
  <2>1. PICK s \in gen : mq' = [mq EXCEPT ![len] = RawMbuf(s)]
    BY <1>2 DEF TakeSlot
  <2>2. RawMbuf(s) \in Mbufs /\ RawMbuf(s).pkt.chunk = <<obj, s>>
    BY <1>2, RawMbufs DEF TakeSlot, RawMbuf
  <2>3. len \in Slots /\ idx' = len /\ len' = len /\ pc' = "publish"
    BY <1>2, QSizeAssumption DEF TakeSlot, Slots
  <2>4. TypeOK'
    BY <1>2, <2>1, <2>2, <2>3 DEF TakeSlot
  <2>5. SenderInv'
    BY <1>2 DEF TakeSlot, SenderInv
  <2>6. SlotInv'
    BY <1>2, <2>1, <2>2, <2>3 DEF TakeSlot, SlotInv
  <2>7. FilledInv'
    BY <1>2, <2>1, <2>2, <2>3, QSizeAssumption DEF TakeSlot, FilledInv, Slots
  <2> QED BY <2>4, <2>5, <2>6, <2>7
<1>3. CASE QueueFull
  <2>1. PICK s \in gen : una' = Registered(s) /\ gen' = gen \ {s}
    BY <1>3 DEF QueueFull
  <2>2. obj \in Objects /\ s \in Seqs(obj) /\ s \in {os[2] : os \in Chunks}
    BY <1>3, RawMbufs, ChunkFacts DEF QueueFull
  <2>3. TypeOK' /\ SenderInv'
    BY <1>3, <2>1, <2>2 DEF QueueFull, Registered, SenderInv
  <2>4. SlotInv' /\ FilledInv'
    BY <1>3 DEF QueueFull, SlotInv, FilledInv
  <2> QED BY <2>3, <2>4
<1>4. CASE Publish
  <2>1. len <= idx /\ idx \in Slots /\ len' \in {idx + 1, len + 1}
    BY <1>4 DEF Publish, SlotInv
  <2>2. len' \in 0 .. QSize /\ len' <= idx + 1
    BY <2>1, QSizeAssumption DEF Slots
  <2>3. TypeOK' /\ SenderInv' /\ SlotInv'
    BY <1>4, <2>2 DEF Publish, SenderInv, SlotInv
  <2>4. FilledInv'
    BY <1>4, <2>1, <2>2, QSizeAssumption DEF Publish, FilledInv, Slots
  <2> QED BY <2>3, <2>4
<1>5. ASSUME NEW amount \in {"header", "all"}, Write(amount), Filling
      PROVE  /\ mq' \in [Slots -> Mbufs \cup {Unused, Sent}] /\ mq'[idx] \in Mbufs \cup {Sent}
             /\ \A i \in Slots : i # idx => mq'[i] = mq[i]
  <2>1. idx \in Slots /\ mq[idx] \in Mbufs \cup {Sent}
    BY <1>5, QSizeAssumption DEF FilledInv, Slots
  <2>2. mq[idx] # Sent => [mq[idx] EXCEPT !.written = amount] \in Mbufs
    BY <2>1 DEF Mbufs
  <2> QED BY <1>5, <2>1, <2>2 DEF Write
<1>7. CASE WriteHeader
  BY <1>5, <1>7 DEF WriteHeader, SenderInv, SlotInv, FilledInv
<1>8. CASE ReadBytes
  <2>1. PICK s \in gen : /\ held' = held \cup {RawMbuf(s).pkt}
                         /\ una' = Registered(s) /\ gen' = gen \ {s}
    BY <1>8 DEF ReadBytes
  <2>2. obj \in Objects /\ s \in Seqs(obj) /\ s \in {os[2] : os \in Chunks}
        /\ RawMbuf(s).pkt \in Packets
    BY <1>8, RawMbufs, ChunkFacts DEF ReadBytes, Mbufs
  <2>3. TypeOK' /\ SenderInv'
    BY <1>5, <1>8, <2>1, <2>2 DEF ReadBytes, Registered, SenderInv
  <2>4. SlotInv' /\ FilledInv'
    BY <1>5, <1>8 DEF ReadBytes, SlotInv, FilledInv
  <2> QED BY <2>3, <2>4
<1>6. CASE Generated
  BY <1>6 DEF Generated, SenderInv, SlotInv, FilledInv
<1> QED BY <1>1, <1>2, <1>3, <1>4, <1>6, <1>7, <1>8

(* The sender's steps from the wait on keep the types. *)
LEMMA WaitTypes ==
  ASSUME TypeInv,
         Wait \/ SpuriousWake \/ Process \/ BackOff \/ Retransmit \/ Tick \/ SignalToReplyq
  PROVE  TypeInv'
<1> USE DEF TypeInv, TypeOK, SenderPCs, Filling, senderVars, queueVars, serverVars, replyVars, netVars,
        dpuVars
<1>1. CASE Wait
  BY <1>1 DEF Wait, SenderInv, SlotInv, FilledInv
<1>2. CASE SpuriousWake
  BY <1>2 DEF SpuriousWake, SenderInv, SlotInv, FilledInv
<1>3. CASE Process
  <2>1. obj \in Objects
    BY <1>3 DEF Process, SenderInv
  <2>2. TypeOK'
    BY <1>3, <2>1 DEF Process
  <2>3. SenderInv'
    BY <1>3, <2>1, ObjectsAssumption DEF Process, SenderInv
  <2>4. SlotInv' /\ FilledInv'
    BY <1>3 DEF Process, SlotInv, FilledInv
  <2> QED BY <2>2, <2>3, <2>4
<1>4. CASE BackOff
  BY <1>4 DEF BackOff, SenderInv, SlotInv, FilledInv
<1>5. CASE Retransmit
  BY <1>5 DEF Retransmit, SenderInv, SlotInv, FilledInv
<1>6. CASE Tick
  BY <1>6 DEF Tick, SenderInv, SlotInv, FilledInv
<1>7. CASE SignalToReplyq
  BY <1>7 DEF SignalToReplyq, SenderInv, SlotInv, FilledInv
<1> QED BY <1>1, <1>2, <1>3, <1>4, <1>5, <1>6, <1>7

(* What goes out is a packet or nothing. *)
LEMMA GoesOutPackets ==
  ASSUME TypeOK, NEW m \in Mbufs \cup {Sent}
  PROVE  GoesOut(m) \subseteq Packets \cup {NoPacket}
<1>1. m \in Mbufs => m.pkt \in Packets /\ Hollow(m.pkt) \in Packets
  BY DEF Mbufs, Packets, Hollow
<1>2. m \in Mbufs => m # Sent /\ m.written \in {"nothing", "header", "all"}
  BY DEF Mbufs, Sent
<1>3. Sent.written = "sent"
  BY DEF Sent
<1> QED BY <1>1, <1>2, <1>3 DEF GoesOut, TypeOK

(* The steps of the server thread, the network and the evictions too. *)
LEMMA OtherTypes ==
  ASSUME TypeInv,
         \/ \E os \in Chunks : EnqueueReply(os)
         \/ FlushRead \/ FlushSend
         \/ Network
         \/ \E o \in Objects : Evict(o)
  PROVE  TypeInv'
<1> USE DEF TypeInv, TypeOK, Filling, senderVars, queueVars, serverVars, replyVars, netVars, dpuVars
<1>1. ASSUME NEW os \in Chunks, EnqueueReply(os) PROVE TypeInv'
  BY <1>1 DEF EnqueueReply, SenderInv, SlotInv, FilledInv
<1>2. CASE FlushRead
  BY <1>2 DEF FlushRead, SenderInv, SlotInv, FilledInv
<1>3. CASE FlushSend
  <2>1. PICK out \in [Sending -> UNION {GoesOut(mq[i]) : i \in Sending}] :
          /\ \A i \in Sending : out[i] \in GoesOut(mq[i])
          /\ toDpu' = toDpu \cup ({out[i] : i \in Sending} \ {NoPacket})
    BY <1>3 DEF FlushSend
  <2>2. \A i \in Sending : out[i] \in Packets \cup {NoPacket}
    BY <2>1, GoesOutPackets DEF Sending, FilledInv
  <2>3. toDpu' \subseteq Packets
    BY <2>1, <2>2
  <2>4. mq' \in [Slots -> Mbufs \cup {Unused, Sent}]
        /\ \A i \in Slots : mq'[i] \in {mq[i], Sent}
    BY <1>3 DEF FlushSend
  <2>5. TypeOK' /\ SenderInv' /\ SlotInv'
    BY <1>3, <2>3, <2>4, QSizeAssumption DEF FlushSend, SenderInv, SlotInv, Slots
  <2>6. FilledInv'
    BY <1>3, <2>4, QSizeAssumption DEF FlushSend, FilledInv, Slots
  <2> QED BY <2>5, <2>6
<1>4. ASSUME NEW p \in Packets, Deliver(p) PROVE TypeInv'
  <2>1. p.chunk \in Chunks /\ p.chunk[1] \in Objects /\ p.chunk[2] \in Seqs(p.chunk[1])
        /\ p.chunk[2] \in Nat
    BY ChunkFacts DEF Packets
  <2>2. got' = got \/ got' = [got EXCEPT ![p.chunk[1]] = got[p.chunk[1]] \cup {p.chunk[2]}]
    BY <1>4 DEF Deliver
  <2>3. got' \in [Objects -> SUBSET Nat] /\ \A o \in Objects : got'[o] \subseteq Seqs(o)
    BY <2>1, <2>2
  <2> QED BY <1>4, <2>1, <2>3 DEF Deliver, SenderInv, SlotInv, FilledInv
<1>5. CASE Lose
  BY <1>5 DEF Lose, SenderInv, SlotInv, FilledInv
<1>6. ASSUME NEW o \in Objects, Evict(o) PROVE TypeInv'
  BY <1>6 DEF Evict, SenderInv, SlotInv, FilledInv
<1> QED BY <1>1, <1>2, <1>3, <1>4, <1>5, <1>6 DEF Network

(* Every step keeps the types. *)
LEMMA StepTypes == ASSUME TypeInv, [Next]_vars PROVE TypeInv'
<1>1. CASE UNCHANGED vars
  BY <1>1 DEF vars, senderVars, queueVars, serverVars, replyVars, netVars, dpuVars,
              TypeInv, TypeOK, SenderInv, SlotInv, FilledInv, Filling
<1>2. CASE Next
  BY <1>2, GenerateTypes, WaitTypes, OtherTypes DEF Next, SenderStep, ServerStep
<1> QED BY <1>1, <1>2

(* Every variable keeps its type for any length of the transmit queue: the *)
(* sender's second write of the length, which races the flush's reset,     *)
(* never makes the queue longer than its array.                            *)
THEOREM TransferTypes == Spec => []TypeOK
<1>1. Init => TypeInv
  BY InitInv DEF SafeInv
<1>2. TypeInv /\ [Next]_vars => TypeInv'
  BY StepTypes
<1>3. TypeInv => TypeOK
  BY DEF TypeInv
<1> QED BY <1>1, <1>2, <1>3, PTL DEF Spec

-----------------------------------------------------------------------------
(* A chunk is answered as long as the data plane and the histories stay.   *)
LEMMA AnsweredFrame == ASSUME UNCHANGED dpuVars PROVE \A os : Answered(os)' <=> Answered(os)
  BY DEF Answered, dpuVars

(* Delivering a packet makes its chunk answered, and none unanswered.      *)
LEMMA DeliverAnswers ==
  ASSUME TypeOK, NEW p \in Packets, Deliver(p)
  PROVE  /\ Answered(p.chunk)'
         /\ \A os \in Chunks : Answered(os) => Answered(os)'
<1>1. p.chunk \in Chunks /\ p.chunk[1] \in Objects
  BY ChunkFacts DEF Packets
<1>2. CASE p.data = "full"
  <2>1. got' = [got EXCEPT ![p.chunk[1]] = got[p.chunk[1]] \cup {p.chunk[2]}]
        /\ hollow' = hollow \ {p.chunk} /\ stale' = stale \ {p.chunk}
    BY <1>2 DEF Deliver
  <2>2. p.chunk[2] \in got'[p.chunk[1]] /\ \A o \in Objects : got[o] \subseteq got'[o]
    BY <1>1, <2>1 DEF TypeOK
  <2> QED BY <2>1, <2>2, ChunkFacts DEF Answered
<1>3. CASE p.data # "full"
  BY <1>3 DEF Deliver, Answered
<1> QED BY <1>2, <1>3

(* Every step keeps replies answers and chunks remembered.                 *)
LEMMA StepAck == ASSUME SafeInv, [Next]_vars PROVE AckInv'
<1> USE DEF SafeInv, TypeInv, TypeOK, AckInv, senderVars, queueVars, serverVars, replyVars, netVars
<1>f. ASSUME UNCHANGED dpuVars PROVE \A os : Answered(os)' <=> Answered(os)
  BY <1>f, AnsweredFrame
<1>1. ASSUME NEW o \in Objects, Start(o) PROVE AckInv'
  BY <1>1, <1>f, ObjectsAssumption DEF Start, SenderInv
<1>2. CASE TakeSlot \/ Publish \/ WriteHeader
  BY <1>2, <1>f DEF TakeSlot, Publish, WriteHeader
<1>3. CASE QueueFull \/ ReadBytes
  <2>1. PICK s \in gen : una' = Registered(s) /\ gen' = gen \ {s}
    BY <1>3 DEF QueueFull, ReadBytes
  <2>2. UNCHANGED <<dpuVars, toHost, orq, obj, resend>>
    BY <1>3 DEF QueueFull, ReadBytes
  <2> QED BY <2>1, <2>2, <1>f DEF Registered
<1>5. CASE Generated \/ Wait \/ SpuriousWake \/ BackOff \/ Tick \/ SignalToReplyq
  BY <1>5, <1>f DEF Generated, Wait, SpuriousWake, BackOff, Tick, SignalToReplyq
<1>6. CASE Process
  <2>1. obj \in Objects /\ gen = {}
    BY <1>6 DEF Process, SenderInv
  <2>2. \A s \in Acked : Answered(<<obj, s>>)
    <3>1. ASSUME NEW os \in orq, os[1] = obj PROVE Answered(<<obj, os[2]>>)
      BY <3>1, ChunkFacts
    <3> QED BY <3>1 DEF Acked
  <2>3. obj' = obj \/ obj' = NoObject
    BY <1>6 DEF Process
  <2> QED BY <1>6, <1>f, <2>1, <2>2, <2>3, ObjectsAssumption DEF Process
<1>7. CASE Retransmit
  BY <1>7, <1>f DEF Retransmit, SenderInv
<1>8. ASSUME NEW os \in Chunks, EnqueueReply(os) PROVE AckInv'
  BY <1>8, <1>f DEF EnqueueReply
<1>9. CASE FlushRead \/ FlushSend \/ Lose
  BY <1>9, <1>f DEF FlushRead, FlushSend, Lose
<1>10. ASSUME NEW p \in Packets, Deliver(p) PROVE AckInv'
  <2>1. /\ Answered(p.chunk)' /\ \A os \in Chunks : Answered(os) => Answered(os)'
    BY <1>10, DeliverAnswers
  <2>2. /\ toHost' = toHost \cup {p.chunk} /\ UNCHANGED <<orq, obj, una, resend, gen>>
    BY <1>10 DEF Deliver
  <2> QED BY <2>1, <2>2, ChunkFacts
<1>11. ASSUME NEW o \in Objects, Evict(o) PROVE AckInv'
  <2>1. obj = NoObject /\ UNCHANGED <<toHost, orq, obj>>
    BY <1>11 DEF Evict, SenderInv
  <2>2. ASSUME NEW os \in toHost \cup orq PROVE Answered(os)'
    <3>1. os \in Chunks /\ os[1] \in Objects /\ Answered(os)
      BY ChunkFacts
    <3>2. CASE os[1] = o
      BY <1>11, <3>1, <3>2 DEF Evict, ChunksOf, Answered
    <3>3. CASE os[1] # o
      BY <1>11, <3>1, <3>3 DEF Evict, ChunksOf, Answered
    <3> QED BY <3>2, <3>3
  <2> QED BY <2>1, <2>2, ObjectsAssumption
<1>12. CASE UNCHANGED vars
  BY <1>12, <1>f DEF vars
<1> QED BY <1>1, <1>2, <1>3, <1>5, <1>6, <1>7, <1>8, <1>9, <1>10, <1>11, <1>12
        DEF Next, SenderStep, ServerStep, Network

(* What the data plane has is unchanged by a step that leaves got alone. *)
LEMMA StoredFrame == ASSUME UNCHANGED got PROVE UNCHANGED Stored
  BY DEF Stored

(* The chunks of an object, as the reliable offload has them. *)
LEMMA ChunksOfSame == \A o \in Objects : Offload!ChunksOf(o) = ChunksOf(o)
<1> SUFFICES ASSUME NEW o \in Objects PROVE Offload!ChunksOf(o) = ChunksOf(o)
  OBVIOUS
<1>1. ASSUME NEW s \in Seqs(o) PROVE <<o, s>> \in ChunksOf(o)
  BY ChunkFacts DEF ChunksOf
<1>2. ASSUME NEW os \in ChunksOf(o) PROVE os \in {o} \X Seqs(o)
  BY ChunkFacts DEF ChunksOf
<1> QED BY <1>1, <1>2 DEF Offload!ChunksOf, Seqs

InVain == hollow \cup stale

(* Every step is one of the reliable offload, or no step. *)
LEMMA StepRefines ==
  ASSUME SafeInv, [Next]_vars
  PROVE  [Offload!Next]_<<Stored, InVain, finished>>
<1> USE DEF senderVars, queueVars, serverVars, replyVars, netVars, dpuVars, InVain
<1>1. CASE Process
  <2>1. obj \in Objects /\ gen = {} /\ UNCHANGED <<Stored, InVain>>
    BY <1>1, StoredFrame DEF Process, SafeInv, TypeInv, TypeOK, SenderInv
  <2>2. CASE una \subseteq Acked
    <3>1. ASSUME NEW s \in Seqs(obj) PROVE Answered(<<obj, s>>)
      <4>1. s \in Acked => <<obj, s>> \in orq
        BY ChunkFacts DEF Acked, SafeInv, TypeInv, TypeOK
      <4> QED BY <2>1, <2>2, <4>1 DEF SafeInv, AckInv
    <3>2. Offload!ChunksOf(obj) \subseteq Stored \cup InVain
      <4>1. ASSUME NEW os \in ChunksOf(obj) PROVE os \in Stored \cup InVain
        <5>1. os \in Chunks /\ os[2] \in Seqs(obj) /\ os = <<obj, os[2]>>
          BY ChunkFacts DEF ChunksOf
        <5> QED BY <3>1, <5>1 DEF Stored, Answered
      <4> QED BY <2>1, <4>1, ChunksOfSame
    <3>3. Offload!Finish(obj)
      BY <1>1, <2>1, <2>2, <3>2 DEF Process, Offload!Finish
    <3> QED BY <2>1, <3>3 DEF Offload!Next
  <2>3. CASE ~(una \subseteq Acked)
    BY <1>1, <2>1, <2>3 DEF Process
  <2> QED BY <2>2, <2>3
<1>2. ASSUME NEW p \in Packets, Deliver(p)
      PROVE  Offload!Next \/ UNCHANGED <<Stored, InVain, finished>>
  <2>1. /\ p.chunk[1] \in Objects /\ p.chunk[2] \in Seqs(p.chunk[1]) /\ p.chunk \in Chunks
        /\ p.chunk = <<p.chunk[1], p.chunk[2]>>
    BY ChunkFacts DEF Packets
  <2>2. CASE p.data = "full"
    <3>1. got' = [got EXCEPT ![p.chunk[1]] = got[p.chunk[1]] \cup {p.chunk[2]}]
      BY <1>2, <2>2 DEF Deliver
    <3>2. ASSUME NEW os \in Chunks
          PROVE  os[2] \in got'[os[1]] <=> os[2] \in got[os[1]] \/ os = p.chunk
      BY <2>1, <3>1, ChunkFacts DEF SafeInv, TypeInv, TypeOK
    <3>3. Stored' = Stored \cup {<<p.chunk[1], p.chunk[2]>>}
      BY <2>1, <3>2 DEF Stored
    <3>4. InVain' = InVain \ {<<p.chunk[1], p.chunk[2]>>}
      BY <1>2, <2>1, <2>2 DEF Deliver
    <3>5. Offload!Receive(p.chunk[1], p.chunk[2])
      BY <1>2, <3>3, <3>4 DEF Deliver, Offload!Receive
    <3> QED BY <2>1, <3>5 DEF Offload!Next, Seqs
  <2>3. CASE p.data # "full" /\ p.chunk[2] \notin got[p.chunk[1]]
    <3>1. UNCHANGED Stored
      BY <1>2, <2>3, StoredFrame DEF Deliver
    <3>2. InVain' = InVain \cup {<<p.chunk[1], p.chunk[2]>>}
      BY <1>2, <2>1, <2>3 DEF Deliver
    <3>3. Offload!AnswerInVain(p.chunk[1], p.chunk[2])
      BY <1>2, <3>1, <3>2 DEF Deliver, Offload!AnswerInVain
    <3> QED BY <2>1, <3>3 DEF Offload!Next, Seqs
  <2>4. CASE p.data # "full" /\ p.chunk[2] \in got[p.chunk[1]]
    BY <1>2, <2>4, StoredFrame DEF Deliver
  <2> QED BY <2>2, <2>3, <2>4
<1>3. ASSUME NEW o \in Objects, Evict(o) PROVE Offload!Next
  <2>1. got' = [got EXCEPT ![o] = {}]
    BY <1>3 DEF Evict
  <2>2. ASSUME NEW os \in Chunks
        PROVE  os[2] \in got'[os[1]] <=> os[2] \in got[os[1]] /\ os[1] # o
    BY <2>1, ChunkFacts DEF SafeInv, TypeInv, TypeOK
  <2>3. Stored' = Stored \ ChunksOf(o)
    BY <2>2 DEF Stored, ChunksOf
  <2>4. InVain' = (InVain \ ChunksOf(o)) \cup ((toHost \cup orq) \cap ChunksOf(o))
    BY <1>3 DEF Evict
  <2>5. Offload!Evict(o)
    BY <1>3, <2>3, <2>4, ChunksOfSame DEF Evict, Offload!Evict
  <2> QED BY <2>5 DEF Offload!Next
<1>4. ASSUME \/ \E o \in Objects : Start(o)
             \/ TakeSlot \/ QueueFull \/ Publish \/ WriteHeader \/ ReadBytes \/ Generated
             \/ Wait \/ SpuriousWake \/ BackOff \/ Retransmit \/ Tick
             \/ \E os \in Chunks : EnqueueReply(os)
             \/ SignalToReplyq \/ FlushRead \/ FlushSend \/ Lose
             \/ UNCHANGED vars
      PROVE  UNCHANGED <<got, hollow, stale, finished>>
  BY <1>4 DEF Start, TakeSlot, QueueFull, Publish, WriteHeader, ReadBytes, Generated, Wait,
              SpuriousWake, BackOff, Retransmit, Tick, EnqueueReply, SignalToReplyq, FlushRead,
              FlushSend, Lose, vars
<1> QED BY <1>1, <1>2, <1>3, <1>4, StoredFrame DEF Next, SenderStep, ServerStep, Network

(* An offload returns only when the data plane has the bytes of every      *)
(* chunk it did not answer for in vain (a packet without bytes, an answer  *)
(* from before the last eviction), for any objects and any length of the   *)
(* transmit queue, whatever is lost, sent again, sent before it is written *)
(* or late: net_send_offloading_message implements a reliable offload but  *)
(* for these two.                                                          *)
THEOREM OffloadReliable == Spec => RefinesOffload
<1>1. Init => SafeInv /\ Offload!Init
  <2>1. Init => \A os \in Chunks : os[2] \notin got[os[1]]
    BY ChunkFacts DEF Init
  <2>2. Init => Stored = {}
    BY <2>1 DEF Stored
  <2> QED BY <2>2, InitInv DEF Init, Offload!Init
<1>2. SafeInv /\ [Next]_vars => SafeInv'
  BY StepTypes, StepAck DEF SafeInv
<1>3. SafeInv /\ [Next]_vars => [Offload!Next]_<<Stored, hollow \cup stale, finished>>
  BY StepRefines DEF InVain
<1> QED BY <1>1, <1>2, <1>3, PTL DEF Spec, RefinesOffload, Offload!Spec

=============================================================================
