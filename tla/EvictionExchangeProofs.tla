------------------------ MODULE EvictionExchangeProofs ------------------------
(***************************************************************************)
(* Theorems of EvictionExchange for any number of items and any length of  *)
(* the transmit queue, whatever happens to the wait tree, to the packets   *)
(* and to the transmit queue: a reply frees its object once, and no object *)
(* is freed while the data plane holds it, unless the data plane answered  *)
(* for it more often than it dropped it or a reply was added to the queue  *)
(* across its reset.                                                       *)
(***************************************************************************)
EXTENDS EvictionExchange, FiniteSetTheorems, TLAPS

(* What the replies and the objects they are for are.                      *)
ReplyTypes ==
  /\ i \in Nat \ {0}
  /\ linked \in [Nodes -> Nat] /\ toHost \in [Nodes -> Nat] /\ surplus \in [Nodes -> Nat]
  /\ nic \subseteq Nodes
  /\ erq \in Seq(Nodes) /\ enq \in Seq(Nodes)

(* While the server thread adds a reply, the queue is what it was before   *)
(* or was reset.                                                           *)
EnqueueInv == Enqueueing => erq = << >> \/ \E it \in Nodes : enq = Append(erq, it)

BookInv == ReplyTypes /\ EnqueueInv /\ FreedOnce

(* The replies for an object that are not applied yet, and the one that is *)
(* being added.                                                            *)
Waiting(it) == Cardinality(Unapplied(it))
Coming(it)  == IF Enqueueing /\ enq[Len(enq)] = it THEN 1 ELSE 0
Credit(it)  == (IF it \in nic THEN 0 ELSE 1) + surplus[it]

(* The statement of FreedOnce for one object. *)
LEMMA Books ==
  FreedByAnswer <=> \A it \in Nodes : linked[it] + Waiting(it) + Coming(it) + toHost[it] <= Credit(it)
BY DEF FreedByAnswer, Waiting, Coming, Credit

(* The unapplied replies are finitely many. *)
LEMMA Counted ==
  ASSUME ReplyTypes, NEW it \in Nodes
  PROVE  IsFiniteSet(Unapplied(it)) /\ Waiting(it) \in Nat /\ Coming(it) \in {0, 1} /\ Credit(it) \in Nat
<1>1. Len(erq) \in Nat /\ (IF epc \in {"apply", "reset"} THEN i ELSE 1) \in Nat
  BY DEF ReplyTypes
<1>2. IsFiniteSet((IF epc \in {"apply", "reset"} THEN i ELSE 1) .. Len(erq))
  BY <1>1, FS_Interval
<1>3. Unapplied(it) \subseteq (IF epc \in {"apply", "reset"} THEN i ELSE 1) .. Len(erq)
  BY DEF Unapplied
<1>4. IsFiniteSet(Unapplied(it))
  BY <1>2, <1>3, FS_Subset
<1>5. Waiting(it) \in Nat
  BY <1>4, FS_CardinalityType DEF Waiting
<1> QED BY <1>4, <1>5 DEF Coming, Credit, ReplyTypes

LEMMA CountedNext ==
  ASSUME ReplyTypes', NEW it \in Nodes
  PROVE  IsFiniteSet(Unapplied(it)') /\ Waiting(it)' \in Nat /\ Coming(it)' \in {0, 1} /\ Credit(it)' \in Nat
<1>1. Len(erq') \in Nat /\ (IF epc' \in {"apply", "reset"} THEN i' ELSE 1) \in Nat
  BY DEF ReplyTypes
<1>2. IsFiniteSet((IF epc' \in {"apply", "reset"} THEN i' ELSE 1) .. Len(erq'))
  BY <1>1, FS_Interval
<1>3. Unapplied(it)' \subseteq (IF epc' \in {"apply", "reset"} THEN i' ELSE 1) .. Len(erq')
  BY DEF Unapplied
<1>4. IsFiniteSet(Unapplied(it)')
  BY <1>2, <1>3, FS_Subset
<1>5. Waiting(it)' \in Nat
  BY <1>4, FS_CardinalityType DEF Waiting
<1> QED BY <1>4, <1>5 DEF Coming, Credit, ReplyTypes

(* All of them are numbers. *)
LEMMA Amounts ==
  ASSUME ReplyTypes, NEW it \in Nodes
  PROVE  /\ Waiting(it) \in Nat /\ Coming(it) \in Nat /\ Credit(it) \in Nat
         /\ linked[it] \in Nat /\ toHost[it] \in Nat
<1>1. linked[it] \in Nat /\ toHost[it] \in Nat
  BY DEF ReplyTypes
<1> QED BY <1>1, Counted

(* Fewer replies to apply are a smaller number of them. *)
LEMMA FewerWaiting ==
  ASSUME ReplyTypes, ReplyTypes', NEW it \in Nodes, Unapplied(it)' \subseteq Unapplied(it)
  PROVE  Waiting(it)' <= Waiting(it)
BY Counted, FS_Subset DEF Waiting

(* The invariant holds at the start. *)
LEMMA InitBooks == Init => BookInv
<1> SUFFICES ASSUME Init PROVE BookInv
  OBVIOUS
<1>1. ReplyTypes
  BY DEF Init, ReplyTypes, Nodes
<1>2. EnqueueInv
  BY DEF Init, EnqueueInv, Enqueueing
<1>3. ASSUME NEW it \in Nodes
      PROVE  linked[it] + Waiting(it) + Coming(it) + toHost[it] <= Credit(it)
  <2>1. Unapplied(it) = {}
    BY DEF Init, Unapplied
  <2>2. Waiting(it) = 0
    BY <2>1, FS_EmptySet DEF Waiting
  <2> QED BY <2>2 DEF Init, Coming, Credit, Enqueueing
<1>4. FreedOnce
  BY <1>3, Books DEF FreedOnce
<1> QED BY <1>1, <1>2, <1>4 DEF BookInv

(* What is to be shown of a step. *)
LEMMA BooksNext ==
  ASSUME ReplyTypes', EnqueueInv',
         ~revived' => \A it \in Nodes :
           Waiting(it)' + linked'[it] + Coming(it)' + toHost'[it] <= Credit(it)'
  PROVE  BookInv'
<1>1. ASSUME ~revived', NEW it \in Nodes
      PROVE  (linked[it] + Waiting(it) + Coming(it) + toHost[it] <= Credit(it))'
  <2>1. linked'[it] \in Nat /\ Waiting(it)' \in Nat
    BY CountedNext DEF ReplyTypes
  <2>2. Waiting(it)' + linked'[it] = linked'[it] + Waiting(it)'
    BY <2>1
  <2> QED BY <1>1, <2>2
<1>2. FreedOnce'
  BY <1>1 DEF FreedOnce, FreedByAnswer, Waiting, Coming, Credit
<1> QED BY <1>2 DEF BookInv

(* The books before a step. *)
LEMMA BooksBefore ==
  ASSUME BookInv, ~revived, NEW it \in Nodes
  PROVE  Waiting(it) + linked[it] + Coming(it) + toHost[it] <= Credit(it)
<1>1. linked[it] + Waiting(it) + Coming(it) + toHost[it] <= Credit(it)
  BY Books DEF BookInv, FreedOnce
<1>2. linked[it] \in Nat /\ Waiting(it) \in Nat
  BY Counted DEF BookInv, ReplyTypes
<1> QED BY <1>1, <1>2

-----------------------------------------------------------------------------
(* A step that moves no reply and no object keeps the books. *)
LEMMA QuietKeeps ==
  ASSUME BookInv, UNCHANGED <<i, linked, toHost, surplus, nic, erq, enq, revived>>,
         epc' \in {"apply", "reset"} \/ epc \notin {"apply", "reset"}
  PROVE  BookInv'
<1>1. ReplyTypes /\ ReplyTypes'
  BY DEF BookInv, ReplyTypes
<1>2. EnqueueInv'
  BY DEF BookInv, EnqueueInv, Enqueueing
<1>3. ASSUME ~revived', NEW it \in Nodes
      PROVE  Waiting(it)' + linked'[it] + Coming(it)' + toHost'[it] <= Credit(it)'
  <2>1. Waiting(it) + linked[it] + Coming(it) + toHost[it] <= Credit(it)
    BY <1>3, BooksBefore
  <2>2. Unapplied(it)' \subseteq Unapplied(it)
    BY <1>1 DEF Unapplied, ReplyTypes
  <2>3. Waiting(it)' <= Waiting(it)
    BY <1>1, <2>2, FewerWaiting
  <2>4. Coming(it)' = Coming(it) /\ Credit(it)' = Credit(it)
    BY DEF Coming, Credit, Enqueueing
  <2>5. /\ Waiting(it) \in Nat /\ Waiting(it)' \in Nat /\ Coming(it) \in Nat /\ Credit(it) \in Nat
        /\ linked[it] \in Nat /\ toHost[it] \in Nat
    BY <1>1, Counted, CountedNext DEF ReplyTypes
  <2> QED BY <2>1, <2>3, <2>4, <2>5
<1> QED BY <1>1, <1>2, <1>3, BooksNext

(* An object is offloaded again: it is one free block less, and one more   *)
(* that the data plane holds.                                              *)
LEMMA OffloadAgainKeeps ==
  ASSUME BookInv, NEW o \in Nodes, OffloadAgain(o)
  PROVE  BookInv'
<1> USE DEF OffloadAgain, threadVars, replyVars
<1>1. ReplyTypes /\ ReplyTypes'
  BY DEF BookInv, ReplyTypes
<1>2. EnqueueInv'
  BY DEF BookInv, EnqueueInv, Enqueueing
<1>3. ASSUME ~revived', NEW it \in Nodes
      PROVE  Waiting(it)' + linked'[it] + Coming(it)' + toHost'[it] <= Credit(it)'
  <2>1. Waiting(it) + linked[it] + Coming(it) + toHost[it] <= Credit(it)
    BY <1>3, BooksBefore
  <2>2. Waiting(it)' = Waiting(it)
    BY DEF Waiting, Unapplied
  <2>3. Coming(it)' = Coming(it)
    BY DEF Coming, Enqueueing
  <2>4. /\ it = o => linked'[it] = linked[it] - 1 /\ Credit(it)' = surplus[it]
        /\ it # o => linked'[it] = linked[it] /\ Credit(it)' = Credit(it)
        /\ Credit(it) <= 1 + surplus[it]
    BY <1>1 DEF Credit, ReplyTypes
  <2>5. /\ Waiting(it) \in Nat /\ Coming(it) \in Nat /\ Credit(it) \in Nat
        /\ linked[it] \in Nat /\ toHost[it] \in Nat /\ surplus[it] \in Nat /\ toHost' = toHost
    BY <1>1, Counted DEF ReplyTypes
  <2> QED BY <2>1, <2>2, <2>3, <2>4, <2>5
<1> QED BY <1>1, <1>2, <1>3, BooksNext

(* A reply is applied: it is no longer unapplied, and its object is freed. *)
LEMMA ApplyKeeps ==
  ASSUME BookInv, Apply
  PROVE  BookInv'
<1> DEFINE o == erq[i]
<1>1. ReplyTypes /\ o \in Nodes /\ i <= Len(erq) /\ epc = "apply"
  BY DEF BookInv, ReplyTypes, Apply, At
<1>5. /\ linked' = [linked EXCEPT ![o] = @ + 1] /\ i' = i + 1
      /\ UNCHANGED <<epc, erq, enq, revived, toHost, nic, surplus>>
  BY DEF Apply, replyVars, netVars
<1>2. ReplyTypes'
  BY <1>1, <1>5 DEF ReplyTypes
<1>3. EnqueueInv'
  BY <1>5 DEF BookInv, EnqueueInv, Enqueueing
<1>4. ASSUME ~revived', NEW it \in Nodes
      PROVE  Waiting(it)' + linked'[it] + Coming(it)' + toHost'[it] <= Credit(it)'
  <2>1. Waiting(it) + linked[it] + Coming(it) + toHost[it] <= Credit(it)
    BY <1>4, <1>5, BooksBefore
  <2>2. Coming(it)' = Coming(it) /\ Credit(it)' = Credit(it) /\ toHost' = toHost
    BY <1>5 DEF Coming, Credit, Enqueueing
  <2>3. /\ Waiting(it) \in Nat /\ Coming(it) \in Nat /\ Credit(it) \in Nat
        /\ linked[it] \in Nat /\ toHost[it] \in Nat
    BY <1>1, Amounts
  <2>4. CASE it = o
    <3>1. i \in Unapplied(it) /\ Unapplied(it)' = Unapplied(it) \ {i}
      BY <1>1, <1>5, <2>4 DEF Unapplied, ReplyTypes
    <3>2. Waiting(it)' = Waiting(it) - 1
      BY <1>1, <3>1, Counted, FS_RemoveElement DEF Waiting
    <3>3. linked'[it] = linked[it] + 1
      BY <1>1, <1>5, <2>4 DEF ReplyTypes
    <3> QED BY <2>1, <2>2, <2>3, <3>2, <3>3
  <2>5. CASE it # o
    <3>a. /\ Unapplied(it) = {k \in i..Len(erq) : erq[k] = it}
          /\ Unapplied(it)' = {k \in (i + 1)..Len(erq) : erq[k] = it}
      BY <1>1, <1>5 DEF Unapplied
    <3>b. i \in Nat /\ Len(erq) \in Nat /\ erq[i] # it
      BY <1>1, <2>5 DEF ReplyTypes
    <3>1. Unapplied(it)' = Unapplied(it)
      BY <3>a, <3>b
    <3>2. linked'[it] = linked[it] /\ Waiting(it)' = Waiting(it)
      BY <1>1, <1>5, <2>5, <3>1 DEF ReplyTypes, Waiting
    <3> QED BY <2>1, <2>2, <3>2
  <2> QED BY <2>4, <2>5
<1> QED BY <1>2, <1>3, <1>4, BooksNext

(* The queue is emptied. *)
LEMMA ResetKeeps ==
  ASSUME BookInv, Reset
  PROVE  BookInv'
<1> USE DEF Reset, At, itemVars, netVars
<1>1. ReplyTypes /\ ReplyTypes'
  BY DEF BookInv, ReplyTypes
<1>2. EnqueueInv'
  BY DEF EnqueueInv
<1>3. ASSUME ~revived', NEW it \in Nodes
      PROVE  Waiting(it)' + linked'[it] + Coming(it)' + toHost'[it] <= Credit(it)'
  <2>1. Waiting(it) + linked[it] + Coming(it) + toHost[it] <= Credit(it)
    BY <1>3, BooksBefore
  <2>2. Unapplied(it)' = {}
    BY DEF Unapplied
  <2>3. Waiting(it)' = 0
    BY <2>2, FS_EmptySet DEF Waiting
  <2>4. Coming(it)' = Coming(it) /\ Credit(it)' = Credit(it) /\ toHost' = toHost /\ linked' = linked
    BY DEF Coming, Credit, Enqueueing
  <2>5. /\ Waiting(it) \in Nat /\ Coming(it) \in Nat /\ Credit(it) \in Nat
        /\ linked[it] \in Nat /\ toHost[it] \in Nat
    BY <1>1, Amounts
  <2> QED BY <2>1, <2>3, <2>4, <2>5
<1> QED BY <1>1, <1>2, <1>3, BooksNext

-----------------------------------------------------------------------------
(* A reply on its way becomes one that is being added. *)
LEMMA EnqueueReplyKeeps ==
  ASSUME BookInv, NEW o \in Nodes, EnqueueReply(o)
  PROVE  BookInv'
<1> USE DEF EnqueueReply, threadVars, itemVars
<1>1. ReplyTypes /\ ReplyTypes'
  BY DEF BookInv, ReplyTypes
<1>2. EnqueueInv'
  BY DEF EnqueueInv
<1>3. enq' # << >> /\ enq'[Len(enq')] = o
  BY <1>1 DEF ReplyTypes
<1>4. ASSUME ~revived', NEW it \in Nodes
      PROVE  Waiting(it)' + linked'[it] + Coming(it)' + toHost'[it] <= Credit(it)'
  <2>1. Waiting(it) + linked[it] + Coming(it) + toHost[it] <= Credit(it)
    BY <1>4, BooksBefore
  <2>2. Waiting(it)' = Waiting(it) /\ Credit(it)' = Credit(it) /\ linked' = linked
    BY DEF Waiting, Unapplied, Credit
  <2>3. Coming(it) = 0 /\ Coming(it)' = (IF it = o THEN 1 ELSE 0)
    BY <1>3 DEF Coming, Enqueueing
  <2>4. toHost'[it] = (IF it = o THEN toHost[it] - 1 ELSE toHost[it])
    BY <1>1 DEF ReplyTypes
  <2>5. /\ Waiting(it) \in Nat /\ Credit(it) \in Nat
        /\ linked[it] \in Nat /\ toHost[it] \in Nat
    BY <1>1, Amounts
  <2> QED BY <2>1, <2>2, <2>3, <2>4, <2>5
<1> QED BY <1>1, <1>2, <1>4, BooksNext

(* It is counted: where the queue was not reset, it is the last reply.     *)
LEMMA Added ==
  ASSUME BookInv, CountReply, ~revived'
  PROVE  \E o \in Nodes : erq' = Append(erq, o) /\ enq = Append(erq, o)
<1> USE DEF CountReply
<1>1. erq \in Seq(Nodes) /\ enq \in Seq(Nodes) /\ enq # << >>
  BY DEF BookInv, ReplyTypes, Enqueueing
<1>2. Len(enq) = Len(erq) + 1 /\ erq' = SubSeq(enq, 1, Len(enq))
  OBVIOUS
<1>3. erq' = enq
  BY <1>1, <1>2
<1>4. CASE \E it \in Nodes : enq = Append(erq, it)
  BY <1>3, <1>4
<1>5. CASE erq = << >>
  <2>1. Len(enq) = 1 /\ enq[1] \in Nodes
    BY <1>1, <1>2, <1>5
  <2>2. enq = Append(erq, enq[1])
    BY <1>1, <1>5, <2>1
  <2> QED BY <1>3, <2>1, <2>2
<1> QED BY <1>4, <1>5 DEF BookInv, EnqueueInv

LEMMA CountReplyKeeps ==
  ASSUME BookInv, CountReply
  PROVE  BookInv'
<1> USE DEF CountReply, threadVars, itemVars, netVars
<1>1. ReplyTypes
  BY DEF BookInv
<1>2. erq' \in Seq(Nodes)
  <2>1. \A n \in {Len(enq), Len(erq) + 1} : n \in Nat /\ n <= Len(enq) => SubSeq(enq, 1, n) \in Seq(Nodes)
    BY <1>1 DEF ReplyTypes
  <2>2. Len(enq) \in Nat /\ Len(erq) + 1 \in Nat /\ Len(erq) + 1 <= Len(enq)
    <3>1. CASE erq = << >>
      BY <1>1, <3>1 DEF ReplyTypes, Enqueueing
    <3>2. CASE \E it \in Nodes : enq = Append(erq, it)
      BY <1>1, <3>2 DEF ReplyTypes
    <3> QED BY <3>1, <3>2 DEF BookInv, EnqueueInv
  <2> QED BY <2>1, <2>2
<1>3. ReplyTypes'
  BY <1>1, <1>2 DEF ReplyTypes
<1>4. EnqueueInv'
  BY DEF EnqueueInv, Enqueueing
<1>5. ASSUME ~revived', NEW it \in Nodes
      PROVE  Waiting(it)' + linked'[it] + Coming(it)' + toHost'[it] <= Credit(it)'
  <2>1. Waiting(it) + linked[it] + Coming(it) + toHost[it] <= Credit(it)
    BY <1>5, BooksBefore
  <2>2. PICK o \in Nodes : erq' = Append(erq, o) /\ enq = Append(erq, o)
    BY <1>5, Added
  <2>3. Coming(it)' = 0 /\ Coming(it) = (IF it = o THEN 1 ELSE 0)
    BY <1>1, <2>2 DEF Coming, Enqueueing, ReplyTypes
  <2>4. Unapplied(it)' \subseteq (IF it = o THEN Unapplied(it) \cup {Len(erq) + 1} ELSE Unapplied(it))
    BY <1>1, <2>2 DEF Unapplied, ReplyTypes
  <2>5. Waiting(it)' <= Waiting(it) + Coming(it)
    <3>1. CASE it = o
      <4>1. Len(erq) + 1 \notin Unapplied(it)
        BY <1>1 DEF Unapplied, ReplyTypes
      <4>2. /\ IsFiniteSet(Unapplied(it) \cup {Len(erq) + 1})
            /\ Cardinality(Unapplied(it) \cup {Len(erq) + 1}) = Waiting(it) + 1
        BY <1>1, <4>1, Counted, FS_AddElement DEF Waiting
      <4>3. Cardinality(Unapplied(it)') <= Cardinality(Unapplied(it) \cup {Len(erq) + 1})
        BY <2>4, <3>1, <4>2, FS_Subset
      <4> QED BY <2>3, <3>1, <4>2, <4>3 DEF Waiting
    <3>2. CASE it # o
      <4>1. Waiting(it)' <= Waiting(it)
        BY <1>1, <1>3, <2>4, <3>2, FewerWaiting
      <4> QED BY <1>1, <1>3, <2>3, <3>2, <4>1, Counted, CountedNext
    <3> QED BY <3>1, <3>2
  <2>6. Credit(it)' = Credit(it) /\ linked' = linked /\ toHost' = toHost
    BY DEF Credit
  <2>7. /\ Waiting(it) \in Nat /\ Coming(it) \in Nat /\ Credit(it) \in Nat
        /\ linked[it] \in Nat /\ toHost[it] \in Nat
    BY <1>1, Amounts
  <2>8. Waiting(it)' \in Nat
    BY <1>3, CountedNext
  <2> QED BY <2>1, <2>3, <2>5, <2>6, <2>7, <2>8
<1> QED BY <1>3, <1>4, <1>5, BooksNext

(* An answer stands for the drop, or is one too many. *)
LEMMA DeliverKeeps ==
  ASSUME BookInv, NEW o \in Nodes, Deliver(o)
  PROVE  BookInv'
<1> USE DEF Deliver, threadVars, itemVars, replyVars
<1>1. ReplyTypes /\ ReplyTypes'
  BY DEF BookInv, ReplyTypes
<1>2. EnqueueInv'
  BY DEF BookInv, EnqueueInv, Enqueueing
<1>3. ASSUME ~revived', NEW it \in Nodes
      PROVE  Waiting(it)' + linked'[it] + Coming(it)' + toHost'[it] <= Credit(it)'
  <2>1. Waiting(it) + linked[it] + Coming(it) + toHost[it] <= Credit(it)
    BY <1>3, BooksBefore
  <2>2. Waiting(it)' = Waiting(it) /\ Coming(it)' = Coming(it) /\ linked' = linked
    BY DEF Waiting, Unapplied, Coming, Enqueueing
  <2>3. /\ it = o => toHost'[it] = toHost[it] + 1 /\ Credit(it)' = Credit(it) + 1
        /\ it # o => toHost'[it] = toHost[it] /\ Credit(it)' = Credit(it)
    BY <1>1 DEF Credit, ReplyTypes
  <2>4. /\ Waiting(it) \in Nat /\ Coming(it) \in Nat /\ Credit(it) \in Nat
        /\ linked[it] \in Nat /\ toHost[it] \in Nat
    BY <1>1, Amounts
  <2> QED BY <2>1, <2>2, <2>3, <2>4
<1> QED BY <1>1, <1>2, <1>3, BooksNext

-----------------------------------------------------------------------------
(* Every step keeps the books. *)
LEMMA NextBooks == BookInv /\ [Next]_vars => BookInv'
<1> SUFFICES ASSUME BookInv, [Next]_vars PROVE BookInv'
  OBVIOUS
<1> USE DEF treeVars, sendVars, threadVars, itemVars, queueVars, replyVars, netVars
<1>1. ASSUME NEW it \in Nodes, Choose(it) PROVE BookInv'
  BY <1>1, QuietKeeps DEF Choose
<1>2. ASSUME NEW it \in Nodes, OffloadAgain(it) PROVE BookInv'
  BY <1>2, OffloadAgainKeeps
<1>3. ASSUME NEW it \in Nodes, EnqueueReply(it) PROVE BookInv'
  BY <1>3, EnqueueReplyKeeps
<1>4. ASSUME NEW it \in Nodes, Deliver(it) PROVE BookInv'
  BY <1>4, DeliverKeeps
<1>5. CASE Send
  BY <1>5, QuietKeeps DEF Send, At
<1>6. CASE EvictStep
  <2>1. ASSUME NEW it \in Nodes, TakeSlot(it) \/ QueueFull(it) \/ WriteHeader(it) PROVE BookInv'
    BY <2>1, QuietKeeps DEF TakeSlot, QueueFull, WriteHeader, At
  <2>2. CASE Publish \/ Generated \/ Wait
    BY <2>2, QuietKeeps DEF Publish, Generated, Wait, At
  <2>3. CASE Process
    BY <2>3, QuietKeeps DEF Process, At
  <2>4. CASE BackOff \/ Retransmit
    BY <2>4, QuietKeeps DEF BackOff, Retransmit, At
  <2>5. CASE Apply
    BY <2>5, ApplyKeeps
  <2>6. CASE ApplyDone
    BY <2>6, QuietKeeps DEF ApplyDone
  <2>7. CASE Reset
    BY <2>7, ResetKeeps
  <2> QED BY <1>6, <2>1, <2>2, <2>3, <2>4, <2>5, <2>6, <2>7 DEF EvictStep
<1>7. CASE SpuriousWake \/ SignalToReplyq
  BY <1>7, QuietKeeps DEF SpuriousWake, SignalToReplyq, Wake, At
<1>8. CASE Tick
  BY <1>8, QuietKeeps DEF Tick
<1>9. CASE CountReply
  BY <1>9, CountReplyKeeps
<1>10. CASE FlushRead \/ FlushSend
  BY <1>10, QuietKeeps DEF FlushRead, FlushSend
<1>11. CASE UNCHANGED vars
  BY <1>11, QuietKeeps DEF vars
<1> QED BY <1>1, <1>2, <1>3, <1>4, <1>5, <1>6, <1>7, <1>8, <1>9, <1>10, <1>11 DEF Next

LEMMA AlwaysBooks == Spec => []BookInv
<1>1. Init => BookInv
  BY InitBooks
<1>2. BookInv /\ [Next]_vars => BookInv'
  BY NextBooks
<1> QED BY <1>1, <1>2, PTL DEF Spec

(* EvictItems: for any number of items and any length of the transmit      *)
(* queue, whatever becomes of the wait tree and of the packets, and        *)
(* although the queue is processed again at every wake-up and read without *)
(* its mutex, a reply frees its object once.                               *)
THEOREM EveryReplyFreesOnce == Spec => []FreedOnce
<1>1. BookInv => FreedOnce
  BY DEF BookInv
<1> QED BY <1>1, AlwaysBooks, PTL

-----------------------------------------------------------------------------
Booked  == {it \in Nodes : linked[it] = 0}
Excused == {it \in Nodes : revived \/ surplus[it] > 0}

(* An object that is not excused is booked while the data plane holds it,  *)
(* and then there is no reply for it.                                      *)
LEMMA HeldIsBooked ==
  ASSUME BookInv, NEW it \in nic \ Excused
  PROVE  it \in Booked /\ Unapplied(it) = {}
<1>1. ReplyTypes /\ it \in Nodes /\ ~revived /\ Credit(it) = 0
  BY DEF BookInv, ReplyTypes, Excused, Credit
<1>2. Waiting(it) + linked[it] + Coming(it) + toHost[it] <= 0
  BY <1>1, BooksBefore
<1>3. linked[it] = 0 /\ Waiting(it) = 0
  BY <1>1, <1>2, Amounts
<1>4. Unapplied(it) = {}
  BY <1>1, <1>3, Counted, FS_EmptySet DEF Waiting
<1> QED BY <1>1, <1>3, <1>4 DEF Booked

(* Every step is a step of ReliableEviction, or none. *)
LEMMA NextRefines ==
  ASSUME BookInv, [Next]_vars
  PROVE  [Eviction!Next]_<<Booked, nic, Excused>>
<1> USE DEF treeVars, sendVars, threadVars, itemVars, queueVars, replyVars, netVars
<1>1. ASSUME UNCHANGED <<linked, nic, revived, surplus>> PROVE UNCHANGED <<Booked, nic, Excused>>
  BY <1>1 DEF Booked, Excused
<1>2. ASSUME NEW it \in Nodes, Choose(it) PROVE UNCHANGED <<Booked, nic, Excused>>
  BY <1>1, <1>2 DEF Choose
<1>3. ASSUME NEW it \in Nodes, OffloadAgain(it) PROVE Eviction!Offload(it)
  <2>1. /\ nic' = nic \cup {it} /\ linked' = [linked EXCEPT ![it] = @ - 1] /\ linked[it] > 0
        /\ UNCHANGED <<revived, surplus>>
    BY <1>3 DEF OffloadAgain
  <2>2. linked \in [Nodes -> Nat] /\ UNCHANGED Excused /\ it \notin Booked
    BY <2>1 DEF BookInv, ReplyTypes, Excused, Booked
  <2>3. CASE linked[it] = 1
    <3>1. Booked' = Booked \cup {it}
      BY <2>1, <2>2, <2>3 DEF Booked
    <3> QED BY <2>1, <2>2, <3>1 DEF Eviction!Offload, Booked, Excused
  <2>4. CASE linked[it] # 1
    <3>1. Booked' = Booked
      BY <2>1, <2>2, <2>4 DEF Booked
    <3>2. it \in Excused
      <4> SUFFICES ASSUME ~revived PROVE surplus[it] > 0
        BY DEF Excused
      <4>1. Waiting(it) + linked[it] + Coming(it) + toHost[it] <= Credit(it)
        BY BooksBefore
      <4>2. linked[it] >= 2 /\ Credit(it) <= 1 + surplus[it] /\ surplus[it] \in Nat
        BY <2>1, <2>2, <2>4 DEF Credit, BookInv, ReplyTypes
      <4> QED BY <4>1, <4>2, Amounts DEF BookInv
    <3> QED BY <2>1, <2>2, <3>1, <3>2 DEF Eviction!Offload, Booked, Excused
  <2> QED BY <2>3, <2>4
<1>4. ASSUME NEW it \in Nodes, EnqueueReply(it) PROVE UNCHANGED <<Booked, nic, Excused>>
  BY <1>1, <1>4 DEF EnqueueReply
<1>5. ASSUME NEW it \in Nodes, Deliver(it) PROVE Eviction!Drop(it) \/ Eviction!Excuse
  <2>1. linked' = linked /\ revived' = revived /\ nic' = nic \ {it} /\ Booked' = Booked
    BY <1>5 DEF Deliver, Booked
  <2>2. CASE it \in nic
    <3>1. surplus' = surplus /\ Excused' = Excused
      BY <1>5, <2>1, <2>2 DEF Deliver, Excused
    <3>2. it \in Booked \cup Excused
      BY <2>2, HeldIsBooked
    <3> QED BY <2>1, <2>2, <3>1, <3>2 DEF Eviction!Drop, Booked, Excused
  <2>3. CASE it \notin nic
    <3>1. surplus' = [surplus EXCEPT ![it] = @ + 1] /\ nic' = nic
      BY <1>5, <2>3 DEF Deliver
    <3>2. surplus \in [Nodes -> Nat]
      BY DEF BookInv, ReplyTypes
    <3>3. Excused \subseteq Excused' /\ Excused' \in SUBSET Nodes
      BY <2>1, <3>1, <3>2 DEF Excused
    <3> QED BY <2>1, <3>1, <3>3 DEF Eviction!Excuse, Booked, Excused
  <2> QED BY <2>2, <2>3
<1>6. CASE Send \/ Tick \/ FlushRead \/ FlushSend \/ UNCHANGED vars
  BY <1>1, <1>6 DEF Send, Tick, FlushRead, FlushSend, vars
<1>7. CASE SpuriousWake \/ SignalToReplyq
  BY <1>1, <1>7 DEF SpuriousWake, SignalToReplyq, Wake
<1>8. CASE EvictStep
  <2>1. ASSUME NEW it \in Nodes, TakeSlot(it) \/ QueueFull(it) \/ WriteHeader(it)
        PROVE  UNCHANGED <<Booked, nic, Excused>>
    BY <1>1, <2>1 DEF TakeSlot, QueueFull, WriteHeader
  <2>2. ASSUME Publish \/ Generated \/ Wait \/ BackOff \/ Retransmit \/ ApplyDone \/ Reset
        PROVE  UNCHANGED <<Booked, nic, Excused>>
    BY <1>1, <2>2 DEF Publish, Generated, Wait, BackOff, Retransmit, ApplyDone, Reset
  <2>3. ASSUME Process PROVE UNCHANGED <<Booked, nic, Excused>>
    BY <1>1, <2>3 DEF Process
  <2>4. ASSUME Apply
        PROVE  (\E it \in Nodes : Eviction!Free(it)) \/ UNCHANGED <<Booked, nic, Excused>>
    <3>1. PICK it \in Nodes : /\ i \in Unapplied(it) /\ linked' = [linked EXCEPT ![it] = @ + 1]
                              /\ UNCHANGED <<nic, revived, surplus>>
      <4>1. i <= Len(erq) /\ epc = "apply" /\ i \in Nat \ {0} /\ erq \in Seq(Nodes)
        BY <2>4 DEF Apply, At, BookInv, ReplyTypes
      <4>2. erq[i] \in Nodes /\ i \in Unapplied(erq[i])
        BY <4>1 DEF Unapplied
      <4>3. linked' = [linked EXCEPT ![erq[i]] = @ + 1] /\ UNCHANGED <<nic, revived, surplus>>
        BY <2>4 DEF Apply
      <4> QED BY <4>2, <4>3
    <3>2. linked \in [Nodes -> Nat] /\ UNCHANGED Excused
      BY <3>1 DEF BookInv, ReplyTypes, Excused
    <3>3. Booked' = Booked \ {it}
      BY <3>1, <3>2 DEF Booked
    <3>4. it \notin nic \ Excused
      BY <3>1, HeldIsBooked
    <3>5. CASE it \in Booked
      <4>1. Eviction!Free(it)
        BY <3>1, <3>2, <3>3, <3>4, <3>5 DEF Eviction!Free, Booked, Excused
      <4> QED BY <4>1
    <3>6. CASE it \notin Booked
      BY <3>1, <3>2, <3>3, <3>6
    <3> QED BY <3>5, <3>6
  <2> QED BY <1>8, <2>1, <2>2, <2>3, <2>4 DEF EvictStep, Eviction!Next
<1>9. ASSUME CountReply PROVE Eviction!Excuse
  <2>1. UNCHANGED <<linked, nic, surplus>> /\ (revived => revived')
    BY <1>9 DEF CountReply
  <2>2. UNCHANGED <<Booked, nic>> /\ Excused \subseteq Excused' /\ Excused' \in SUBSET Nodes
    BY <2>1 DEF Booked, Excused
  <2> QED BY <2>2 DEF Eviction!Excuse, Booked, Excused
<1> QED BY <1>2, <1>3, <1>4, <1>5, <1>6, <1>7, <1>8, <1>9 DEF Next, Eviction!Next

(* The exchange keeps what ReliableEviction promises, for any number of    *)
(* items: no late reply frees an object that the data plane holds again,   *)
(* unless the data plane answered for it more often than it dropped it or  *)
(* a reply was added to the queue across its reset.                        *)
THEOREM ExchangeIsReliable == Spec => RefinesEviction
<1>1. Init => Eviction!Init
  BY DEF Init, Eviction!Init, Booked, Excused
<1>2. BookInv /\ [Next]_vars => [Eviction!Next]_<<Booked, nic, Excused>>
  BY NextRefines
<1>3. [Eviction!Next]_<<Booked, nic, Excused>> =>
        [Eviction!Next]_<<{it \in Nodes : linked[it] = 0}, nic, {it \in Nodes : revived \/ surplus[it] > 0}>>
  BY DEF Booked, Excused
<1> QED BY <1>1, <1>2, <1>3, AlwaysBooks, PTL DEF Spec, RefinesEviction, Eviction!Spec
=============================================================================
