----------------------------- MODULE ChunkTable -----------------------------
(***************************************************************************)
(* The chunk sequence table (chnk_seq_tbl.c), pointer by pointer: a pool   *)
(* of entries threaded into a free list, and as many buckets.  It is used  *)
(* as net_send_offloading_message uses it: the chunks of one object are    *)
(* inserted in order, replies delete them in any order, stale and repeated *)
(* replies included, and the next object starts when the table is empty.   *)
(***************************************************************************)
EXTENDS Naturals, FiniteSets

CONSTANTS MaxNbEles,   \* max_nb_eles, a power of two
          MaxChunks    \* bound: chunks of one object

ASSUME MaxNbElesAssumption == MaxNbEles \in Nat \ {0}
ASSUME MaxChunksAssumption == MaxChunks \in Nat \ {0}

NoEntry == 0
Entries == 1 .. MaxNbEles
Buckets == 0 .. MaxNbEles - 1
Seqs    == 0 .. MaxChunks - 1

VARIABLES
  c_seq,      \* of every entry
  c_next,     \* of every entry
  c_prev,     \* of every entry
  tbl,        \* the first entry of every bucket
  freeHead,   \* free_chnk_seq
  nbFree,     \* nb_free_chnk_seq
  nbChnk,     \* nb_chnk
  seq,        \* the sender's next sequence number
  filling,    \* whether the sender is still inserting
  halted      \* why the process stopped, or "no"

tableLinks == <<c_seq, c_next, c_prev, tbl>>
counts     == <<nbFree, nbChnk>>
tableVars  == <<tableLinks, freeHead, counts, seq, filling, halted>>

(* chnk_seq_tbl_create.                                                    *)
TableInit ==
  /\ c_seq  = [e \in Entries |-> 0]
  /\ c_next = [e \in Entries |-> IF e < MaxNbEles THEN e + 1 ELSE NoEntry]
  /\ c_prev = [e \in Entries |-> NoEntry]
  /\ tbl    = [b \in Buckets |-> NoEntry]
  /\ freeHead = 1
  /\ nbFree = MaxNbEles
  /\ nbChnk = 0
  /\ seq = 0
  /\ filling = TRUE
  /\ halted = "no"

Entry(s) == s % MaxNbEles       \* c_seq & mask

Halt(reason) == halted' = reason /\ UNCHANGED <<tableLinks, freeHead, counts, seq, filling>>

(* chnk_seq_tbl_insert.  A second chunk of a bucket is linked in front,    *)
(* and the old first entry's c_prev is cleared instead of set.             *)
chnk_seq_tbl_insert(s) ==
  IF freeHead = NoEntry THEN Halt("no_free_chunk")
  ELSE LET cs == freeHead
           b  == Entry(s)
       IN /\ freeHead' = c_next[cs]
          /\ nbFree' = nbFree - 1
          /\ c_seq' = [c_seq EXCEPT ![cs] = s]
          /\ c_next' = [c_next EXCEPT ![cs] = tbl[b]]
          /\ c_prev' = [e \in Entries |-> IF e \in {cs, tbl[b]} THEN NoEntry ELSE c_prev[e]]
          /\ tbl' = [tbl EXCEPT ![b] = cs]
          /\ nbChnk' = nbChnk + 1
          /\ UNCHANGED halted

(* The entries of the list that starts at e, as many as there are at most: *)
(* of the entry e, the one n links further is Nth[n][e].                   *)
Nth[n \in 0 .. MaxNbEles] ==
  [e \in Entries \cup {NoEntry} |-> IF n = 0 \/ e = NoEntry THEN e ELSE Nth[n - 1][c_next[e]]]
ListOf(e) == {Nth[n][e] : n \in 0 .. MaxNbEles} \ {NoEntry}

InBucket(s) == {e \in ListOf(tbl[Entry(s)]) : c_seq[e] = s}

\* Mutant: the bucket keeps the entry.
UnlinkNothing(cs, b) == UNCHANGED <<tbl, c_prev>>

(* Unlinking entry cs, the first of bucket b: its successor loses c_prev.  *)
UnlinkFirst(cs, b) ==
  /\ tbl' = [tbl EXCEPT ![b] = c_next[cs]]
  /\ c_prev' = [e \in Entries |-> IF e \in {cs, c_next[cs]} THEN NoEntry ELSE c_prev[e]]

(* Unlinking an entry further down through its c_prev.                     *)
UnlinkInner(cs) ==
  /\ c_prev' = [e \in Entries |-> IF e = cs THEN NoEntry
                                  ELSE IF e = c_next[cs] THEN c_prev[cs] ELSE c_prev[e]]
  /\ UNCHANGED tbl

(* The freed entry takes the place of the head of the free list; the old   *)
(* head is lost.                                                           *)
PushFree(cs, inner) ==
  /\ c_next' = [e \in Entries |-> IF e = cs THEN c_next[freeHead]
                                  ELSE IF inner /\ e = c_prev[cs] THEN c_next[cs] ELSE c_next[e]]
  /\ freeHead' = cs

\* Mutant: a chunk that is not there is counted as deleted.
DeleteUnchecked(s) ==
  /\ nbFree' = nbFree + 1
  /\ nbChnk' = nbChnk - 1
  /\ \/ InBucket(s) = {} /\ UNCHANGED <<tableLinks, freeHead>>
     \/ \E cs \in InBucket(s) : UnlinkFirst(cs, Entry(s)) /\ PushFree(cs, FALSE)
  /\ UNCHANGED <<c_seq, halted>>

(* chnk_seq_tbl_delete: a chunk that is not there changes nothing; a null  *)
(* c_prev of an inner entry or a null free list is dereferenced.           *)
chnk_seq_tbl_delete(s) ==
  LET b == Entry(s)
      Inner(cs) == cs # tbl[b]
      Broken(cs) == freeHead = NoEntry \/ (Inner(cs) /\ c_prev[cs] = NoEntry)
  IN \/ InBucket(s) = {} /\ UNCHANGED <<tableLinks, freeHead, counts, halted>>
     \/ \E cs \in InBucket(s) :
          /\ Broken(cs)
          /\ halted' = "null_deref"
          /\ UNCHANGED <<tableLinks, freeHead, counts>>
     \/ \E cs \in InBucket(s) :
          /\ ~Broken(cs)
          /\ IF Inner(cs) THEN UnlinkInner(cs) ELSE UnlinkFirst(cs, b)
          /\ PushFree(cs, Inner(cs))
          /\ nbFree' = nbFree + 1
          /\ nbChnk' = nbChnk - 1
          /\ UNCHANGED <<c_seq, halted>>

Running == halted = "no"

(* The sender: the first loop of net_send_offloading_message ...           *)
InsertChunk ==
  /\ Running
  /\ filling
  /\ seq \in Seqs
  /\ chnk_seq_tbl_insert(seq)
  /\ seq' = IF freeHead = NoEntry THEN seq ELSE seq + 1
  /\ UNCHANGED filling
LastChunk ==
  /\ Running
  /\ filling
  /\ filling' = FALSE
  /\ UNCHANGED <<tableLinks, freeHead, counts, seq, halted>>
(* ... then its replies, and the next object once the table is empty.      *)
Reply(s) ==
  /\ Running
  /\ ~filling
  /\ chnk_seq_tbl_delete(s)
  /\ UNCHANGED <<seq, filling>>
\* Mutant: the next object starts while chunks are outstanding.
NextObjectEarly ==
  /\ Running
  /\ ~filling
  /\ seq' = 0
  /\ filling' = TRUE
  /\ UNCHANGED <<tableLinks, freeHead, counts, halted>>
NextObject ==
  /\ Running
  /\ ~filling
  /\ nbChnk = 0
  /\ seq' = 0
  /\ filling' = TRUE
  /\ UNCHANGED <<tableLinks, freeHead, counts, halted>>

TableNext == InsertChunk \/ LastChunk \/ (\E s \in Seqs : Reply(s)) \/ NextObject

TableSpec == TableInit /\ [][TableNext]_tableVars

-----------------------------------------------------------------------------
Linked == UNION {ListOf(tbl[b]) : b \in Buckets}

(* Pointers are entries or null, and the counters never wrap below zero    *)
(* (assert(nb_chnk >= 0)).                                                 *)
TableTypeOK ==
  /\ c_seq \in [Entries -> Seqs]
  /\ c_next \in [Entries -> Entries \cup {NoEntry}]
  /\ c_prev \in [Entries -> Entries \cup {NoEntry}]
  /\ tbl \in [Buckets -> Entries \cup {NoEntry}]
  /\ freeHead \in Entries \cup {NoEntry}
  /\ nbFree \in 0 .. MaxNbEles
  /\ nbChnk \in 0 .. MaxNbEles
  /\ seq \in 0 .. MaxChunks
  /\ filling \in BOOLEAN
  /\ halted \in {"no", "no_free_chunk", "null_deref"}

(* An entry is never free and in use at once, although chnk_seq_tbl_delete *)
(* links the free list wrongly: what it loses is capacity, not safety.     *)
FreeNotLinked == ListOf(freeHead) \cap Linked = {}

(* nb_chnk, all that chnk_seq_tbl_empty looks at, counts the linked chunks *)
(* whatever replies arrive.                                                *)
CountExact == nbChnk = Cardinality(Linked)

(* No bucket holds two chunks, so the missing c_prev links of the insert   *)
(* are never followed.                                                     *)
ShortBuckets == \A b \in Buckets : Cardinality(ListOf(tbl[b])) <= 1

(* The table is the set of unacknowledged chunks of the current object.    *)
Pending == INSTANCE PendingChunks WITH pending <- {c_seq[e] : e \in Linked}, next <- seq
RefinesPending == Pending!Spec

(* chnk_seq_tbl_insert: "Never happen".                                    *)
PoolNeverEmpty == halted # "no_free_chunk"
=============================================================================
