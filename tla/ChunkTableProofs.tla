--------------------------- MODULE ChunkTableProofs ---------------------------
(***************************************************************************)
(* Proofs about ChunkTable, for every size of the pool and every number of *)
(* chunks an object can have.  What chnk_seq_tbl_delete loses of the free  *)
(* list it loses for good, so the pool bounds the chunks of one object by  *)
(* its buckets, no bucket ever holds two of them, and the missing c_prev   *)
(* links are never followed.                                               *)
(***************************************************************************)
EXTENDS ChunkTable, Integers, TLAPS, FiniteSetTheorems

(* A set of natural numbers that is not empty has a least element.         *)
LEMMA Least ==
  ASSUME NEW T, T \subseteq Nat, T # {}
  PROVE  \E m \in T : \A k \in T : m <= k
<1> DEFINE R == {ss \in Nat \X Nat : ss[1] < ss[2]}
<1>1. IsWellFoundedOn(R, Nat)
  BY NatLessThanWellFounded DEF OpToRel
<1> HIDE DEF R
<1>2. PICK m \in T : \A k \in T : ~(<<k, m>> \in R)
  BY <1>1, WFMin
<1>3. \A k \in Nat : k < m => <<k, m>> \in R
  BY DEF R
<1>4. \A k \in T : m <= k
  <2> TAKE k \in T
  <2>1. k \in Nat /\ m \in Nat
    OBVIOUS
  <2>2. ~(k < m)
    BY <1>2, <1>3, <2>1
  <2> QED BY <2>1, <2>2
<1> QED BY <1>4
-----------------------------------------------------------------------------
Cells == Entries \cup {NoEntry}

(* g follows up to m links.                                                *)
Follows(g, m) ==
  \A n \in 0 .. m :
    g[n] = [e \in Cells |-> IF n = 0 \/ e = NoEntry THEN e ELSE g[n - 1][c_next[e]]]

LEMMA FollowsExists ==
  ASSUME NEW m \in Nat
  PROVE  \E g : Follows(g, m)
<1> DEFINE Bad == {n \in Nat : ~\E g : Follows(g, n)}
<1> SUFFICES ASSUME Bad # {} PROVE FALSE
  OBVIOUS
<1>1. PICK n \in Bad : \A k \in Bad : n <= k
  BY Least
<1> DEFINE Step(g, q) == [e \in Cells |-> IF q = 0 \/ e = NoEntry THEN e ELSE g[q - 1][c_next[e]]]
<1>2. CASE n = 0
  <2> DEFINE g == [q \in {0} |-> [e \in Cells |-> e]]
  <2>1. Follows(g, 0)
    BY DEF Follows
  <2> QED BY <1>1, <1>2, <2>1
<1>3. CASE n # 0
  <2>1. n - 1 \in Nat /\ n \in Nat
    BY <1>3
  <2>2. PICK f : Follows(f, n - 1)
    BY <1>1, <2>1
  <2> DEFINE g == [q \in 0 .. n |-> IF q < n THEN f[q] ELSE Step(f, n)]
  <2>3. ASSUME NEW q \in 0 .. n PROVE g[q] = Step(g, q)
    <3>1. CASE q = 0
      BY SMTT(40), <2>1, <2>2, <3>1, <1>3 DEF Follows
    <3>2. CASE q # 0
      <4>1. q - 1 \in 0 .. n - 1 /\ g[q - 1] = f[q - 1]
        BY <2>1, <3>2
      <4>2. Step(g, q) = Step(f, q)
        BY <4>1
      <4>3. g[q] = Step(f, q)
        <5>1. CASE q = n
          BY <2>1, <5>1
        <5>2. CASE q # n
          <6>1. q \in 0 .. n - 1 /\ g[q] = f[q]
            BY <2>1, <5>2
          <6>2. f[q] = Step(f, q)
            BY <2>2, <6>1 DEF Follows
          <6> QED BY <6>1, <6>2
        <5> QED BY <5>1, <5>2
      <4> QED BY <4>2, <4>3
    <3> QED BY <3>1, <3>2
  <2> HIDE DEF g
  <2>4. Follows(g, n)
    BY <2>3 DEF Follows
  <2> QED BY <1>1, <2>4
<1> QED BY <1>2, <1>3

(* The recursion of Nth has a solution.                                    *)
LEMMA NthFollows == Follows(Nth, MaxNbEles)
<1>1. PICK g : Follows(g, MaxNbEles)
  BY MaxNbElesAssumption, FollowsExists
<1> DEFINE f == [n \in 0 .. MaxNbEles |-> g[n]]
<1>2. f = [n \in 0 .. MaxNbEles |-> [e \in Entries \cup {NoEntry} |->
                             IF n = 0 \/ e = NoEntry THEN e ELSE f[n - 1][c_next[e]]]]
  <2>1. ASSUME NEW n \in 0 .. MaxNbEles
        PROVE  f[n] = [e \in Cells |-> IF n = 0 \/ e = NoEntry THEN e ELSE f[n - 1][c_next[e]]]
    <3>1. CASE n = 0
      BY <1>1, <3>1 DEF Follows
    <3>2. CASE n # 0
      <4>1. f[n - 1] = g[n - 1]
        BY MaxNbElesAssumption, <3>2
      <4> QED BY SMTT(40), <1>1, <4>1 DEF Follows
    <3> QED BY <3>1, <3>2
  <2> QED BY <2>1 DEF Cells
<1> HIDE DEF f
<1>3. Nth = [n \in 0 .. MaxNbEles |-> [e \in Entries \cup {NoEntry} |->
                             IF n = 0 \/ e = NoEntry THEN e ELSE Nth[n - 1][c_next[e]]]]
  BY <1>2 DEF Nth
<1> QED BY <1>3 DEF Follows, Cells

LEMMA NthStep ==
  ASSUME NEW n \in 0 .. MaxNbEles, NEW e \in Cells
  PROVE  Nth[n][e] = IF n = 0 \/ e = NoEntry THEN e ELSE Nth[n - 1][c_next[e]]
<1>1. Nth[n] = [d \in Cells |-> IF n = 0 \/ d = NoEntry THEN d ELSE Nth[n - 1][c_next[d]]]
  BY NthFollows DEF Follows
<1> QED BY <1>1

(* A set that links do not leave holds the lists that start in it.         *)
LEMMA ListStays ==
  ASSUME NEW F, F \subseteq Entries, \A e \in F : c_next[e] \in F \cup {NoEntry},
         NEW a \in F \cup {NoEntry}
  PROVE  ListOf(a) \subseteq F /\ (a # NoEntry => a \in ListOf(a)) /\ (a = NoEntry => ListOf(a) = {})
<1> DEFINE Bad == {n \in 0 .. MaxNbEles : \E e \in F \cup {NoEntry} : Nth[n][e] \notin F \cup {NoEntry}}
<1>1. Bad = {}
  <2> SUFFICES ASSUME Bad # {} PROVE FALSE
    OBVIOUS
  <2>1. PICK n \in Bad : \A k \in Bad : n <= k
    <3>1. Bad \subseteq Nat
      OBVIOUS
    <3> QED BY <3>1, Least
  <2>2. PICK e \in F \cup {NoEntry} : Nth[n][e] \notin F \cup {NoEntry}
    BY <2>1
  <2>3. Nth[n][e] = IF n = 0 \/ e = NoEntry THEN e ELSE Nth[n - 1][c_next[e]]
    <3>1. n \in 0 .. MaxNbEles /\ e \in Cells
      BY DEF Cells
    <3> QED BY <3>1, NthStep
  <2>4. n # 0 /\ e \in F /\ c_next[e] \in F \cup {NoEntry}
    BY <2>2, <2>3
  <2>5. n - 1 \in 0 .. MaxNbEles /\ n - 1 \notin Bad
    BY MaxNbElesAssumption, <2>1, <2>4
  <2> QED BY <2>2, <2>3, <2>4, <2>5
<1>2. \A n \in 0 .. MaxNbEles : Nth[n][a] \in F \cup {NoEntry}
  BY <1>1
<1>c. a \in Cells /\ 0 \in 0 .. MaxNbEles
  BY MaxNbElesAssumption DEF Cells
<1>3. Nth[0][a] = a
  BY <1>c, NthStep
<1>4. ASSUME a = NoEntry PROVE \A n \in 0 .. MaxNbEles : Nth[n][a] = NoEntry
  BY <1>4, <1>c, NthStep
<1> QED BY <1>2, <1>3, <1>4, <1>c DEF ListOf
-----------------------------------------------------------------------------
(* The first entries of the buckets.                                       *)
Heads == {tbl[b] : b \in Buckets} \ {NoEntry}

(* F holds the free list: its links do not leave F, and nothing of F links *)
(* to the head or to what another entry of F links to.                     *)
FreeIn(F) ==
  /\ F \subseteq Entries /\ F \cap Heads = {}
  /\ freeHead \in F \cup {NoEntry}
  /\ \A e \in F : c_next[e] \in F \cup {NoEntry} /\ (c_next[e] = freeHead => freeHead = NoEntry)
  /\ \A d, e \in F : c_next[d] = c_next[e] => d = e \/ c_next[d] = NoEntry

(* The inductive invariant.  Entries are free or in a bucket, as far as    *)
(* they are counted; an object has used one bucket a chunk and no more     *)
(* buckets than there are, so every bucket's list is its first entry, and  *)
(* what is left of the free list stays apart from them.                    *)
TableInv ==
  /\ TableTypeOK
  /\ nbFree + nbChnk = MaxNbEles
  /\ nbChnk = Cardinality(Heads)
  /\ seq <= MaxNbEles
  /\ filling => nbChnk = seq
  /\ \A b \in Buckets : tbl[b] # NoEntry => c_next[tbl[b]] = NoEntry /\ c_seq[tbl[b]] = b /\ b < seq
  /\ \E F : FreeIn(F)

(* A bucket's list is its first entry.                                     *)
LEMMA BucketLists ==
  ASSUME TableTypeOK, \A b \in Buckets : tbl[b] # NoEntry => c_next[tbl[b]] = NoEntry
  PROVE  /\ \A b \in Buckets : ListOf(tbl[b]) = IF tbl[b] = NoEntry THEN {} ELSE {tbl[b]}
         /\ Linked = Heads
<1>1. ASSUME NEW b \in Buckets
      PROVE  ListOf(tbl[b]) = IF tbl[b] = NoEntry THEN {} ELSE {tbl[b]}
  <2>1. CASE tbl[b] = NoEntry
    <3>1. ListOf(NoEntry) = {}
      <4>1. PICK F : F = {}
        OBVIOUS
      <4>2. F \subseteq Entries /\ (\A e \in F : c_next[e] \in F \cup {NoEntry}) /\ NoEntry \in F \cup {NoEntry}
        BY <4>1
      <4> QED BY <4>2, ListStays
    <3> QED BY <2>1, <3>1
  <2>2. CASE tbl[b] # NoEntry
    <3>1. {tbl[b]} \subseteq Entries /\ c_next[tbl[b]] = NoEntry
      BY <2>2 DEF TableTypeOK
    <3>2. ListOf(tbl[b]) \subseteq {tbl[b]} /\ tbl[b] \in ListOf(tbl[b])
      BY <2>2, <3>1, ListStays
    <3> QED BY <2>2, <3>2
  <2> QED BY <2>1, <2>2
<1>2. Linked = Heads
  <2>1. \A e : e \in Linked <=> \E b \in Buckets : e \in ListOf(tbl[b])
    BY DEF Linked
  <2>2. \A e : e \in Heads <=> \E b \in Buckets : e = tbl[b] /\ tbl[b] # NoEntry
    BY DEF Heads
  <2>3. \A b \in Buckets : \A e : e \in ListOf(tbl[b]) <=> e = tbl[b] /\ tbl[b] # NoEntry
    BY <1>1
  <2>4. \A e : e \in Linked <=> e \in Heads
    BY <2>1, <2>2, <2>3
  <2> QED BY <2>4
<1> QED BY <1>1, <1>2

LEMMA HeadsFinite ==
  ASSUME TableTypeOK
  PROVE  Heads \subseteq Entries /\ IsFiniteSet(Heads) /\ IsFiniteSet(Entries) /\ Cardinality(Entries) = MaxNbEles
<1>1. IsFiniteSet(Entries) /\ Cardinality(Entries) = MaxNbEles
  BY MaxNbElesAssumption, FS_Interval DEF Entries
<1>2. Heads \subseteq Entries
  BY DEF Heads, TableTypeOK
<1> QED BY <1>1, <1>2, FS_Subset

LEMMA InitTable ==
  ASSUME TableInit
  PROVE  TableInv
<1>1. TableTypeOK
  <2>1. 0 \in Seqs /\ 1 \in Entries /\ MaxNbEles \in 0 .. MaxNbEles /\ 0 \in 0 .. MaxNbEles /\ 0 \in 0 .. MaxChunks
    BY MaxNbElesAssumption, MaxChunksAssumption DEF Seqs, Entries
  <2>2. \A e \in Entries : e < MaxNbEles => e + 1 \in Entries
    BY MaxNbElesAssumption DEF Entries
  <2>3. c_next \in [Entries -> Entries \cup {NoEntry}]
    BY <2>2 DEF TableInit
  <2> QED BY <2>1, <2>3 DEF TableInit, TableTypeOK
<1>2. Heads = {}
  BY DEF TableInit, Heads
<1>3. FreeIn(Entries)
  <2>1. \A e \in Entries : c_next[e] = IF e < MaxNbEles THEN e + 1 ELSE NoEntry
    BY DEF TableInit
  <2> QED BY MaxNbElesAssumption, <1>2, <2>1 DEF TableInit, FreeIn, Entries, NoEntry
<1>4. nbFree + nbChnk = MaxNbEles /\ seq <= MaxNbEles /\ nbChnk = seq
  BY MaxNbElesAssumption DEF TableInit
<1>5. Cardinality(Heads) = 0 /\ \A b \in Buckets : tbl[b] = NoEntry
  BY <1>2, FS_EmptySet DEF TableInit
<1> QED BY <1>1, <1>3, <1>4, <1>5 DEF TableInv, TableInit

(* The first entries of the buckets are one per bucket.                    *)
LEMMA HeadChanges ==
  ASSUME TableInv, NEW b \in Buckets
  PROVE  /\ \A e \in Entries \ Heads : tbl[b] = NoEntry /\ tbl' = [tbl EXCEPT ![b] = e] =>
              Heads' = Heads \cup {e} /\ Cardinality(Heads') = nbChnk + 1 /\ nbChnk + 1 <= MaxNbEles
         /\ tbl[b] # NoEntry /\ tbl' = [tbl EXCEPT ![b] = NoEntry] =>
              Heads' = Heads \ {tbl[b]} /\ Cardinality(Heads') = nbChnk - 1 /\ nbChnk >= 1
<1>1. /\ TableTypeOK /\ nbChnk = Cardinality(Heads) /\ nbChnk \in Nat /\ MaxNbEles \in Nat
      /\ Heads \subseteq Entries /\ IsFiniteSet(Heads) /\ IsFiniteSet(Entries) /\ Cardinality(Entries) = MaxNbEles
  BY MaxNbElesAssumption, HeadsFinite DEF TableInv, TableTypeOK
<1>2. ASSUME NEW e \in Entries \ Heads, tbl[b] = NoEntry, tbl' = [tbl EXCEPT ![b] = e]
      PROVE  Heads' = Heads \cup {e} /\ Cardinality(Heads') = nbChnk + 1 /\ nbChnk + 1 <= MaxNbEles
  <2>1. tbl'[b] = e /\ e # NoEntry /\ \A c \in Buckets : c # b => tbl'[c] = tbl[c]
    BY <1>1, <1>2 DEF TableTypeOK, Entries, NoEntry
  <2>2. \A x : x \in Heads' <=> x \in Heads \cup {e}
    <3> TAKE x
    <3>1. x \in Heads' <=> x # NoEntry /\ \E c \in Buckets : x = tbl'[c]
      BY DEF Heads
    <3>2. x \in Heads <=> x # NoEntry /\ \E c \in Buckets : x = tbl[c]
      BY DEF Heads
    <3> QED BY <1>2, <2>1, <3>1, <3>2
  <2>3. Heads' = Heads \cup {e}
    BY <2>2
  <2>4. Cardinality(Heads \cup {e}) = nbChnk + 1
    BY <1>1, FS_AddElement
  <2>5. Heads \cup {e} \subseteq Entries
    BY <1>1
  <2> QED BY <1>1, <2>3, <2>4, <2>5, FS_Subset
<1>3. ASSUME tbl[b] # NoEntry, tbl' = [tbl EXCEPT ![b] = NoEntry]
      PROVE  Heads' = Heads \ {tbl[b]} /\ Cardinality(Heads') = nbChnk - 1 /\ nbChnk >= 1
  <2>1. tbl'[b] = NoEntry /\ \A c \in Buckets : c # b => tbl'[c] = tbl[c]
    BY <1>1, <1>3 DEF TableTypeOK
  <2>2. \A c \in Buckets : tbl[c] = tbl[b] => c = b
    BY <1>3 DEF TableInv
  <2>3. \A x : x \in Heads' <=> x \in Heads \ {tbl[b]}
    <3> TAKE x
    <3>1. x \in Heads' <=> x # NoEntry /\ \E c \in Buckets : x = tbl'[c]
      BY DEF Heads
    <3>2. x \in Heads <=> x # NoEntry /\ \E c \in Buckets : x = tbl[c]
      BY DEF Heads
    <3> QED BY <1>3, <2>1, <2>2, <3>1, <3>2
  <2>4. Heads' = Heads \ {tbl[b]} /\ tbl[b] \in Heads
    BY <1>3, <2>3 DEF Heads
  <2>5. nbChnk # 0
    BY <1>1, <2>4, FS_EmptySet
  <2>6. Cardinality(Heads \ {tbl[b]}) = nbChnk - 1
    BY <1>1, <2>4, FS_RemoveElement
  <2> QED BY <1>1, <2>4, <2>5, <2>6
<1> QED BY <1>2, <1>3
-----------------------------------------------------------------------------
LEMMA SameTable ==
  ASSUME TableInv, UNCHANGED <<tableLinks, freeHead, counts>>,
         seq' \in 0 .. MaxChunks, seq' <= MaxNbEles, filling' \in BOOLEAN,
         halted' \in {"no", "no_free_chunk", "null_deref"},
         filling' => nbChnk = seq', \A b \in Buckets : tbl[b] # NoEntry => b < seq'
  PROVE  TableInv'
<1>1. TableTypeOK'
  BY DEF TableInv, TableTypeOK, tableLinks, counts
<1>2. Heads' = Heads
  BY DEF Heads, tableLinks
<1>3. PICK F : FreeIn(F)
  BY DEF TableInv
<1>4. FreeIn(F)'
  BY <1>2, <1>3 DEF FreeIn, tableLinks
<1> QED BY <1>1, <1>2, <1>4 DEF TableInv, tableLinks, counts

LEMMA InsertKeepsTable ==
  ASSUME TableInv, InsertChunk, freeHead # NoEntry
  PROVE  /\ seq < MaxNbEles /\ seq \in Buckets /\ tbl[seq] = NoEntry /\ freeHead \in Entries \ Heads
         /\ tbl' = [tbl EXCEPT ![seq] = freeHead] /\ c_seq' = [c_seq EXCEPT ![freeHead] = seq]
         /\ seq' = seq + 1 /\ seq \in Seqs
         /\ TableInv'
<1>0. /\ TableTypeOK /\ nbChnk = seq /\ seq \in Nat /\ MaxNbEles \in Nat /\ MaxNbEles >= 1 /\ seq <= MaxNbEles
      /\ seq \in Seqs /\ seq + 1 \in 0 .. MaxChunks
  BY MaxNbElesAssumption, MaxChunksAssumption DEF TableInv, TableTypeOK, InsertChunk, Seqs
<1>1. PICK F : FreeIn(F)
  BY DEF TableInv
<1>2. PICK cs : cs = freeHead
  OBVIOUS
<1>3. cs \in F /\ cs \in Entries /\ cs \notin Heads
  BY <1>1, <1>2 DEF FreeIn
<1>4. seq < MaxNbEles
  <2>1. Heads # Entries
    BY <1>3
  <2>2. Cardinality(Heads) # MaxNbEles
    BY <1>0, <2>1, HeadsFinite, FS_Subset
  <2> QED BY <1>0, <2>2 DEF TableInv
<1>5. Entry(seq) = seq /\ seq \in Buckets
  BY <1>0, <1>4 DEF Entry, Buckets
<1>6. tbl[seq] = NoEntry
  BY <1>0, <1>5 DEF TableInv
<1>7. /\ freeHead' = c_next[cs]
      /\ nbFree' = nbFree - 1
      /\ c_seq' = [c_seq EXCEPT ![cs] = seq]
      /\ c_next' = [c_next EXCEPT ![cs] = NoEntry]
      /\ c_prev' = [e \in Entries |-> IF e \in {cs, NoEntry} THEN NoEntry ELSE c_prev[e]]
      /\ tbl' = [tbl EXCEPT ![seq] = cs]
      /\ nbChnk' = nbChnk + 1
      /\ seq' = seq + 1 /\ UNCHANGED <<filling, halted>>
  BY <1>2, <1>5, <1>6 DEF InsertChunk, chnk_seq_tbl_insert
<1>8. Heads' = Heads \cup {cs} /\ Cardinality(Heads') = nbChnk + 1 /\ nbChnk + 1 <= MaxNbEles
  BY <1>3, <1>5, <1>6, <1>7, HeadChanges
<1>9. TableTypeOK'
  <2>1. nbFree - 1 \in 0 .. MaxNbEles /\ nbChnk + 1 \in 0 .. MaxNbEles
    BY <1>0, <1>8 DEF TableInv, TableTypeOK
  <2>2. c_prev' \in [Entries -> Entries \cup {NoEntry}]
    BY <1>0, <1>7 DEF TableTypeOK
  <2>3. /\ c_seq' \in [Entries -> Seqs] /\ c_next' \in [Entries -> Entries \cup {NoEntry}]
        /\ tbl' \in [Buckets -> Entries \cup {NoEntry}] /\ freeHead' \in Entries \cup {NoEntry}
    BY <1>0, <1>3, <1>7 DEF TableTypeOK
  <2> QED BY <1>0, <1>7, <2>1, <2>2, <2>3 DEF TableTypeOK
<1>10. \A b \in Buckets : tbl'[b] # NoEntry => c_next'[tbl'[b]] = NoEntry /\ c_seq'[tbl'[b]] = b /\ b < seq'
  <2> TAKE b \in Buckets
  <2>1. CASE b = seq
    BY <1>0, <1>3, <1>5, <1>7, <2>1 DEF TableTypeOK
  <2>2. CASE b # seq
    <3>1. tbl'[b] = tbl[b]
      BY <1>0, <1>5, <1>7, <2>2 DEF TableTypeOK
    <3>2. tbl[b] # NoEntry => tbl[b] # cs /\ tbl[b] \in Entries
      BY <1>0, <1>3 DEF Heads, TableTypeOK
    <3>3. tbl[b] # NoEntry => c_next[tbl[b]] = NoEntry /\ c_seq[tbl[b]] = b /\ b < seq
      BY DEF TableInv
    <3>4. b \in Nat
      BY DEF Buckets
    <3> QED BY <1>0, <1>7, <3>1, <3>2, <3>3, <3>4 DEF TableTypeOK
  <2> QED BY <2>1, <2>2
<1>11. FreeIn(F \ {cs})'
  <2>1. \A e \in F \ {cs} : c_next'[e] = c_next[e] /\ e \in Entries
    BY <1>0, <1>1, <1>7 DEF FreeIn, TableTypeOK
  <2>2. c_next[cs] \in (F \ {cs}) \cup {NoEntry}
    BY <1>1, <1>2, <1>3 DEF FreeIn
  <2>3. \A e \in F \ {cs} : /\ c_next[e] \in (F \ {cs}) \cup {NoEntry}
                            /\ c_next[e] = c_next[cs] => c_next[e] = NoEntry
    <3>1. cs # NoEntry
      BY <1>2
    <3> QED BY <1>1, <1>2, <1>3, <3>1 DEF FreeIn
  <2>4. F \ {cs} \subseteq Entries /\ (F \ {cs}) \cap Heads' = {}
    BY <1>1, <1>8 DEF FreeIn
  <2>5. freeHead' \in (F \ {cs}) \cup {NoEntry}
    BY <1>7, <2>2
  <2>6. \A d, e \in F \ {cs} : c_next'[d] = c_next'[e] => d = e \/ c_next'[d] = NoEntry
    BY <1>1, <2>1 DEF FreeIn
  <2>7. \A e \in F \ {cs} : /\ c_next'[e] \in (F \ {cs}) \cup {NoEntry}
                            /\ c_next'[e] = freeHead' => freeHead' = NoEntry
    BY <1>7, <2>1, <2>3
  <2> QED BY <2>4, <2>5, <2>6, <2>7 DEF FreeIn
<1> QED BY <1>0, <1>2, <1>3, <1>4, <1>5, <1>6, <1>7, <1>8, <1>9, <1>10, <1>11 DEF TableInv, TableTypeOK

(* The chunk of a bucket is found by its sequence number alone.            *)
LEMMA BucketChunk ==
  ASSUME TableInv, NEW s \in Seqs, NEW cs \in InBucket(s)
  PROVE  /\ Entry(s) = s /\ s \in Buckets /\ tbl[s] = cs /\ cs \in Entries
         /\ c_next[cs] = NoEntry /\ c_seq[cs] = s
<1>1. TableTypeOK /\ MaxNbEles \in Nat /\ MaxNbEles >= 1 /\ s \in Nat
  BY MaxNbElesAssumption, MaxChunksAssumption DEF TableInv, Seqs
<1>2. s % MaxNbEles \in Buckets
  BY <1>1 DEF Buckets
<1>3. PICK b \in Buckets : b = Entry(s)
  BY <1>2 DEF Entry
<1>4. cs \in ListOf(tbl[b]) /\ c_seq[cs] = s
  BY <1>3 DEF InBucket
<1>5. tbl[b] # NoEntry /\ cs = tbl[b]
  <2>1. \A c \in Buckets : ListOf(tbl[c]) = IF tbl[c] = NoEntry THEN {} ELSE {tbl[c]}
    BY <1>1, BucketLists DEF TableInv
  <2> QED BY <1>4, <2>1
<1>6. c_next[cs] = NoEntry /\ c_seq[cs] = b /\ cs \in Entries
  BY <1>1, <1>5 DEF TableInv, TableTypeOK
<1> QED BY <1>3, <1>4, <1>5, <1>6

(* What a reply for a chunk of the table does.                             *)
DeleteStep(s, cs) ==
  /\ freeHead # NoEntry
  /\ tbl' = [tbl EXCEPT ![s] = NoEntry]
  /\ c_prev' = [e \in Entries |-> IF e \in {cs, NoEntry} THEN NoEntry ELSE c_prev[e]]
  /\ c_next' = [e \in Entries |-> IF e = cs THEN c_next[freeHead] ELSE c_next[e]]
  /\ freeHead' = cs
  /\ nbFree' = nbFree + 1
  /\ nbChnk' = nbChnk - 1
  /\ UNCHANGED <<c_seq, halted, seq, filling>>

LEMMA ReplyCases ==
  ASSUME TableInv, NEW s \in Seqs, Reply(s)
  PROVE  \/ UNCHANGED <<tableLinks, freeHead, counts, seq, filling>> /\ halted' \in {"no", "null_deref"}
         \/ \E cs \in InBucket(s) : DeleteStep(s, cs)
<1>1. halted = "no"
  BY DEF Reply, Running
<1>2. CASE UNCHANGED <<tableLinks, freeHead, counts, halted>>
  BY <1>1, <1>2 DEF Reply
<1>3. CASE halted' = "null_deref" /\ UNCHANGED <<tableLinks, freeHead, counts>>
  BY <1>3 DEF Reply
<1>4. ASSUME NEW cs \in InBucket(s),
             ~(freeHead = NoEntry \/ (cs # tbl[Entry(s)] /\ c_prev[cs] = NoEntry)),
             IF cs # tbl[Entry(s)] THEN UnlinkInner(cs) ELSE UnlinkFirst(cs, Entry(s)),
             PushFree(cs, cs # tbl[Entry(s)]), nbFree' = nbFree + 1, nbChnk' = nbChnk - 1,
             UNCHANGED <<c_seq, halted>>
      PROVE  DeleteStep(s, cs)
  <2>1. Entry(s) = s /\ tbl[s] = cs /\ c_next[cs] = NoEntry
    BY BucketChunk
  <2>2. UnlinkFirst(cs, s) /\ freeHead # NoEntry
    BY <1>4, <2>1
  <2>3. c_next' = [e \in Entries |-> IF e = cs THEN c_next[freeHead] ELSE c_next[e]] /\ freeHead' = cs
    BY <1>4, <2>1 DEF PushFree
  <2> QED BY <1>4, <2>1, <2>2, <2>3 DEF DeleteStep, UnlinkFirst, Reply
<1> QED BY <1>2, <1>3, <1>4 DEF Reply, chnk_seq_tbl_delete

LEMMA DeleteKeepsTable ==
  ASSUME TableInv, ~filling, NEW s \in Seqs, NEW cs \in InBucket(s), DeleteStep(s, cs)
  PROVE  TableInv'
<1>0. TableTypeOK /\ MaxNbEles \in Nat /\ seq \in Nat /\ seq <= MaxNbEles
  BY MaxNbElesAssumption, MaxChunksAssumption DEF TableInv, TableTypeOK
<1>1. s \in Buckets /\ tbl[s] = cs /\ cs \in Entries /\ cs # NoEntry /\ cs \in Heads
  BY BucketChunk DEF Entries, NoEntry, Heads
<1>2. PICK F : FreeIn(F)
  BY DEF TableInv
<1>3. PICK h : h = freeHead
  OBVIOUS
<1>4. h \in F /\ cs \notin F /\ h # NoEntry /\ h \in Entries
  BY <1>1, <1>2, <1>3 DEF FreeIn, DeleteStep
<1>5. Heads' = Heads \ {cs} /\ Cardinality(Heads') = nbChnk - 1 /\ nbChnk >= 1
  BY <1>1, HeadChanges DEF DeleteStep
<1>6. \A e \in Entries : c_next'[e] = IF e = cs THEN c_next[h] ELSE c_next[e]
  BY <1>3 DEF DeleteStep
<1>7. TableTypeOK'
  <2>1. nbFree + 1 \in 0 .. MaxNbEles /\ nbChnk - 1 \in 0 .. MaxNbEles
    BY <1>0, <1>5 DEF TableInv, TableTypeOK
  <2>2. c_prev' \in [Entries -> Entries \cup {NoEntry}]
    BY <1>0 DEF TableTypeOK, DeleteStep
  <2>3. c_next' \in [Entries -> Entries \cup {NoEntry}]
    BY <1>0, <1>3, <1>4 DEF TableTypeOK, DeleteStep
  <2>4. tbl' \in [Buckets -> Entries \cup {NoEntry}] /\ freeHead' \in Entries \cup {NoEntry}
    BY <1>0, <1>1 DEF TableTypeOK, DeleteStep
  <2> QED BY <1>0, <2>1, <2>2, <2>3, <2>4 DEF TableTypeOK, DeleteStep
<1>8. \A b \in Buckets : tbl'[b] # NoEntry => c_next'[tbl'[b]] = NoEntry /\ c_seq'[tbl'[b]] = b /\ b < seq'
  <2> TAKE b \in Buckets
  <2>1. CASE b = s
    BY <1>0, <1>1, <2>1 DEF TableTypeOK, DeleteStep
  <2>2. CASE b # s
    <3>1. tbl'[b] = tbl[b]
      BY <1>0, <1>1, <2>2 DEF TableTypeOK, DeleteStep
    <3>2. tbl[b] # NoEntry => c_next[tbl[b]] = NoEntry /\ c_seq[tbl[b]] = b /\ b < seq /\ tbl[b] \in Entries
      BY <1>0 DEF TableInv, TableTypeOK
    <3>3. tbl[b] # cs
      BY <1>1, <2>2 DEF TableInv
    <3> QED BY <1>6, <3>1, <3>2, <3>3 DEF DeleteStep
  <2> QED BY <2>1, <2>2
<1> DEFINE G == (F \ {h}) \cup {cs}
<1>9. FreeIn(G)'
  <2>1. G \subseteq Entries /\ G \cap Heads' = {}
    BY <1>1, <1>2, <1>5 DEF FreeIn
  <2>2. freeHead' = cs /\ cs \in G
    BY DEF DeleteStep
  <2>3. \A e \in F \ {h} : /\ c_next'[e] = c_next[e] /\ c_next[e] \in (F \ {h}) \cup {NoEntry}
                           /\ c_next[e] = c_next[h] => c_next[e] = NoEntry
    BY <1>2, <1>3, <1>4, <1>6 DEF FreeIn
  <2>4. c_next'[cs] = c_next[h] /\ c_next[h] \in (F \ {h}) \cup {NoEntry}
    BY <1>1, <1>2, <1>3, <1>4, <1>6 DEF FreeIn
  <2>5. \A e \in G : c_next'[e] \in G \cup {NoEntry} /\ c_next'[e] # cs
    BY <1>1, <1>4, <2>3, <2>4
  <2>6. \A d, e \in F \ {h} : c_next[d] = c_next[e] => d = e \/ c_next[d] = NoEntry
    BY <1>2 DEF FreeIn
  <2>7. \A d, e \in G : c_next'[d] = c_next'[e] => d = e \/ c_next'[d] = NoEntry
    BY <2>3, <2>4, <2>6
  <2> HIDE DEF G
  <2> QED BY <2>1, <2>2, <2>5, <2>7 DEF FreeIn
<1> HIDE DEF G
<1>10. nbFree' + nbChnk' = MaxNbEles
  BY <1>0 DEF TableInv, TableTypeOK, DeleteStep
<1> QED BY <1>0, <1>5, <1>7, <1>8, <1>9, <1>10 DEF TableInv, DeleteStep

LEMMA StepKeepsTable ==
  ASSUME TableInv, [TableNext]_tableVars
  PROVE  TableInv'
<1>0. /\ TableTypeOK /\ seq \in 0 .. MaxChunks /\ seq <= MaxNbEles /\ MaxNbEles \in Nat /\ 0 \in 0 .. MaxChunks
      /\ filling \in BOOLEAN /\ halted \in {"no", "no_free_chunk", "null_deref"}
      /\ \A b \in Buckets : tbl[b] # NoEntry => b < seq
  BY MaxNbElesAssumption, MaxChunksAssumption DEF TableInv, TableTypeOK
<1>1. CASE InsertChunk
  <2>1. CASE freeHead = NoEntry
    <3>1. UNCHANGED <<tableLinks, freeHead, counts, seq, filling>> /\ halted' = "no_free_chunk"
      BY <1>1, <2>1 DEF InsertChunk, chnk_seq_tbl_insert, Halt
    <3> QED BY <1>0, <3>1, SameTable DEF TableInv
  <2>2. CASE freeHead # NoEntry
    BY <1>1, <2>2, InsertKeepsTable
  <2> QED BY <2>1, <2>2
<1>2. CASE LastChunk
  BY <1>0, <1>2, SameTable DEF LastChunk
<1>3. ASSUME NEW s \in Seqs, Reply(s) PROVE TableInv'
  <2>1. CASE UNCHANGED <<tableLinks, freeHead, counts, seq, filling>> /\ halted' \in {"no", "null_deref"}
    BY <1>0, <2>1, SameTable DEF TableInv
  <2>2. ASSUME NEW cs \in InBucket(s), DeleteStep(s, cs) PROVE TableInv'
    BY <1>3, <2>2, DeleteKeepsTable DEF Reply
  <2> QED BY <1>3, <2>1, <2>2, ReplyCases
<1>4. CASE NextObject
  <2>1. Heads = {}
    BY <1>0, <1>4, HeadsFinite, FS_EmptySet DEF TableInv, NextObject
  <2>2. \A b \in Buckets : tbl[b] = NoEntry
    BY <2>1 DEF Heads
  <2> QED BY <1>0, <1>4, <2>2, SameTable DEF NextObject
<1>5. CASE UNCHANGED tableVars
  BY <1>0, <1>5, SameTable DEF tableVars, TableInv
<1> QED BY <1>1, <1>2, <1>3, <1>4, <1>5 DEF TableNext

(* No step of Next breaks it.                                              *)
LEMMA TableInvariant == TableSpec => []TableInv
<1> QED BY InitTable, StepKeepsTable, PTL DEF TableSpec
-----------------------------------------------------------------------------
(* chnk_seq_tbl_insert and chnk_seq_tbl_delete keep their pointers inside  *)
(* the pool and their counters within its size.                            *)
THEOREM TableTypeCorrect == TableSpec => []TableTypeOK
<1>1. TableInv => TableTypeOK
  BY DEF TableInv
<1> QED BY <1>1, TableInvariant, PTL

(* However chnk_seq_tbl_delete damages the free list, it hands out no      *)
(* entry that is still in a bucket.                                        *)
THEOREM FreeListApart == TableSpec => []FreeNotLinked
<1>1. ASSUME TableInv PROVE FreeNotLinked
  <2>1. PICK F : FreeIn(F)
    BY <1>1 DEF TableInv
  <2>2. ListOf(freeHead) \subseteq F
    BY <2>1, ListStays DEF FreeIn
  <2> QED BY <1>1, <2>1, <2>2, BucketLists DEF FreeIn, TableInv, FreeNotLinked
<1> QED BY <1>1, TableInvariant, PTL

(* chnk_seq_tbl_empty is true exactly when no chunk is linked.             *)
THEOREM ChunksCounted == TableSpec => []CountExact
<1>1. TableInv => CountExact
  BY BucketLists DEF TableInv, CountExact
<1> QED BY <1>1, TableInvariant, PTL

(* No two chunks of an object share a bucket, for any number of chunks:    *)
(* the pool is exhausted before the sequence numbers wrap round it.        *)
THEOREM BucketsHoldOne == TableSpec => []ShortBuckets
<1>1. ASSUME TableInv PROVE ShortBuckets
  <2>1. \A b \in Buckets : ListOf(tbl[b]) = IF tbl[b] = NoEntry THEN {} ELSE {tbl[b]}
    BY <1>1, BucketLists DEF TableInv
  <2>2. \A e : Cardinality({e}) = 1
    BY FS_Singleton
  <2>3. Cardinality({}) = 0
    BY FS_EmptySet
  <2>4. ASSUME NEW b \in Buckets PROVE Cardinality(ListOf(tbl[b])) <= 1
    <3>1. CASE tbl[b] = NoEntry
      <4>1. ListOf(tbl[b]) = {}
        BY <2>1, <3>1
      <4> QED BY <2>3, <4>1
    <3>2. CASE tbl[b] # NoEntry
      <4>1. ListOf(tbl[b]) = {tbl[b]}
        BY <2>1, <3>2
      <4> QED BY <2>2, <4>1
    <3> QED BY <3>1, <3>2
  <2> QED BY <2>4 DEF ShortBuckets
<1> QED BY <1>1, TableInvariant, PTL
-----------------------------------------------------------------------------
(* The chunks that are linked.                                             *)
Chunks == {c_seq[e] : e \in Linked}

LEMMA ChunksOfHeads == TableInv => Chunks = {c_seq[e] : e \in Heads}
BY BucketLists DEF TableInv, Chunks

LEMMA ChunksOfHeadsNext == TableInv' => (Chunks = {c_seq[e] : e \in Heads})'
BY ChunksOfHeads, PTL

LEMMA InsertAdds ==
  ASSUME TableInv, TableInv', InsertChunk, freeHead # NoEntry
  PROVE  seq \in Seqs /\ Chunks' = Chunks \cup {seq} /\ seq' = seq + 1
<1>1. PICK cs : cs = freeHead
  OBVIOUS
<1>2. /\ seq \in Buckets /\ tbl[seq] = NoEntry /\ cs \in Entries \ Heads /\ seq \in Seqs
      /\ tbl' = [tbl EXCEPT ![seq] = cs] /\ c_seq' = [c_seq EXCEPT ![cs] = seq] /\ seq' = seq + 1
  BY <1>1, InsertKeepsTable
<1>3. Heads' = Heads \cup {cs}
  BY <1>2, HeadChanges
<1>4. c_seq'[cs] = seq /\ \A e \in Heads : c_seq'[e] = c_seq[e]
  BY <1>2, HeadsFinite DEF TableInv, TableTypeOK
<1>5. Chunks' = {c_seq'[e] : e \in Heads'}
  BY ChunksOfHeadsNext
<1>6. \A x : x \in Chunks' <=> x \in Chunks \cup {seq}
  <2> TAKE x
  <2>1. x \in Chunks' <=> \E e \in Heads \cup {cs} : x = c_seq'[e]
    BY <1>3, <1>5
  <2>2. x \in Chunks <=> \E e \in Heads : x = c_seq[e]
    BY ChunksOfHeads
  <2> QED BY <1>4, <2>1, <2>2
<1> QED BY <1>2, <1>6

LEMMA ReplyRemoves ==
  ASSUME TableInv, TableInv', NEW s \in Seqs, NEW cs \in InBucket(s), DeleteStep(s, cs)
  PROVE  s \in Chunks /\ Chunks' = Chunks \ {s} /\ seq' = seq
<1>1. s \in Buckets /\ tbl[s] = cs /\ cs \in Entries /\ cs # NoEntry /\ cs \in Heads /\ c_seq[cs] = s
  BY BucketChunk DEF Entries, NoEntry, Heads
<1>2. Heads' = Heads \ {cs}
  BY <1>1, HeadChanges DEF DeleteStep
<1>3. Chunks' = {c_seq[e] : e \in Heads \ {cs}}
  BY <1>2, ChunksOfHeadsNext DEF DeleteStep
<1>4. \A e \in Heads : c_seq[e] = s => e = cs
  BY <1>1 DEF TableInv, Heads
<1>5. \A x : x \in Chunks' <=> x \in Chunks \ {s}
  <2> TAKE x
  <2>1. x \in Chunks' <=> \E e \in Heads \ {cs} : x = c_seq[e]
    BY <1>3
  <2>2. x \in Chunks <=> \E e \in Heads : x = c_seq[e]
    BY ChunksOfHeads
  <2> QED BY <1>1, <1>4, <2>1, <2>2
<1>6. s \in Chunks
  BY <1>1, ChunksOfHeads
<1> QED BY <1>5, <1>6 DEF DeleteStep

(* The chunk sequence table implements the set of unacknowledged chunks:   *)
(* an insert adds the next chunk, a reply removes its chunk once and is    *)
(* ignored otherwise, and the next object finds the set empty.             *)
THEOREM TableKeepsPending == TableSpec => RefinesPending
<1>1. TableInit => Pending!Init
  <2> SUFFICES ASSUME TableInit PROVE Pending!Init
    OBVIOUS
  <2>1. Heads = {}
    BY DEF TableInit, Heads
  <2>2. Chunks = {}
    BY <2>1, InitTable, ChunksOfHeads
  <2> QED BY <2>2 DEF Pending!Init, TableInit, Chunks
<1>2. ASSUME TableInv, TableInv', [TableNext]_tableVars
      PROVE  [Pending!Next]_<<Chunks, seq>>
  <2>1. UNCHANGED <<tableLinks, seq>> => UNCHANGED <<Chunks, seq>>
    BY DEF tableLinks, Chunks, Linked, ListOf, Nth
  <2>2. CASE InsertChunk
    <3>1. CASE freeHead = NoEntry
      BY <2>1, <2>2, <3>1 DEF InsertChunk, chnk_seq_tbl_insert, Halt
    <3>2. CASE freeHead # NoEntry
      BY <1>2, <2>2, <3>2, InsertAdds DEF Pending!Next, Pending!Add, Chunks
    <3> QED BY <3>1, <3>2
  <2>3. CASE LastChunk
    BY <2>1, <2>3 DEF LastChunk
  <2>4. ASSUME NEW s \in Seqs, Reply(s) PROVE [Pending!Next]_<<Chunks, seq>>
    <3>1. ASSUME NEW cs \in InBucket(s), DeleteStep(s, cs) PROVE Pending!Acknowledge(s)
      BY <1>2, <3>1, ReplyRemoves DEF Pending!Acknowledge, Chunks
    <3> QED BY <1>2, <2>1, <2>4, <3>1, ReplyCases DEF Pending!Next
  <2>5. CASE NextObject
    <3>1. Heads = {}
      BY <1>2, <2>5, HeadsFinite, FS_EmptySet DEF TableInv, NextObject
    <3>2. Chunks = {}
      BY <1>2, <3>1, ChunksOfHeads
    <3>3. UNCHANGED Chunks /\ seq' = 0
      BY <2>5, <1>2 DEF NextObject, tableLinks, Chunks, Linked, ListOf, Nth
    <3> QED BY <3>2, <3>3 DEF Pending!Next, Pending!Finish, Chunks
  <2>6. CASE UNCHANGED tableVars
    BY <2>1, <2>6 DEF tableVars
  <2> QED BY <1>2, <2>2, <2>3, <2>4, <2>5, <2>6 DEF TableNext
<1> QED BY <1>1, <1>2, TableInvariant, PTL DEF TableSpec, RefinesPending, Pending!Spec, Chunks
=============================================================================
