--------------------------- MODULE CompleteBinTree ---------------------------
(***************************************************************************)
(* The tree a hyperbolic cache keeps its items in (cache/hyperbolic.c),    *)
(* pointer by pointer.  It is a complete binary tree in no particular      *)
(* order: its purpose is that a random number in 1 .. n_items, read bit by *)
(* bit from the root, finds a random item.  The spinlock of the cache      *)
(* makes each operation one step.                                          *)
(***************************************************************************)
EXTENDS Integers, FiniteSets

CONSTANT NbItems           \* the number of items that are ever cached

ASSUME NbItemsAssumption == NbItems \in Nat

Items         == 1 .. NbItems
CacheSentinel == 0
NoNode        == -1
CachePointers == Items \cup {CacheSentinel, NoNode}

VARIABLES
  root,       \* hc->root
  n_items,    \* hc->n_items
  left,       \* of every item, and of the sentinel
  right,
  parent,
  crashed,    \* whether a null pointer was followed
  cached      \* history: the items inserted and not deleted since

cacheLinks == <<root, left, right, parent>>
cacheVars  == <<cacheLinks, n_items, crashed, cached>>

(* hyperbolic_cache_setup; items and the sentinel are zeroed memory.       *)
CacheInit ==
  /\ root = NoNode
  /\ n_items = 0
  /\ left = [x \in Items \cup {CacheSentinel} |-> NoNode]
  /\ right = left
  /\ parent = left
  /\ crashed = FALSE
  /\ cached = {}

\* Mutant: the turns are taken the other way round.
MirroredTurn(x, pos) == IF x = NoNode THEN NoNode ELSE IF pos % 2 = 1 THEN left[x] ELSE right[x]

(* The turn the last bit of pos tells to take at node x.                   *)
Turn(x, pos) == IF x = NoNode THEN NoNode ELSE IF pos % 2 = 1 THEN right[x] ELSE left[x]

(* The node at position pos: the bits of pos below the highest are the     *)
(* turns from the root.                                                    *)
NodeAt[pos \in 1 .. 2 * NbItems + 1] ==
  IF pos = 1 THEN root ELSE Turn(NodeAt[pos \div 2], pos)

(* CompleteBinTreeSearchItem.                                              *)
CompleteBinTreeSearchItem(pos) == IF pos > n_items THEN NoNode ELSE NodeAt[pos]

Crash == crashed' = TRUE /\ UNCHANGED <<cacheLinks, n_items, cached>>

(* CompleteBinTreeInsert at the position after the last.                   *)
CompleteBinTreeInsert(it) ==
  LET pos == n_items + 1
      p   == IF root = NoNode THEN CacheSentinel ELSE NodeAt[pos \div 2]
  IN /\ ~crashed
     /\ it \notin cached
     /\ IF p = NoNode THEN Crash
        ELSE /\ root' = IF root = NoNode THEN it ELSE root
             /\ left' = [left EXCEPT ![it] = CacheSentinel,
                                     ![p] = IF p # CacheSentinel /\ pos % 2 = 0 THEN it ELSE @]
             /\ right' = [right EXCEPT ![it] = CacheSentinel,
                                       ![p] = IF p # CacheSentinel /\ pos % 2 = 1 THEN it ELSE @]
             /\ parent' = [parent EXCEPT ![it] = p]
             /\ n_items' = n_items + 1
             /\ cached' = cached \cup {it}
             /\ UNCHANGED crashed

(* The links t after its node x is replaced by y below x's parent.         *)
Replaced(t, x, y) ==
  LET p == parent[x]
  IN IF t.left[p] = x THEN [t EXCEPT !.left[p] = y] ELSE [t EXCEPT !.right[p] = y]

\* Mutant: the last item stays a child of its parent.
CutNothing(t, s) == t

(* The links t without the last item s.                                    *)
Cut(t, s) == IF s = root THEN t ELSE Replaced(t, s, CacheSentinel)

(* The links of it become null.                                            *)
Unlinked(f, it) == [f EXCEPT ![it] = NoNode]

\* Mutant: the item that moves does not become its children's parent.
TakePlaceOneWay(s, it, t) ==
  /\ root' = IF it = root THEN s ELSE root
  /\ parent' = Unlinked([parent EXCEPT ![s] = parent[it]], it)
  /\ left' = Unlinked([t.left EXCEPT ![s] = t.left[it]], it)
  /\ right' = Unlinked([t.right EXCEPT ![s] = t.right[it]], it)

(* Item s takes the place of it, given the other links t; the parent of a  *)
(* child that is absent is written to the sentinel.                        *)
TakePlace(s, it, t) ==
  LET children == {t.left[it], t.right[it]}
      above    == IF it = root THEN CacheSentinel ELSE parent[it]
  IN /\ root' = IF it = root THEN s ELSE root
     /\ parent' = Unlinked([x \in DOMAIN parent |->
                              IF x \in children THEN s ELSE IF x = s THEN above ELSE parent[x]], it)
     /\ left' = Unlinked([t.left EXCEPT ![s] = t.left[it]], it)
     /\ right' = Unlinked([t.right EXCEPT ![s] = t.right[it]], it)

\* Mutant: the empty tree is left with the sentinel for a root.
LeaveSentinel(it, t) ==
  /\ root' = IF it = root THEN CacheSentinel ELSE root
  /\ parent' = Unlinked(parent, it)
  /\ left' = Unlinked(t.left, it)
  /\ right' = Unlinked(t.right, it)

(* The last item leaves the tree.                                          *)
Leave(it, t) ==
  /\ root' = IF it = root THEN NoNode ELSE root
  /\ parent' = Unlinked(parent, it)
  /\ left' = Unlinked(t.left, it)
  /\ right' = Unlinked(t.right, it)

(* CompleteBinTreeDelete: the last item s leaves its place and takes that  *)
(* of the deleted one, unless it is the deleted one.                       *)
CompleteBinTreeDelete(it) ==
  LET s == CompleteBinTreeSearchItem(n_items)
      t == Cut([left |-> left, right |-> right], s)
  IN /\ ~crashed
     /\ it \in cached
     /\ IF \/ s \notin Items
           \/ NoNode \in {parent[s], parent[it]}
           \/ s = it /\ it = root /\ n_items # 1      \* assert
        THEN Crash
        ELSE /\ IF s = it THEN Leave(it, t)
                ELSE TakePlace(s, it, IF it = root THEN t ELSE Replaced(t, it, s))
             /\ n_items' = n_items - 1
             /\ cached' = cached \ {it}
             /\ UNCHANGED crashed

CacheNext == \E it \in Items : CompleteBinTreeInsert(it) \/ CompleteBinTreeDelete(it)

CacheSpec == CacheInit /\ [][CacheNext]_cacheVars

-----------------------------------------------------------------------------
CacheTypeOK ==
  /\ root \in Items \cup {NoNode}
  /\ n_items \in 0 .. NbItems
  /\ \A f \in {left, right, parent} : f \in [Items \cup {CacheSentinel} -> CachePointers]
  /\ crashed \in BOOLEAN
  /\ cached \subseteq Items

(* Every random position finds an item of the cache and every item is at   *)
(* one position: whatever order items come and go in, none is out of reach *)
(* of the sampling and a sample never is the sentinel or an item that has  *)
(* left.                                                                   *)
EveryItemSampled ==
  /\ n_items = Cardinality(cached)
  /\ {CompleteBinTreeSearchItem(pos) : pos \in 1 .. n_items} = cached

(* Below the last position there is nothing: a place that becomes free     *)
(* keeps no pointer to an item that left it.                               *)
NothingBelow == \A pos \in 2 .. 2 * n_items + 1 :
                  pos > n_items => NodeAt[pos] = CacheSentinel

(* Parent pointers, through which a delete detaches two nodes, mirror the  *)
(* child pointers.                                                         *)
CacheParentsMirror ==
  \A pos \in 2 .. n_items : parent[CompleteBinTreeSearchItem(pos)] = CompleteBinTreeSearchItem(pos \div 2)

(* No operation follows a null pointer.                                    *)
CacheNeverCrashes == ~crashed
=============================================================================
