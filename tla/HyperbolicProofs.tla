--------------------------- MODULE HyperbolicProofs ---------------------------
(***************************************************************************)
(* Proofs about the two structures of a hyperbolic cache.  CompleteBinTree,*)
(* for any number of items: whatever comes and goes, positions             *)
(* 1 .. n_items hold the cached items, one each, the places below them     *)
(* nothing, and the parent pointers say where from.  SampledSet, for a     *)
(* sample of any size and any priorities: the QuickSort of hyperbolic.c    *)
(* never loses or repeats an item, even where a priority is not a number,  *)
(* and sorts the sample where none is.                                     *)
(***************************************************************************)
EXTENDS CompleteBinTree, SampledSet, TLAPS, FiniteSetTheorems

(* A set of natural numbers that is not empty has a least element.         *)
LEMMA Least ==
  ASSUME NEW T, T \subseteq Nat, T # {}
  PROVE  \E m \in T : \A k \in T : m <= k
<1> DEFINE R == {ss \in Nat \X Nat : ss[1] < ss[2]}
<1>1. IsWellFoundedOn(R, Nat)
  BY NatLessThanWellFounded DEF OpToRel
<1> HIDE DEF R
<1>2. PICK m \in T : \A k \in T : ~(<<k, m>> \in R)
  BY <1>1, WFMin
<1>3. \A k \in Nat : k < m => <<k, m>> \in R
  BY DEF R
<1>4. \A k \in T : m <= k
  <2> TAKE k \in T
  <2>1. k \in Nat /\ m \in Nat
    OBVIOUS
  <2>2. ~(k < m)
    BY <1>2, <1>3, <2>1
  <2> QED BY <2>1, <2>2
<1> QED BY <1>4

Positions == 1 .. 2 * NbItems + 1

(* Dropping the last bit of a position.                                    *)
LEMMA Halves ==
  ASSUME NEW p \in Nat
  PROVE  /\ p \div 2 \in Nat /\ p % 2 \in {0, 1} /\ p = 2 * (p \div 2) + (p % 2)
         /\ p >= 2 => p \div 2 >= 1 /\ p \div 2 < p
  OBVIOUS

(* f finds the nodes of the first m positions.                             *)
Walk(f, m) == /\ m >= 1 => f[1] = root
              /\ \A p \in 2 .. m : f[p] = Turn(f[p \div 2], p)

(* The least m without a walk would have one: that of m - 1 and one turn.  *)
LEMMA WalkExists ==
  ASSUME NEW m \in Nat
  PROVE  \E f : DOMAIN f = 1 .. m /\ Walk(f, m)
<1> DEFINE Good(n) == \E f : DOMAIN f = 1 .. n /\ Walk(f, n)
           Bad == {n \in Nat : ~Good(n)}
<1> SUFFICES Bad = {}
  OBVIOUS
<1> SUFFICES ASSUME Bad # {} PROVE FALSE
  OBVIOUS
<1>1. PICK n \in Bad : \A k \in Bad : n <= k
  BY Least
<1>2. Good(0)
  <2>1. [p \in 1 .. 0 |-> p] = [p \in 1 .. 0 |-> p]
    OBVIOUS
  <2> QED BY DEF Walk
<1>3. n >= 1 /\ Good(n - 1)
  BY <1>1, <1>2
<1>4. PICK g : DOMAIN g = 1 .. n - 1 /\ Walk(g, n - 1)
  BY <1>3
<1> DEFINE f == [p \in 1 .. n |-> IF p < n THEN g[p] ELSE IF p = 1 THEN root ELSE Turn(g[p \div 2], p)]
<1>5. Walk(f, n)
  <2>1. f[1] = root
    BY <1>3, <1>4 DEF Walk
  <2>2. ASSUME NEW p \in 2 .. n PROVE f[p] = Turn(f[p \div 2], p)
    <3>1. p \div 2 \in 1 .. n - 1 /\ p \div 2 < p
      BY <1>3, Halves
    <3>2. f[p \div 2] = g[p \div 2]
      BY <3>1
    <3> QED BY <3>2, <1>4 DEF Walk
  <2> HIDE DEF f
  <2> QED BY <2>1, <2>2 DEF Walk
<1> QED BY <1>1, <1>5


(* The recursion of NodeAt has a solution: NodeAt walks the tree.          *)
LEMMA NodeAtWalk ==
  ASSUME NbItems \in Nat
  PROVE  Walk(NodeAt, 2 * NbItems + 1)
<1> DEFINE M == 2 * NbItems + 1
<1>0. M \in Nat /\ M >= 1
  OBVIOUS
<1>1. PICK g : DOMAIN g = 1 .. M /\ Walk(g, M)
  BY <1>0, WalkExists
<1> DEFINE f == [p \in 1 .. M |-> g[p]]
<1>2. f = [pos \in 1 .. M |-> IF pos = 1 THEN root ELSE Turn(f[pos \div 2], pos)]
  <2>1. ASSUME NEW p \in 1 .. M PROVE g[p] = IF p = 1 THEN root ELSE Turn(f[p \div 2], p)
    <3>1. CASE p = 1
      BY <1>0, <1>1, <3>1 DEF Walk
    <3>2. CASE p # 1
      <4>1. p \div 2 \in 1 .. M /\ p \in 2 .. M
        BY <1>0, <3>2, Halves
      <4> QED BY <1>1, <3>2, <4>1 DEF Walk
    <3> QED BY <3>1, <3>2
  <2> QED BY <2>1
<1> HIDE DEF f
<1>3. NodeAt = [pos \in 1 .. M |-> IF pos = 1 THEN root ELSE Turn(NodeAt[pos \div 2], pos)]
  BY <1>2 DEF NodeAt
<1> QED
  <2>1. NodeAt[1] = root
    BY <1>0, <1>3
  <2>2. \A p \in 2 .. M : NodeAt[p] = Turn(NodeAt[p \div 2], p)
    BY <1>0, <1>3
  <2> QED BY <1>0, <2>1, <2>2 DEF Walk

(* Two walks agree.                                                        *)
LEMMA WalkUnique ==
  ASSUME NEW m \in Nat, NEW f, NEW g, Walk(f, m), Walk(g, m)
  PROVE  \A p \in 1 .. m : f[p] = g[p]
<1> DEFINE Bad == {p \in 1 .. m : f[p] # g[p]}
<1> SUFFICES ASSUME Bad # {} PROVE FALSE
  OBVIOUS
<1>0. Bad \subseteq Nat
  OBVIOUS
<1> HIDE DEF Bad
<1>1. PICK p \in Bad : \A k \in Bad : p <= k
  BY <1>0, Least
<1> USE DEF Bad
<1>2. CASE p = 1
  BY <1>1, <1>2 DEF Walk
<1>3. CASE p # 1
  <2>1. p \in 2 .. m /\ p \div 2 \in 1 .. m /\ p \div 2 < p
    BY <1>3, Halves
  <2>2. f[p \div 2] = g[p \div 2]
    BY <1>1, <2>1
  <2>3. f[p] = Turn(f[p \div 2], p) /\ g[p] = Turn(g[p \div 2], p)
    BY <2>1 DEF Walk
  <2> QED BY <1>1, <2>2, <2>3
<1> QED BY <1>2, <1>3
-----------------------------------------------------------------------------
(* f says which item is at which position of the tree.                     *)
Layout(f) ==
  /\ Walk(f, 2 * n_items + 1)
  /\ \A p \in 1 .. n_items : f[p] \in cached
  /\ \A p, q \in 1 .. n_items : f[p] = f[q] => p = q
  /\ \A x \in cached : \E p \in 1 .. n_items : f[p] = x
  /\ \A p \in 2 .. 2 * n_items + 1 : p > n_items => f[p] = CacheSentinel
  /\ n_items >= 1 => parent[f[1]] = CacheSentinel
  /\ \A p \in 2 .. n_items : parent[f[p]] = f[p \div 2]

(* The inductive invariant: the tree is laid out by its positions.         *)
TreeInv ==
  /\ CacheTypeOK /\ CacheNeverCrashes
  /\ n_items = Cardinality(cached)
  /\ n_items = 0 => root = NoNode
  /\ \E f : Layout(f)

(* The search finds what the layout says.                                  *)
LEMMA LayoutFound ==
  ASSUME NbItems \in Nat, CacheTypeOK, NEW f, Layout(f)
  PROVE  \A p \in 1 .. 2 * n_items + 1 : NodeAt[p] = f[p]
<1>1. n_items \in Nat /\ 2 * n_items + 1 \in Nat /\ 2 * n_items + 1 <= 2 * NbItems + 1
  BY DEF CacheTypeOK
<1>2. Walk(NodeAt, 2 * n_items + 1)
  BY <1>1, NodeAtWalk DEF Walk
<1> QED BY <1>1, <1>2, WalkUnique DEF Layout

(* With an item that is not cached there is room for one more.             *)
LEMMA Room ==
  ASSUME NbItems \in Nat, CacheTypeOK, n_items = Cardinality(cached), NEW it \in Items
  PROVE  /\ IsFiniteSet(cached)
         /\ it \notin cached => n_items + 1 <= NbItems /\ Cardinality(cached \cup {it}) = n_items + 1
         /\ it \in cached => n_items >= 1 /\ Cardinality(cached \ {it}) = n_items - 1
<1>1. IsFiniteSet(Items) /\ Cardinality(Items) = NbItems
  BY FS_Interval DEF Items
<1>2. IsFiniteSet(cached)
  BY <1>1, FS_Subset DEF CacheTypeOK
<1>3. ASSUME it \notin cached
      PROVE  n_items + 1 <= NbItems /\ Cardinality(cached \cup {it}) = n_items + 1
  <2>1. Cardinality(cached \cup {it}) = n_items + 1
    BY <1>2, <1>3, FS_AddElement
  <2>2. cached \cup {it} \subseteq Items
    BY DEF CacheTypeOK
  <2> QED BY <1>1, <2>1, <2>2, FS_Subset
<1>4. ASSUME it \in cached
      PROVE  n_items >= 1 /\ Cardinality(cached \ {it}) = n_items - 1
  <2>1. Cardinality(cached) \in Nat /\ Cardinality(cached) # 0
    BY <1>2, <1>4, FS_CardinalityType, FS_EmptySet
  <2> QED BY <1>2, <1>4, <2>1, FS_RemoveElement
<1> QED BY <1>2, <1>3, <1>4

(* Inserting an item puts it at the next position.                         *)
LEMMA InsertKeepsTree ==
  ASSUME NbItems \in Nat, TreeInv, NEW it \in Items, CompleteBinTreeInsert(it)
  PROVE  TreeInv'
<1>n. PICK n : n = n_items
  OBVIOUS
<1> DEFINE pos == n + 1
           h   == pos \div 2
<1>p. PICK p : p = IF root = NoNode THEN CacheSentinel ELSE NodeAt[h]
  OBVIOUS
<1>1. PICK f : Layout(f)
  BY DEF TreeInv
<1>t. /\ CacheTypeOK /\ n \in Nat /\ cached \subseteq Items /\ it \notin cached /\ ~crashed
      /\ n = Cardinality(cached)
  BY <1>n DEF TreeInv, CacheTypeOK, CompleteBinTreeInsert
<1>2. n + 1 <= NbItems /\ Cardinality(cached \cup {it}) = n + 1
  BY <1>n, <1>t, Room
<1>3. \A q \in 1 .. 2 * n + 1 : NodeAt[q] = f[q]
  BY <1>n, <1>1, <1>t, LayoutFound
<1>4. /\ n = 0 => p = CacheSentinel /\ root = NoNode
      /\ n >= 1 => p = f[h] /\ p \in cached /\ h \in 1 .. n /\ root = f[1] /\ root # NoNode
  <2>1. CASE n = 0
    BY <1>n, <1>p, <2>1 DEF TreeInv
  <2>2. CASE n >= 1
    <3>1. h \in 1 .. n /\ h \in 1 .. 2 * n + 1
      BY <1>t, <2>2, Halves
    <3>2. root = f[1] /\ f[1] \in cached /\ f[h] \in cached
      BY <1>n, <1>1, <1>t, <2>2, <3>1 DEF Layout, Walk
    <3>3. root # NoNode
      BY <1>t, <3>2 DEF Items, NoNode
    <3> QED BY <1>p, <1>3, <2>2, <3>1, <3>2, <3>3
  <2> QED BY <1>t, <2>1, <2>2
<1>5. p \in Items \cup {CacheSentinel} /\ p # it /\ p # NoNode
  <2>1. CASE n = 0
    BY <1>4, <2>1 DEF Items, CacheSentinel, NoNode
  <2>2. CASE n >= 1
    <3>1. p \in Items /\ p # it
      BY <1>t, <1>4, <2>2
    <3> QED BY <3>1 DEF Items, NoNode
  <2> QED BY <1>t, <2>1, <2>2
<1>6. /\ root' = IF root = NoNode THEN it ELSE root
      /\ left' = [left EXCEPT ![it] = CacheSentinel,
                              ![p] = IF p # CacheSentinel /\ pos % 2 = 0 THEN it ELSE @]
      /\ right' = [right EXCEPT ![it] = CacheSentinel,
                                ![p] = IF p # CacheSentinel /\ pos % 2 = 1 THEN it ELSE @]
      /\ parent' = [parent EXCEPT ![it] = p]
      /\ n_items' = n + 1 /\ cached' = cached \cup {it} /\ crashed' = crashed
  BY <1>n, <1>p, <1>5 DEF CompleteBinTreeInsert
<1> HIDE DEF h
<1>7. /\ \A x \in Items : x # it =>
            /\ left'[x] = IF x = p /\ pos % 2 = 0 THEN it ELSE left[x]
            /\ right'[x] = IF x = p /\ pos % 2 = 1 THEN it ELSE right[x]
            /\ parent'[x] = parent[x]
      /\ left'[it] = CacheSentinel /\ right'[it] = CacheSentinel /\ parent'[it] = p
  BY <1>t, <1>5, <1>6 DEF CacheTypeOK, Items, CacheSentinel
<1>8. \A x \in Items, q \in Nat : x # it =>
        Turn(x, q)' = IF x = p /\ q % 2 = pos % 2 THEN it ELSE Turn(x, q)
  <2> SUFFICES ASSUME NEW x \in Items, NEW q \in Nat, x # it
               PROVE  Turn(x, q)' = IF x = p /\ q % 2 = pos % 2 THEN it ELSE Turn(x, q)
    OBVIOUS
  <2>1. q % 2 \in {0, 1} /\ pos % 2 \in {0, 1} /\ x # NoNode
    BY <1>t, Halves DEF Items, NoNode
  <2> QED BY <1>7, <2>1 DEF Turn, CacheSentinel, Items
<1>9. \A q : Turn(it, q)' = CacheSentinel
  BY <1>7 DEF Turn, Items, NoNode
<1>10. PICK g : /\ \A q \in 1 .. n : g[q] = f[q]
                /\ g[pos] = it
                /\ \A q \in 2 .. 2 * n + 3 : q > pos => g[q] = CacheSentinel
  <2> DEFINE g == [q \in 1 .. 2 * n + 3 |->
                     IF q <= n THEN f[q] ELSE IF q = pos THEN it ELSE CacheSentinel]
  <2> WITNESS g
  <2> QED BY <1>t
<1>11. Walk(g, 2 * n + 3)'
  <2>1. g[1] = root'
    <3>1. CASE n = 0
      BY <1>4, <1>6, <1>10, <3>1
    <3>2. CASE n >= 1
      BY <1>4, <1>6, <1>10, <3>2
    <3> QED BY <1>t, <3>1, <3>2
  <2>2. ASSUME NEW q \in 2 .. 2 * n + 3 PROVE g[q] = Turn(g[q \div 2], q)'
    <3> DEFINE r == q \div 2
    <3>1. r \in 1 .. n + 1 /\ q = 2 * r + (q % 2) /\ q % 2 \in {0, 1} /\ q \in Nat
      BY <1>t, Halves
    <3>2. CASE r = n + 1
      <4>1. g[q \div 2] = it /\ q > pos /\ g[q] = CacheSentinel
        BY <1>10, <1>t, <3>1, <3>2
      <4>2. Turn(g[q \div 2], q)' = Turn(it, q)'
        BY <4>1
      <4> QED BY <1>9, <4>1, <4>2
    <3>3. CASE r <= n
      <4>1. r \in 1 .. n /\ n >= 1 /\ q \in 2 .. 2 * n + 1
        BY <1>t, <3>1, <3>3
      <4>2. g[r] = f[r] /\ f[r] \in cached /\ f[r] \in Items /\ f[r] # it /\ f[q] = Turn(f[r], q)
        BY <1>n, <1>1, <1>t, <1>10, <4>1 DEF Layout, Walk
      <4>3. f[r] = p <=> r = h
        BY <1>n, <1>1, <1>4, <4>1 DEF Layout
      <4>4. r = h /\ q % 2 = pos % 2 <=> q = pos
        BY <1>t, <3>1, Halves DEF h
      <4>5. Turn(g[r], q)' = IF q = pos THEN it ELSE f[q]
        BY <1>8, <3>1, <4>2, <4>3, <4>4
      <4>6. q > n => f[q] = CacheSentinel
        BY <1>n, <1>1, <4>1 DEF Layout
      <4> QED BY <1>10, <1>t, <4>1, <4>5, <4>6
    <3> QED BY <1>t, <3>1, <3>2, <3>3
  <2> QED BY <2>1, <2>2 DEF Walk
<1>12. Layout(g)'
  <2>1. \A q \in 1 .. n + 1 : g[q] \in cached'
    BY <1>n, <1>1, <1>6, <1>10, <1>t DEF Layout
  <2>2. \A q, r \in 1 .. n + 1 : g[q] = g[r] => q = r
    <3>1. \A q \in 1 .. n : f[q] # it
      BY <1>n, <1>1, <1>t DEF Layout
    <3> QED BY <1>n, <1>1, <1>10, <1>t, <3>1 DEF Layout
  <2>3. \A x \in cached' : \E q \in 1 .. n + 1 : g[q] = x
    <3> TAKE x \in cached'
    <3>1. CASE x = it
      BY <1>10, <1>t, <3>1
    <3>2. CASE x \in cached
      <4>1. PICK q \in 1 .. n : f[q] = x
        BY <1>n, <1>1, <3>2 DEF Layout
      <4> QED BY <1>10, <1>t, <4>1
    <3> QED BY <1>6, <3>1, <3>2
  <2>4. parent'[g[1]] = CacheSentinel
    <3>1. CASE n = 0
      BY <1>4, <1>7, <1>10, <3>1
    <3>2. CASE n >= 1
      <4>1. g[1] = f[1] /\ f[1] \in Items /\ f[1] # it /\ parent[f[1]] = CacheSentinel
        BY <1>n, <1>1, <1>10, <1>t, <3>2 DEF Layout
      <4> QED BY <1>7, <4>1
    <3> QED BY <1>t, <3>1, <3>2
  <2>5. ASSUME NEW q \in 2 .. n + 1 PROVE parent'[g[q]] = g[q \div 2]
    <3>1. q \div 2 \in 1 .. n /\ n >= 1
      BY <1>t, Halves
    <3>2. CASE q = n + 1
      BY <1>4, <1>7, <1>10, <3>1, <3>2 DEF h
    <3>3. CASE q <= n
      <4>1. q \in 2 .. n /\ q \in 1 .. n
        BY <1>t, <3>3
      <4>2. g[q] = f[q] /\ f[q] \in Items /\ f[q] # it /\ parent[f[q]] = f[q \div 2]
        BY <1>n, <1>1, <1>10, <1>t, <4>1 DEF Layout
      <4> QED BY <1>7, <1>10, <3>1, <4>2
    <3> QED BY <1>t, <3>2, <3>3
  <2>6. 2 * n_items' + 1 = 2 * n + 3
    BY <1>6, <1>t
  <2>7. \A q \in 2 .. 2 * n + 3 : q > n + 1 => g[q] = CacheSentinel
    BY <1>10
  <2> QED BY <1>6, <1>11, <2>1, <2>2, <2>3, <2>4, <2>5, <2>6, <2>7 DEF Layout
<1>13. CacheTypeOK'
  <2>1. it \in CachePointers /\ CacheSentinel \in CachePointers /\ p \in CachePointers
    BY <1>5 DEF CachePointers
  <2> QED BY <1>n, <1>t, <1>2, <1>5, <1>6, <2>1 DEF CacheTypeOK
<1> QED BY <1>n, <1>2, <1>6, <1>12, <1>13, <1>t DEF TreeInv, CacheNeverCrashes
-----------------------------------------------------------------------------
(* The turn that links t tell to take at node x.                           *)
TurnOf(t, x, p) == IF p % 2 = 1 THEN t.right[x] ELSE t.left[x]

LinksOK(t) == t \in [left : [Items \cup {CacheSentinel} -> CachePointers],
                     right : [Items \cup {CacheSentinel} -> CachePointers]]

(* h[p] is the child that position p is, of the n nodes of f.              *)
Finds(t, f, h, n) == \A p \in 2 .. 2 * n + 1 : TurnOf(t, f[p \div 2], p) = h[p]

Distinct(f, n) == /\ \A p, q \in 1 .. n : f[p] = f[q] => p = q
                  /\ \A q \in 1 .. n : f[q] \in Items

(* h has x at k alone, and g is h with y there.                            *)
Traded(g, h, k, x, y, n) ==
  /\ h[k] = x
  /\ \A p \in 2 .. 2 * n + 1 : (h[p] = x => p = k) /\ g[p] = IF p = k THEN y ELSE h[p]

(* Replacing the node at position k below its parent changes what is found *)
(* at that position and nothing else.                                      *)
LEMMA ReplacedTurn ==
  ASSUME NEW n \in Nat, NEW t, LinksOK(t), NEW f, Distinct(f, n), NEW h, Finds(t, f, h, n),
         NEW k \in 2 .. n, NEW x, NEW y \in CachePointers, NEW g, Traded(g, h, k, x, y, n),
         parent[x] = f[k \div 2]
  PROVE  LinksOK(Replaced(t, x, y)) /\ Finds(Replaced(t, x, y), f, g, n)
<1>1. PICK a : a = f[k \div 2]
  OBVIOUS
<1>2. k \div 2 \in 1 .. n /\ k % 2 \in {0, 1} /\ k = 2 * (k \div 2) + (k % 2) /\ a \in Items /\ k \in Nat
  BY <1>1, Halves DEF Distinct
<1>3. k % 2 = 0 => t.left[a] = x
  BY <1>1, <1>2 DEF TurnOf, Finds, Traded
<1>4. k % 2 = 1 => t.left[a] # x /\ t.right[a] = x
  <2> SUFFICES ASSUME k % 2 = 1 PROVE t.left[a] # x /\ t.right[a] = x
    OBVIOUS
  <2>1. k - 1 \in 2 .. 2 * n + 1 /\ (k - 1) % 2 = 0 /\ (k - 1) \div 2 = k \div 2
    BY <1>2
  <2>2. t.left[a] = h[k - 1]
    BY <1>1, <2>1 DEF TurnOf, Finds
  <2>3. t.right[a] = h[k]
    BY <1>1, <1>2 DEF TurnOf, Finds
  <2> QED BY <1>2, <2>1, <2>2, <2>3 DEF Traded
<1>5. Replaced(t, x, y) = IF k % 2 = 0 THEN [t EXCEPT !.left[a] = y] ELSE [t EXCEPT !.right[a] = y]
  BY <1>1, <1>2, <1>3, <1>4 DEF Replaced
<1>6. LinksOK(Replaced(t, x, y))
  BY <1>2, <1>5 DEF LinksOK
<1>7. ASSUME NEW z \in Items, NEW p \in Nat
      PROVE  TurnOf(Replaced(t, x, y), z, p) = IF z = a /\ p % 2 = k % 2 THEN y ELSE TurnOf(t, z, p)
  <2>1. p % 2 \in {0, 1}
    BY Halves
  <2>2. CASE k % 2 = 0
    <3>1. Replaced(t, x, y) = [t EXCEPT !.left[a] = y]
      BY <1>5, <2>2
    <3>2. /\ Replaced(t, x, y).right = t.right
          /\ Replaced(t, x, y).left[z] = IF z = a THEN y ELSE t.left[z]
      BY <1>2, <3>1 DEF LinksOK
    <3> QED BY <2>1, <2>2, <3>2 DEF TurnOf
  <2>3. CASE k % 2 = 1
    <3>1. Replaced(t, x, y) = [t EXCEPT !.right[a] = y]
      BY <1>5, <2>3
    <3>2. /\ Replaced(t, x, y).left = t.left
          /\ Replaced(t, x, y).right[z] = IF z = a THEN y ELSE t.right[z]
      BY <1>2, <3>1 DEF LinksOK
    <3> QED BY <2>1, <2>3, <3>2 DEF TurnOf
  <2> QED BY <1>2, <2>2, <2>3
<1>8. ASSUME NEW p \in 2 .. 2 * n + 1
      PROVE  TurnOf(Replaced(t, x, y), f[p \div 2], p) = g[p]
  <2>1. p \div 2 \in 1 .. n /\ p \in Nat /\ p = 2 * (p \div 2) + (p % 2) /\ p % 2 \in {0, 1}
    BY Halves
  <2>2. f[p \div 2] = a <=> p \div 2 = k \div 2
    BY <1>1, <1>2, <2>1 DEF Distinct
  <2>3. f[p \div 2] = a /\ p % 2 = k % 2 <=> p = k
    BY <1>2, <2>1, <2>2
  <2>4. f[p \div 2] \in Items
    BY <2>1 DEF Distinct
  <2> QED BY <1>7, <2>1, <2>3, <2>4 DEF Finds, Traded
<1> QED BY <1>6, <1>8 DEF Finds

(* A delete does not crash; f and n describe the tree before it, s is the  *)
(* last item and k the place of the item that is deleted.                  *)
LEMMA DeleteShape ==
  ASSUME NbItems \in Nat, TreeInv, NEW it \in Items, CompleteBinTreeDelete(it),
         NEW n, n = n_items, NEW f, Layout(f), NEW s, s = f[n], NEW k \in 1 .. n, f[k] = it,
         NEW t, t = Cut([left |-> left, right |-> right], s)
  PROVE  /\ n \in Nat /\ n >= 1 /\ it \in cached /\ s \in cached
         /\ s = it <=> k = n
         /\ root = f[1] /\ (it = root <=> k = 1)
         /\ IF s = it THEN Leave(it, t)
            ELSE TakePlace(s, it, IF it = root THEN t ELSE Replaced(t, it, s))
         /\ n_items' = n - 1 /\ cached' = cached \ {it} /\ crashed' = crashed
         /\ LinksOK(t)
         /\ Finds(t, f, [p \in 2 .. 2 * n + 1 |-> IF p = n THEN CacheSentinel ELSE f[p]], n)
<1>1. n \in Nat /\ n >= 1 /\ it \in cached /\ ~crashed /\ CacheTypeOK /\ n \in 1 .. n
  BY DEF TreeInv, CacheTypeOK, CompleteBinTreeDelete
<1>2. /\ \A q \in 1 .. n : f[q] \in cached /\ f[q] \in Items
      /\ \A p, q \in 1 .. n : f[p] = f[q] => p = q
      /\ \A p \in 2 .. 2 * n + 1 : p > n => f[p] = CacheSentinel
      /\ parent[f[1]] = CacheSentinel
      /\ \A q \in 2 .. n : parent[f[q]] = f[q \div 2]
      /\ f[1] = root
      /\ \A p \in 2 .. 2 * n + 1 : f[p] = Turn(f[p \div 2], p)
  BY <1>1 DEF Layout, Walk, CacheTypeOK
<1>3. s \in cached /\ s \in Items /\ (s = it <=> k = n) /\ (it = root <=> k = 1) /\ (s = root <=> n = 1)
  BY <1>1, <1>2
<1>4. CompleteBinTreeSearchItem(n_items) = s
  BY <1>1, LayoutFound DEF CompleteBinTreeSearchItem
<1>5. \A q \in 1 .. n : parent[f[q]] # NoNode
  <2> TAKE q \in 1 .. n
  <2>1. CASE q = 1
    BY <1>2, <2>1 DEF CacheSentinel, NoNode
  <2>2. CASE q # 1
    <3>1. q \in 2 .. n /\ q \div 2 \in 1 .. n
      BY <1>1, <2>2, Halves
    <3> QED BY <1>2, <3>1 DEF Items, NoNode
  <2> QED BY <2>1, <2>2
<1>6. NoNode \notin {parent[s], parent[it]} /\ ~(s = it /\ it = root /\ n_items # 1)
  BY <1>1, <1>3, <1>5
<1>7. /\ IF s = it THEN Leave(it, t)
         ELSE TakePlace(s, it, IF it = root THEN t ELSE Replaced(t, it, s))
      /\ n_items' = n - 1 /\ cached' = cached \ {it} /\ crashed' = crashed
  BY <1>3, <1>4, <1>6 DEF CompleteBinTreeDelete
<1> DEFINE o == [left |-> left, right |-> right]
<1>8. LinksOK(o)
  BY <1>1 DEF LinksOK, CacheTypeOK
<1>9. Finds(o, f, f, n)
  <2> SUFFICES ASSUME NEW p \in 2 .. 2 * n + 1
               PROVE  TurnOf(o, f[p \div 2], p) = f[p]
    BY DEF Finds
  <2>1. p \div 2 \in 1 .. n
    BY <1>1, Halves
  <2> QED BY <1>2, <2>1 DEF TurnOf, Turn, Items, NoNode
<1> DEFINE h == [p \in 2 .. 2 * n + 1 |-> IF p = n THEN CacheSentinel ELSE f[p]]
<1>10. LinksOK(t) /\ Finds(t, f, h, n)
  <2>1. CASE n = 1
    <3>1. t = o
      BY <1>3, <2>1 DEF Cut
    <3> QED BY <1>8, <1>9, <2>1, <3>1 DEF Finds
  <2>2. CASE n # 1
    <3>1. t = Replaced(o, s, CacheSentinel) /\ n \in 2 .. n /\ n \in Nat
      BY <1>1, <1>3, <2>2 DEF Cut
    <3>2. \A p \in 2 .. 2 * n + 1 : f[p] = s => p = n
      <4> TAKE p \in 2 .. 2 * n + 1
      <4>1. CASE p > n
        BY <1>2, <1>3, <4>1 DEF Items, CacheSentinel
      <4>2. CASE p <= n
        BY <1>1, <1>2, <4>2
      <4> QED BY <1>1, <4>1, <4>2
    <3>3. parent[s] = f[n \div 2] /\ CacheSentinel \in CachePointers
      BY <1>2, <3>1 DEF CachePointers
    <3>4. Distinct(f, n) /\ Traded(h, f, n, s, CacheSentinel, n)
      BY <1>2, <3>2 DEF Distinct, Traded
    <3> HIDE DEF o, h
    <3> QED BY <1>8, <1>9, <3>1, <3>3, <3>4, ReplacedTurn
  <2> QED BY <2>1, <2>2
<1> QED BY <1>1, <1>2, <1>3, <1>7, <1>10

(* Deleting an item puts the last item at its position.                    *)
LEMMA DeleteKeepsTree ==
  ASSUME NbItems \in Nat, TreeInv, NEW it \in Items, CompleteBinTreeDelete(it)
  PROVE  TreeInv'
<1>n. PICK n : n = n_items
  OBVIOUS
<1>f. PICK f : Layout(f)
  BY DEF TreeInv
<1>0. CacheTypeOK /\ n \in Nat /\ n <= NbItems /\ cached \subseteq Items /\ it \in cached
  BY <1>n DEF TreeInv, CacheTypeOK, CompleteBinTreeDelete
<1>k. PICK k \in 1 .. n : f[k] = it
  BY <1>n, <1>f, <1>0 DEF Layout
<1>s. PICK s : s = f[n]
  OBVIOUS
<1>c. PICK t : t = Cut([left |-> left, right |-> right], s)
  OBVIOUS
<1> DEFINE h == [p \in 2 .. 2 * n + 1 |-> IF p = n THEN CacheSentinel ELSE f[p]]
<1>1. /\ n >= 1 /\ s \in cached
      /\ s = it <=> k = n
      /\ root = f[1] /\ (it = root <=> k = 1)
      /\ IF s = it THEN Leave(it, t)
         ELSE TakePlace(s, it, IF it = root THEN t ELSE Replaced(t, it, s))
      /\ n_items' = n - 1 /\ cached' = cached \ {it} /\ crashed' = crashed
      /\ LinksOK(t) /\ Finds(t, f, h, n)
  <2> HIDE DEF h
  <2>1. h = [p \in 2 .. 2 * n + 1 |-> IF p = n THEN CacheSentinel ELSE f[p]]
    BY DEF h
  <2> QED BY <1>n, <1>f, <1>k, <1>s, <1>c, <2>1, DeleteShape
<1>2. \A p \in 2 .. 2 * n + 1 : h[p] = IF p >= n THEN CacheSentinel ELSE f[p]
  BY <1>n, <1>f, <1>0 DEF Layout
<1> HIDE DEF h
<1>3. /\ \A q \in 1 .. n : f[q] \in cached /\ f[q] \in Items
      /\ \A p, q \in 1 .. n : f[p] = f[q] => p = q
      /\ \A x \in cached : \E q \in 1 .. n : f[q] = x
      /\ parent[f[1]] = CacheSentinel
      /\ \A q \in 2 .. n : parent[f[q]] = f[q \div 2]
  BY <1>n, <1>f, <1>0, <1>1 DEF Layout
<1>4. PICK g : /\ \A p \in 1 .. n - 1 : g[p] = IF p = k THEN s ELSE f[p]
               /\ \A p \in 2 .. 2 * n + 1 : p >= n => g[p] = CacheSentinel
               /\ n = 1 => g[1] = NoNode
  <2> DEFINE g == [p \in 1 .. 2 * n + 1 |->
                     IF p < n THEN IF p = k THEN s ELSE f[p] ELSE IF p = 1 THEN NoNode ELSE CacheSentinel]
  <2> WITNESS g
  <2> QED BY <1>0, <1>1
(* What the step does to the pointers, whichever item it moves.            *)
<1> DEFINE Moved == /\ root' = g[1]
                    /\ \A p \in 2 .. 2 * n - 1 : Turn(g[p \div 2], p)' = g[p]
                    /\ n >= 2 => parent'[g[1]] = CacheSentinel
                    /\ \A p \in 2 .. n - 1 : parent'[g[p]] = g[p \div 2]
                    /\ root' \in Items \cup {NoNode}
                    /\ left' \in [Items \cup {CacheSentinel} -> CachePointers]
                    /\ right' \in [Items \cup {CacheSentinel} -> CachePointers]
                    /\ parent' \in [Items \cup {CacheSentinel} -> CachePointers]
<1>5. ASSUME s = it PROVE Moved
  <2>1. k = n /\ Leave(it, t)
    BY <1>1, <1>5
  <2>2. \A p \in 1 .. n - 1 : g[p] = f[p] /\ g[p] \in Items /\ g[p] # it
    BY <1>0, <1>3, <1>4, <1>k, <2>1
  <2>3. root' = g[1] /\ root' \in Items \cup {NoNode}
    <3>1. CASE n = 1
      BY <1>1, <1>4, <2>1, <3>1 DEF Leave
    <3>2. CASE n # 1
      BY <1>0, <1>1, <1>3, <2>1, <2>2, <3>2 DEF Leave
    <3> QED BY <3>1, <3>2
  <2>4. /\ left' = [t.left EXCEPT ![it] = NoNode] /\ right' = [t.right EXCEPT ![it] = NoNode]
        /\ parent' = [parent EXCEPT ![it] = NoNode]
    BY <2>1 DEF Leave, Unlinked
  <2>5. /\ left' \in [Items \cup {CacheSentinel} -> CachePointers]
        /\ right' \in [Items \cup {CacheSentinel} -> CachePointers]
        /\ parent' \in [Items \cup {CacheSentinel} -> CachePointers]
    BY <1>0, <1>1, <2>4 DEF LinksOK, CacheTypeOK, CachePointers
  <2>6. \A x \in Items : x # it => parent'[x] = parent[x]
                                   /\ left'[x] = t.left[x] /\ right'[x] = t.right[x]
    BY <1>0, <1>1, <2>4 DEF LinksOK, CacheTypeOK
  <2>7. ASSUME NEW p \in 2 .. 2 * n - 1 PROVE Turn(g[p \div 2], p)' = g[p]
    <3>1. p \div 2 \in 1 .. n - 1 /\ p \in 2 .. 2 * n + 1
      BY <1>0, Halves
    <3>2. Turn(g[p \div 2], p)' = TurnOf(t, f[p \div 2], p)
      BY <2>2, <2>6, <3>1 DEF Turn, TurnOf, Items, NoNode
    <3>3. TurnOf(t, f[p \div 2], p) = h[p]
      BY <1>1, <3>1 DEF Finds
    <3>4. h[p] = g[p]
      BY <1>0, <1>2, <1>4, <2>2, <3>1
    <3> QED BY <3>2, <3>3, <3>4
  <2>8. n >= 2 => parent'[g[1]] = CacheSentinel
    BY <1>0, <1>3, <2>2, <2>6
  <2>9. ASSUME NEW p \in 2 .. n - 1 PROVE parent'[g[p]] = g[p \div 2]
    <3>1. p \div 2 \in 1 .. n - 1 /\ p \in 1 .. n - 1 /\ p \in 2 .. n
      BY <1>0, Halves
    <3> QED BY <1>3, <2>2, <2>6, <3>1
  <2> QED BY <2>3, <2>5, <2>7, <2>8, <2>9
<1>6. ASSUME s # it PROVE Moved
  <2>u. PICK u : u = IF it = root THEN t ELSE Replaced(t, it, s)
    OBVIOUS
  <2>1. k < n /\ n >= 2 /\ TakePlace(s, it, u) /\ s \in Items /\ it \in Items /\ s # NoNode /\ s # CacheSentinel
    BY <1>0, <1>1, <1>6, <2>u DEF Items, NoNode, CacheSentinel
  <2> DEFINE i == [p \in 2 .. 2 * n + 1 |-> IF p = k THEN s ELSE h[p]]
  <2>2. LinksOK(u) /\ \A p \in 2 .. 2 * n + 1 : TurnOf(u, f[p \div 2], p) = IF p = k THEN s ELSE h[p]
    <3>1. CASE k = 1
      BY <1>1, <2>u, <3>1 DEF Finds
    <3>2. CASE k # 1
      <4>1. u = Replaced(t, it, s) /\ k \in 2 .. n /\ s \in CachePointers
        BY <1>1, <2>u, <2>1, <3>2 DEF CachePointers
      <4>2. h[k] = it /\ \A p \in 2 .. 2 * n + 1 : h[p] = it => p = k
        <5>1. h[k] = it
          BY <1>0, <1>2, <1>k, <2>1, <4>1
        <5>2. it # CacheSentinel
          BY DEF Items, CacheSentinel
        <5> QED BY <1>0, <1>2, <1>3, <1>k, <5>1, <5>2
      <4>3. Traded(i, h, k, it, s, n) /\ Distinct(f, n) /\ parent[it] = f[k \div 2]
        BY <1>3, <1>k, <4>1, <4>2 DEF Traded, Distinct
      <4> HIDE DEF i
      <4>4. LinksOK(u) /\ Finds(u, f, i, n)
        BY <1>0, <1>1, <4>1, <4>3, ReplacedTurn
      <4> QED BY <4>4 DEF Finds, i
    <3> QED BY <3>1, <3>2
  <2>3. \A p \in 1 .. n - 1 : g[p] \in Items /\ g[p] # it /\ (p # k => g[p] = f[p] /\ g[p] # s)
    <3>1. n \in 1 .. n
      BY <1>0, <1>1
    <3> QED BY <1>0, <1>3, <1>4, <1>k, <1>s, <2>1, <3>1
  <2>4. g[k] = s /\ k \in 1 .. n - 1 /\ k \in Nat
    BY <1>0, <1>4, <2>1
  <2>5. root' = g[1] /\ root' \in Items \cup {NoNode}
    BY <1>0, <1>1, <1>4, <2>1, <2>3 DEF TakePlace
  <2>6. PICK C : C = {u.left[it], u.right[it]}
    OBVIOUS
  <2>7. PICK ab : ab = IF it = root THEN CacheSentinel ELSE parent[it]
    OBVIOUS
  <2>8. /\ left' = [[u.left EXCEPT ![s] = u.left[it]] EXCEPT ![it] = NoNode]
        /\ right' = [[u.right EXCEPT ![s] = u.right[it]] EXCEPT ![it] = NoNode]
        /\ parent' = [[x \in DOMAIN parent |->
                         IF x \in C THEN s ELSE IF x = s THEN ab ELSE parent[x]] EXCEPT ![it] = NoNode]
    BY <2>1, <2>6, <2>7 DEF TakePlace, Unlinked
  <2>9. ab \in CachePointers /\ s \in CachePointers /\ NoNode \in CachePointers /\ it \in Items \cup {CacheSentinel}
    BY <1>0, <2>1, <2>7 DEF CacheTypeOK, CachePointers
  <2>10. /\ left' \in [Items \cup {CacheSentinel} -> CachePointers]
         /\ right' \in [Items \cup {CacheSentinel} -> CachePointers]
         /\ parent' \in [Items \cup {CacheSentinel} -> CachePointers]
    BY <1>0, <2>2, <2>8, <2>9 DEF LinksOK, CacheTypeOK
  <2>11. \A x \in Items : x # it =>
           /\ parent'[x] = IF x \in C THEN s ELSE IF x = s THEN ab ELSE parent[x]
           /\ left'[x] = IF x = s THEN u.left[it] ELSE u.left[x]
           /\ right'[x] = IF x = s THEN u.right[it] ELSE u.right[x]
    BY <1>0, <2>1, <2>2, <2>8 DEF LinksOK, CacheTypeOK
  <2>12. ASSUME NEW p \in 2 .. 2 * n - 1 PROVE Turn(g[p \div 2], p)' = g[p]
    <3>1. p \div 2 \in 1 .. n - 1 /\ p \in 2 .. 2 * n + 1
      BY <1>0, Halves
    <3>2. Turn(g[p \div 2], p)' = TurnOf(u, f[p \div 2], p)
      <4>1. CASE p \div 2 = k
        <5>1. g[p \div 2] = s /\ f[p \div 2] = it
          BY <1>k, <2>4, <4>1
        <5>2. Turn(s, p)' = TurnOf(u, it, p)
          BY <1>6, <2>1, <2>11 DEF Turn, TurnOf
        <5> QED BY <5>1, <5>2
      <4>2. CASE p \div 2 # k
        <5>1. g[p \div 2] \in Items /\ g[p \div 2] # it /\ g[p \div 2] # s /\ g[p \div 2] = f[p \div 2]
          BY <2>3, <3>1, <4>2
        <5> QED BY <2>11, <5>1 DEF Turn, TurnOf, Items, NoNode
      <4> QED BY <4>1, <4>2
    <3>3. g[p] = IF p = k THEN s ELSE h[p]
      BY <1>0, <1>2, <1>4, <2>1, <3>1
    <3> QED BY <2>2, <3>1, <3>2, <3>3
  <2>13. C = {h[2 * k], h[2 * k + 1]}
    <3>1. /\ 2 * k \in 2 .. 2 * n + 1 /\ 2 * k + 1 \in 2 .. 2 * n + 1 /\ 2 * k # k /\ 2 * k + 1 # k
          /\ (2 * k) \div 2 = k /\ (2 * k + 1) \div 2 = k /\ (2 * k) % 2 = 0 /\ (2 * k + 1) % 2 = 1
      BY <1>0, <2>4
    <3>2. TurnOf(u, it, 2 * k) = h[2 * k] /\ TurnOf(u, it, 2 * k + 1) = h[2 * k + 1]
      BY <1>k, <2>2, <3>1
    <3> QED BY <2>6, <3>1, <3>2 DEF TurnOf
  <2>14. ASSUME NEW p \in 1 .. n
         PROVE  f[p] \in C <=> p # n /\ p \div 2 = k /\ p # 1
    <3>1. 2 * k \in 2 .. 2 * n + 1 /\ 2 * k + 1 \in 2 .. 2 * n + 1
      BY <1>0, <2>4
    <3>2. f[p] # CacheSentinel
      BY <1>3 DEF Items, CacheSentinel
    <3>3. \A r \in {2 * k, 2 * k + 1} : f[p] = h[r] <=> p # n /\ p = r
      BY <1>0, <1>2, <1>3, <2>4, <3>1, <3>2
    <3>4. p # 1 /\ p \div 2 = k <=> p = 2 * k \/ p = 2 * k + 1
      BY <2>4, Halves
    <3> QED BY <2>13, <3>3, <3>4
  <2>15. \A p \in 1 .. n - 1 :
           parent'[g[p]] = IF p # k /\ p # 1 /\ p \div 2 = k THEN s
                           ELSE IF p = k THEN ab ELSE parent[f[p]]
    <3> TAKE p \in 1 .. n - 1
    <3>1. CASE p = k
      <4>1. s \notin C
        BY <1>0, <1>1, <1>s, <2>14
      <4> QED BY <1>6, <2>1, <2>4, <2>11, <3>1, <4>1
    <3>2. CASE p # k
      <4>1. f[p] \in C <=> p \div 2 = k /\ p # 1
        BY <1>0, <2>14
      <4> QED BY <2>3, <2>11, <3>2, <4>1
    <3> QED BY <3>1, <3>2
  <2>16. parent'[g[1]] = CacheSentinel
    <3>1. CASE k = 1
      BY <1>0, <1>1, <2>1, <2>7, <2>15, <3>1
    <3>2. CASE k # 1
      BY <1>0, <1>3, <2>1, <2>15, <3>2
    <3> QED BY <3>1, <3>2
  <2>17. ASSUME NEW p \in 2 .. n - 1 PROVE parent'[g[p]] = g[p \div 2]
    <3>1. p \div 2 \in 1 .. n - 1 /\ p \in 1 .. n - 1 /\ p \in 2 .. n /\ p \div 2 < p
      BY <1>0, Halves
    <3>2. CASE p = k
      BY <1>1, <1>3, <1>4, <1>k, <2>7, <2>15, <3>1, <3>2
    <3>3. CASE p # k
      BY <1>3, <1>4, <2>4, <2>15, <3>1, <3>3
    <3> QED BY <3>2, <3>3
  <2> QED BY <2>5, <2>10, <2>12, <2>16, <2>17
<1>7. Moved
  BY <1>5, <1>6
<1> HIDE DEF Moved
<1>8. Layout(g)'
  <2>1. 2 * n_items' + 1 = 2 * n - 1
    BY <1>0, <1>1
  <2>2. Walk(g, 2 * n - 1)'
    BY <1>7 DEF Moved, Walk
  <2>3. \A p \in 1 .. n - 1 : g[p] \in cached'
    BY <1>0, <1>1, <1>3, <1>4, <1>k
  <2>4. \A p, q \in 1 .. n - 1 : g[p] = g[q] => p = q
    <3>1. n \in 1 .. n
      BY <1>0, <1>1
    <3>2. \A p \in 1 .. n - 1 : f[p] # s
      BY <1>0, <1>3, <1>s, <3>1
    <3> QED BY <1>0, <1>3, <1>4, <3>2
  <2>5. ASSUME NEW x \in cached' PROVE \E p \in 1 .. n - 1 : g[p] = x
    <3>1. PICK q \in 1 .. n : f[q] = x
      BY <1>1, <1>3
    <3>2. q # k
      BY <1>1, <1>k, <3>1
    <3>3. CASE q = n
      <4>1. k \in 1 .. n - 1 /\ g[k] = x
        BY <1>0, <1>4, <1>s, <3>1, <3>2, <3>3
      <4> QED BY <4>1
    <3>4. CASE q # n
      <4>1. q \in 1 .. n - 1 /\ g[q] = x
        BY <1>0, <1>4, <3>1, <3>2, <3>4
      <4> QED BY <4>1
    <3> QED BY <3>3, <3>4
  <2>6. \A p \in 2 .. 2 * n - 1 : p > n - 1 => g[p] = CacheSentinel
    BY <1>0, <1>4
  <2>7. n - 1 >= 1 => parent'[g[1]] = CacheSentinel
    BY <1>0, <1>7 DEF Moved
  <2>8. \A p \in 2 .. n - 1 : parent'[g[p]] = g[p \div 2]
    BY <1>7 DEF Moved
  <2> QED BY <1>1, <2>1, <2>2, <2>3, <2>4, <2>5, <2>6, <2>7, <2>8 DEF Layout
<1>9. CacheTypeOK'
  <2>1. n - 1 \in 0 .. NbItems
    BY <1>0, <1>1
  <2> QED BY <1>0, <1>1, <1>7, <2>1 DEF CacheTypeOK, Moved
<1>10. n - 1 = Cardinality(cached \ {it})
  BY <1>n, <1>0, Room DEF TreeInv
<1>11. n - 1 = 0 => root' = NoNode
  BY <1>0, <1>4, <1>7 DEF Moved
<1> QED BY <1>1, <1>8, <1>9, <1>10, <1>11 DEF TreeInv, CacheNeverCrashes
-----------------------------------------------------------------------------
LEMMA InitTree ==
  ASSUME NbItems \in Nat, CacheInit
  PROVE  TreeInv
<1>1. CacheTypeOK
  <2>1. /\ left \in [Items \cup {CacheSentinel} -> CachePointers]
        /\ right \in [Items \cup {CacheSentinel} -> CachePointers]
        /\ parent \in [Items \cup {CacheSentinel} -> CachePointers]
    BY DEF CacheInit, CachePointers
  <2>2. 0 \in 0 .. NbItems
    OBVIOUS
  <2> QED BY <2>1, <2>2 DEF CacheInit, CacheTypeOK
<1> DEFINE f == [p \in {1} |-> NoNode]
<1>2. Layout(f)
  BY DEF CacheInit, Layout, Walk
<1> HIDE DEF f
<1> QED BY <1>1, <1>2, FS_EmptySet DEF CacheInit, TreeInv, CacheNeverCrashes

(* No step of Next breaks the layout.                                      *)
LEMMA TreeInvariant == CacheSpec => []TreeInv
<1>1. ASSUME TreeInv, [CacheNext]_cacheVars PROVE TreeInv'
  <2>1. ASSUME NEW it \in Items, CompleteBinTreeInsert(it) PROVE TreeInv'
    BY <1>1, <2>1, NbItemsAssumption, InsertKeepsTree
  <2>2. ASSUME NEW it \in Items, CompleteBinTreeDelete(it) PROVE TreeInv'
    BY <1>1, <2>2, NbItemsAssumption, DeleteKeepsTree
  <2>3. ASSUME UNCHANGED cacheVars PROVE TreeInv'
    <3>1. PICK f : Layout(f)
      BY <1>1 DEF TreeInv
    <3>2. Layout(f)'
      BY <2>3, <3>1 DEF cacheVars, cacheLinks, Layout, Walk, Turn
    <3>3. CacheTypeOK'
      BY <1>1, <2>3 DEF TreeInv, CacheTypeOK, cacheVars, cacheLinks
    <3> QED BY <1>1, <2>3, <3>2, <3>3 DEF TreeInv, CacheNeverCrashes, cacheVars, cacheLinks
  <2> QED BY <1>1, <2>1, <2>2, <2>3 DEF CacheNext
<1>2. CacheInit => TreeInv
  BY NbItemsAssumption, InitTree
<1> QED BY <1>1, <1>2, PTL DEF CacheSpec

-----------------------------------------------------------------------------
(* Whatever items come and go in whatever order, links are items, the      *)
(* sentinel or null, and the count stays within the items there are.       *)
THEOREM TreeTypeCorrect == CacheSpec => []CacheTypeOK
<1>1. TreeInv => CacheTypeOK
  BY DEF TreeInv
<1> QED BY <1>1, TreeInvariant, PTL

(* CompleteBinTreeInsert and CompleteBinTreeDelete never follow a null     *)
(* pointer and never meet their assertion.                                 *)
THEOREM TreeNeverCrashes == CacheSpec => []CacheNeverCrashes
<1>1. TreeInv => CacheNeverCrashes
  BY DEF TreeInv
<1> QED BY <1>1, TreeInvariant, PTL

(* CompleteBinTreeSearchItem reaches every cached item by exactly the      *)
(* positions 1 .. n_items, so that a random position is a random item.     *)
THEOREM SamplingReachesAll == CacheSpec => []EveryItemSampled
<1>1. ASSUME TreeInv PROVE EveryItemSampled
  <2>1. PICK f : Layout(f)
    BY <1>1 DEF TreeInv
  <2>2. n_items \in Nat /\ \A pos \in 1 .. n_items : CompleteBinTreeSearchItem(pos) = f[pos]
    BY <1>1, <2>1, LayoutFound, NbItemsAssumption DEF TreeInv, CacheTypeOK, CompleteBinTreeSearchItem
  <2>3. {CompleteBinTreeSearchItem(pos) : pos \in 1 .. n_items} \subseteq cached
    BY <2>1, <2>2 DEF Layout
  <2>4. ASSUME NEW x \in cached PROVE x \in {CompleteBinTreeSearchItem(pos) : pos \in 1 .. n_items}
    <3>1. PICK pos \in 1 .. n_items : f[pos] = x
      BY <2>1 DEF Layout
    <3> QED BY <2>2, <3>1
  <2> QED BY <1>1, <2>3, <2>4 DEF EveryItemSampled, TreeInv
<1> QED BY <1>1, TreeInvariant, PTL

(* A place that a delete empties keeps no link to the item that left it:   *)
(* below the last position there is the sentinel only.                     *)
THEOREM TreeHasNoTail == CacheSpec => []NothingBelow
<1>1. ASSUME TreeInv PROVE NothingBelow
  <2>1. PICK f : Layout(f)
    BY <1>1 DEF TreeInv
  <2>2. n_items \in Nat /\ \A pos \in 1 .. 2 * n_items + 1 : NodeAt[pos] = f[pos]
    BY <1>1, <2>1, LayoutFound, NbItemsAssumption DEF TreeInv, CacheTypeOK
  <2> QED BY <2>1, <2>2 DEF Layout, NothingBelow
<1> QED BY <1>1, TreeInvariant, PTL

(* The parent pointers a delete detaches nodes through are the inverse of  *)
(* the child pointers the search follows.                                  *)
THEOREM TreeParentsMirror == CacheSpec => []CacheParentsMirror
<1>1. ASSUME TreeInv PROVE CacheParentsMirror
  <2>1. PICK f : Layout(f)
    BY <1>1 DEF TreeInv
  <2>2. n_items \in Nat /\ \A pos \in 1 .. n_items : CompleteBinTreeSearchItem(pos) = f[pos]
    BY <1>1, <2>1, LayoutFound, NbItemsAssumption DEF TreeInv, CacheTypeOK, CompleteBinTreeSearchItem
  <2>3. ASSUME NEW pos \in 2 .. n_items
        PROVE  parent[CompleteBinTreeSearchItem(pos)] = CompleteBinTreeSearchItem(pos \div 2)
    <3>1. pos \div 2 \in 1 .. n_items /\ pos \in 1 .. n_items
      BY <2>2, Halves
    <3> QED BY <2>1, <2>2, <3>1 DEF Layout
  <2> QED BY <2>3 DEF CacheParentsMirror
<1> QED BY <1>1, TreeInvariant, PTL

-----------------------------------------------------------------------------
(* The sampled set: what two of its arrangements have in common.           *)

Values == Prios \cup {NaN}

(* b holds the entries of a, moved about between l and r only.             *)
Rearranged(a, b, L, l, r) ==
  \E f \in [1 .. L -> 1 .. L] :
    /\ \A x, y \in 1 .. L : f[x] = f[y] => x = y
    /\ \A y \in 1 .. L : \E x \in 1 .. L : f[x] = y
    /\ \A x \in 1 .. L : /\ b[x] = a[f[x]]
                         /\ x \in l .. r => f[x] \in l .. r
                         /\ x \notin l .. r => f[x] = x

Numbers(a, l, r) == \A x \in l .. r : a[x] # NaN

Sorted(a, l, r) == \A x, y \in l .. r : x < y => a[x] <= a[y]

LEMMA ValuesAreIntegers ==
  ASSUME MaxPrio \in Nat
  PROVE  Values \subseteq Int /\ \A v \in Values : v # NaN => v \in Prios
BY DEF Values, Prios, NaN

LEMMA NothingMoved ==
  ASSUME NEW L \in Nat, NEW a, NEW l, NEW r
  PROVE  Rearranged(a, a, L, l, r)
<1> DEFINE f == [x \in 1 .. L |-> x]
<1>1. f \in [1 .. L -> 1 .. L] /\ \A x \in 1 .. L : f[x] = x
  OBVIOUS
<1> HIDE DEF f
<1> QED BY <1>1 DEF Rearranged

LEMMA MovedTwice ==
  ASSUME NEW L \in Nat, NEW a, NEW b, NEW c, NEW l \in Int, NEW r \in Int,
         Rearranged(a, b, L, l, r), Rearranged(b, c, L, l, r)
  PROVE  Rearranged(a, c, L, l, r)
<1>1. PICK f \in [1 .. L -> 1 .. L] :
        /\ \A x, y \in 1 .. L : f[x] = f[y] => x = y
        /\ \A y \in 1 .. L : \E x \in 1 .. L : f[x] = y
        /\ \A x \in 1 .. L : /\ b[x] = a[f[x]]
                             /\ x \in l .. r => f[x] \in l .. r
                             /\ x \notin l .. r => f[x] = x
  BY DEF Rearranged
<1>2. PICK g \in [1 .. L -> 1 .. L] :
        /\ \A x, y \in 1 .. L : g[x] = g[y] => x = y
        /\ \A y \in 1 .. L : \E x \in 1 .. L : g[x] = y
        /\ \A x \in 1 .. L : /\ c[x] = b[g[x]]
                             /\ x \in l .. r => g[x] \in l .. r
                             /\ x \notin l .. r => g[x] = x
  BY DEF Rearranged
<1> DEFINE h == [x \in 1 .. L |-> f[g[x]]]
<1>3. h \in [1 .. L -> 1 .. L] /\ \A x \in 1 .. L : h[x] = f[g[x]] /\ g[x] \in 1 .. L
  OBVIOUS
<1> HIDE DEF h
<1>4. \A x, y \in 1 .. L : h[x] = h[y] => x = y
  <2> TAKE x, y \in 1 .. L
  <2>1. g[x] \in 1 .. L /\ g[y] \in 1 .. L /\ h[x] = f[g[x]] /\ h[y] = f[g[y]]
    BY <1>3
  <2>2. \A p, q \in 1 .. L : f[p] = f[q] => p = q
    BY <1>1
  <2>3. h[x] = h[y] => g[x] = g[y]
    BY <2>1, <2>2, Zenon
  <2> QED BY <1>2, <2>3
<1>5. \A y \in 1 .. L : \E x \in 1 .. L : h[x] = y
  <2> TAKE y \in 1 .. L
  <2>1. PICK z \in 1 .. L : f[z] = y
    BY <1>1
  <2>2. PICK x \in 1 .. L : g[x] = z
    BY <1>2
  <2> QED BY <1>3, <2>1, <2>2
<1>6. \A x \in 1 .. L : /\ c[x] = a[h[x]]
                        /\ x \in l .. r => h[x] \in l .. r
                        /\ x \notin l .. r => h[x] = x
  <2> TAKE x \in 1 .. L
  <2>1. g[x] \in 1 .. L /\ h[x] = f[g[x]]
    BY <1>3
  <2>2. c[x] = b[g[x]] /\ (x \in l .. r => g[x] \in l .. r) /\ (x \notin l .. r => g[x] = x)
    BY <1>2
  <2>3. /\ b[g[x]] = a[f[g[x]]] /\ (g[x] \in l .. r => f[g[x]] \in l .. r)
        /\ (g[x] \notin l .. r => f[g[x]] = g[x])
    BY <1>1, <2>1
  <2> QED BY <2>1, <2>2, <2>3
<1> QED BY <1>3, <1>4, <1>5, <1>6 DEF Rearranged

LEMMA MovedWithin ==
  ASSUME NEW L \in Nat, NEW a, NEW b, NEW l \in Int, NEW r \in Int, NEW l2 \in Int, NEW r2 \in Int,
         Rearranged(a, b, L, l, r), l2 <= l, r <= r2
  PROVE  Rearranged(a, b, L, l2, r2)
<1>1. PICK f \in [1 .. L -> 1 .. L] :
        /\ \A x, y \in 1 .. L : f[x] = f[y] => x = y
        /\ \A y \in 1 .. L : \E x \in 1 .. L : f[x] = y
        /\ \A x \in 1 .. L : /\ b[x] = a[f[x]]
                             /\ x \in l .. r => f[x] \in l .. r
                             /\ x \notin l .. r => f[x] = x
  BY DEF Rearranged
<1>2. \A x \in l .. r : x \in l2 .. r2
  OBVIOUS
<1>3. \A x \in 1 .. L : /\ b[x] = a[f[x]]
                        /\ x \in l2 .. r2 => f[x] \in l2 .. r2
                        /\ x \notin l2 .. r2 => f[x] = x
  BY <1>1, <1>2
<1> QED BY <1>1, <1>3 DEF Rearranged

LEMMA SwapMoves ==
  ASSUME NEW L \in Nat, NEW a \in [1 .. L -> Values], NEW l \in 1 .. L, NEW r \in 1 .. L,
         NEW j \in l .. r, NEW k \in l .. r, NEW b, b = Swapped(a, j, k)
  PROVE  /\ b \in [1 .. L -> Values]
         /\ Rearranged(a, b, L, l, r)
         /\ \A x \in 1 .. L : b[x] = IF x = j THEN a[k] ELSE IF x = k THEN a[j] ELSE a[x]
<1>1. j \in 1 .. L /\ k \in 1 .. L
  OBVIOUS
<1>2. \A x \in 1 .. L : b[x] = IF x = j THEN a[k] ELSE IF x = k THEN a[j] ELSE a[x]
  BY <1>1 DEF Swapped
<1>3. b \in [1 .. L -> Values]
  BY <1>1 DEF Swapped
<1> DEFINE f == [x \in 1 .. L |-> IF x = j THEN k ELSE IF x = k THEN j ELSE x]
<1>4. f \in [1 .. L -> 1 .. L] /\ \A x \in 1 .. L : f[x] = IF x = j THEN k ELSE IF x = k THEN j ELSE x
  BY <1>1
<1> HIDE DEF f
<1>5. \A y \in 1 .. L : f[f[y]] = y /\ f[y] \in 1 .. L
  BY <1>1, <1>4
<1>6. \A x, y \in 1 .. L : f[x] = f[y] => x = y
  BY <1>5
<1>7. \A y \in 1 .. L : \E x \in 1 .. L : f[x] = y
  BY <1>5
<1>8. \A x \in 1 .. L : /\ b[x] = a[f[x]]
                        /\ x \in l .. r => f[x] \in l .. r
                        /\ x \notin l .. r => f[x] = x
  <2> TAKE x \in 1 .. L
  <2>1. CASE x = j
    BY <1>2, <1>4, <2>1
  <2>2. CASE x # j /\ x = k
    BY <1>2, <1>4, <2>2
  <2>3. CASE x # j /\ x # k
    BY <1>2, <1>4, <2>3
  <2> QED BY <2>1, <2>2, <2>3
<1>9. Rearranged(a, b, L, l, r)
  BY <1>4, <1>6, <1>7, <1>8, Zenon DEF Rearranged
<1> QED BY <1>2, <1>3, <1>9

(* What was somewhere between l and r is still there.                      *)
LEMMA MovedValues ==
  ASSUME NEW L \in Nat, NEW a, NEW b, NEW l, NEW r, Rearranged(a, b, L, l, r), NEW x \in 1 .. L
  PROVE  /\ x \in l .. r => \E y \in l .. r : y \in 1 .. L /\ b[x] = a[y]
         /\ x \notin l .. r => b[x] = a[x]
BY DEF Rearranged
-----------------------------------------------------------------------------
(* Where the two inner loops of a pass stop.                               *)
LEMMA FirstStops ==
  ASSUME NEW a, NEW v, NEW i \in Nat, NEW r \in Nat, i <= r, NEW k, k = FirstNotLess(a, v, i, r)
  PROVE  k \in i .. r /\ (k = r \/ ~Less(a[k], v)) /\ \A m \in i .. k - 1 : Less(a[m], v)
<1> DEFINE T == {x \in i .. r : x = r \/ ~Less(a[x], v)}
<1>1. T \subseteq Nat /\ r \in T
  OBVIOUS
<1> HIDE DEF T
<1>2. PICK x \in T : \A y \in T : x <= y
  BY <1>1, Least
<1> USE DEF T
<1>3. \A m \in i .. x - 1 : Less(a[m], v)
  <2> TAKE m \in i .. x - 1
  <2>1. m \in i .. r /\ m # r /\ ~(x <= m)
    BY <1>2
  <2> QED BY <1>2, <2>1
<1>4. \E y \in i .. r : (y = r \/ ~Less(a[y], v)) /\ \A m \in i .. y - 1 : Less(a[m], v)
  BY <1>2, <1>3
<1> QED BY <1>4 DEF FirstNotLess

LEMMA LastStops ==
  ASSUME NEW a, NEW v, NEW l \in Nat, NEW j \in Nat, l <= j, NEW k, k = LastNotGreater(a, v, l, j)
  PROVE  k \in l .. j /\ (k = l \/ ~Greater(a[k], v)) /\ \A m \in k + 1 .. j : Greater(a[m], v)
<1> DEFINE T == {x \in 0 .. j - l : j - x = l \/ ~Greater(a[j - x], v)}
<1>1. T \subseteq Nat /\ j - l \in T
  OBVIOUS
<1> HIDE DEF T
<1>2. PICK x \in T : \A y \in T : x <= y
  BY <1>1, Least
<1> USE DEF T
<1>3. \A m \in (j - x) + 1 .. j : Greater(a[m], v)
  <2> TAKE m \in (j - x) + 1 .. j
  <2>1. j - m \in 0 .. j - l /\ j - (j - m) = m /\ m # l /\ ~(x <= j - m)
    BY <1>2
  <2> QED BY <1>2, <2>1
<1>4. \E y \in l .. j : (y = l \/ ~Greater(a[y], v)) /\ \A m \in y + 1 .. j : Greater(a[m], v)
  <2>1. j - x \in l .. j
    BY <1>2
  <2> QED BY <1>2, <1>3, <2>1
<1> QED BY <1>4 DEF LastNotGreater
-----------------------------------------------------------------------------
(* The state s of the outer loop that puts the entries l to r of array a   *)
(* on either side of value v.                                              *)
Sides(s, v, l, r) ==
  /\ \A x \in l .. s.i - 1 : s.a[x] <= v
  /\ \A x \in s.j + 1 .. r : s.a[x] >= v
  /\ s.i <= s.j => /\ \E x \in s.i .. r : s.a[x] >= v
                   /\ \E x \in l .. s.j : s.a[x] <= v

Passing(s, a, v, L, l, r) ==
  /\ s \in [a : [1 .. L -> Values], i : l .. r + 1, j : l - 1 .. r]
  /\ Rearranged(a, s.a, L, l, r)
  /\ Numbers(a, l, r) => Sides(s, v, l, r)

LEMMA NumbersStay ==
  ASSUME NEW L \in Nat, NEW a, NEW b, NEW l \in 1 .. L, NEW r \in 1 .. L,
         Rearranged(a, b, L, l, r), Numbers(a, l, r)
  PROVE  Numbers(b, l, r)
<1> SUFFICES ASSUME NEW x \in l .. r PROVE b[x] # NaN
  BY DEF Numbers
<1>1. x \in 1 .. L /\ L \in Nat
  OBVIOUS
<1>2. PICK y \in l .. r : b[x] = a[y]
  BY <1>1, MovedValues
<1> QED BY <1>2 DEF Numbers

LEMMA PassKeeps ==
  ASSUME MaxPrio \in Nat, NEW L \in Nat, NEW a \in [1 .. L -> Values], NEW l \in 1 .. L, NEW r \in 1 .. L,
         l < r, NEW v \in Values, Numbers(a, l, r) => v # NaN,
         NEW s, Passing(s, a, v, L, l, r), s.i <= s.j, NEW t, t = Pass(s, v, l, r)
  PROVE  /\ Passing(t, a, v, L, l, r)
         /\ t.i >= l + 1 /\ t.j <= r - 1
         /\ t.i > t.j \/ t.i - t.j >= s.i - s.j + 2
<1>1. PICK k : k = FirstNotLess(s.a, v, s.i, r)
  OBVIOUS
<1>2. PICK m : m = LastNotGreater(s.a, v, l, s.j)
  OBVIOUS
<1>b. PICK b : b = Swapped(s.a, k, m)
  OBVIOUS
<1>3. t = IF k <= m THEN [a |-> b, i |-> k + 1, j |-> m - 1]
                    ELSE [a |-> s.a, i |-> k, j |-> m]
  BY <1>1, <1>2, <1>b DEF Pass
<1>4. /\ s.a \in [1 .. L -> Values] /\ s.i \in l .. r /\ s.j \in l .. r
      /\ s.i \in Nat /\ s.j \in Nat /\ l \in Nat /\ r \in Nat
  BY DEF Passing
<1>5. k \in s.i .. r /\ (k = r \/ ~Less(s.a[k], v)) /\ \A x \in s.i .. k - 1 : Less(s.a[x], v)
  BY <1>1, <1>4, FirstStops
<1>6. m \in l .. s.j /\ (m = l \/ ~Greater(s.a[m], v)) /\ \A x \in m + 1 .. s.j : Greater(s.a[x], v)
  BY <1>2, <1>4, LastStops
<1>7. k \in l .. r /\ m \in l .. r /\ k \in Nat /\ m \in Nat
  BY <1>4, <1>5, <1>6
<1>8. /\ b \in [1 .. L -> Values] /\ Rearranged(s.a, b, L, l, r)
      /\ \A x \in 1 .. L : b[x] = IF x = k THEN s.a[m] ELSE IF x = m THEN s.a[k] ELSE s.a[x]
  <2>1. PICK c : c = s.a
    OBVIOUS
  <2>2. c \in [1 .. L -> Values] /\ b = Swapped(c, k, m)
    BY <1>4, <1>b, <2>1
  <2>3. /\ b \in [1 .. L -> Values] /\ Rearranged(c, b, L, l, r)
        /\ \A x \in 1 .. L : b[x] = IF x = k THEN c[m] ELSE IF x = m THEN c[k] ELSE c[x]
    BY <1>7, <2>2, SwapMoves
  <2> QED BY <2>1, <2>3
<1>9. Rearranged(a, s.a, L, l, r) /\ Rearranged(a, b, L, l, r)
  <2>1. Rearranged(a, s.a, L, l, r)
    BY DEF Passing
  <2> QED BY <1>4, <1>8, <2>1, MovedTwice
<1>10. t.i >= l + 1 /\ t.j <= r - 1 /\ (t.i > t.j \/ t.i - t.j >= s.i - s.j + 2)
       /\ t \in [a : [1 .. L -> Values], i : l .. r + 1, j : l - 1 .. r]
  <2>1. CASE k <= m
    <3>1. t = [a |-> b, i |-> k + 1, j |-> m - 1] /\ b \in [1 .. L -> Values]
      BY <1>3, <1>8, <2>1
    <3>2. k + 1 \in l .. r + 1 /\ m - 1 \in l - 1 .. r /\ k + 1 >= l + 1 /\ m - 1 <= r - 1
      BY <1>7
    <3>3. (k + 1) - (m - 1) >= s.i - s.j + 2
      <4>1. PICK si, sj \in Nat : si = s.i /\ sj = s.j
        BY <1>4
      <4>2. k >= si /\ m <= sj
        BY <1>4, <1>5, <1>6, <1>7, <4>1
      <4> QED BY <1>7, <4>1, <4>2
    <3> QED BY <3>1, <3>2, <3>3
  <2>2. CASE ~(k <= m)
    BY <1>3, <1>4, <1>5, <1>6, <1>7, <2>2
  <2> QED BY <2>1, <2>2
<1>11. Rearranged(a, t.a, L, l, r)
  BY <1>3, <1>9
<1>12. ASSUME Numbers(a, l, r) PROVE Sides(t, v, l, r)
  <2>1. Sides(s, v, l, r) /\ Numbers(s.a, l, r) /\ v # NaN /\ v \in Int
    BY <1>9, <1>12, NumbersStay, ValuesAreIntegers DEF Passing
  <2>2. \A x \in l .. r : /\ s.a[x] \in Int
                          /\ Less(s.a[x], v) <=> s.a[x] < v
                          /\ Greater(s.a[x], v) <=> s.a[x] > v
    <3> TAKE x \in l .. r
    <3>1. s.a[x] \in Values /\ s.a[x] # NaN
      BY <1>4, <2>1 DEF Numbers
    <3> QED BY <2>1, <3>1, ValuesAreIntegers DEF Less, Greater
  <2>3. \A x \in l .. k - 1 : s.a[x] <= v
    BY SMTT(40), <1>4, <1>5, <1>7, <2>1, <2>2 DEF Sides
  <2>4. \A x \in m + 1 .. r : s.a[x] >= v
    BY SMTT(40), <1>4, <1>6, <1>7, <2>1, <2>2 DEF Sides
  <2>5. s.a[k] >= v
    <3>1. PICK x \in s.i .. r : s.a[x] >= v
      BY <2>1 DEF Sides
    <3>2. CASE k # r
      BY <1>5, <1>7, <2>1, <2>2, <3>2
    <3>3. CASE k = r
      <4>1. x \in l .. r /\ s.a[x] \in Int
        BY <1>4, <2>2, <3>1
      <4>2. x \notin s.i .. k - 1
        BY <1>5, <2>1, <2>2, <3>1, <4>1
      <4> QED BY <1>4, <3>1, <3>3, <4>1, <4>2
    <3> QED BY <3>2, <3>3
  <2>6. s.a[m] <= v
    <3>1. PICK x \in l .. s.j : s.a[x] <= v
      BY <2>1 DEF Sides
    <3>2. CASE m # l
      BY <1>6, <1>7, <2>1, <2>2, <3>2
    <3>3. CASE m = l
      <4>1. x \in l .. r /\ s.a[x] \in Int
        BY <1>4, <2>2, <3>1
      <4>2. x \notin m + 1 .. s.j
        BY <1>6, <2>1, <2>2, <3>1, <4>1
      <4> QED BY <1>4, <3>1, <3>3, <4>1, <4>2
    <3> QED BY <3>2, <3>3
  <2>7. CASE k <= m
    <3>2. b[k] = s.a[m] /\ b[m] = s.a[k] /\ \A x \in l .. r : x # k /\ x # m => b[x] = s.a[x]
      BY <1>7, <1>8
    <3>3. \A x \in l .. k : b[x] <= v
      BY <1>7, <2>3, <2>6, <2>7, <3>2
    <3>4. \A x \in m .. r : b[x] >= v
      BY <1>7, <2>4, <2>5, <2>7, <3>2
    <3>5. t.a = b /\ t.i = k + 1 /\ t.j = m - 1
      BY <1>3, <2>7
    <3>6. (k + 1) - 1 = k /\ (m - 1) + 1 = m
      BY <1>7
    <3>7. k + 1 <= m - 1 => m \in k + 1 .. r /\ k \in l .. m - 1 /\ k \in l .. k /\ m \in m .. r
      BY <1>7
    <3> QED BY <3>3, <3>4, <3>5, <3>6, <3>7 DEF Sides
  <2>8. CASE ~(k <= m)
    <3>1. t.a = s.a /\ t.i = k /\ t.j = m
      BY <1>3, <2>8
    <3> QED BY <2>3, <2>4, <2>8, <3>1 DEF Sides
  <2> QED BY <2>7, <2>8
<1> QED BY <1>10, <1>11, <1>12 DEF Passing

(* The passes over the entries l to r of a, one after another.             *)
Passes(f, a, v, l, r, m) ==
  \A n \in 0 .. m :
    f[n] = IF n = 0 THEN [a |-> a, i |-> l, j |-> r]
           ELSE IF f[n - 1].i > f[n - 1].j THEN f[n - 1]
           ELSE Pass(f[n - 1], v, l, r)

LEMMA PassesExist ==
  ASSUME NEW a, NEW v, NEW l, NEW r, NEW m \in Nat
  PROVE  \E f : Passes(f, a, v, l, r, m)
<1> DEFINE Bad == {n \in Nat : ~\E f : Passes(f, a, v, l, r, n)}
<1> SUFFICES ASSUME Bad # {} PROVE FALSE
  OBVIOUS
<1>1. PICK n \in Bad : \A k \in Bad : n <= k
  BY Least
<1> DEFINE Step(f, q) == IF q = 0 THEN [a |-> a, i |-> l, j |-> r]
                         ELSE IF f[q - 1].i > f[q - 1].j THEN f[q - 1]
                         ELSE Pass(f[q - 1], v, l, r)
<1>2. CASE n = 0
  <2> DEFINE g == [q \in {0} |-> [a |-> a, i |-> l, j |-> r]]
  <2>1. Passes(g, a, v, l, r, 0)
    BY DEF Passes
  <2> QED BY <1>1, <1>2, <2>1
<1>3. CASE n # 0
  <2>1. n - 1 \in Nat /\ n \in Nat
    BY <1>3
  <2>2. PICK f : Passes(f, a, v, l, r, n - 1)
    BY <1>1, <2>1
  <2> DEFINE g == [q \in 0 .. n |-> IF q < n THEN f[q] ELSE Step(f, n)]
  <2>3. ASSUME NEW q \in 0 .. n PROVE g[q] = Step(g, q)
    <3>1. CASE q = 0
      BY <2>1, <2>2, <3>1, <1>3 DEF Passes
    <3>2. CASE q # 0
      <4>1. q - 1 \in 0 .. n - 1 /\ g[q - 1] = f[q - 1]
        BY <2>1, <3>2
      <4>2. Step(g, q) = Step(f, q)
        BY <4>1
      <4>3. g[q] = Step(f, q)
        <5>1. CASE q = n
          BY <2>1, <5>1
        <5>2. CASE q # n
          <6>1. q \in 0 .. n - 1 /\ g[q] = f[q]
            BY <2>1, <5>2
          <6>2. f[q] = Step(f, q)
            BY <2>2, <6>1 DEF Passes
          <6> QED BY <6>1, <6>2
        <5> QED BY <5>1, <5>2
      <4> QED BY <4>2, <4>3
    <3> QED BY <3>1, <3>2
  <2> HIDE DEF g
  <2>4. Passes(g, a, v, l, r, n)
    BY <2>3 DEF Passes
  <2> QED BY <1>1, <2>4
<1> QED BY <1>2, <1>3

(* Partition is the last of as many passes as there are entries.           *)
LEMMA PartitionPasses ==
  ASSUME NEW a, NEW v, NEW l \in Int, NEW r \in Int, r - l + 1 \in Nat
  PROVE  \E f : Passes(f, a, v, l, r, r - l + 1) /\ Partition(a, v, l, r) = f[r - l + 1]
<1>0. PICK m \in Nat : m = r - l + 1
  OBVIOUS
<1>1. PICK g : Passes(g, a, v, l, r, m)
  BY PassesExist
<1> DEFINE body(f) == [n \in 0 .. r - l + 1 |->
                         IF n = 0 THEN [a |-> a, i |-> l, j |-> r]
                         ELSE IF f[n - 1].i > f[n - 1].j THEN f[n - 1]
                         ELSE Pass(f[n - 1], v, l, r)]
           f == [n \in 0 .. r - l + 1 |-> g[n]]
<1>2. f = body(f)
  <2>1. ASSUME NEW n \in 0 .. m PROVE f[n] = body(f)[n]
    <3>1. CASE n = 0
      BY <1>0, <1>1, <3>1 DEF Passes
    <3>2. CASE n # 0
      <4>1. f[n - 1] = g[n - 1] /\ f[n] = g[n]
        BY <1>0, <3>2
      <4> QED BY <1>0, <1>1, <3>2, <4>1 DEF Passes
    <3> QED BY <3>1, <3>2
  <2> QED BY <1>0, <2>1
<1> HIDE DEF f
<1> DEFINE c == CHOOSE x : x = body(x)
<1>3. c = body(c)
  BY <1>2
<1>4. Partition(a, v, l, r) = c[r - l + 1]
  BY DEF Partition
<1> HIDE DEF c
<1>5. Passes(c, a, v, l, r, m)
  BY <1>0, <1>3 DEF Passes
<1> QED BY <1>0, <1>4, <1>5

(* A partition ends with i past j, each of them strictly inside the        *)
(* segment, and with the small values left of the great ones.              *)
LEMMA PartitionSplits ==
  ASSUME MaxPrio \in Nat, NEW L \in Nat, NEW a \in [1 .. L -> Values], NEW l \in 1 .. L, NEW r \in 1 .. L,
         l < r, NEW v, v = a[(l + r) \div 2], NEW p, p = Partition(a, v, l, r)
  PROVE  /\ Passing(p, a, v, L, l, r)
         /\ p.i > p.j /\ p.i >= l + 1 /\ p.j <= r - 1
<1>1. l \in Nat /\ r \in Nat /\ (l + r) \div 2 \in l .. r /\ (l + r) \div 2 \in 1 .. L /\ r - l + 1 \in Nat
  OBVIOUS
<1>2. v \in Values /\ (Numbers(a, l, r) => v # NaN)
  BY <1>1 DEF Numbers
<1>3. PICK m \in Nat : m = r - l + 1
  BY <1>1
<1>4. PICK f : Passes(f, a, v, l, r, m) /\ p = f[m]
  BY <1>1, <1>3, PartitionPasses
<1>5. Passing([a |-> a, i |-> l, j |-> r], a, v, L, l, r)
  <2>1. [a |-> a, i |-> l, j |-> r] \in [a : [1 .. L -> Values], i : l .. r + 1, j : l - 1 .. r]
    BY <1>1
  <2>2. ASSUME Numbers(a, l, r) PROVE Sides([a |-> a, i |-> l, j |-> r], v, l, r)
    <3>1. v \in Int
      BY <1>2, ValuesAreIntegers
    <3>2. v <= v /\ v >= v
      BY <3>1
    <3> QED BY <1>1, <3>2 DEF Sides
  <2> QED BY <1>1, <2>1, <2>2, NothingMoved DEF Passing
<1> DEFINE Done(n) == /\ Passing(f[n], a, v, L, l, r)
                      /\ n >= 1 => f[n].i >= l + 1 /\ f[n].j <= r - 1
                      /\ f[n].i > f[n].j \/ f[n].i - f[n].j >= 2 * n - (r - l)
           Bad == {n \in 0 .. m : ~Done(n)}
<1>6. Bad = {}
  <2> SUFFICES ASSUME Bad # {} PROVE FALSE
    OBVIOUS
  <2>1. PICK n \in Bad : \A k \in Bad : n <= k
    <3>1. Bad \subseteq Nat
      OBVIOUS
    <3> HIDE DEF Bad
    <3> QED BY <3>1, Least
  <2>2. CASE n = 0
    <3>1. f[0] = [a |-> a, i |-> l, j |-> r]
      BY <1>4 DEF Passes
    <3>2. f[0].i - f[0].j >= 2 * 0 - (r - l)
      BY <1>1, <3>1
    <3>3. Done(0)
      BY <1>5, <3>1, <3>2
    <3> QED BY <2>1, <2>2, <3>3
  <2>3. CASE n # 0
    <3>1. n \in Nat /\ n >= 1 /\ n - 1 \in 0 .. m /\ n - 1 \notin Bad
      BY <2>1, <2>3
    <3>2. Done(n - 1)
      BY <3>1
    <3>3. PICK s : s = f[n - 1]
      OBVIOUS
    <3>4. /\ Passing(s, a, v, L, l, r)
          /\ n - 1 >= 1 => s.i >= l + 1 /\ s.j <= r - 1
          /\ s.i > s.j \/ s.i - s.j >= 2 * (n - 1) - (r - l)
      BY <3>2, <3>3
    <3>5. f[n] = IF s.i > s.j THEN s ELSE Pass(s, v, l, r)
      BY <1>4, <2>1, <2>3, <3>3 DEF Passes
    <3>6. s.i \in Int /\ s.j \in Int
      BY <1>1, <3>4 DEF Passing
    <3>7. CASE s.i > s.j
      <4>1. n - 1 # 0
        <5>1. f[0] = [a |-> a, i |-> l, j |-> r]
          BY <1>4 DEF Passes
        <5> QED BY <1>1, <3>3, <3>7, <5>1
      <4>2. f[n] = s /\ n - 1 >= 1
        BY <3>1, <3>5, <3>7, <4>1
      <4>3. Done(n)
        BY <3>4, <3>7, <4>2
      <4> QED BY <2>1, <4>3
    <3>8. CASE ~(s.i > s.j)
      <4>1. PICK t : t = Pass(s, v, l, r)
        OBVIOUS
      <4>2. s.i <= s.j
        BY <3>6, <3>8
      <4>3. /\ Passing(t, a, v, L, l, r) /\ t.i >= l + 1 /\ t.j <= r - 1
            /\ t.i > t.j \/ t.i - t.j >= s.i - s.j + 2
        BY <1>2, <3>4, <4>1, <4>2, PassKeeps
      <4>4. t.i \in Int /\ t.j \in Int
        BY <1>1, <4>3 DEF Passing
      <4>5. t.i > t.j \/ t.i - t.j >= 2 * n - (r - l)
        <5>1. s.i - s.j >= 2 * (n - 1) - (r - l)
          BY <3>4, <3>8
        <5>2. \A x, y, z, d \in Int : x >= 2 * (z - 1) - d /\ y >= x + 2 => y >= 2 * z - d
          OBVIOUS
        <5>3. s.i - s.j \in Int /\ t.i - t.j \in Int /\ n \in Int /\ r - l \in Int
          <6>1. \A x, y \in Int : x - y \in Int
            OBVIOUS
          <6>2. r \in Int /\ l \in Int
            BY <1>1
          <6>3. n \in Int
            BY <3>1
          <6> QED BY <3>6, <4>4, <6>1, <6>2, <6>3, Zenon
        <5>4. CASE t.i > t.j
          BY <5>4
        <5>5. CASE t.i - t.j >= s.i - s.j + 2
          BY <5>1, <5>2, <5>3, <5>5
        <5> QED BY <4>3, <5>4, <5>5
      <4>6. f[n] = t
        BY <3>5, <3>8, <4>1
      <4>7. Done(n)
        BY <4>3, <4>5, <4>6
      <4> QED BY <2>1, <4>7
    <3> QED BY <3>7, <3>8
  <2> QED BY <2>2, <2>3
<1>7. Done(m)
  BY <1>6
<1>8. Passing(p, a, v, L, l, r) /\ p.i >= l + 1 /\ p.j <= r - 1 /\ (p.i > p.j \/ p.i - p.j >= 2 * m - (r - l))
  BY <1>1, <1>3, <1>4, <1>7
<1>9. p.i \in Int /\ p.j \in Int
  BY <1>1, <1>8 DEF Passing
<1> QED BY <1>1, <1>3, <1>8, <1>9
-----------------------------------------------------------------------------
(* g sorts segments of at most m entries, as the code's recursion says.    *)
Sorts(g, m) ==
  \A n \in 0 .. m :
    g[n] = [q \in Calls |->
              IF n = 0 \/ q.left >= q.right THEN q.a
              ELSE LET p == Partition(q.a, q.a[(q.left + q.right) \div 2], q.left, q.right)
                       b == g[n - 1][Call(p.a, q.left, p.j)]
                   IN g[n - 1][Call(b, p.i, q.right)]]

LEMMA SortsExists ==
  ASSUME NEW m \in Nat
  PROVE  \E g : Sorts(g, m)
<1> DEFINE Bad == {n \in Nat : ~\E g : Sorts(g, n)}
<1> SUFFICES ASSUME Bad # {} PROVE FALSE
  OBVIOUS
<1>1. PICK n \in Bad : \A k \in Bad : n <= k
  BY Least
<1> DEFINE Level(h, q) == [c \in Calls |->
              IF q = 0 \/ c.left >= c.right THEN c.a
              ELSE LET p == Partition(c.a, c.a[(c.left + c.right) \div 2], c.left, c.right)
                       b == h[Call(p.a, c.left, p.j)]
                   IN h[Call(b, p.i, c.right)]]
<1>2. ASSUME NEW g, NEW k \in Nat
      PROVE  Sorts(g, k) <=> \A q \in 0 .. k : g[q] = Level(g[q - 1], q)
  BY DEF Sorts
<1>3. \A h, d : Level(h, 0) = Level(d, 0)
  OBVIOUS
<1> HIDE DEF Level
<1>4. CASE n = 0
  <2> DEFINE g == [q \in {0} |-> Level(0, 0)]
  <2>1. \A q \in 0 .. 0 : g[q] = Level(g[q - 1], q)
    BY <1>3
  <2> HIDE DEF g
  <2>2. Sorts(g, 0)
    BY <1>2, <2>1
  <2> QED BY <1>1, <1>4, <2>2
<1>5. CASE n # 0
  <2>1. n - 1 \in Nat /\ n \in Nat
    BY <1>5
  <2>2. PICK f : Sorts(f, n - 1)
    BY <1>1, <2>1
  <2>3. \A q \in 0 .. n - 1 : f[q] = Level(f[q - 1], q)
    BY <1>2, <2>1, <2>2
  <2> DEFINE g == [q \in 0 .. n |-> IF q < n THEN f[q] ELSE Level(f[n - 1], n)]
  <2>4. ASSUME NEW q \in 0 .. n PROVE g[q] = Level(g[q - 1], q)
    <3>1. CASE q = 0
      <4>1. g[0] = f[0] /\ 0 \in 0 .. n - 1
        BY <2>1, <1>5
      <4>2. f[0] = Level(f[0 - 1], 0)
        BY <2>3, <4>1
      <4> QED BY <1>3, <3>1, <4>1, <4>2
    <3>2. CASE q # 0
      <4>1. g[q - 1] = f[q - 1]
        BY <2>1, <3>2
      <4>2. CASE q = n
        BY <2>1, <4>1, <4>2
      <4>3. CASE q # n
        <5>1. q \in 0 .. n - 1 /\ g[q] = f[q]
          BY <2>1, <4>3
        <5> QED BY <2>3, <4>1, <5>1
      <4> QED BY <4>2, <4>3
    <3> QED BY <3>1, <3>2
  <2> HIDE DEF g
  <2>5. Sorts(g, n)
    BY <1>2, <2>1, <2>4
  <2> QED BY <1>1, <2>5
<1> QED BY <1>4, <1>5

(* The recursion of QuickSort has a solution.                              *)
LEMMA QuickSortSorts ==
  ASSUME SampleSize \in Nat
  PROVE  Sorts(QuickSort, SampleSize)
<1>1. PICK g : Sorts(g, SampleSize)
  BY SortsExists
<1> DEFINE body(f) == [n \in 0 .. SampleSize |->
              [q \in Calls |->
                 IF n = 0 \/ q.left >= q.right THEN q.a
                 ELSE LET p == Partition(q.a, q.a[(q.left + q.right) \div 2], q.left, q.right)
                          b == f[n - 1][Call(p.a, q.left, p.j)]
                      IN f[n - 1][Call(b, p.i, q.right)]]]
           f == [n \in 0 .. SampleSize |-> g[n]]
<1>2. f = body(f)
  <2>1. ASSUME NEW n \in 0 .. SampleSize PROVE f[n] = body(f)[n]
    <3>1. CASE n = 0
      BY <1>1, <3>1 DEF Sorts
    <3>2. CASE n # 0
      <4>1. f[n - 1] = g[n - 1] /\ f[n] = g[n]
        BY <3>2
      <4> QED BY <1>1, <3>2, <4>1 DEF Sorts
    <3> QED BY <3>1, <3>2
  <2> QED BY <2>1
<1> HIDE DEF f
<1>3. QuickSort = body(QuickSort)
  BY <1>2 DEF QuickSort
<1> QED BY <1>3 DEF Sorts

(* What a call does, by its definition.                                    *)
CallsItself(n, a, l, r) ==
  /\ n = 0 \/ l >= r => QuickSort[n][Call(a, l, r)] = a
  /\ \A v, p, b : /\ ~(n = 0 \/ l >= r) /\ v = a[(l + r) \div 2] /\ p = Partition(a, v, l, r)
                  /\ b = QuickSort[n - 1][Call(p.a, l, p.j)]
                  => QuickSort[n][Call(a, l, r)] = QuickSort[n - 1][Call(b, p.i, r)]

LEMMA CallStep ==
  ASSUME SampleSize \in Nat, NEW n \in 0 .. SampleSize, NEW L \in Nat, NEW a \in [1 .. L -> Values],
         NEW l \in Int, NEW r \in Int
  PROVE  CallsItself(n, a, l, r)
<1>1. a \in Seq(Prios \cup {NaN})
  BY DEF Values
<1>2. PICK c : c = Call(a, l, r)
  OBVIOUS
<1>3. c \in Calls /\ c.a = a /\ c.left = l /\ c.right = r
  BY <1>1, <1>2 DEF Calls, Call
<1>4. QuickSort[n] = [q \in Calls |->
              IF n = 0 \/ q.left >= q.right THEN q.a
              ELSE LET t == Partition(q.a, q.a[(q.left + q.right) \div 2], q.left, q.right)
                       u == QuickSort[n - 1][Call(t.a, q.left, t.j)]
                   IN QuickSort[n - 1][Call(u, t.i, q.right)]]
  BY QuickSortSorts DEF Sorts
<1>5. QuickSort[n][c] =
              IF n = 0 \/ c.left >= c.right THEN c.a
              ELSE LET t == Partition(c.a, c.a[(c.left + c.right) \div 2], c.left, c.right)
                       u == QuickSort[n - 1][Call(t.a, c.left, t.j)]
                   IN QuickSort[n - 1][Call(u, t.i, c.right)]
  BY <1>3, <1>4
<1>6. ASSUME n = 0 \/ l >= r PROVE QuickSort[n][Call(a, l, r)] = a
  <2>1. QuickSort[n][c] = c.a
    BY <1>3, <1>5, <1>6
  <2> QED BY <1>2, <1>3, <2>1
<1>7. ASSUME NEW v, NEW p, NEW b, ~(n = 0 \/ l >= r), v = a[(l + r) \div 2], p = Partition(a, v, l, r),
             b = QuickSort[n - 1][Call(p.a, l, p.j)]
      PROVE  QuickSort[n][Call(a, l, r)] = QuickSort[n - 1][Call(b, p.i, r)]
  BY <1>2, <1>3, <1>5, <1>7
<1> QED BY <1>6, <1>7 DEF CallsItself

(* b is a with the entries l to r sorted, as far as they can be.           *)
Outcome(a, b, L, l, r) ==
  /\ b \in [1 .. L -> Values]
  /\ Rearranged(a, b, L, l, r)
  /\ Numbers(a, l, r) => Sorted(b, l, r)

(* Sorting both sides of a partition sorts the whole.                      *)
LEMMA SidesSorted ==
  ASSUME MaxPrio \in Nat, NEW L \in Nat, NEW a \in [1 .. L -> Values], NEW l \in 1 .. L, NEW r \in 1 .. L,
         NEW v \in Values, NEW p, Passing(p, a, v, L, l, r), p.i > p.j, p.i >= l + 1, p.j <= r - 1,
         NEW b, Outcome(p.a, b, L, l, p.j), NEW c, Outcome(b, c, L, p.i, r)
  PROVE  Outcome(a, c, L, l, r)
<1>1. PICK i : i = p.i
  OBVIOUS
<1>2. PICK j : j = p.j
  OBVIOUS
<1>3. PICK d : d = p.a
  OBVIOUS
<1>4. /\ d \in [1 .. L -> Values] /\ i \in l + 1 .. r + 1 /\ j \in l - 1 .. r - 1 /\ i > j
      /\ l \in Nat /\ r \in Nat /\ i \in Int /\ j \in Int /\ r <= L /\ l >= 1
  <2>1. /\ p.a \in [1 .. L -> Values] /\ p.i \in l .. r + 1 /\ p.j \in l - 1 .. r
    BY DEF Passing
  <2> QED BY <1>1, <1>2, <1>3, <2>1
<1>5. Rearranged(a, d, L, l, r) /\ (Numbers(a, l, r) => Sides(p, v, l, r))
  BY <1>3 DEF Passing
<1>6. Rearranged(d, b, L, l, j) /\ (Numbers(d, l, j) => Sorted(b, l, j)) /\ b \in [1 .. L -> Values]
  BY <1>2, <1>3 DEF Outcome
<1>7. Rearranged(b, c, L, i, r) /\ (Numbers(b, i, r) => Sorted(c, i, r)) /\ c \in [1 .. L -> Values]
  BY <1>1 DEF Outcome
<1>8. Rearranged(d, b, L, l, r) /\ Rearranged(b, c, L, l, r)
  BY <1>4, <1>6, <1>7, MovedWithin
<1>9. Rearranged(a, c, L, l, r)
  <2>1. Rearranged(a, b, L, l, r)
    BY <1>4, <1>5, <1>8, MovedTwice
  <2> QED BY <1>4, <1>8, <2>1, MovedTwice
<1>10. ASSUME Numbers(a, l, r) PROVE Sorted(c, l, r)
  <2>1. Numbers(d, l, r)
    BY <1>5, <1>10, NumbersStay
  <2>2. Numbers(b, l, r)
    BY <1>8, <2>1, NumbersStay
  <2>3. Sorted(b, l, j) /\ Sorted(c, i, r)
    BY <1>4, <1>6, <1>7, <2>1, <2>2 DEF Numbers
  <2>4. /\ \A x \in l .. i - 1 : d[x] <= v
        /\ \A x \in j + 1 .. r : d[x] >= v
    BY <1>1, <1>2, <1>3, <1>5, <1>10 DEF Sides
  <2>5. \A x \in l .. i - 1 : b[x] <= v
    <3> TAKE x \in l .. i - 1
    <3>1. x \in 1 .. L
      BY <1>4
    <3>2. CASE x \in l .. j
      <4>1. PICK y \in l .. j : b[x] = d[y]
        BY <1>6, <3>1, <3>2, MovedValues
      <4> QED BY <1>4, <2>4, <4>1
    <3>3. CASE x \notin l .. j
      BY <1>6, <2>4, <3>1, <3>3, MovedValues
    <3> QED BY <3>2, <3>3
  <2>6. \A x \in j + 1 .. r : b[x] >= v
    <3> TAKE x \in j + 1 .. r
    <3>1. x \in 1 .. L /\ x \notin l .. j
      BY <1>4
    <3>2. b[x] = d[x]
      BY <1>6, <3>1, MovedValues
    <3> QED BY <2>4, <3>1, <3>2
  <2>7. \A x \in 1 .. L : x < i => c[x] = b[x]
    <3> TAKE x \in 1 .. L
    <3>1. x < i => x \notin i .. r
      BY <1>4
    <3> QED BY <1>7, <3>1, MovedValues
  <2>8. \A x \in i .. r : c[x] >= v
    <3> TAKE x \in i .. r
    <3>1. x \in 1 .. L /\ x \in i .. r
      BY <1>4
    <3>2. /\ b \in [1 .. L -> Values] /\ c \in [1 .. L -> Values]
          /\ i \in Int /\ r \in Int /\ L \in Nat
      BY <1>4, <1>6, <1>7
    <3>3. \E y \in i .. r : c[x] = b[y]
      <4>1. Rearranged(b, c, L, i, r) /\ L \in Nat
        BY <1>7
      <4>2. x \in i .. r => \E y \in i .. r : y \in 1 .. L /\ c[x] = b[y]
        BY <3>1, <4>1, MovedValues
      <4> QED BY <3>1, <4>2
    <3>4. PICK y \in i .. r : c[x] = b[y]
      BY <3>3
    <3>5. y \in j + 1 .. r
      BY <1>4
    <3> QED BY <2>6, <3>4, <3>5
  <2>9. \A x \in 1 .. L : c[x] \in Int /\ b[x] \in Int /\ v \in Int
    BY <1>6, <1>7, ValuesAreIntegers
  <2> SUFFICES ASSUME NEW x \in l .. r, NEW y \in l .. r, x < y PROVE c[x] <= c[y]
    BY DEF Sorted
  <2>10. x \in 1 .. L /\ y \in 1 .. L /\ x \in Int /\ y \in Int
    BY <1>4
  <2>11. CASE y <= j
    <3>1. x \in l .. j /\ y \in l .. j /\ x < i /\ y < i
      BY <1>4, <2>10, <2>11
    <3> QED BY <2>3, <2>7, <2>10, <3>1 DEF Sorted
  <2>12. CASE x >= i
    <3>1. x \in i .. r /\ y \in i .. r
      BY <1>4, <2>10, <2>12
    <3> QED BY <2>3, <3>1 DEF Sorted
  <2>13. CASE x < i /\ y > j
    <3>1. c[x] <= v
      BY <1>4, <2>5, <2>7, <2>10, <2>13
    <3>2. c[y] >= v
      BY <1>4, <2>6, <2>7, <2>8, <2>10, <2>13
    <3> QED BY <2>9, <2>10, <3>1, <3>2
  <2> QED BY <1>4, <2>10, <2>11, <2>12, <2>13
<1> QED BY <1>7, <1>9, <1>10 DEF Outcome

(* The sort, for segments of any size up to the size of the sample.        *)
LEMMA QuickSortCorrect ==
  ASSUME MaxPrio \in Nat, SampleSize \in Nat, NEW L \in Nat
  PROVE  \A n \in 0 .. SampleSize : \A a \in [1 .. L -> Values], l \in 1 .. L + 1, r \in 0 .. L :
           r - l + 1 <= n => Outcome(a, QuickSort[n][Call(a, l, r)], L, l, r)
<1> DEFINE Good(n) == \A a \in [1 .. L -> Values], l \in 1 .. L + 1, r \in 0 .. L :
                        r - l + 1 <= n => Outcome(a, QuickSort[n][Call(a, l, r)], L, l, r)
           Bad == {n \in 0 .. SampleSize : ~Good(n)}
<1> SUFFICES ASSUME Bad # {} PROVE FALSE
  OBVIOUS
<1> HIDE DEF Good
<1>1. PICK n \in Bad : \A k \in Bad : n <= k
  <2>1. Bad \subseteq Nat
    OBVIOUS
  <2> HIDE DEF Bad
  <2> QED BY <2>1, Least
<1>2. n \in 0 .. SampleSize /\ ~Good(n)
  OBVIOUS
<1>3. n >= 1 => Good(n - 1) /\ n - 1 \in 0 .. SampleSize
  <2> SUFFICES ASSUME n >= 1 PROVE Good(n - 1) /\ n - 1 \in 0 .. SampleSize
    OBVIOUS
  <2>1. n - 1 \in 0 .. SampleSize /\ n - 1 \notin Bad
    BY <1>1, <1>2
  <2> QED BY <2>1
<1> HIDE DEF Bad
<1>4. ASSUME NEW a \in [1 .. L -> Values], NEW l \in 1 .. L + 1, NEW r \in 0 .. L, r - l + 1 <= n
      PROVE  Outcome(a, QuickSort[n][Call(a, l, r)], L, l, r)
  <2>1. l \in Int /\ r \in Int /\ n \in Int
    BY <1>2
  <2>2. CASE l >= r
    <3>1. QuickSort[n][Call(a, l, r)] = a
      <4>1. CallsItself(n, a, l, r)
        BY <1>2, <2>1, CallStep
      <4> QED BY <2>2, <4>1 DEF CallsItself
    <3>2. Sorted(a, l, r)
      BY <2>1, <2>2 DEF Sorted
    <3> QED BY <3>1, <3>2, NothingMoved DEF Outcome
  <2>3. CASE l < r
    <3>1. n >= 1 /\ l \in 1 .. L /\ r \in 1 .. L /\ (l + r) \div 2 \in 1 .. L
      BY <1>2, <1>4, <2>1, <2>3
    <3>2. PICK v \in Values : v = a[(l + r) \div 2]
      BY <3>1
    <3>3. PICK p : p = Partition(a, v, l, r)
      OBVIOUS
    <3>4. PICK b : b = QuickSort[n - 1][Call(p.a, l, p.j)]
      OBVIOUS
    <3>5. PICK c : c = QuickSort[n - 1][Call(b, p.i, r)]
      OBVIOUS
    <3>6. QuickSort[n][Call(a, l, r)] = c
      <4>1. CallsItself(n, a, l, r)
        BY <1>2, <2>1, CallStep
      <4>2. ~(n = 0 \/ l >= r)
        BY <2>1, <2>3, <3>1
      <4> QED BY <3>2, <3>3, <3>4, <3>5, <4>1, <4>2 DEF CallsItself
    <3>7. Passing(p, a, v, L, l, r) /\ p.i > p.j /\ p.i >= l + 1 /\ p.j <= r - 1
      BY <2>3, <3>1, <3>2, <3>3, PartitionSplits
    <3>8. p.a \in [1 .. L -> Values] /\ p.i \in l .. r + 1 /\ p.j \in l - 1 .. r
      BY <3>7 DEF Passing
    <3>9. PICK d : d = p.a
      OBVIOUS
    <3>10. PICK i : i = p.i
      OBVIOUS
    <3>11. PICK j : j = p.j
      OBVIOUS
    <3>12. /\ d \in [1 .. L -> Values] /\ i \in 1 .. L + 1 /\ j \in 0 .. L
           /\ j - l + 1 <= n - 1 /\ r - i + 1 <= n - 1
      <4>1. i \in l .. r + 1 /\ i >= l + 1 /\ j \in l - 1 .. r /\ j <= r - 1
        BY <3>7, <3>8, <3>10, <3>11
      <4>2. l \in 1 .. L /\ r \in 1 .. L /\ r - l + 1 <= n /\ L \in Nat
        BY <1>4, <3>1
      <4>3. d \in [1 .. L -> Values]
        BY <3>8, <3>9
      <4>4. i \in Int /\ j \in Int
        BY <2>1, <4>1
      <4>5. i >= l + 1 /\ i <= r + 1 /\ j >= l - 1 /\ j <= r - 1
        BY <2>1, <4>1, <4>4
      <4>6. l >= 1 /\ r <= L
        BY <2>1, <4>2
      <4> QED BY <2>1, <4>2, <4>3, <4>4, <4>5, <4>6
    <3>13. Outcome(d, b, L, l, j)
      BY <1>3, <3>1, <3>4, <3>9, <3>11, <3>12 DEF Good
    <3>14. b \in [1 .. L -> Values]
      BY <3>13 DEF Outcome
    <3>15. Outcome(b, c, L, i, r)
      BY <1>3, <3>1, <3>5, <3>10, <3>12, <3>14 DEF Good
    <3>16. Outcome(p.a, b, L, l, p.j) /\ Outcome(b, c, L, p.i, r)
      BY <3>9, <3>10, <3>11, <3>13, <3>15
    <3>17. Outcome(a, c, L, l, r)
      BY <3>1, <3>7, <3>16, SidesSorted
    <3> QED BY <3>6, <3>17
  <2> QED BY <2>1, <2>2, <2>3
<1> QED BY <1>2, <1>4 DEF Good
-----------------------------------------------------------------------------
(* Entries that were only moved about occur as often as they did.          *)
LEMMA MovedOccur ==
  ASSUME NEW L \in Nat, NEW a \in [1 .. L -> Values], NEW b \in [1 .. L -> Values], NEW l, NEW r,
         Rearranged(a, b, L, l, r), NEW p
  PROVE  Occurrences(b, p) = Occurrences(a, p)
<1> DEFINE A == {k \in 1 .. L : a[k] = p}
           B == {k \in 1 .. L : b[k] = p}
<1>1. PICK f \in [1 .. L -> 1 .. L] :
        /\ \A x, y \in 1 .. L : f[x] = f[y] => x = y
        /\ \A y \in 1 .. L : \E x \in 1 .. L : f[x] = y
        /\ \A x \in 1 .. L : b[x] = a[f[x]]
  BY DEF Rearranged
<1> DEFINE g == [x \in B |-> f[x]]
<1>2. g \in Injection(B, A)
  <2>1. \A x \in B : f[x] \in A
    BY <1>1
  <2> QED BY <1>1, <2>1 DEF Injection, IsInjective
<1>3. \A y \in A : \E x \in B : g[x] = y
  <2> TAKE y \in A
  <2>1. PICK x \in 1 .. L : f[x] = y
    BY <1>1
  <2>2. x \in B
    BY <1>1, <2>1
  <2> QED BY <2>1, <2>2
<1>4. g \in Bijection(B, A)
  BY <1>2, <1>3 DEF Injection, Surjection, Bijection
<1>5. IsFiniteSet(B)
  <2>1. IsFiniteSet(1 .. L)
    BY FS_Interval
  <2> QED BY <2>1, FS_Subset
<1>6. Cardinality(A) = Cardinality(B)
  <2> HIDE DEF A, B, g
  <2> QED BY <1>4, <1>5, FS_Bijection DEF ExistsBijection
<1>7. DOMAIN a = 1 .. L /\ DOMAIN b = 1 .. L
  OBVIOUS
<1> QED BY <1>6, <1>7 DEF Occurrences

(* set is the sample that was drawn, sorted as far as it can be.           *)
SortInv == \E L \in Nat : /\ drawn \in [1 .. L -> Values]
                          /\ Outcome(drawn, set, L, 1, L)

(* The one step there is leads from an empty sample to a sorted one.       *)
LEMMA SortInvariant == SampleSpec => []SortInv
<1>1. SampleInit => SortInv
  <2> SUFFICES ASSUME SampleInit PROVE SortInv
    OBVIOUS
  <2>1. drawn = << >> /\ set = << >>
    BY DEF SampleInit
  <2>2. drawn \in [1 .. 0 -> Values] /\ set = drawn
    BY <2>1
  <2>3. Rearranged(drawn, set, 0, 1, 0)
    BY <2>2, NothingMoved
  <2>4. Sorted(set, 1, 0)
    BY DEF Sorted
  <2> QED BY <2>2, <2>3, <2>4 DEF SortInv, Outcome
<1>2. SortInv /\ [SampleNext]_sampleVars => SortInv'
  <2> SUFFICES ASSUME SortInv, [SampleNext]_sampleVars PROVE SortInv'
    OBVIOUS
  <2>1. CASE SampleNext
    <3>1. PICK n \in 1 .. SampleSize : \E s \in [1 .. n -> Prios \cup {NaN}] : Sample(s)
      BY <2>1 DEF SampleNext
    <3>2. PICK s \in [1 .. n -> Prios \cup {NaN}] : Sample(s)
      BY <3>1
    <3>3. n \in Nat /\ n \in 0 .. SampleSize /\ s \in [1 .. n -> Values] /\ Len(s) = n
      BY <3>2, SampleAssumption DEF Values
    <3>4. drawn' = s /\ set' = QuickSort[n][Call(s, 1, n)]
      BY <3>2, <3>3 DEF Sample
    <3>5. 1 \in 1 .. n + 1 /\ n \in 0 .. n /\ n - 1 + 1 <= n
      BY <3>3
    <3>6. Outcome(s, QuickSort[n][Call(s, 1, n)], n, 1, n)
      BY <3>3, <3>5, SampleAssumption, QuickSortCorrect
    <3>7. drawn' \in [1 .. n -> Values] /\ Outcome(drawn', set', n, 1, n)
      BY <3>3, <3>4, <3>6
    <3>8. \E L \in Nat : drawn' \in [1 .. L -> Values] /\ Outcome(drawn', set', L, 1, L)
      BY <3>3, <3>7
    <3> QED BY <3>8 DEF SortInv, Outcome, Rearranged, Numbers, Sorted, Values, Prios, NaN
  <2>2. CASE UNCHANGED sampleVars
    <3>1. drawn' = drawn /\ set' = set
      BY <2>2 DEF sampleVars
    <3>2. \E L \in Nat : drawn' \in [1 .. L -> Values] /\ Outcome(drawn', set', L, 1, L)
      BY <3>1 DEF SortInv
    <3> QED BY <3>2 DEF SortInv, Outcome, Rearranged, Numbers, Sorted, Values, Prios, NaN
  <2> QED BY <2>1, <2>2
<1> QED BY <1>1, <1>2, PTL DEF SampleSpec

(* Sorting the sampled set loses and repeats no item, whatever the         *)
(* priorities: a NaN may spoil the order, never the contents.              *)
THEOREM SortLosesNothing == SampleSpec => []SortKeepsAll
<1>1. ASSUME SortInv PROVE SortKeepsAll
  <2>1. PICK L \in Nat : drawn \in [1 .. L -> Values] /\ Outcome(drawn, set, L, 1, L)
    BY <1>1 DEF SortInv
  <2>2. set \in [1 .. L -> Values] /\ Rearranged(drawn, set, L, 1, L)
    BY <2>1 DEF Outcome
  <2>3. Len(set) = L /\ Len(drawn) = L
    BY <2>1, <2>2
  <2>4. \A p \in Prios \cup {NaN} : Occurrences(set, p) = Occurrences(drawn, p)
    BY <2>1, <2>2, MovedOccur
  <2> QED BY <2>3, <2>4 DEF SortKeepsAll
<1> QED BY <1>1, SortInvariant, PTL

(* A sample of numbers ends in ascending order: get_oc, which takes the    *)
(* last of the set, takes the greatest priority it drew.                   *)
THEOREM SortOrders == SampleSpec => []SortAscending
<1>1. ASSUME SortInv, NaN \notin {drawn[k] : k \in DOMAIN drawn} PROVE Ascending(set)
  <2>1. PICK L \in Nat : drawn \in [1 .. L -> Values] /\ Outcome(drawn, set, L, 1, L)
    BY <1>1 DEF SortInv
  <2>2. set \in [1 .. L -> Values] /\ Len(set) = L /\ DOMAIN drawn = 1 .. L
    BY <2>1 DEF Outcome
  <2>3. Numbers(drawn, 1, L)
    BY <1>1, <2>2 DEF Numbers
  <2>4. Sorted(set, 1, L)
    BY <2>1, <2>3 DEF Outcome
  <2> SUFFICES ASSUME NEW k \in 1 .. L - 1 PROVE set[k] <= set[k + 1]
    BY <2>2 DEF Ascending
  <2>5. k \in 1 .. L /\ k + 1 \in 1 .. L /\ k < k + 1
    OBVIOUS
  <2> QED BY <2>4, <2>5 DEF Sorted
<1>2. SortInv => SortAscending
  BY <1>1 DEF SortAscending
<1> QED BY <1>2, SortInvariant, PTL
=============================================================================
