----------------------------- MODULE RBTreeProofs -----------------------------
(***************************************************************************)
(* Lemmas about RBTree: its loops, its writes, its rotations, and what an  *)
(* insert, a delete and a traversal do to a tree that is laid out as a     *)
(* binary search tree, for any number of items.                            *)
(***************************************************************************)
EXTENDS RBTree, TLAPS, FiniteSetTheorems

-----------------------------------------------------------------------------
(* Loops.                                                                  *)

(* f is what body makes of x, run by run.                                  *)
Unfolds(f, body, x, n) == f[0] = x /\ \A k \in 1 .. n : f[k] = body[f[k - 1]]

(* A set of natural numbers that is not empty has a least element.         *)
LEMMA Least ==
  ASSUME NEW T, T \subseteq Nat, T # {}
  PROVE  \E m \in T : \A k \in T : m <= k
<1> DEFINE R == {ss \in Nat \X Nat : ss[1] < ss[2]}
<1>1. IsWellFoundedOn(R, Nat)
  BY NatLessThanWellFounded DEF OpToRel
<1> HIDE DEF R
<1>2. PICK m \in T : \A k \in T : ~(<<k, m>> \in R)
  BY <1>1, WFMin
<1>3. \A k \in Nat : k < m => <<k, m>> \in R
  BY DEF R
<1>4. \A k \in T : m <= k
  <2> TAKE k \in T
  <2>1. k \in Nat /\ m \in Nat
    OBVIOUS
  <2>2. ~(k < m)
    BY <1>2, <1>3, <2>1
  <2> QED BY <2>1, <2>2
<1> QED BY <1>4

LEMMA UnfoldingExists ==
  ASSUME NEW body, NEW x, NEW m \in Nat
  PROVE  \E f : Unfolds(f, body, x, m)
<1> DEFINE Bad == {n \in Nat : ~\E f : Unfolds(f, body, x, n)}
<1> SUFFICES ASSUME Bad # {} PROVE FALSE
  OBVIOUS
<1>1. PICK n \in Bad : \A k \in Bad : n <= k
  BY Least
<1>2. CASE n = 0
  <2> DEFINE g == [q \in {0} |-> x]
  <2>1. Unfolds(g, body, x, 0)
    BY DEF Unfolds
  <2> QED BY <1>1, <1>2, <2>1
<1>3. CASE n # 0
  <2>1. n - 1 \in Nat /\ n \in Nat
    BY <1>3
  <2>2. PICK f : Unfolds(f, body, x, n - 1)
    BY <1>1, <2>1
  <2> DEFINE g == [q \in 0 .. n |-> IF q < n THEN f[q] ELSE body[f[n - 1]]]
  <2>3. g[0] = x
    BY <2>1, <2>2, <1>3 DEF Unfolds
  <2>4. ASSUME NEW k \in 1 .. n PROVE g[k] = body[g[k - 1]]
    <3>1. k - 1 \in 0 .. n /\ k - 1 < n /\ g[k - 1] = f[k - 1]
      BY <2>1
    <3>2. CASE k = n
      BY <2>1, <3>1, <3>2
    <3>3. CASE k # n
      <4>1. k \in 1 .. n - 1 /\ k < n /\ k \in 0 .. n
        BY <2>1, <3>3
      <4> QED BY <2>2, <3>1, <4>1 DEF Unfolds
    <3> QED BY <3>2, <3>3
  <2> HIDE DEF g
  <2>5. Unfolds(g, body, x, n)
    BY <2>3, <2>4 DEF Unfolds
  <2> QED BY <1>1, <2>5
<1> QED BY <1>2, <1>3

LEMMA IteratedUnfolds ==
  ASSUME NEW body, NEW x, NEW n \in Nat
  PROVE  \E f : Unfolds(f, body, x, n) /\ Iterated(body, x, n) = f[n]
<1>1. PICK g : Unfolds(g, body, x, n)
  BY UnfoldingExists
<1> DEFINE again(f) == [k \in 0 .. n |-> IF k = 0 THEN x ELSE body[f[k - 1]]]
           f == [k \in 0 .. n |-> g[k]]
<1>2. f = again(f)
  <2>1. ASSUME NEW k \in 0 .. n PROVE f[k] = again(f)[k]
    <3>1. CASE k = 0
      BY <1>1, <3>1 DEF Unfolds
    <3>2. CASE k # 0
      <4>1. f[k - 1] = g[k - 1] /\ f[k] = g[k] /\ k \in 1 .. n
        BY <3>2
      <4> QED BY <1>1, <3>2, <4>1 DEF Unfolds
    <3> QED BY <3>1, <3>2
  <2> QED BY <2>1
<1> HIDE DEF f
<1> DEFINE c == CHOOSE y : y = again(y)
<1>3. c = again(c)
  BY <1>2
<1>4. Iterated(body, x, n) = c[n]
  BY DEF Iterated
<1> HIDE DEF c
<1>5. Unfolds(c, body, x, n)
  BY <1>3 DEF Unfolds
<1> QED BY <1>4, <1>5

(* What every run of the body keeps, the loop keeps.                       *)
LEMMA IteratedStays ==
  ASSUME NEW body, NEW P, NEW x \in P, \A c \in P : body[c] \in P, NEW n \in Nat
  PROVE  Iterated(body, x, n) \in P
<1>1. PICK f : Unfolds(f, body, x, n) /\ Iterated(body, x, n) = f[n]
  BY IteratedUnfolds
<1> DEFINE Bad == {k \in 0 .. n : f[k] \notin P}
<1>2. Bad = {}
  <2> SUFFICES ASSUME Bad # {} PROVE FALSE
    OBVIOUS
  <2>1. PICK k \in Bad : \A j \in Bad : k <= j
    <3>1. Bad \subseteq Nat
      OBVIOUS
    <3> HIDE DEF Bad
    <3> QED BY <3>1, Least
  <2>2. k # 0
    BY <1>1, <2>1 DEF Unfolds
  <2>3. k \in 1 .. n /\ k - 1 \in 0 .. n /\ k - 1 \notin Bad
    BY <2>1, <2>2
  <2>4. f[k - 1] \in P /\ f[k] = body[f[k - 1]]
    BY <1>1, <2>3 DEF Unfolds
  <2> QED BY <2>1, <2>4
<1> QED BY <1>1, <1>2

-----------------------------------------------------------------------------
(* The shape of the tree.                                                  *)

(* Each item in the tree is given the open interval its subtree covers:    *)
(* lo and hi are the neighbours the subtree lies between, and any two      *)
(* subtrees are apart or one within the other.                             *)
Intervals(m, lo, hi) ==
  /\ \A x \in m : /\ lo[x] < x /\ lo[x] \in m \cup {0}
                  /\ x < hi[x] /\ hi[x] \in m \cup {N + 1}
  /\ \A x, y \in m : x < y => \/ hi[x] <= lo[y]
                              \/ lo[y] <= lo[x] /\ hi[x] <= y
                              \/ x <= lo[y] /\ hi[y] <= hi[x]

(* c is x's child, for the interval from a to b: a member with this        *)
(* interval, or the sentinel, and then no member lies in it.               *)
ChildOn(c, x, a, b, pa, m, lo, hi) ==
  \/ c = Sentinel /\ \A y \in m : ~(a < y /\ y < b)
  \/ c \in m /\ pa[c] = x /\ lo[c] = a /\ hi[c] = b

(* The links of the members make a tree of them.                           *)
Linked(root, l, r, pa, m, lo, hi) ==
  /\ ChildOn(root, Sentinel, 0, N + 1, pa, m, lo, hi)
  /\ \A x \in m : ChildOn(l[x], x, lo[x], x, pa, m, lo, hi)
  /\ \A x \in m : ChildOn(r[x], x, x, hi[x], pa, m, lo, hi)
  /\ \A x \in m : x # root => pa[x] \in m /\ x \in {l[pa[x]], r[pa[x]]}

Layout(m, root, l, r, pa, lo, hi) ==
  /\ root \in Pointers /\ lo \in [Nodes -> Pointers] /\ hi \in [Nodes -> Pointers]
  /\ l \in [Pointers -> Pointers] /\ r \in [Pointers -> Pointers] /\ pa \in [Pointers -> Pointers]
  /\ Intervals(m, lo, hi) /\ Linked(root, l, r, pa, m, lo, hi)

LEMMA Basics ==
  /\ N \in Nat /\ N >= 1 /\ Sentinel = 0 /\ Null = N + 1
  /\ Nodes \subseteq Pointers /\ Pointers \subseteq Nat
  /\ Sentinel \in Pointers /\ Null \in Pointers
  /\ \A q \in Nodes : q # Sentinel /\ q # Null /\ q \in Nat /\ q >= 1 /\ q <= N
BY NAssumption DEF Nodes, Pointers, Sentinel, Null

LEMMA MembersAreNumbers ==
  ASSUME NEW m \in SUBSET Nodes, NEW lo \in [Nodes -> Pointers], NEW hi \in [Nodes -> Pointers]
  PROVE  /\ \A q \in m : q \in Nat /\ q # Sentinel /\ q # Null /\ q \in Nodes
         /\ \A q \in m : lo[q] \in Nat /\ hi[q] \in Nat
<1>1. \A q \in m : q \in Nodes
  OBVIOUS
<1>2. \A q \in m : lo[q] \in Pointers /\ hi[q] \in Pointers
  BY <1>1
<1> QED BY <1>1, <1>2, Basics

(* l, r, pa after x went below its right child y.                          *)
TurnsLeft(m, root, l, r, pa, x, y, root2, l2, r2, pa2) ==
  /\ y = r[x] /\ root2 = IF pa[x] = Sentinel THEN y ELSE root
  /\ l2 \in [Pointers -> Pointers] /\ r2 \in [Pointers -> Pointers]
  /\ pa2 \in [Pointers -> Pointers]
  /\ \A q \in m : l2[q] = IF q = y THEN x ELSE IF q = pa[x] /\ l[q] = x THEN y ELSE l[q]
  /\ \A q \in m : r2[q] = IF q = x THEN l[y] ELSE IF q = pa[x] /\ l[q] # x THEN y ELSE r[q]
  /\ \A q \in m : pa2[q] = IF q = x THEN y ELSE IF q = y THEN pa[x] ELSE IF q = l[y] THEN x ELSE pa[q]

LEMMA RotatedLeft ==
  ASSUME NEW m \in SUBSET Nodes, NEW root, NEW l, NEW r, NEW pa, NEW lo, NEW hi,
         Layout(m, root, l, r, pa, lo, hi),
         NEW x \in m, NEW y \in m, NEW root2, NEW l2, NEW r2, NEW pa2,
         TurnsLeft(m, root, l, r, pa, x, y, root2, l2, r2, pa2)
  PROVE  \E lo2, hi2 : Layout(m, root2, l2, r2, pa2, lo2, hi2)
<1> USE DEF Layout, TurnsLeft
<1> DEFINE lo2 == [lo EXCEPT ![y] = lo[x]]
           hi2 == [hi EXCEPT ![x] = y]
<1>0. /\ \A q \in m : q \in Nat /\ q # Sentinel /\ q # Null /\ q \in Nodes
      /\ \A q \in m : lo[q] \in Nat /\ hi[q] \in Nat
  BY MembersAreNumbers
<1>1. lo2 \in [Nodes -> Pointers] /\ hi2 \in [Nodes -> Pointers]
  <2>1. lo[x] \in Pointers /\ y \in Pointers
    BY <1>0, Basics
  <2> QED BY <2>1
<1>2. /\ \A q \in m : lo2[q] = IF q = y THEN lo[x] ELSE lo[q]
      /\ \A q \in m : hi2[q] = IF q = x THEN y ELSE hi[q]
  BY <1>0
<1> HIDE DEF lo2, hi2
<1>3. pa[y] = x /\ lo[y] = x /\ hi[y] = hi[x] /\ x < y /\ y < hi[x] /\ lo[x] < x /\ y # x
  BY <1>0 DEF Linked, ChildOn, Intervals, Sentinel, Null
<1>4. Intervals(m, lo2, hi2)
  <2>1. \A q \in m : /\ lo2[q] < q /\ lo2[q] \in m \cup {0}
                     /\ q < hi2[q] /\ hi2[q] \in m \cup {N + 1}
    BY <1>0, <1>2, <1>3 DEF Intervals
  <2>2. ASSUME NEW u \in m, NEW v \in m, u < v
        PROVE  \/ hi2[u] <= lo2[v]
               \/ lo2[v] <= lo2[u] /\ hi2[u] <= v
               \/ u <= lo2[v] /\ hi2[v] <= hi2[u]
    <3>1. CASE u = x /\ v = y
      BY <1>0, <1>2, <1>3, <3>1
    <3>2. CASE u = x /\ v # y
      BY SMTT(40), <1>0, <1>2, <1>3, <2>2, <3>2 DEF Intervals
    <3>3. CASE v = x
      BY <1>0, <1>2, <1>3, <2>2, <3>3 DEF Intervals
    <3>4. CASE u = y
      BY <1>0, <1>2, <1>3, <2>2, <3>4 DEF Intervals
    <3>5. CASE v = y /\ u # x
      BY <1>0, <1>2, <1>3, <2>2, <3>5 DEF Intervals
    <3>6. CASE {u, v} \cap {x, y} = {}
      BY <1>0, <1>2, <1>3, <2>2, <3>6 DEF Intervals
    <3> QED BY <3>1, <3>2, <3>3, <3>4, <3>5, <3>6
  <2> QED BY <2>1, <2>2 DEF Intervals
<1>5. ChildOn(root2, Sentinel, 0, N + 1, pa2, m, lo2, hi2)
  BY <1>0, <1>2, <1>3 DEF Linked, ChildOn, Sentinel, Null
<1>6. ASSUME NEW q \in m PROVE ChildOn(l2[q], q, lo2[q], q, pa2, m, lo2, hi2)
  BY <1>0, <1>2, <1>3, <1>6 DEF Linked, ChildOn, Sentinel, Null
<1>7. ASSUME NEW q \in m PROVE ChildOn(r2[q], q, q, hi2[q], pa2, m, lo2, hi2)
  BY <1>0, <1>2, <1>3, <1>7 DEF Linked, ChildOn, Sentinel, Null
<1>8. ASSUME NEW q \in m, q # root2 PROVE pa2[q] \in m /\ q \in {l2[pa2[q]], r2[pa2[q]]}
  BY <1>0, <1>2, <1>3, <1>8 DEF Linked, ChildOn, Sentinel, Null
<1>20. root2 \in Pointers
  BY <1>0, Basics
<1>21. Linked(root2, l2, r2, pa2, m, lo2, hi2)
  BY <1>5, <1>6, <1>7, <1>8 DEF Linked
<1>22. Layout(m, root2, l2, r2, pa2, lo2, hi2)
  BY <1>1, <1>4, <1>20, <1>21
<1> QED BY <1>22

(* l, r, pa after x went below its left child y.                           *)
TurnsRight(m, root, l, r, pa, x, y, root2, l2, r2, pa2) ==
  /\ y = l[x] /\ root2 = IF pa[x] = Sentinel THEN y ELSE root
  /\ l2 \in [Pointers -> Pointers] /\ r2 \in [Pointers -> Pointers]
  /\ pa2 \in [Pointers -> Pointers]
  /\ \A q \in m : l2[q] = IF q = x THEN r[y] ELSE IF q = pa[x] /\ l[q] = x THEN y ELSE l[q]
  /\ \A q \in m : r2[q] = IF q = y THEN x ELSE IF q = pa[x] /\ l[q] # x THEN y ELSE r[q]
  /\ \A q \in m : pa2[q] = IF q = x THEN y ELSE IF q = y THEN pa[x] ELSE IF q = r[y] THEN x ELSE pa[q]

LEMMA RotatedRight ==
  ASSUME NEW m \in SUBSET Nodes, NEW root, NEW l, NEW r, NEW pa, NEW lo, NEW hi,
         Layout(m, root, l, r, pa, lo, hi),
         NEW x \in m, NEW y \in m, NEW root2, NEW l2, NEW r2, NEW pa2,
         TurnsRight(m, root, l, r, pa, x, y, root2, l2, r2, pa2)
  PROVE  \E lo2, hi2 : Layout(m, root2, l2, r2, pa2, lo2, hi2)
<1> USE DEF Layout, TurnsRight
<1> DEFINE lo2 == [lo EXCEPT ![x] = y]
           hi2 == [hi EXCEPT ![y] = hi[x]]
<1>0. /\ \A q \in m : q \in Nat /\ q # Sentinel /\ q # Null /\ q \in Nodes
      /\ \A q \in m : lo[q] \in Nat /\ hi[q] \in Nat
  BY MembersAreNumbers
<1>1. lo2 \in [Nodes -> Pointers] /\ hi2 \in [Nodes -> Pointers]
  <2>1. hi[x] \in Pointers /\ y \in Pointers
    BY <1>0, Basics
  <2> QED BY <2>1
<1>2. /\ \A q \in m : hi2[q] = IF q = y THEN hi[x] ELSE hi[q]
      /\ \A q \in m : lo2[q] = IF q = x THEN y ELSE lo[q]
  BY <1>0
<1> HIDE DEF lo2, hi2
<1>3. pa[y] = x /\ hi[y] = x /\ lo[y] = lo[x] /\ y < x /\ lo[x] < y /\ x < hi[x] /\ y # x
  BY <1>0 DEF Linked, ChildOn, Intervals, Sentinel, Null
<1>4. Intervals(m, lo2, hi2)
  <2>1. \A q \in m : /\ lo2[q] < q /\ lo2[q] \in m \cup {0}
                     /\ q < hi2[q] /\ hi2[q] \in m \cup {N + 1}
    BY <1>0, <1>2, <1>3 DEF Intervals
  <2>2. ASSUME NEW u \in m, NEW v \in m, u < v
        PROVE  \/ hi2[u] <= lo2[v]
               \/ lo2[v] <= lo2[u] /\ hi2[u] <= v
               \/ u <= lo2[v] /\ hi2[v] <= hi2[u]
    <3>1. CASE u = y /\ v = x
      BY <1>0, <1>2, <1>3, <3>1
    <3>2. CASE v = x /\ u # y
      BY SMTT(40), <1>0, <1>2, <1>3, <2>2, <3>2 DEF Intervals
    <3>3. CASE u = x
      BY <1>0, <1>2, <1>3, <2>2, <3>3 DEF Intervals
    <3>4. CASE v = y
      BY <1>0, <1>2, <1>3, <2>2, <3>4 DEF Intervals
    <3>5. CASE u = y /\ v # x
      <4>1. lo2[v] = lo[v] /\ hi2[v] = hi[v] /\ hi2[u] = hi[x] /\ lo2[u] = lo[y]
        BY <1>0, <1>2, <1>3, <2>2, <3>5
      <4>2. lo[v] < v /\ v < hi[v]
        BY <1>0 DEF Intervals
      <4>3. CASE v < x
        BY <1>0, <1>3, <2>2, <3>5, <4>1, <4>2, <4>3 DEF Intervals
      <4>4. CASE x < v
        BY <1>0, <1>3, <2>2, <3>5, <4>1, <4>2, <4>4 DEF Intervals
      <4> QED BY <1>0, <3>5, <4>3, <4>4
    <3>6. CASE {u, v} \cap {x, y} = {}
      BY <1>0, <1>2, <1>3, <2>2, <3>6 DEF Intervals
    <3> QED BY <3>1, <3>2, <3>3, <3>4, <3>5, <3>6
  <2> QED BY <2>1, <2>2 DEF Intervals
<1>5. ChildOn(root2, Sentinel, 0, N + 1, pa2, m, lo2, hi2)
  BY <1>0, <1>2, <1>3 DEF Linked, ChildOn, Sentinel, Null
<1>6. ASSUME NEW q \in m PROVE ChildOn(l2[q], q, lo2[q], q, pa2, m, lo2, hi2)
  BY <1>0, <1>2, <1>3, <1>6 DEF Linked, ChildOn, Sentinel, Null
<1>7. ASSUME NEW q \in m PROVE ChildOn(r2[q], q, q, hi2[q], pa2, m, lo2, hi2)
  BY <1>0, <1>2, <1>3, <1>7 DEF Linked, ChildOn, Sentinel, Null
<1>8. ASSUME NEW q \in m, q # root2 PROVE pa2[q] \in m /\ q \in {l2[pa2[q]], r2[pa2[q]]}
  BY <1>0, <1>2, <1>3, <1>8 DEF Linked, ChildOn, Sentinel, Null
<1>20. root2 \in Pointers
  BY <1>0, Basics
<1>21. Linked(root2, l2, r2, pa2, m, lo2, hi2)
  BY <1>5, <1>6, <1>7, <1>8 DEF Linked
<1>22. Layout(m, root2, l2, r2, pa2, lo2, hi2)
  BY <1>1, <1>4, <1>20, <1>21
<1> QED BY <1>22

(* l, r, pa after z became a child of y.                                   *)
Grows(m, l, r, pa, lo, hi, z, y, l2, r2, pa2) ==
  /\ lo[y] < z /\ z < hi[y]
  /\ z < y => l[y] = Sentinel
  /\ z > y => r[y] = Sentinel
  /\ l2 \in [Pointers -> Pointers] /\ r2 \in [Pointers -> Pointers]
  /\ pa2 \in [Pointers -> Pointers]
  /\ \A q \in m : l2[q] = IF q = y /\ z < y THEN z ELSE l[q]
  /\ \A q \in m : r2[q] = IF q = y /\ z > y THEN z ELSE r[q]
  /\ \A q \in m : pa2[q] = pa[q]
  /\ l2[z] = Sentinel /\ r2[z] = Sentinel /\ pa2[z] = y

(* An item in its place below y.                                           *)
LEMMA Grown ==
  ASSUME NEW m \in SUBSET Nodes, NEW root, NEW l, NEW r, NEW pa, NEW lo, NEW hi,
         Layout(m, root, l, r, pa, lo, hi),
         NEW z \in Nodes \ m, NEW y \in m, NEW l2, NEW r2, NEW pa2,
         Grows(m, l, r, pa, lo, hi, z, y, l2, r2, pa2)
  PROVE  \E lo2, hi2 : Layout(m \cup {z}, root, l2, r2, pa2, lo2, hi2)
<1> USE DEF Layout, Grows
<1> DEFINE lo2 == [lo EXCEPT ![z] = IF z < y THEN lo[y] ELSE y]
           hi2 == [hi EXCEPT ![z] = IF z < y THEN y ELSE hi[y]]
<1>0. /\ \A q \in m : q \in Nat /\ q # Sentinel /\ q # Null /\ q \in Nodes
      /\ \A q \in m : lo[q] \in Nat /\ hi[q] \in Nat
      /\ z \in Nat /\ z # y /\ z # Sentinel
  BY MembersAreNumbers, Basics
<1>1. lo2 \in [Nodes -> Pointers] /\ hi2 \in [Nodes -> Pointers]
  <2>1. lo[y] \in Pointers /\ hi[y] \in Pointers /\ y \in Pointers
    BY <1>0, Basics
  <2> QED BY <2>1
<1>2. /\ \A q \in m : lo2[q] = lo[q] /\ hi2[q] = hi[q]
      /\ lo2[z] = (IF z < y THEN lo[y] ELSE y) /\ hi2[z] = (IF z < y THEN y ELSE hi[y])
  BY <1>0
<1> HIDE DEF lo2, hi2
<1>3. \A q \in m : /\ z < y => ~(lo[y] < q /\ q < y)
                   /\ z > y => ~(y < q /\ q < hi[y])
  BY <1>0 DEF Linked, ChildOn
<1>4. Intervals(m \cup {z}, lo2, hi2)
  <2>1. \A q \in m \cup {z} : /\ lo2[q] < q /\ lo2[q] \in m \cup {z} \cup {0}
                              /\ q < hi2[q] /\ hi2[q] \in m \cup {z} \cup {N + 1}
    BY <1>0, <1>2 DEF Intervals
  <2>2. ASSUME NEW u \in m \cup {z}, NEW v \in m \cup {z}, u < v
        PROVE  \/ hi2[u] <= lo2[v]
               \/ lo2[v] <= lo2[u] /\ hi2[u] <= v
               \/ u <= lo2[v] /\ hi2[v] <= hi2[u]
    <3>1. CASE u = z
      BY <1>0, <1>2, <1>3, <2>2, <3>1 DEF Intervals
    <3>2. CASE v = z
      BY <1>0, <1>2, <1>3, <2>2, <3>2 DEF Intervals
    <3>3. CASE u # z /\ v # z
      BY <1>0, <1>2, <2>2, <3>3 DEF Intervals
    <3> QED BY <3>1, <3>2, <3>3
  <2> QED BY <2>1, <2>2 DEF Intervals
<1>r. root \in m /\ pa[root] = Sentinel /\ lo[root] = 0 /\ hi[root] = N + 1
  <2>1. 0 < y /\ y < N + 1
    BY <1>0, Basics
  <2> QED BY <2>1 DEF Linked, ChildOn
<1>5. ChildOn(root, Sentinel, 0, N + 1, pa2, m \cup {z}, lo2, hi2)
  BY <1>0, <1>2, <1>r DEF ChildOn
<1>6. ASSUME NEW w \in m, w # y
      PROVE  ~(lo[w] < z /\ z < w /\ l[w] = Sentinel) /\ ~(w < z /\ z < hi[w] /\ r[w] = Sentinel)
  <2>1. \A q \in m : /\ l[w] = Sentinel => ~(lo[w] < q /\ q < w)
                     /\ r[w] = Sentinel => ~(w < q /\ q < hi[w])
    BY <1>0 DEF Linked, ChildOn
  <2> QED BY <1>0, <1>3, <1>6, <2>1 DEF Intervals
<1>7. ASSUME NEW q \in m \cup {z} PROVE ChildOn(l2[q], q, lo2[q], q, pa2, m \cup {z}, lo2, hi2)
  <2>1. CASE q = z
    BY <1>0, <1>2, <1>3, <2>1 DEF ChildOn
  <2>2. CASE l2[q] = z /\ q # z
    BY <1>0, <1>2, <1>3, <2>2 DEF ChildOn, Linked
  <2>3. CASE q # z /\ l2[q] # z
    <3>1. l2[q] = l[q] /\ lo2[q] = lo[q] /\ hi2[q] = hi[q] /\ ChildOn(l[q], q, lo[q], q, pa, m, lo, hi)
      BY <1>2, <2>3 DEF Linked
    <3>2. CASE l[q] \in m
      <4>1. \A w \in m : pa2[w] = pa[w] /\ lo2[w] = lo[w] /\ hi2[w] = hi[w]
        BY <1>0, <1>2
      <4>2. l2[q] \in m /\ pa[l2[q]] = q /\ lo[l2[q]] = lo2[q] /\ hi[l2[q]] = q
        BY <1>0, <3>1, <3>2 DEF ChildOn
      <4> QED BY <3>1, <4>1, <4>2 DEF ChildOn
    <3>3. CASE l[q] = Sentinel
      <4>1. \A w \in m : ~(lo[q] < w /\ w < q)
        BY <1>0, <3>1, <3>3 DEF ChildOn
      <4>2. ~(lo[q] < z /\ z < q)
        BY <1>0, <1>6, <2>3, <3>1, <3>3
      <4> QED BY <3>1, <3>3, <4>1, <4>2 DEF ChildOn
    <3> QED BY <3>1, <3>2, <3>3 DEF ChildOn
  <2> QED BY <2>1, <2>2, <2>3
<1>8. ASSUME NEW q \in m \cup {z} PROVE ChildOn(r2[q], q, q, hi2[q], pa2, m \cup {z}, lo2, hi2)
  <2>1. CASE q = z
    BY <1>0, <1>2, <1>3, <2>1 DEF ChildOn
  <2>2. CASE r2[q] = z /\ q # z
    BY <1>0, <1>2, <1>3, <2>2 DEF ChildOn, Linked
  <2>3. CASE q # z /\ r2[q] # z
    <3>1. r2[q] = r[q] /\ lo2[q] = lo[q] /\ hi2[q] = hi[q] /\ ChildOn(r[q], q, q, hi[q], pa, m, lo, hi)
      BY <1>2, <2>3 DEF Linked
    <3>2. CASE r[q] \in m
      <4>1. \A w \in m : pa2[w] = pa[w] /\ lo2[w] = lo[w] /\ hi2[w] = hi[w]
        BY <1>0, <1>2
      <4>2. r2[q] \in m /\ pa[r2[q]] = q /\ lo[r2[q]] = q /\ hi[r2[q]] = hi2[q]
        BY <1>0, <3>1, <3>2 DEF ChildOn
      <4> QED BY <3>1, <4>1, <4>2 DEF ChildOn
    <3>3. CASE r[q] = Sentinel
      <4>1. \A w \in m : ~(q < w /\ w < hi[q])
        BY <1>0, <3>1, <3>3 DEF ChildOn
      <4>2. ~(q < z /\ z < hi[q])
        BY <1>0, <1>6, <2>3, <3>1, <3>3
      <4> QED BY <3>1, <3>3, <4>1, <4>2 DEF ChildOn
    <3> QED BY <3>1, <3>2, <3>3 DEF ChildOn
  <2> QED BY <2>1, <2>2, <2>3
<1>9. ASSUME NEW q \in m \cup {z}, q # root
      PROVE  pa2[q] \in m \cup {z} /\ q \in {l2[pa2[q]], r2[pa2[q]]}
  <2>1. CASE q = z
    BY <1>0, <2>1
  <2>2. CASE q # z
    <3>1. pa2[q] = pa[q] /\ pa[q] \in m /\ q \in {l[pa[q]], r[pa[q]]} /\ q # Sentinel
      BY <1>0, <1>9, <2>2 DEF Linked
    <3> QED BY <1>0, <3>1
  <2> QED BY <2>1, <2>2
<1> QED BY <1>1, <1>4, <1>5, <1>7, <1>8, <1>9 DEF Linked


(* l, r, pa after c took the place of z.                                   *)
Cuts(m, root, l, r, pa, z, c, root2, l2, r2, pa2) ==
  /\ root2 = IF pa[z] = Sentinel THEN c ELSE root
  /\ l2 \in [Pointers -> Pointers] /\ r2 \in [Pointers -> Pointers]
  /\ pa2 \in [Pointers -> Pointers]
  /\ \A q \in m : l2[q] = IF q = pa[z] /\ l[q] = z THEN c ELSE l[q]
  /\ \A q \in m : r2[q] = IF q = pa[z] /\ l[q] # z THEN c ELSE r[q]
  /\ \A q \in m : pa2[q] = IF q = c THEN pa[z] ELSE pa[q]

Without(m, z) == m \ {z}

(* z has no child but c, on the second side.                               *)
OneChild(near, far, z, c) == near[z] = Sentinel /\ c = far[z]

(* An item that has no left child is cut out, its right child c takes its  *)
(* place.                                                                  *)
LEMMA CutLeftmost ==
  ASSUME NEW m \in SUBSET Nodes, NEW root, NEW l, NEW r, NEW pa, NEW lo, NEW hi,
         Layout(m, root, l, r, pa, lo, hi),
         NEW z \in m, NEW c, NEW root2, NEW l2, NEW r2, NEW pa2,
         Cuts(m, root, l, r, pa, z, c, root2, l2, r2, pa2), OneChild(l, r, z, c)
  PROVE  \E lo2, hi2 : Layout(Without(m, z), root2, l2, r2, pa2, lo2, hi2)
<1> USE DEF Without, Layout, Cuts, OneChild
<1> DEFINE k == m \ {z}
           lo2 == [q \in Nodes |-> IF lo[q] = z THEN lo[z] ELSE lo[q]]
<1>0. /\ \A q \in m : q \in Nat /\ q # Sentinel /\ q # Null /\ q \in Nodes
      /\ \A q \in m : lo[q] \in Nat /\ hi[q] \in Nat
  BY MembersAreNumbers
<1>1. lo2 \in [Nodes -> Pointers]
  BY <1>0
<1>2. \A q \in m : lo2[q] = IF lo[q] = z THEN lo[z] ELSE lo[q]
  BY <1>0
<1> HIDE DEF lo2
<1>3. \A q \in m : ~(lo[z] < q /\ q < z)
  BY <1>0 DEF Linked, ChildOn
<1>4. \A q \in m : hi[q] # z
  <2>1. SUFFICES ASSUME NEW q \in m, hi[q] = z PROVE FALSE
    OBVIOUS
  <2>2. q < z
    BY <2>1 DEF Intervals
  <2>3. \/ hi[q] <= lo[z]
        \/ lo[z] <= lo[q] /\ hi[q] <= z
        \/ q <= lo[z] /\ hi[z] <= hi[q]
    BY <2>2 DEF Intervals
  <2> QED BY <1>0, <1>3, <2>1, <2>2, <2>3 DEF Intervals
<1>5. Intervals(k, lo2, hi)
  <2>1. \A q \in k : lo2[q] < q /\ lo2[q] \in k \cup {0} /\ q < hi[q] /\ hi[q] \in k \cup {N + 1}
    BY <1>0, <1>2, <1>4 DEF Intervals
  <2>2. ASSUME NEW u \in k, NEW v \in k, u < v
        PROVE  \/ hi[u] <= lo2[v]
               \/ lo2[v] <= lo2[u] /\ hi[u] <= v
               \/ u <= lo2[v] /\ hi[v] <= hi[u]
    <3>1. \/ hi[u] <= lo[v]
          \/ lo[v] <= lo[u] /\ hi[u] <= v
          \/ u <= lo[v] /\ hi[v] <= hi[u]
      BY <2>2 DEF Intervals
    <3>2. lo[z] < z /\ u # z /\ v # z
      BY DEF Intervals
    <3>3. lo[v] < z => lo[v] <= lo[z]
      BY <1>0, <1>3 DEF Intervals
    <3>4. hi[u] < z => hi[u] <= lo[z]
      BY <1>0, <1>3, Basics DEF Intervals
    <3>5. u < z => u <= lo[z]
      BY <1>0, <1>3
    <3>6. hi[u] # z
      BY <1>4
    <3>7. /\ u \in Nat /\ v \in Nat /\ z \in Nat /\ lo[u] \in Nat /\ lo[v] \in Nat /\ lo[z] \in Nat
          /\ hi[u] \in Nat /\ hi[v] \in Nat /\ hi[z] \in Nat
      BY <1>0
    <3>8. /\ lo2[u] = IF lo[u] = z THEN lo[z] ELSE lo[u]
          /\ lo2[v] = IF lo[v] = z THEN lo[z] ELSE lo[v]
      BY <1>2
    <3> QED BY <3>1, <3>2, <3>3, <3>4, <3>5, <3>6, <3>7, <3>8, <2>2
  <2> QED BY <2>1, <2>2 DEF Intervals
<1>6. \A q \in m : /\ c = l[q] => FALSE \/ c = Sentinel
                   /\ c = r[q] => q = z \/ c = Sentinel
  BY <1>0 DEF Linked, ChildOn, Intervals
<1>7. c # Sentinel => c \in m /\ pa[c] = z /\ lo[c] = z /\ hi[c] = hi[z] /\ c # z
  BY <1>0 DEF Linked, ChildOn, Intervals
<1>8. c = Sentinel => \A q \in m : ~(z < q /\ q < hi[z])
  BY <1>0 DEF Linked, ChildOn
<1>9. \/ pa[z] \in m /\ pa[z] # z
      \/ pa[z] = Sentinel /\ z = root
  <2>1. CASE z = root
    BY <1>0, <2>1 DEF Linked, ChildOn
  <2>2. CASE z # root
    <3>1. pa[z] \in m /\ z \in {l[pa[z]], r[pa[z]]}
      BY <2>2 DEF Linked
    <3>2. pa[z] # z
      BY <1>0, <3>1 DEF Linked, ChildOn, Intervals
    <3> QED BY <3>1, <3>2
  <2> QED BY <2>1, <2>2
<1>10. ChildOn(root2, Sentinel, 0, N + 1, pa2, k, lo2, hi)
  <2>1. CASE pa[z] = Sentinel
    <3>1. z = root /\ lo[z] = 0 /\ hi[z] = N + 1
      BY <1>0, <1>9, <2>1 DEF Linked, ChildOn
    <3>2. CASE c = Sentinel
      BY <1>0, <1>3, <1>8, <2>1, <3>1, <3>2 DEF ChildOn
    <3>3. CASE c # Sentinel
      BY <1>0, <1>2, <1>7, <2>1, <3>1, <3>3 DEF ChildOn
    <3> QED BY <3>2, <3>3
  <2>2. CASE pa[z] # Sentinel
    <3>1. pa[z] \in m /\ z # root
      BY <1>0, <1>9, <2>2 DEF Linked, ChildOn
    <3>2. root \in m /\ root # c
      BY <1>0, <1>7, <3>1, Basics DEF Linked, ChildOn
    <3>3. pa[root] = Sentinel /\ lo[root] = 0 /\ hi[root] = N + 1
      BY <1>0, <3>2 DEF Linked, ChildOn
    <3>4. root2 = root /\ pa2[root] = Sentinel /\ lo2[root] = 0 /\ root \in k
      BY <1>0, <1>2, <2>2, <3>1, <3>2, <3>3, Basics
    <3> QED BY <3>3, <3>4 DEF ChildOn
  <2> QED BY <2>1, <2>2
<1>11. ASSUME NEW q \in k PROVE ChildOn(l2[q], q, lo2[q], q, pa2, k, lo2, hi)
  <2>1. ChildOn(l[q], q, lo[q], q, pa, m, lo, hi)
    BY DEF Linked
  <2>2. CASE q = pa[z] /\ l[q] = z
    <3>1. lo[z] = lo[q] /\ hi[z] = q
      BY <1>0, <2>1, <2>2 DEF ChildOn
    <3> QED BY <1>0, <1>2, <1>3, <1>4, <1>7, <1>8, <2>2, <3>1 DEF ChildOn
  <2>3. CASE l[q] # z
    <3>1. l2[q] = l[q]
      BY <2>3
    <3>2. CASE l[q] \in m
      BY <1>0, <1>2, <1>6, <2>1, <2>3, <3>1, <3>2 DEF ChildOn
    <3>3. CASE l[q] = Sentinel
      <4>1. \A y \in m : ~(lo[q] < y /\ y < q)
        BY <1>0, <2>1, <3>3 DEF ChildOn
      <4>2. \A y \in k : ~(lo2[q] < y /\ y < q)
        BY <1>0, <1>2, <1>3, <4>1
      <4> QED BY <3>1, <3>3, <4>2 DEF ChildOn
    <3> QED BY <2>1, <3>2, <3>3 DEF ChildOn
  <2>4. l[q] = z => q = pa[z]
    BY <1>0, <2>1 DEF ChildOn
  <2> QED BY <2>2, <2>3, <2>4
<1>12. ASSUME NEW q \in k PROVE ChildOn(r2[q], q, q, hi[q], pa2, k, lo2, hi)
  <2>1. ChildOn(r[q], q, q, hi[q], pa, m, lo, hi)
    BY DEF Linked
  <2>2. CASE r[q] = z
    <3>1. lo[z] = q /\ hi[z] = hi[q] /\ q = pa[z]
      BY <1>0, <2>1, <2>2 DEF ChildOn
    <3>2. l[q] # z
      BY <1>0, <3>1 DEF Linked, ChildOn, Intervals
    <3> QED BY <1>0, <1>2, <1>3, <1>7, <1>8, <2>2, <3>1, <3>2 DEF ChildOn
  <2>3. CASE r[q] # z
    <3>1. r2[q] = r[q]
      BY <1>0, <1>9, <2>3 DEF Linked, ChildOn
    <3>2. CASE r[q] \in m
      BY <1>0, <1>2, <1>6, <2>1, <2>3, <3>1, <3>2 DEF ChildOn
    <3>3. CASE r[q] = Sentinel
      BY <1>0, <2>1, <3>1, <3>3 DEF ChildOn
    <3> QED BY <2>1, <3>2, <3>3 DEF ChildOn
  <2> QED BY <2>2, <2>3
<1>13. ASSUME NEW q \in k, q # root2 PROVE pa2[q] \in k /\ q \in {l2[pa2[q]], r2[pa2[q]]}
  <2>1. CASE q = c
    <3>1. pa[z] \in m /\ pa[z] # z /\ pa2[q] = pa[z]
      BY <1>9, <1>13, <2>1
    <3>2. z # root
      BY <1>0, <3>1 DEF Linked, ChildOn
    <3>3. z \in {l[pa[z]], r[pa[z]]}
      BY <3>2 DEF Linked
    <3> QED BY <1>0, <2>1, <3>1, <3>3
  <2>2. CASE q # c
    <3>1. q # root
      BY <1>0, <1>9, <1>13, <2>2
    <3>2. pa[q] \in m /\ q \in {l[pa[q]], r[pa[q]]} /\ pa2[q] = pa[q]
      BY <2>2, <3>1 DEF Linked
    <3>3. pa[q] # z
      BY <1>0, <2>2, <3>2
    <3>4. l[pa[q]] = q => l2[pa[q]] = q
      BY <1>0, <3>2
    <3>5. r[pa[q]] = q => r2[pa[q]] = q
      <4>1. SUFFICES ASSUME r[pa[q]] = q, pa[q] = pa[z], l[pa[z]] # z PROVE FALSE
        BY <3>2
      <4>2. z # root
        BY <1>0, <3>2, <4>1 DEF Linked, ChildOn
      <4> QED BY <4>1, <4>2 DEF Linked
    <3> QED BY <3>2, <3>3, <3>4, <3>5
  <2> QED BY <2>1, <2>2
<1>20. root2 \in Pointers
  BY <1>0, Basics
<1>21. Linked(root2, l2, r2, pa2, k, lo2, hi)
  BY <1>10, <1>11, <1>12, <1>13 DEF Linked
<1>22. Layout(k, root2, l2, r2, pa2, lo2, hi)
  BY <1>1, <1>5, <1>20, <1>21
<1> QED BY <1>22

(* An item that has no right child is cut out, its left child c takes its  *)
(* place.                                                                  *)
LEMMA CutRightmost ==
  ASSUME NEW m \in SUBSET Nodes, NEW root, NEW l, NEW r, NEW pa, NEW lo, NEW hi,
         Layout(m, root, l, r, pa, lo, hi),
         NEW z \in m, NEW c, NEW root2, NEW l2, NEW r2, NEW pa2,
         Cuts(m, root, l, r, pa, z, c, root2, l2, r2, pa2), OneChild(r, l, z, c)
  PROVE  \E lo2, hi2 : Layout(Without(m, z), root2, l2, r2, pa2, lo2, hi2)
<1> USE DEF Without, Layout, Cuts, OneChild
<1> DEFINE k == m \ {z}
           hi2 == [q \in Nodes |-> IF hi[q] = z THEN hi[z] ELSE hi[q]]
<1>0. /\ \A q \in m : q \in Nat /\ q # Sentinel /\ q # Null /\ q \in Nodes
      /\ \A q \in m : lo[q] \in Nat /\ hi[q] \in Nat
  BY MembersAreNumbers
<1>1. hi2 \in [Nodes -> Pointers]
  BY <1>0
<1>2. \A q \in m : hi2[q] = IF hi[q] = z THEN hi[z] ELSE hi[q]
  BY <1>0
<1> HIDE DEF hi2
<1>3. \A q \in m : ~(z < q /\ q < hi[z])
  BY <1>0 DEF Linked, ChildOn
<1>4. \A q \in m : lo[q] # z
  <2>1. SUFFICES ASSUME NEW q \in m, lo[q] = z PROVE FALSE
    OBVIOUS
  <2>2. z < q
    BY <2>1 DEF Intervals
  <2>3. \/ hi[z] <= lo[q]
        \/ lo[q] <= lo[z] /\ hi[z] <= q
        \/ z <= lo[q] /\ hi[q] <= hi[z]
    BY <2>2 DEF Intervals
  <2> QED BY <1>0, <1>3, <2>1, <2>2, <2>3 DEF Intervals
<1>5. Intervals(k, lo, hi2)
  <2>1. \A q \in k : lo[q] < q /\ lo[q] \in k \cup {0} /\ q < hi2[q] /\ hi2[q] \in k \cup {N + 1}
    BY <1>0, <1>2, <1>4 DEF Intervals
  <2>2. ASSUME NEW u \in k, NEW v \in k, u < v
        PROVE  \/ hi2[u] <= lo[v]
               \/ lo[v] <= lo[u] /\ hi2[u] <= v
               \/ u <= lo[v] /\ hi2[v] <= hi2[u]
    <3>1. \/ hi[u] <= lo[v]
          \/ lo[v] <= lo[u] /\ hi[u] <= v
          \/ u <= lo[v] /\ hi[v] <= hi[u]
      BY <2>2 DEF Intervals
    <3>2. z < hi[z] /\ u # z /\ v # z
      BY DEF Intervals
    <3>3. z < hi[u] => hi[z] <= hi[u]
      BY <1>0, <1>3, Basics DEF Intervals
    <3>4. z < lo[v] => hi[z] <= lo[v]
      BY <1>0, <1>3, Basics DEF Intervals
    <3>5. z < v => hi[z] <= v
      BY <1>0, <1>3
    <3>6. lo[v] # z
      BY <1>4
    <3>7. /\ u \in Nat /\ v \in Nat /\ z \in Nat /\ lo[u] \in Nat /\ lo[v] \in Nat /\ lo[z] \in Nat
          /\ hi[u] \in Nat /\ hi[v] \in Nat /\ hi[z] \in Nat
      BY <1>0
    <3>8. /\ hi2[u] = IF hi[u] = z THEN hi[z] ELSE hi[u]
          /\ hi2[v] = IF hi[v] = z THEN hi[z] ELSE hi[v]
      BY <1>2
    <3> QED BY <3>1, <3>2, <3>3, <3>4, <3>5, <3>6, <3>7, <3>8, <2>2
  <2> QED BY <2>1, <2>2 DEF Intervals
<1>6. \A q \in m : /\ c = r[q] => c = Sentinel
                   /\ c = l[q] => q = z \/ c = Sentinel
  BY <1>0 DEF Linked, ChildOn, Intervals
<1>7. c # Sentinel => c \in m /\ pa[c] = z /\ hi[c] = z /\ lo[c] = lo[z] /\ c # z
  BY <1>0 DEF Linked, ChildOn, Intervals
<1>8. c = Sentinel => \A q \in m : ~(lo[z] < q /\ q < z)
  BY <1>0 DEF Linked, ChildOn
<1>9. \/ pa[z] \in m /\ pa[z] # z
      \/ pa[z] = Sentinel /\ z = root
  <2>1. CASE z = root
    BY <1>0, <2>1 DEF Linked, ChildOn
  <2>2. CASE z # root
    <3>1. pa[z] \in m /\ z \in {l[pa[z]], r[pa[z]]}
      BY <2>2 DEF Linked
    <3>2. pa[z] # z
      BY <1>0, <3>1 DEF Linked, ChildOn, Intervals
    <3> QED BY <3>1, <3>2
  <2> QED BY <2>1, <2>2
<1>10. ChildOn(root2, Sentinel, 0, N + 1, pa2, k, lo, hi2)
  <2>1. CASE pa[z] = Sentinel
    <3>1. z = root /\ lo[z] = 0 /\ hi[z] = N + 1
      BY <1>0, <1>9, <2>1 DEF Linked, ChildOn
    <3>2. CASE c = Sentinel
      BY <1>0, <1>3, <1>8, <2>1, <3>1, <3>2 DEF ChildOn
    <3>3. CASE c # Sentinel
      BY <1>0, <1>2, <1>7, <2>1, <3>1, <3>3 DEF ChildOn
    <3> QED BY <3>2, <3>3
  <2>2. CASE pa[z] # Sentinel
    <3>1. pa[z] \in m /\ z # root
      BY <1>0, <1>9, <2>2 DEF Linked, ChildOn
    <3>2. root \in m /\ root # c
      BY <1>0, <1>7, <3>1, Basics DEF Linked, ChildOn
    <3>3. pa[root] = Sentinel /\ lo[root] = 0 /\ hi[root] = N + 1
      BY <1>0, <3>2 DEF Linked, ChildOn
    <3>4. root2 = root /\ pa2[root] = Sentinel /\ hi2[root] = N + 1 /\ root \in k
      BY <1>0, <1>2, <2>2, <3>1, <3>2, <3>3, Basics
    <3> QED BY <3>3, <3>4 DEF ChildOn
  <2> QED BY <2>1, <2>2
<1>11. ASSUME NEW q \in k PROVE ChildOn(r2[q], q, q, hi2[q], pa2, k, lo, hi2)
  <2>1. ChildOn(r[q], q, q, hi[q], pa, m, lo, hi)
    BY DEF Linked
  <2>2. CASE r[q] = z
    <3>1. lo[z] = q /\ hi[z] = hi[q] /\ q = pa[z]
      BY <1>0, <2>1, <2>2 DEF ChildOn
    <3>2. l[q] # z
      BY <1>0, <3>1 DEF Linked, ChildOn, Intervals
    <3> QED BY <1>0, <1>2, <1>3, <1>4, <1>7, <1>8, <2>2, <3>1, <3>2 DEF ChildOn
  <2>3. CASE r[q] # z
    <3>1. r2[q] = r[q]
      BY <1>0, <1>9, <2>3 DEF Linked, ChildOn
    <3>2. CASE r[q] \in m
      BY <1>0, <1>2, <1>6, <2>1, <2>3, <3>1, <3>2 DEF ChildOn
    <3>3. CASE r[q] = Sentinel
      <4>1. \A y \in m : ~(q < y /\ y < hi[q])
        BY <1>0, <2>1, <3>3 DEF ChildOn
      <4>2. \A y \in k : ~(q < y /\ y < hi2[q])
        BY <1>0, <1>2, <1>3, <4>1
      <4> QED BY <3>1, <3>3, <4>2 DEF ChildOn
    <3> QED BY <2>1, <3>2, <3>3 DEF ChildOn
  <2> QED BY <2>2, <2>3
<1>12. ASSUME NEW q \in k PROVE ChildOn(l2[q], q, lo[q], q, pa2, k, lo, hi2)
  <2>1. ChildOn(l[q], q, lo[q], q, pa, m, lo, hi)
    BY DEF Linked
  <2>2. CASE l[q] = z
    <3>1. hi[z] = q /\ lo[z] = lo[q] /\ q = pa[z]
      BY <1>0, <2>1, <2>2 DEF ChildOn
    <3> QED BY <1>0, <1>2, <1>3, <1>7, <1>8, <2>2, <3>1 DEF ChildOn
  <2>3. CASE l[q] # z
    <3>1. l2[q] = l[q]
      BY <2>3
    <3>2. CASE l[q] \in m
      BY <1>0, <1>2, <1>6, <2>1, <2>3, <3>1, <3>2 DEF ChildOn
    <3>3. CASE l[q] = Sentinel
      BY <1>0, <2>1, <3>1, <3>3 DEF ChildOn
    <3> QED BY <2>1, <3>2, <3>3 DEF ChildOn
  <2> QED BY <2>2, <2>3
<1>13. ASSUME NEW q \in k, q # root2 PROVE pa2[q] \in k /\ q \in {l2[pa2[q]], r2[pa2[q]]}
  <2>1. CASE q = c
    <3>1. pa[z] \in m /\ pa[z] # z /\ pa2[q] = pa[z]
      BY <1>9, <1>13, <2>1
    <3>2. z # root
      BY <1>0, <3>1 DEF Linked, ChildOn
    <3>3. z \in {l[pa[z]], r[pa[z]]}
      BY <3>2 DEF Linked
    <3> QED BY <1>0, <2>1, <3>1, <3>3
  <2>2. CASE q # c
    <3>1. q # root
      BY <1>0, <1>9, <1>13, <2>2
    <3>2. pa[q] \in m /\ q \in {l[pa[q]], r[pa[q]]} /\ pa2[q] = pa[q]
      BY <2>2, <3>1 DEF Linked
    <3>3. pa[q] # z
      BY <1>0, <2>2, <3>2
    <3>4. l[pa[q]] = q => l2[pa[q]] = q
      BY <1>0, <3>2
    <3>5. r[pa[q]] = q => r2[pa[q]] = q
      <4>1. SUFFICES ASSUME r[pa[q]] = q, pa[q] = pa[z], l[pa[z]] # z PROVE FALSE
        BY <3>2
      <4>2. z # root
        BY <1>0, <3>2, <4>1 DEF Linked, ChildOn
      <4> QED BY <4>1, <4>2 DEF Linked
    <3> QED BY <3>2, <3>3, <3>4, <3>5
  <2> QED BY <2>1, <2>2
<1>20. root2 \in Pointers
  BY <1>0, Basics
<1>21. Linked(root2, l2, r2, pa2, k, lo, hi2)
  BY <1>10, <1>11, <1>12, <1>13 DEF Linked
<1>22. Layout(k, root2, l2, r2, pa2, lo, hi2)
  BY <1>1, <1>5, <1>20, <1>21
<1> QED BY <1>22


(* l, r, pa after y took the place of z, and x that of y.                  *)
CutsInner(m, root, l, r, pa, lo, z, y, x, root2, l2, r2, pa2) ==
  /\ l[z] \in m /\ r[z] \in m /\ lo[y] = z /\ l[y] = Sentinel /\ x = r[y]
  /\ root2 = IF pa[z] = Sentinel THEN y ELSE root
  /\ l2 \in [Pointers -> Pointers] /\ r2 \in [Pointers -> Pointers]
  /\ pa2 \in [Pointers -> Pointers]
  /\ \A q \in m : l2[q] = IF q = y THEN l[z] ELSE IF q = pa[z] /\ l[q] = z THEN y
                          ELSE IF q = pa[y] /\ y # r[z] THEN x ELSE l[q]
  /\ \A q \in m : r2[q] = IF q = y THEN (IF y = r[z] THEN x ELSE r[z])
                          ELSE IF q = pa[z] /\ l[q] # z THEN y ELSE r[q]
  /\ \A q \in m : pa2[q] = IF q = y THEN pa[z] ELSE IF q = l[z] THEN y
                           ELSE IF q = x THEN (IF y = r[z] THEN y ELSE pa[y])
                           ELSE IF q = r[z] THEN y ELSE pa[q]

(* An item with two children is cut out: its successor y, which has no     *)
(* left child, takes its place, and y's right child x takes y's.           *)
LEMMA CutInner ==
  ASSUME NEW m \in SUBSET Nodes, NEW root, NEW l, NEW r, NEW pa, NEW lo, NEW hi,
         Layout(m, root, l, r, pa, lo, hi),
         NEW z \in m, NEW y \in m, NEW x, NEW root2, NEW l2, NEW r2, NEW pa2,
         CutsInner(m, root, l, r, pa, lo, z, y, x, root2, l2, r2, pa2)
  PROVE  \E lo2, hi2 : Layout(Without(m, z), root2, l2, r2, pa2, lo2, hi2)
<1> USE DEF Without, Layout, CutsInner
<1> DEFINE k == m \ {z}
           lo2 == [q \in Nodes |-> IF q = y THEN lo[z] ELSE IF lo[q] = z THEN y ELSE lo[q]]
           hi2 == [q \in Nodes |-> IF q = y THEN hi[z] ELSE IF hi[q] = z THEN y ELSE hi[q]]
<1>0. /\ \A q \in m : q \in Nat /\ q # Sentinel /\ q # Null /\ q \in Nodes
      /\ \A q \in m : lo[q] \in Nat /\ hi[q] \in Nat
  BY MembersAreNumbers
<1>1. lo2 \in [Nodes -> Pointers] /\ hi2 \in [Nodes -> Pointers]
  <2>1. y \in Pointers
    BY Basics
  <2> QED BY <1>0, <2>1
<1>2. /\ \A q \in m : lo2[q] = IF q = y THEN lo[z] ELSE IF lo[q] = z THEN y ELSE lo[q]
      /\ \A q \in m : hi2[q] = IF q = y THEN hi[z] ELSE IF hi[q] = z THEN y ELSE hi[q]
  BY <1>0
<1> HIDE DEF lo2, hi2
<1>3. \A q \in m : ~(z < q /\ q < y)
  BY <1>0 DEF Linked, ChildOn
<1>4. z < y /\ lo[z] < z /\ z < hi[z] /\ y < hi[y] /\ hi[y] <= hi[z] /\ y # z
  <2>1. z < y /\ lo[z] < z /\ z < hi[z] /\ y < hi[y]
    BY DEF Intervals
  <2>2. \/ hi[z] <= lo[y]
        \/ lo[y] <= lo[z] /\ hi[z] <= y
        \/ z <= lo[y] /\ hi[y] <= hi[z]
    BY <2>1 DEF Intervals
  <2> QED BY <1>0, <2>1, <2>2
<1>5. Intervals(k, lo2, hi2)
  <2>1. \A q \in k : /\ lo2[q] < q /\ lo2[q] \in k \cup {0}
                     /\ q < hi2[q] /\ hi2[q] \in k \cup {N + 1}
    <3> TAKE q \in k
    <3>1. lo[q] < q /\ q < hi[q] /\ lo[q] \in m \cup {0} /\ hi[q] \in m \cup {N + 1}
      BY DEF Intervals
    <3>2. lo[z] \in m \cup {0} /\ hi[z] \in m \cup {N + 1}
      BY DEF Intervals
    <3>3. CASE q = y
      BY <1>0, <1>2, <1>4, <3>2, <3>3, Basics
    <3>4. CASE q # y
      BY <1>0, <1>2, <1>3, <1>4, <3>1, <3>4
    <3> QED BY <3>3, <3>4
  <2>2. ASSUME NEW u \in k, NEW v \in k, u < v
        PROVE  \/ hi2[u] <= lo2[v]
               \/ lo2[v] <= lo2[u] /\ hi2[u] <= v
               \/ u <= lo2[v] /\ hi2[v] <= hi2[u]
    <3>1. /\ lo[u] < u /\ u < hi[u] /\ lo[u] \in m \cup {0} /\ hi[u] \in m \cup {N + 1}
          /\ lo[v] < v /\ v < hi[v] /\ lo[v] \in m \cup {0} /\ hi[v] \in m \cup {N + 1}
          /\ u # z /\ v # z
      BY DEF Intervals
    <3>2. CASE u = y
      <4>1. \/ hi[z] <= lo[v]
            \/ lo[v] <= lo[z] /\ hi[z] <= v
            \/ z <= lo[v] /\ hi[v] <= hi[z]
        BY <1>0, <1>4, <2>2, <3>2 DEF Intervals
      <4>2. z < lo[v] => y <= lo[v]
        BY <1>0, <1>3, <1>4, <3>1
      <4>3. v # y /\ lo2[u] = lo[z] /\ hi2[u] = hi[z]
        BY <1>0, <1>2, <2>2, <3>2
      <4> QED BY <1>0, <1>2, <1>4, <2>2, <3>1, <3>2, <4>1, <4>2, <4>3
    <3>3. CASE v = y
      <4>1. u < z
        BY <1>0, <1>3, <2>2, <3>1, <3>3
      <4>2. \/ hi[u] <= lo[z]
            \/ lo[z] <= lo[u] /\ hi[u] <= z
            \/ u <= lo[z] /\ hi[z] <= hi[u]
        BY <4>1 DEF Intervals
      <4>3. u # y /\ lo2[v] = lo[z] /\ hi2[v] = hi[z]
        BY <1>0, <1>2, <2>2, <3>3
      <4> QED BY <1>0, <1>2, <1>4, <2>2, <3>1, <3>3, <4>1, <4>2, <4>3
    <3>4. CASE u # y /\ v # y
      <4>1. \/ hi[u] <= lo[v]
            \/ lo[v] <= lo[u] /\ hi[u] <= v
            \/ u <= lo[v] /\ hi[v] <= hi[u]
        BY <2>2 DEF Intervals
      <4>2. /\ z < lo[u] => y <= lo[u]
            /\ z < lo[v] => y <= lo[v]
            /\ z < hi[u] => y <= hi[u]
            /\ z < hi[v] => y <= hi[v]
            /\ z < v => y <= v
            /\ z < u => y <= u
        BY <1>0, <1>3, <1>4, <3>1, Basics
      <4>3. /\ lo2[u] = IF lo[u] = z THEN y ELSE lo[u]
            /\ lo2[v] = IF lo[v] = z THEN y ELSE lo[v]
            /\ hi2[u] = IF hi[u] = z THEN y ELSE hi[u]
            /\ hi2[v] = IF hi[v] = z THEN y ELSE hi[v]
        BY <1>2, <3>4
      <4> QED BY <1>0, <1>4, <2>2, <3>1, <4>1, <4>2, <4>3
    <3> QED BY <3>2, <3>3, <3>4
  <2> QED BY <2>1, <2>2 DEF Intervals
<1>6. /\ pa[l[z]] = z /\ lo[l[z]] = lo[z] /\ hi[l[z]] = z /\ l[z] # y /\ l[z] # z
      /\ pa[r[z]] = z /\ lo[r[z]] = z /\ hi[r[z]] = hi[z] /\ r[z] # z /\ l[z] # r[z]
  BY <1>0, <1>4 DEF Linked, ChildOn, Intervals
<1>7. /\ x \in m => pa[x] = y /\ lo[x] = y /\ hi[x] = hi[y] /\ x # y /\ x # z
      /\ x \notin m => x = Sentinel /\ \A q \in m : ~(y < q /\ q < hi[y])
  BY <1>0, <1>4 DEF Linked, ChildOn, Intervals
<1>8. \/ pa[z] \in m /\ pa[z] # z /\ z # root /\ z \in {l[pa[z]], r[pa[z]]}
      \/ pa[z] = Sentinel /\ z = root /\ lo[z] = 0 /\ hi[z] = N + 1
  <2>1. CASE z = root
    BY <1>0, <2>1 DEF Linked, ChildOn
  <2>2. CASE z # root
    <3>1. pa[z] \in m /\ z \in {l[pa[z]], r[pa[z]]}
      BY <2>2 DEF Linked
    <3>2. pa[z] # z
      BY <1>0, <3>1 DEF Linked, ChildOn, Intervals
    <3> QED BY <2>2, <3>1, <3>2
  <2> QED BY <2>1, <2>2
<1>9. ASSUME y # r[z] PROVE pa[y] \in m /\ l[pa[y]] = y /\ lo[pa[y]] = z /\ hi[y] = pa[y] /\ pa[y] # z /\ pa[y] # y
  <2>1. y # root
    BY <1>0, <1>4, Basics DEF Linked, ChildOn
  <2>2. pa[y] \in m /\ y \in {l[pa[y]], r[pa[y]]}
    BY <2>1 DEF Linked
  <2>3. r[pa[y]] # y
    BY <1>0, <1>9, <2>2 DEF Linked, ChildOn
  <2>4. l[pa[y]] = y
    BY <2>2, <2>3
  <2> QED BY <1>0, <1>4, <2>2, <2>4 DEF Linked, ChildOn
<1>10. ChildOn(root2, Sentinel, 0, N + 1, pa2, k, lo2, hi2)
  <2>1. CASE pa[z] = Sentinel
    BY <1>0, <1>2, <1>4, <1>8, <2>1 DEF ChildOn
  <2>2. CASE pa[z] # Sentinel
    <3>1. root \in m /\ pa[root] = Sentinel /\ lo[root] = 0 /\ hi[root] = N + 1
      BY <1>0, <1>8, <2>2, Basics DEF Linked, ChildOn
    <3>2. root # l[z] /\ root # r[z] /\ root # x /\ root # z
      BY <1>0, <1>6, <1>7, <1>8, <2>2, <3>1
    <3>3. root # y
      BY <1>0, <1>4, <3>1, Basics
    <3>4. hi2[root] = N + 1 /\ lo2[root] = 0 /\ pa2[root] = Sentinel /\ root2 = root
      BY <1>0, <1>2, <2>2, <3>1, <3>2, <3>3, Basics
    <3> QED BY <3>1, <3>2, <3>4 DEF ChildOn
  <2> QED BY <2>1, <2>2
<1>11. ASSUME NEW q \in k PROVE ChildOn(l2[q], q, lo2[q], q, pa2, k, lo2, hi2)
  <2>1. ChildOn(l[q], q, lo[q], q, pa, m, lo, hi)
    BY DEF Linked
  <2>2. CASE q = y
    <3>1. l2[q] = l[z] /\ pa2[l[z]] = y /\ lo2[l[z]] = lo[z] /\ hi2[l[z]] = y /\ lo2[q] = lo[z]
      BY <1>0, <1>2, <1>4, <1>6, <2>2
    <3> QED BY <1>6, <2>2, <3>1 DEF ChildOn
  <2>3. CASE q # y /\ q = pa[z] /\ l[q] = z
    <3>1. lo[z] = lo[q] /\ hi[z] = q
      BY <1>0, <2>1, <2>3 DEF ChildOn
    <3> QED BY <1>0, <1>2, <1>4, <2>3, <3>1 DEF ChildOn
  <2>4. CASE q # y /\ l[q] # z /\ q = pa[y] /\ y # r[z]
    <3>1. l2[q] = x /\ lo2[q] = y /\ hi[y] = q
      BY <1>0, <1>2, <1>9, <2>4
    <3>2. CASE x \in m
      <4>1. pa2[x] = q /\ lo2[x] = y /\ hi2[x] = q
        BY <1>0, <1>2, <1>4, <1>6, <1>7, <2>4, <3>1, <3>2
      <4> QED BY <1>7, <3>1, <3>2, <4>1 DEF ChildOn
    <3>3. CASE x \notin m
      BY <1>7, <3>1, <3>3 DEF ChildOn
    <3> QED BY <3>2, <3>3
  <2>5. CASE q # y /\ l[q] # z /\ ~(q = pa[y] /\ y # r[z])
    <3>1. l2[q] = l[q]
      BY <2>5
    <3>2. CASE l[q] \in m
      <4>1. pa[l[q]] = q /\ lo[l[q]] = lo[q] /\ hi[l[q]] = q
        BY <1>0, <2>1, <3>2 DEF ChildOn
      <4>2. l[q] # y /\ l[q] # l[z] /\ l[q] # r[z] /\ l[q] # x
        BY <1>0, <1>6, <1>7, <2>5, <3>2, <4>1
      <4>3. pa2[l[q]] = q /\ lo2[l[q]] = lo2[q] /\ hi2[l[q]] = q
        BY <1>0, <1>2, <2>5, <3>2, <4>1, <4>2
      <4> QED BY <2>5, <3>1, <3>2, <4>3 DEF ChildOn
    <3>3. CASE l[q] = Sentinel
      <4>1. \A w \in m : ~(lo[q] < w /\ w < q)
        BY <1>0, <2>1, <3>3 DEF ChildOn
      <4>2. \A w \in k : ~(lo2[q] < w /\ w < q)
        BY <1>0, <1>2, <1>4, <2>5, <4>1
      <4> QED BY <3>1, <3>3, <4>2 DEF ChildOn
    <3> QED BY <2>1, <3>2, <3>3 DEF ChildOn
  <2>6. l[q] = z => q = pa[z]
    BY <1>0, <2>1 DEF ChildOn
  <2> QED BY <2>2, <2>3, <2>4, <2>5, <2>6
<1>12. ASSUME NEW q \in k PROVE ChildOn(r2[q], q, q, hi2[q], pa2, k, lo2, hi2)
  <2>1. ChildOn(r[q], q, q, hi[q], pa, m, lo, hi)
    BY DEF Linked
  <2>2. CASE q = y /\ y = r[z]
    <3>1. r2[q] = x /\ hi2[q] = hi[y] /\ hi[y] = hi[z]
      BY <1>0, <1>2, <1>6, <2>2
    <3>2. CASE x \in m
      <4>1. pa2[x] = y /\ lo2[x] = y /\ hi2[x] = hi[y]
        BY <1>0, <1>2, <1>4, <1>6, <1>7, <2>2, <3>1, <3>2
      <4> QED BY <1>7, <2>2, <3>1, <3>2, <4>1 DEF ChildOn
    <3>3. CASE x \notin m
      BY <1>7, <2>2, <3>1, <3>3 DEF ChildOn
    <3> QED BY <3>2, <3>3
  <2>3. CASE q = y /\ y # r[z]
    <3>1. r2[q] = r[z] /\ hi2[q] = hi[z]
      BY <1>0, <1>2, <2>3
    <3>2. r[z] # x
      BY <1>0, <1>6, <1>7, <1>4
    <3>3. pa2[r[z]] = y /\ lo2[r[z]] = y /\ hi2[r[z]] = hi[z]
      BY <1>0, <1>2, <1>4, <1>6, <2>3, <3>2
    <3> QED BY <1>6, <2>3, <3>1, <3>3 DEF ChildOn
  <2>4. CASE q # y /\ r[q] = z
    <3>1. lo[z] = q /\ hi[z] = hi[q] /\ q = pa[z]
      BY <1>0, <2>1, <2>4 DEF ChildOn
    <3>2. l[q] # z
      BY <1>0, <3>1 DEF Linked, ChildOn, Intervals
    <3> QED BY <1>0, <1>2, <1>4, <2>4, <3>1, <3>2 DEF ChildOn
  <2>5. CASE q # y /\ r[q] # z
    <3>1. r2[q] = r[q]
      BY <1>0, <1>8, <2>5 DEF Linked, ChildOn
    <3>2. CASE r[q] \in m
      <4>1. pa[r[q]] = q /\ lo[r[q]] = q /\ hi[r[q]] = hi[q]
        BY <1>0, <2>1, <3>2 DEF ChildOn
      <4>2. r[q] # y /\ r[q] # l[z] /\ r[q] # r[z] /\ r[q] # x
        BY <1>0, <1>6, <1>7, <2>5, <3>2, <4>1
      <4>3. pa2[r[q]] = q /\ lo2[r[q]] = q /\ hi2[r[q]] = hi2[q]
        BY <1>0, <1>2, <2>5, <3>2, <4>1, <4>2
      <4> QED BY <2>5, <3>1, <3>2, <4>3 DEF ChildOn
    <3>3. CASE r[q] = Sentinel
      <4>1. \A w \in m : ~(q < w /\ w < hi[q])
        BY <1>0, <2>1, <3>3 DEF ChildOn
      <4>2. \A w \in k : ~(q < w /\ w < hi2[q])
        BY <1>0, <1>2, <1>3, <1>4, <2>5, <4>1
      <4> QED BY <3>1, <3>3, <4>2 DEF ChildOn
    <3> QED BY <2>1, <3>2, <3>3 DEF ChildOn
  <2> QED BY <2>2, <2>3, <2>4, <2>5
<1>13. ASSUME NEW q \in k, q # root2 PROVE pa2[q] \in k /\ q \in {l2[pa2[q]], r2[pa2[q]]}
  <2>1. CASE q = y
    <3>1. pa[z] \in m /\ pa[z] # z /\ pa2[q] = pa[z] /\ z \in {l[pa[z]], r[pa[z]]}
      BY <1>8, <1>13, <2>1
    <3>2. pa[z] # y
      BY <1>0, <1>4, <3>1 DEF Linked, ChildOn
    <3> QED BY <1>0, <2>1, <3>1, <3>2
  <2>2. CASE q # y /\ q = l[z]
    BY <1>0, <1>4, <1>6, <2>2
  <2>3. CASE q # y /\ q # l[z] /\ q = x
    <3>1. CASE y = r[z]
      BY <1>0, <1>4, <2>3, <3>1
    <3>2. CASE y # r[z]
      <4>1. l[pa[y]] # z
        BY <1>4, <1>9, <3>2
      <4> QED BY <1>0, <1>4, <1>9, <2>3, <3>2, <4>1
    <3> QED BY <3>1, <3>2
  <2>4. CASE q # y /\ q # l[z] /\ q # x /\ q = r[z]
    BY <1>0, <1>4, <2>4
  <2>5. CASE q # y /\ q # l[z] /\ q # x /\ q # r[z]
    <3>1. q # root
      BY <1>0, <1>8, <1>13, <2>5
    <3>2. pa[q] \in m /\ q \in {l[pa[q]], r[pa[q]]} /\ pa2[q] = pa[q]
      BY <2>5, <3>1 DEF Linked
    <3>3. pa[q] # z
      BY <1>0, <2>5, <3>2
    <3>4. pa[q] # y
      BY <1>0, <2>5, <3>2
    <3>5. l[pa[q]] = q => l2[pa[q]] = q
      <4>1. SUFFICES ASSUME l[pa[q]] = q, pa[q] = pa[y], y # r[z] PROVE FALSE
        BY <3>2, <3>4
      <4> QED BY <1>9, <2>5, <4>1
    <3>6. r[pa[q]] = q => r2[pa[q]] = q
      <4>1. SUFFICES ASSUME r[pa[q]] = q, pa[q] = pa[z], l[pa[z]] # z PROVE FALSE
        BY <3>2, <3>4
      <4> QED BY <1>0, <1>8, <3>2, <4>1
    <3> QED BY <3>2, <3>3, <3>5, <3>6
  <2> QED BY <2>1, <2>2, <2>3, <2>4, <2>5
<1>20. root2 \in Pointers
  BY <1>0, Basics
<1>21. Linked(root2, l2, r2, pa2, k, lo2, hi2)
  BY <1>10, <1>11, <1>12, <1>13 DEF Linked
<1>22. Layout(k, root2, l2, r2, pa2, lo2, hi2)
  BY <1>1, <1>5, <1>20, <1>21
<1> QED BY <1>22

-----------------------------------------------------------------------------
(* Single writes.                                                          *)

(* u is t with other links, as far as nothing is said of its links.        *)
SameColours(t, u) == u.fate = t.fate /\ u.red = t.red /\ u.skewed = t.skewed

LEMMA LeftSet ==
  ASSUME NEW t \in Trees, NEW p \in Pointers, NEW q \in Pointers, NEW u, u = SetLeft(t, p, q)
  PROVE  /\ u \in Trees /\ (Broken(t) => Broken(u)) /\ (p = Null => Broken(u))
         /\ p # Null => /\ SameColours(t, u)
                        /\ u.root = t.root /\ u.right = t.right /\ u.parent = t.parent
                        /\ u.left = [t.left EXCEPT ![p] = q]
<1>1. CASE p = Null
  BY <1>1 DEF SetLeft, Fail, Broken, Trees
<1>2. CASE p # Null
  BY <1>2 DEF SetLeft, Broken, Trees, SameColours
<1> QED BY <1>1, <1>2

LEMMA RightSet ==
  ASSUME NEW t \in Trees, NEW p \in Pointers, NEW q \in Pointers, NEW u, u = SetRight(t, p, q)
  PROVE  /\ u \in Trees /\ (Broken(t) => Broken(u)) /\ (p = Null => Broken(u))
         /\ p # Null => /\ SameColours(t, u)
                        /\ u.root = t.root /\ u.left = t.left /\ u.parent = t.parent
                        /\ u.right = [t.right EXCEPT ![p] = q]
<1>1. CASE p = Null
  BY <1>1 DEF SetRight, Fail, Broken, Trees
<1>2. CASE p # Null
  BY <1>2 DEF SetRight, Broken, Trees, SameColours
<1> QED BY <1>1, <1>2

LEMMA ParentSet ==
  ASSUME NEW t \in Trees, NEW p \in Pointers, NEW q \in Pointers, NEW u, u = SetParent(t, p, q)
  PROVE  /\ u \in Trees /\ (Broken(t) => Broken(u)) /\ (p = Null => Broken(u))
         /\ p # Null => /\ SameColours(t, u)
                        /\ u.root = t.root /\ u.left = t.left /\ u.right = t.right
                        /\ u.parent = [t.parent EXCEPT ![p] = q]
<1>1. CASE p = Null
  BY <1>1 DEF SetParent, Fail, Broken, Trees
<1>2. CASE p # Null
  BY <1>2 DEF SetParent, Broken, Trees, SameColours
<1> QED BY <1>1, <1>2

LEMMA RedSet ==
  ASSUME NEW t \in Trees, NEW p \in Pointers, NEW b \in BOOLEAN, NEW u, u = SetRed(t, p, b)
  PROVE  /\ u \in Trees /\ (Broken(t) => Broken(u)) /\ (p = Null => Broken(u))
         /\ u.root = t.root /\ u.left = t.left /\ u.right = t.right /\ u.parent = t.parent
         /\ u.skewed = t.skewed
         /\ p # Null => u.fate = t.fate /\ u.red = [t.red EXCEPT ![p] = b]
<1>1. CASE p = Null
  BY <1>1 DEF SetRed, Fail, Broken, Trees
<1>2. CASE p # Null
  BY <1>2 DEF SetRed, Broken, Trees
<1> QED BY <1>1, <1>2

LEMMA Failed ==
  ASSUME NEW t \in Trees, NEW f \in {"null_deref", "endless"}, NEW u, u = Fail(t, f)
  PROVE  u \in Trees /\ Broken(u)
BY DEF Fail, Broken, Trees

LEMMA FieldTypes ==
  ASSUME NEW t \in Trees, NEW x \in Pointers
  PROVE  /\ t.left[x] \in Pointers /\ t.right[x] \in Pointers /\ t.parent[x] \in Pointers
         /\ t.root \in Pointers /\ t.red[x] \in BOOLEAN
BY DEF Trees

LEMMA Replaced ==
  ASSUME NEW t \in Trees, NEW x \in Pointers, NEW y \in Pointers, NEW u, u = Replace(t, x, y)
  PROVE  /\ u \in Trees /\ (Broken(t) => Broken(u)) /\ (t.parent[x] = Null => Broken(u))
         /\ t.parent[x] # Null =>
              /\ SameColours(t, u) /\ u.parent = t.parent
              /\ u.root = IF t.parent[x] = Sentinel THEN y ELSE t.root
              /\ u.left = IF t.parent[x] # Sentinel /\ x = t.left[t.parent[x]]
                          THEN [t.left EXCEPT ![t.parent[x]] = y] ELSE t.left
              /\ u.right = IF t.parent[x] # Sentinel /\ x # t.left[t.parent[x]]
                           THEN [t.right EXCEPT ![t.parent[x]] = y] ELSE t.right
<1>1. t.parent[x] \in Pointers /\ Sentinel # Null
  BY FieldTypes, Basics
<1>2. CASE t.parent[x] = Sentinel
  BY <1>1, <1>2 DEF Replace, Broken, Trees, SameColours
<1>3. CASE t.parent[x] # Sentinel /\ x = t.left[t.parent[x]]
  <2>1. u = SetLeft(t, t.parent[x], y)
    BY <1>3 DEF Replace
  <2> QED BY <1>1, <1>3, <2>1, LeftSet DEF SameColours
<1>4. CASE t.parent[x] # Sentinel /\ x # t.left[t.parent[x]]
  <2>1. u = SetRight(t, t.parent[x], y)
    BY <1>4 DEF Replace
  <2> QED BY <1>1, <1>4, <2>1, RightSet DEF SameColours
<1> QED BY <1>2, <1>3, <1>4

(* u is t after y took the place of x below its parent.                    *)
Moved(t, u, x, y) ==
  /\ u \in Trees /\ SameColours(t, u) /\ u.parent = [t.parent EXCEPT ![y] = t.parent[x]]
  /\ u.root = IF t.parent[x] = Sentinel THEN y ELSE t.root
  /\ u.left = IF t.parent[x] # Sentinel /\ x = t.left[t.parent[x]]
              THEN [t.left EXCEPT ![t.parent[x]] = y] ELSE t.left
  /\ u.right = IF t.parent[x] # Sentinel /\ x # t.left[t.parent[x]]
               THEN [t.right EXCEPT ![t.parent[x]] = y] ELSE t.right

LEMMA Transplanted ==
  ASSUME NEW t \in Trees, NEW x \in Pointers, NEW y \in Pointers
  PROVE  /\ RBTransplant(t, x, y) \in Trees
         /\ Broken(t) \/ t.parent[x] = Null \/ y = Null => Broken(RBTransplant(t, x, y))
         /\ t.parent[x] # Null /\ y # Null => Moved(t, RBTransplant(t, x, y), x, y)
<1>0. PICK u : u = RBTransplant(t, x, y)
  OBVIOUS
<1>1. PICK s : s = Replace(t, x, y)
  OBVIOUS
<1>2. u = SetParent(s, y, t.parent[x]) /\ t.parent[x] \in Pointers
  BY <1>0, <1>1, FieldTypes DEF RBTransplant
<1>3. /\ s \in Trees /\ (Broken(t) => Broken(s)) /\ (t.parent[x] = Null => Broken(s))
      /\ t.parent[x] # Null =>
           /\ SameColours(t, s) /\ s.parent = t.parent
           /\ s.root = IF t.parent[x] = Sentinel THEN y ELSE t.root
           /\ s.left = IF t.parent[x] # Sentinel /\ x = t.left[t.parent[x]]
                       THEN [t.left EXCEPT ![t.parent[x]] = y] ELSE t.left
           /\ s.right = IF t.parent[x] # Sentinel /\ x # t.left[t.parent[x]]
                        THEN [t.right EXCEPT ![t.parent[x]] = y] ELSE t.right
  BY <1>1, Replaced
<1>4. /\ u \in Trees /\ (Broken(s) => Broken(u)) /\ (y = Null => Broken(u))
      /\ y # Null => /\ SameColours(s, u)
                     /\ u.root = s.root /\ u.left = s.left /\ u.right = s.right
                     /\ u.parent = [s.parent EXCEPT ![y] = t.parent[x]]
  BY <1>2, <1>3, ParentSet
<1>5. CASE t.parent[x] = Null \/ y = Null
  BY <1>0, <1>3, <1>4, <1>5
<1>6. CASE t.parent[x] # Null /\ y # Null
  <2>1. SameColours(t, u)
    BY <1>3, <1>4, <1>6 DEF SameColours
  <2>2. u.root = s.root /\ u.left = s.left /\ u.right = s.right /\ s.parent = t.parent
    BY <1>3, <1>4, <1>6
  <2>3. u.parent = [t.parent EXCEPT ![y] = t.parent[x]]
    BY <1>4, <1>6, <2>2
  <2>4. Moved(t, u, x, y)
    BY <1>3, <1>4, <1>6, <2>1, <2>2, <2>3, Zenon DEF Moved
  <2>5. Broken(t) => Broken(u)
    BY <1>3, <1>4
  <2> QED BY <1>0, <1>4, <1>6, <2>4, <2>5
<1> QED BY <1>5, <1>6

-----------------------------------------------------------------------------
(* Rotations.                                                              *)

(* What is not an item has no children.                                    *)
Ends(t) ==
  /\ t.left[Sentinel] = Null /\ t.right[Sentinel] = Null
  /\ t.left[Null] = Null /\ t.right[Null] = Null /\ t.parent[Null] = Null

Shape(t, m) ==
  \E lo, hi : Layout(m, t.root, t.left, t.right, t.parent, lo, hi)

Sound(t, m) == t \in Trees /\ Ends(t) /\ Shape(t, m)

LEMMA ChildrenOf ==
  ASSUME NEW m \in SUBSET Nodes, NEW t, Sound(t, m), NEW x \in m
  PROVE  /\ t.root \in m
         /\ t.left[x] \in m \cup {Sentinel} /\ t.right[x] \in m \cup {Sentinel}
         /\ t.left[x] \in m => t.parent[t.left[x]] = x
         /\ t.right[x] \in m => t.parent[t.right[x]] = x
         /\ t.left[x] = t.right[x] => t.left[x] = Sentinel
         /\ t.left[x] # x /\ t.right[x] # x
         /\ x # t.root => t.parent[x] \in m /\ x \in {t.left[t.parent[x]], t.right[t.parent[x]]}
         /\ x = t.root => t.parent[x] = Sentinel
         /\ t.parent[x] \in m \cup {Sentinel} /\ t.parent[x] # x
<1>1. PICK lo \in [Nodes -> Pointers], hi \in [Nodes -> Pointers] :
        Intervals(m, lo, hi) /\ Linked(t.root, t.left, t.right, t.parent, m, lo, hi)
  BY DEF Sound, Shape, Layout
<1>2. /\ \A q \in m : q \in Nat /\ q # Sentinel /\ q # Null /\ q \in Nodes
      /\ \A q \in m : lo[q] \in Nat /\ hi[q] \in Nat
  BY MembersAreNumbers
<1>3. t.root \in m /\ t.parent[t.root] = Sentinel
  <2>1. 0 < x /\ x < N + 1
    BY <1>2, Basics
  <2> QED BY <1>1, <2>1 DEF Linked, ChildOn
<1>4. \A q \in m : /\ t.left[q] \in m \cup {Sentinel} /\ t.right[q] \in m \cup {Sentinel}
                   /\ t.left[q] \in m => t.parent[t.left[q]] = q /\ hi[t.left[q]] = q
                   /\ t.right[q] \in m => t.parent[t.right[q]] = q /\ lo[t.right[q]] = q
                   /\ lo[q] < q /\ q < hi[q]
  BY <1>1, <1>2 DEF Linked, ChildOn, Intervals
<1>5. x # t.root => t.parent[x] \in m /\ x \in {t.left[t.parent[x]], t.right[t.parent[x]]}
  BY <1>1 DEF Linked
<1>6. \A q \in m : t.left[q] # q /\ t.right[q] # q
  BY <1>2, <1>4
<1>7. ASSUME NEW q \in m, t.left[x] \in m, t.left[x] = t.right[q] PROVE FALSE
  BY <1>2, <1>4, <1>7
<1>8. t.parent[x] \in m \cup {Sentinel} /\ t.parent[x] # x
  BY <1>2, <1>3, <1>5, <1>6
<1>9. t.left[x] = t.right[x] => t.left[x] = Sentinel
  BY <1>4, <1>7
<1> QED BY <1>3, <1>4, <1>5, <1>6, <1>7, <1>8, <1>9

LEMMA RootHasNoParent ==
  ASSUME NEW m \in SUBSET Nodes, NEW t, Sound(t, m), t.root \in m
  PROVE  t.parent[t.root] = Sentinel
<1>1. PICK r : r = t.root
  OBVIOUS
<1> QED BY <1>1, ChildrenOf

LEMMA ChildrenDiffer ==
  ASSUME NEW m \in SUBSET Nodes, NEW t, Sound(t, m), NEW x \in m
  PROVE  t.left[x] = t.right[x] => t.left[x] = Sentinel
BY ChildrenOf

(* Writes of a tree give a tree, and what is broken stays broken.          *)
LEMMA Writes ==
  ASSUME NEW t \in Trees, NEW p \in Pointers, NEW q \in Pointers
  PROVE  /\ SetLeft(t, p, q) \in Trees /\ (Broken(t) => Broken(SetLeft(t, p, q)))
         /\ SetRight(t, p, q) \in Trees /\ (Broken(t) => Broken(SetRight(t, p, q)))
         /\ SetParent(t, p, q) \in Trees /\ (Broken(t) => Broken(SetParent(t, p, q)))
         /\ Replace(t, p, q) \in Trees /\ (Broken(t) => Broken(Replace(t, p, q)))
         /\ t.left[p] \in Pointers /\ t.right[p] \in Pointers /\ t.parent[p] \in Pointers
<1>1. SetLeft(t, p, q) \in Trees /\ (Broken(t) => Broken(SetLeft(t, p, q)))
  BY LeftSet
<1>2. SetRight(t, p, q) \in Trees /\ (Broken(t) => Broken(SetRight(t, p, q)))
  BY RightSet
<1>3. SetParent(t, p, q) \in Trees /\ (Broken(t) => Broken(SetParent(t, p, q)))
  BY ParentSet
<1>4. Replace(t, p, q) \in Trees /\ (Broken(t) => Broken(Replace(t, p, q)))
  BY Replaced
<1>5. t.left[p] \in Pointers /\ t.right[p] \in Pointers /\ t.parent[p] \in Pointers
  BY FieldTypes
<1> QED BY <1>1, <1>2, <1>3, <1>4, <1>5

(* Members are items, neither the sentinel nor null.                       *)
LEMMA Members ==
  ASSUME NEW m \in SUBSET Nodes
  PROVE  /\ Sentinel \notin m /\ Null \notin m /\ Sentinel # Null
         /\ m \subseteq Pointers /\ Sentinel \in Pointers /\ Null \in Pointers
BY Basics

(* A rotation of any tree is a tree, and what is broken stays broken.      *)
LEMMA RotationTypes ==
  ASSUME NEW t \in Trees, NEW x \in Pointers
  PROVE  /\ LeftRotate(t, x) \in Trees /\ (Broken(t) => Broken(LeftRotate(t, x)))
         /\ RightRotate(t, x) \in Trees /\ (Broken(t) => Broken(RightRotate(t, x)))
<1>1. ASSUME NEW y, y = t.right[x]
      PROVE  LeftRotate(t, x) \in Trees /\ (Broken(t) => Broken(LeftRotate(t, x)))
  <2>1. y \in Pointers /\ t.left[y] \in Pointers
    BY <1>1, Writes
  <2>2. PICK t1 : t1 = SetRight(t, x, t.left[y])
    OBVIOUS
  <2>3. t1 \in Trees /\ (Broken(t) => Broken(t1))
    BY <2>1, <2>2, Writes
  <2>4. PICK t2 : t2 = IF t.left[y] # Sentinel THEN SetParent(t1, t.left[y], x) ELSE t1
    OBVIOUS
  <2>5. t2 \in Trees /\ (Broken(t1) => Broken(t2))
    BY <2>1, <2>3, <2>4, Writes
  <2>6. PICK ta : ta = SetParent(t2, y, t2.parent[x])
    OBVIOUS
  <2>7. ta \in Trees /\ (Broken(t2) => Broken(ta))
    BY <2>1, <2>5, <2>6, Writes
  <2>8. PICK t3 : t3 = Replace(ta, x, y)
    OBVIOUS
  <2>9. t3 \in Trees /\ (Broken(ta) => Broken(t3))
    BY <2>1, <2>7, <2>8, Writes
  <2>10. PICK t4 : t4 = SetLeft(t3, y, x)
    OBVIOUS
  <2>11. t4 \in Trees /\ (Broken(t3) => Broken(t4))
    BY <2>1, <2>9, <2>10, Writes
  <2>12. LeftRotate(t, x) = SetParent(t4, x, y)
    BY <1>1, <2>2, <2>4, <2>6, <2>8, <2>10 DEF LeftRotate
  <2>13. SetParent(t4, x, y) \in Trees /\ (Broken(t4) => Broken(SetParent(t4, x, y)))
    BY <2>1, <2>11, Writes
  <2> QED BY <2>3, <2>5, <2>7, <2>9, <2>11, <2>12, <2>13
<1>2. ASSUME NEW y, y = t.left[x]
      PROVE  RightRotate(t, x) \in Trees /\ (Broken(t) => Broken(RightRotate(t, x)))
  <2>1. y \in Pointers /\ t.right[y] \in Pointers
    BY <1>2, Writes
  <2>2. PICK t1 : t1 = SetLeft(t, x, t.right[y])
    OBVIOUS
  <2>3. t1 \in Trees /\ (Broken(t) => Broken(t1))
    BY <2>1, <2>2, Writes
  <2>4. PICK t2 : t2 = IF t.right[y] # Sentinel THEN SetParent(t1, t.right[y], x) ELSE t1
    OBVIOUS
  <2>5. t2 \in Trees /\ (Broken(t1) => Broken(t2))
    BY <2>1, <2>3, <2>4, Writes
  <2>6. PICK ta : ta = SetParent(t2, y, t2.parent[x])
    OBVIOUS
  <2>7. ta \in Trees /\ (Broken(t2) => Broken(ta))
    BY <2>1, <2>5, <2>6, Writes
  <2>8. PICK t3 : t3 = Replace(ta, x, y)
    OBVIOUS
  <2>9. t3 \in Trees /\ (Broken(ta) => Broken(t3))
    BY <2>1, <2>7, <2>8, Writes
  <2>10. PICK t4 : t4 = SetRight(t3, y, x)
    OBVIOUS
  <2>11. t4 \in Trees /\ (Broken(t3) => Broken(t4))
    BY <2>1, <2>9, <2>10, Writes
  <2>12. RightRotate(t, x) = SetParent(t4, x, y)
    BY <1>2, <2>2, <2>4, <2>6, <2>8, <2>10 DEF RightRotate
  <2>13. SetParent(t4, x, y) \in Trees /\ (Broken(t4) => Broken(SetParent(t4, x, y)))
    BY <2>1, <2>11, Writes
  <2> QED BY <2>3, <2>5, <2>7, <2>9, <2>11, <2>12, <2>13
<1> QED BY <1>1, <1>2

(* No two items are each other's parent.                                   *)
LEMMA NoTwoCycle ==
  ASSUME NEW m \in SUBSET Nodes, NEW t, Sound(t, m), NEW x \in m, NEW c \in m, t.parent[c] = x
  PROVE  t.parent[x] # c
<1>1. PICK lo \in [Nodes -> Pointers], hi \in [Nodes -> Pointers] :
        Intervals(m, lo, hi) /\ Linked(t.root, t.left, t.right, t.parent, m, lo, hi)
  BY DEF Sound, Shape, Layout
<1>2. /\ \A q \in m : q \in Nat /\ q # Sentinel /\ q # Null /\ q \in Nodes
      /\ \A q \in m : lo[q] \in Nat /\ hi[q] \in Nat
  BY MembersAreNumbers
<1>3. \A q \in m : lo[q] < q /\ q < hi[q]
  BY <1>1 DEF Intervals
<1>4. ASSUME NEW p \in m, NEW q \in m, t.parent[q] = p
      PROVE  (q < p /\ hi[q] = p /\ lo[q] = lo[p]) \/ (p < q /\ lo[q] = p /\ hi[q] = hi[p])
  <2>1. q # t.root
    <3>1. q = t.root => t.parent[q] = Sentinel
      BY SMTT(40), ChildrenOf
    <3> QED BY <1>2, <1>4, <3>1
  <2>2. q \in {t.left[p], t.right[p]}
    BY <1>4, <2>1, ChildrenOf
  <2>3. ChildOn(t.left[p], p, lo[p], p, t.parent, m, lo, hi) /\ ChildOn(t.right[p], p, p, hi[p], t.parent, m, lo, hi)
    BY <1>1 DEF Linked
  <2>4. q # Sentinel /\ q < hi[q] /\ lo[q] < q
    BY <1>2, <1>3
  <2> QED BY <2>2, <2>3, <2>4 DEF ChildOn
<1>5. SUFFICES ASSUME t.parent[x] = c PROVE FALSE
  OBVIOUS
<1>6. (x < c /\ hi[x] = c /\ lo[x] = lo[c]) \/ (c < x /\ lo[x] = c /\ hi[x] = hi[c])
  BY <1>4, <1>5
<1>7. (c < x /\ hi[c] = x /\ lo[c] = lo[x]) \/ (x < c /\ lo[c] = x /\ hi[c] = hi[x])
  BY <1>4
<1> QED BY <1>2, <1>3, <1>6, <1>7

(* u is t after its member x went below its child y, which left its own    *)
(* child b to x.                                                           *)
Turned(t, u, m, x, y, b) ==
  /\ Sound(u, m) /\ SameColours(t, u)
  /\ u.root = IF t.parent[x] = Sentinel THEN y ELSE t.root
  /\ u.parent[Sentinel] = t.parent[Sentinel]
  /\ \A q \in m : u.parent[q] = IF q = x THEN y ELSE IF q = y THEN t.parent[x]
                                ELSE IF q = b THEN x ELSE t.parent[q]

LEMMA LeftRotation ==
  ASSUME NEW m \in SUBSET Nodes, NEW t, Sound(t, m), NEW x \in m,
         NEW u, u = LeftRotate(t, x)
  PROVE  /\ t.right[x] = Sentinel => Broken(u)
         /\ t.right[x] \in m =>
              /\ Turned(t, u, m, x, t.right[x], t.left[t.right[x]])
              /\ TurnsLeft(m, t.root, t.left, t.right, t.parent, x, t.right[x],
                           u.root, u.left, u.right, u.parent)
<1>0. t \in Trees /\ x \in Pointers /\ m \subseteq Pointers /\ Sentinel \in Pointers /\ Null \in Pointers
  BY Basics DEF Sound
<1>1. PICK y : y = t.right[x]
  OBVIOUS
<1>2. PICK b : b = t.left[y]
  OBVIOUS
<1>3. PICK p : p = t.parent[x]
  OBVIOUS
<1>4. PICK t1 : t1 = SetRight(t, x, b)
  OBVIOUS
<1>5. PICK t2 : t2 = IF b # Sentinel THEN SetParent(t1, b, x) ELSE t1
  OBVIOUS
<1>6. PICK ta : ta = SetParent(t2, y, t2.parent[x])
  OBVIOUS
<1>7. PICK t3 : t3 = Replace(ta, x, y)
  OBVIOUS
<1>8. PICK t4 : t4 = SetLeft(t3, y, x)
  OBVIOUS
<1>9. u = SetParent(t4, x, y)
  BY <1>1, <1>2, <1>4, <1>5, <1>6, <1>7, <1>8 DEF LeftRotate
<1>10. y \in Pointers /\ b \in Pointers /\ p \in Pointers /\ x # Null /\ x # Sentinel
  BY <1>0, <1>1, <1>2, <1>3, Writes, MembersAreNumbers, Basics
<1>11. /\ t1 \in Trees /\ SameColours(t, t1)
       /\ t1.root = t.root /\ t1.left = t.left /\ t1.parent = t.parent
       /\ t1.right = [t.right EXCEPT ![x] = b]
  BY <1>0, <1>4, <1>10, RightSet
<1>12. CASE y = Sentinel
  <2>1. b = Null /\ b # Sentinel
    BY <1>2, <1>12, Basics DEF Sound, Ends
  <2>2. t2 \in Trees /\ Broken(t2)
    BY <1>0, <1>5, <1>10, <1>11, <2>1, ParentSet
  <2>3. ta \in Trees /\ Broken(ta)
    <3>1. t2.parent[x] \in Pointers
      BY <1>0, <2>2, Writes
    <3> QED BY <1>6, <1>10, <2>2, <3>1, Writes
  <2>4. t3 \in Trees /\ Broken(t3)
    BY <1>0, <1>7, <1>10, <2>3, Writes
  <2>5. t4 \in Trees /\ Broken(t4)
    BY <1>0, <1>8, <1>10, <2>4, Writes
  <2>6. Broken(u)
    <3>1. Broken(t4) => Broken(SetParent(t4, x, y))
      BY <1>0, <1>10, <2>5, Writes
    <3> QED BY <1>9, <2>5, <3>1
  <2>7. Sentinel \notin m
    BY Members
  <2> QED BY <1>1, <1>12, <2>6, <2>7
<1>13. CASE y \in m
  <2>1. /\ y # Null /\ y # Sentinel /\ y # x /\ t.parent[y] = x
        /\ b \in m \cup {Sentinel} /\ b # Null /\ b # y
        /\ b \in m => t.parent[b] = y
        /\ p \in m \cup {Sentinel} /\ p # Null /\ p # x
    <3>1. /\ t.parent[y] = x /\ y # x
          /\ p \in m \cup {Sentinel} /\ p # x
      BY <1>1, <1>3, <1>13, ChildrenOf
    <3>2. /\ b \in m \cup {Sentinel} /\ b # y
          /\ b \in m => t.parent[b] = y
      BY <1>2, <1>13, ChildrenOf
    <3> QED BY <1>13, <3>1, <3>2, Members
  <2>2. p # y
    BY <1>3, <1>13, <2>1, NoTwoCycle
  <2>3. b # x
    BY <1>3, <2>1, <2>2
  <2>4. /\ t2 \in Trees /\ SameColours(t, t2)
        /\ t2.root = t.root /\ t2.left = t.left /\ t2.right = [t.right EXCEPT ![x] = b]
        /\ t2.parent = IF b # Sentinel THEN [t.parent EXCEPT ![b] = x] ELSE t.parent
    <3>1. CASE b = Sentinel
      BY <1>5, <1>11, <3>1
    <3>2. CASE b # Sentinel
      BY <1>0, <1>5, <1>10, <1>11, <2>1, <3>2, ParentSet DEF SameColours
    <3> QED BY <3>1, <3>2
  <2>5. t2.parent[x] = p
    BY <1>0, <1>3, <2>3, <2>4 DEF Trees
  <2>6. /\ ta \in Trees /\ SameColours(t, ta)
        /\ ta.root = t.root /\ ta.left = t.left /\ ta.right = [t.right EXCEPT ![x] = b]
        /\ ta.parent = [t2.parent EXCEPT ![y] = p]
    BY <1>6, <1>10, <2>1, <2>4, <2>5, ParentSet DEF SameColours
  <2>7. ta.parent[x] = p
    BY <1>0, <2>1, <2>4, <2>5, <2>6 DEF Trees
  <2>8. /\ t3 \in Trees /\ SameColours(t, t3) /\ t3.parent = ta.parent
        /\ t3.root = IF p = Sentinel THEN y ELSE t.root
        /\ t3.left = IF p # Sentinel /\ x = t.left[p] THEN [t.left EXCEPT ![p] = y] ELSE t.left
        /\ t3.right = IF p # Sentinel /\ x # t.left[p] THEN [ta.right EXCEPT ![p] = y] ELSE ta.right
    <3>1. /\ t3 \in Trees /\ SameColours(ta, t3) /\ t3.parent = ta.parent
          /\ t3.root = IF p = Sentinel THEN y ELSE ta.root
          /\ t3.left = IF p # Sentinel /\ x = ta.left[p] THEN [ta.left EXCEPT ![p] = y] ELSE ta.left
          /\ t3.right = IF p # Sentinel /\ x # ta.left[p] THEN [ta.right EXCEPT ![p] = y] ELSE ta.right
      <4>1. ta \in Trees /\ x \in Pointers /\ y \in Pointers /\ ta.parent[x] # Null
        BY <1>0, <1>10, <2>1, <2>6, <2>7
      <4> QED BY <1>7, <2>7, <4>1, Replaced
    <3> QED BY <2>6, <3>1 DEF SameColours
  <2>9. /\ t4 \in Trees /\ SameColours(t, t4) /\ t4.parent = ta.parent /\ t4.root = t3.root
        /\ t4.left = [t3.left EXCEPT ![y] = x] /\ t4.right = t3.right
    BY SMTT(40), <1>0, <1>8, <1>10, <2>1, <2>8, LeftSet DEF SameColours
  <2>10. /\ u \in Trees /\ SameColours(t, u) /\ u.root = t3.root
         /\ u.left = [t3.left EXCEPT ![y] = x] /\ u.right = t3.right
         /\ u.parent = [ta.parent EXCEPT ![x] = y]
    BY <1>0, <1>9, <1>10, <2>1, <2>9, ParentSet DEF SameColours
  <2>11. /\ t.left \in [Pointers -> Pointers] /\ t.right \in [Pointers -> Pointers]
         /\ t.parent \in [Pointers -> Pointers]
         /\ u.left \in [Pointers -> Pointers] /\ u.right \in [Pointers -> Pointers]
         /\ u.parent \in [Pointers -> Pointers]
    BY <1>0, <2>10 DEF Trees
  <2>12. \A q \in Pointers : u.left[q] = IF q = y THEN x ELSE IF q = p /\ p # Sentinel /\ t.left[q] = x THEN y ELSE t.left[q]
    BY <1>10, <2>1, <2>8, <2>10, <2>11
  <2>13. \A q \in Pointers : u.right[q] = IF q = x THEN b ELSE IF q = p /\ p # Sentinel /\ t.left[q] # x THEN y ELSE t.right[q]
    BY <1>10, <1>0, <2>1, <2>6, <2>8, <2>10, <2>11
  <2>14. \A q \in Pointers : ta.parent[q] = IF q = y THEN p ELSE IF q = b /\ b # Sentinel THEN x ELSE t.parent[q]
    BY <1>10, <2>4, <2>6, <2>11
  <2>15. \A q \in Pointers : u.parent[q] = IF q = x THEN y ELSE IF q = y THEN p ELSE IF q = b /\ b # Sentinel THEN x ELSE t.parent[q]
    BY <1>10, <1>0, <2>6, <2>10, <2>11, <2>14 DEF Trees
  <2>16. Ends(u)
    <3>1. Ends(t)
      BY DEF Sound
    <3> QED BY <1>0, <1>10, <2>1, <2>12, <2>13, <2>15, <3>1, Basics DEF Ends
  <2>22. TurnsLeft(m, t.root, t.left, t.right, t.parent, x, y, u.root, u.left, u.right, u.parent)
    <3>2. Sentinel \notin m
      BY Members
    <3>3. \A q \in m : u.left[q] = IF q = y THEN x ELSE IF q = t.parent[x] /\ t.left[q] = x THEN y ELSE t.left[q]
      BY <1>0, <1>3, <2>12, <3>2
    <3>4. \A q \in m : u.right[q] = IF q = x THEN t.left[y] ELSE IF q = t.parent[x] /\ t.left[q] # x THEN y ELSE t.right[q]
      BY <1>0, <1>2, <1>3, <2>13, <3>2
    <3>5. \A q \in m : u.parent[q] = IF q = x THEN y ELSE IF q = y THEN t.parent[x] ELSE IF q = t.left[y] THEN x ELSE t.parent[q]
      BY <1>0, <1>2, <1>3, <2>15, <3>2
    <3>6. t.root \in Pointers /\ u.root = IF t.parent[x] = Sentinel THEN y ELSE t.root
      BY <1>0, <1>3, <2>8, <2>10 DEF Trees
    <3> QED BY <1>1, <2>11, <3>3, <3>4, <3>5, <3>6 DEF TurnsLeft
  <2>17. Shape(u, m)
    <3>1. PICK lo, hi : Layout(m, t.root, t.left, t.right, t.parent, lo, hi)
      BY DEF Sound, Shape
    <3> QED BY <1>13, <2>22, <3>1, RotatedLeft DEF Shape
  <2>18. Sound(u, m)
    BY <2>10, <2>16, <2>17 DEF Sound
  <2>19. u.parent[Sentinel] = t.parent[Sentinel]
    BY <1>0, <1>10, <2>1, <2>15
  <2>20. u.root = IF t.parent[x] = Sentinel THEN y ELSE t.root
    BY <1>3, <2>8, <2>10
  <2>21. \A q \in m : u.parent[q] = IF q = x THEN y ELSE IF q = y THEN t.parent[x] ELSE IF q = b THEN x ELSE t.parent[q]
    <3>1. Sentinel \notin m
      BY Members
    <3> QED BY <1>0, <1>3, <2>15, <3>1
  <2>23. Turned(t, u, m, x, y, b)
    BY <2>10, <2>18, <2>19, <2>20, <2>21 DEF Turned
  <2> QED BY <1>1, <1>2, <1>13, <2>1, <2>22, <2>23
<1>14. t.right[x] \in m \cup {Sentinel}
  BY ChildrenOf
<1> QED BY <1>1, <1>12, <1>13, <1>14

LEMMA RightRotation ==
  ASSUME NEW m \in SUBSET Nodes, NEW t, Sound(t, m), NEW x \in m,
         NEW u, u = RightRotate(t, x)
  PROVE  /\ t.left[x] = Sentinel => Broken(u)
         /\ t.left[x] \in m =>
              /\ Turned(t, u, m, x, t.left[x], t.right[t.left[x]])
              /\ TurnsRight(m, t.root, t.left, t.right, t.parent, x, t.left[x],
                           u.root, u.left, u.right, u.parent)
<1>0. t \in Trees /\ x \in Pointers /\ m \subseteq Pointers /\ Sentinel \in Pointers /\ Null \in Pointers
  BY Basics DEF Sound
<1>1. PICK y : y = t.left[x]
  OBVIOUS
<1>2. PICK b : b = t.right[y]
  OBVIOUS
<1>3. PICK p : p = t.parent[x]
  OBVIOUS
<1>4. PICK t1 : t1 = SetLeft(t, x, b)
  OBVIOUS
<1>5. PICK t2 : t2 = IF b # Sentinel THEN SetParent(t1, b, x) ELSE t1
  OBVIOUS
<1>6. PICK ta : ta = SetParent(t2, y, t2.parent[x])
  OBVIOUS
<1>7. PICK t3 : t3 = Replace(ta, x, y)
  OBVIOUS
<1>8. PICK t4 : t4 = SetRight(t3, y, x)
  OBVIOUS
<1>9. u = SetParent(t4, x, y)
  BY <1>1, <1>2, <1>4, <1>5, <1>6, <1>7, <1>8 DEF RightRotate
<1>10. y \in Pointers /\ b \in Pointers /\ p \in Pointers /\ x # Null /\ x # Sentinel
  BY <1>0, <1>1, <1>2, <1>3, Writes, MembersAreNumbers, Basics
<1>11. /\ t1 \in Trees /\ SameColours(t, t1)
       /\ t1.root = t.root /\ t1.right = t.right /\ t1.parent = t.parent
       /\ t1.left = [t.left EXCEPT ![x] = b]
  BY <1>0, <1>4, <1>10, LeftSet
<1>12. CASE y = Sentinel
  <2>1. b = Null /\ b # Sentinel
    BY <1>2, <1>12, Basics DEF Sound, Ends
  <2>2. t2 \in Trees /\ Broken(t2)
    BY <1>0, <1>5, <1>10, <1>11, <2>1, ParentSet
  <2>3. ta \in Trees /\ Broken(ta)
    <3>1. t2.parent[x] \in Pointers
      BY <1>0, <2>2, Writes
    <3> QED BY <1>6, <1>10, <2>2, <3>1, Writes
  <2>4. t3 \in Trees /\ Broken(t3)
    BY <1>0, <1>7, <1>10, <2>3, Writes
  <2>5. t4 \in Trees /\ Broken(t4)
    BY <1>0, <1>8, <1>10, <2>4, Writes
  <2>6. Broken(u)
    <3>1. Broken(t4) => Broken(SetParent(t4, x, y))
      BY <1>0, <1>10, <2>5, Writes
    <3> QED BY <1>9, <2>5, <3>1
  <2>7. Sentinel \notin m
    BY Members
  <2> QED BY <1>1, <1>12, <2>6, <2>7
<1>13. CASE y \in m
  <2>1. /\ y # Null /\ y # Sentinel /\ y # x /\ t.parent[y] = x
        /\ b \in m \cup {Sentinel} /\ b # Null /\ b # y
        /\ b \in m => t.parent[b] = y
        /\ p \in m \cup {Sentinel} /\ p # Null /\ p # x
    <3>1. /\ t.parent[y] = x /\ y # x
          /\ p \in m \cup {Sentinel} /\ p # x
      BY <1>1, <1>3, <1>13, ChildrenOf
    <3>2. /\ b \in m \cup {Sentinel} /\ b # y
          /\ b \in m => t.parent[b] = y
      BY <1>2, <1>13, ChildrenOf
    <3> QED BY <1>13, <3>1, <3>2, Members
  <2>2. p # y
    BY <1>3, <1>13, <2>1, NoTwoCycle
  <2>3. b # x
    BY <1>3, <2>1, <2>2
  <2>4. /\ t2 \in Trees /\ SameColours(t, t2)
        /\ t2.root = t.root /\ t2.right = t.right /\ t2.left = [t.left EXCEPT ![x] = b]
        /\ t2.parent = IF b # Sentinel THEN [t.parent EXCEPT ![b] = x] ELSE t.parent
    <3>1. CASE b = Sentinel
      BY <1>5, <1>11, <3>1
    <3>2. CASE b # Sentinel
      BY <1>0, <1>5, <1>10, <1>11, <2>1, <3>2, ParentSet DEF SameColours
    <3> QED BY <3>1, <3>2
  <2>5. t2.parent[x] = p
    BY <1>0, <1>3, <2>3, <2>4 DEF Trees
  <2>6. /\ ta \in Trees /\ SameColours(t, ta)
        /\ ta.root = t.root /\ ta.right = t.right /\ ta.left = [t.left EXCEPT ![x] = b]
        /\ ta.parent = [t2.parent EXCEPT ![y] = p]
    BY <1>6, <1>10, <2>1, <2>4, <2>5, ParentSet DEF SameColours
  <2>7. ta.parent[x] = p
    BY <1>0, <2>1, <2>4, <2>5, <2>6 DEF Trees
  <2>8. /\ t3 \in Trees /\ SameColours(t, t3) /\ t3.parent = ta.parent
        /\ t3.root = IF p = Sentinel THEN y ELSE t.root
        /\ t3.left = IF p # Sentinel /\ x = t.left[p] THEN [ta.left EXCEPT ![p] = y] ELSE ta.left
        /\ t3.right = IF p # Sentinel /\ x # t.left[p] THEN [t.right EXCEPT ![p] = y] ELSE t.right
    <3>1. /\ t3 \in Trees /\ SameColours(ta, t3) /\ t3.parent = ta.parent
          /\ t3.root = IF p = Sentinel THEN y ELSE ta.root
          /\ t3.left = IF p # Sentinel /\ x = ta.left[p] THEN [ta.left EXCEPT ![p] = y] ELSE ta.left
          /\ t3.right = IF p # Sentinel /\ x # ta.left[p] THEN [ta.right EXCEPT ![p] = y] ELSE ta.right
      <4>1. ta \in Trees /\ x \in Pointers /\ y \in Pointers /\ ta.parent[x] # Null
        BY <1>0, <1>10, <2>1, <2>6, <2>7
      <4> QED BY <1>7, <2>7, <4>1, Replaced
    <3>2. ta.left[p] = t.left[p]
      BY <1>0, <1>10, <2>1, <2>6 DEF Trees
    <3> QED BY <2>6, <3>1, <3>2 DEF SameColours
  <2>9. /\ t4 \in Trees /\ SameColours(t, t4) /\ t4.parent = ta.parent /\ t4.root = t3.root
        /\ t4.right = [t3.right EXCEPT ![y] = x] /\ t4.left = t3.left
    BY <1>0, <1>8, <1>10, <2>1, <2>8, RightSet DEF SameColours
  <2>10. /\ u \in Trees /\ SameColours(t, u) /\ u.root = t3.root
         /\ u.right = [t3.right EXCEPT ![y] = x] /\ u.left = t3.left
         /\ u.parent = [ta.parent EXCEPT ![x] = y]
    BY <1>0, <1>9, <1>10, <2>1, <2>9, ParentSet DEF SameColours
  <2>11. /\ t.right \in [Pointers -> Pointers] /\ t.left \in [Pointers -> Pointers]
         /\ t.parent \in [Pointers -> Pointers]
         /\ u.right \in [Pointers -> Pointers] /\ u.left \in [Pointers -> Pointers]
         /\ u.parent \in [Pointers -> Pointers]
    BY <1>0, <2>10 DEF Trees
  <2>12. \A q \in Pointers : u.right[q] = IF q = y THEN x ELSE IF q = p /\ p # Sentinel /\ t.left[q] # x THEN y ELSE t.right[q]
    BY <1>10, <2>1, <2>8, <2>10, <2>11
  <2>13. \A q \in Pointers : u.left[q] = IF q = x THEN b ELSE IF q = p /\ p # Sentinel /\ t.left[q] = x THEN y ELSE t.left[q]
    BY <1>10, <1>0, <2>1, <2>6, <2>8, <2>10, <2>11
  <2>14. \A q \in Pointers : ta.parent[q] = IF q = y THEN p ELSE IF q = b /\ b # Sentinel THEN x ELSE t.parent[q]
    BY <1>10, <2>4, <2>6, <2>11
  <2>15. \A q \in Pointers : u.parent[q] = IF q = x THEN y ELSE IF q = y THEN p ELSE IF q = b /\ b # Sentinel THEN x ELSE t.parent[q]
    BY <1>10, <1>0, <2>6, <2>10, <2>11, <2>14 DEF Trees
  <2>16. Ends(u)
    <3>1. Ends(t)
      BY DEF Sound
    <3> QED BY <1>0, <1>10, <2>1, <2>12, <2>13, <2>15, <3>1, Basics DEF Ends
  <2>22. TurnsRight(m, t.root, t.left, t.right, t.parent, x, y, u.root, u.left, u.right, u.parent)
    <3>2. Sentinel \notin m
      BY Members
    <3>3. \A q \in m : u.right[q] = IF q = y THEN x ELSE IF q = t.parent[x] /\ t.left[q] # x THEN y ELSE t.right[q]
      BY <1>0, <1>3, <2>12, <3>2
    <3>4. \A q \in m : u.left[q] = IF q = x THEN t.right[y] ELSE IF q = t.parent[x] /\ t.left[q] = x THEN y ELSE t.left[q]
      BY <1>0, <1>2, <1>3, <2>13, <3>2
    <3>5. \A q \in m : u.parent[q] = IF q = x THEN y ELSE IF q = y THEN t.parent[x] ELSE IF q = t.right[y] THEN x ELSE t.parent[q]
      BY <1>0, <1>2, <1>3, <2>15, <3>2
    <3>6. t.root \in Pointers /\ u.root = IF t.parent[x] = Sentinel THEN y ELSE t.root
      BY <1>0, <1>3, <2>8, <2>10 DEF Trees
    <3> QED BY <1>1, <2>11, <3>3, <3>4, <3>5, <3>6 DEF TurnsRight
  <2>17. Shape(u, m)
    <3>1. PICK lo, hi : Layout(m, t.root, t.left, t.right, t.parent, lo, hi)
      BY DEF Sound, Shape
    <3> QED BY <1>13, <2>22, <3>1, RotatedRight DEF Shape
  <2>18. Sound(u, m)
    BY <2>10, <2>16, <2>17 DEF Sound
  <2>19. u.parent[Sentinel] = t.parent[Sentinel]
    BY <1>0, <1>10, <2>1, <2>15
  <2>20. u.root = IF t.parent[x] = Sentinel THEN y ELSE t.root
    BY <1>3, <2>8, <2>10
  <2>21. \A q \in m : u.parent[q] = IF q = x THEN y ELSE IF q = y THEN t.parent[x] ELSE IF q = b THEN x ELSE t.parent[q]
    <3>1. Sentinel \notin m
      BY Members
    <3> QED BY <1>0, <1>3, <2>15, <3>1
  <2>23. Turned(t, u, m, x, y, b)
    BY <2>10, <2>18, <2>19, <2>20, <2>21 DEF Turned
  <2> QED BY <1>1, <1>2, <1>13, <2>1, <2>22, <2>23
<1>14. t.left[x] \in m \cup {Sentinel}
  BY ChildrenOf
<1> QED BY <1>1, <1>12, <1>13, <1>14

-----------------------------------------------------------------------------
(* Insertion.                                                              *)

(* What every operation keeps, unless it follows a null pointer.           *)
Good(t, m) == Sound(t, m) /\ ~Broken(t) /\ ~t.red[Sentinel] /\ ~t.red[Null]

LEMMA Recoloured ==
  ASSUME NEW t \in Trees, NEW q \in Pointers, NEW b \in BOOLEAN
  PROVE  /\ SetRed(t, q, b).left = t.left
         /\ SetRed(t, q, b).right = t.right
         /\ SetRed(t, q, b).parent = t.parent
<1>1. CASE q = Null
  BY <1>1 DEF SetRed, Fail, Trees
<1>2. CASE q # Null
  BY <1>2 DEF SetRed, Trees
<1> QED BY <1>1, <1>2

LEMMA Painted ==
  ASSUME NEW m \in SUBSET Nodes, NEW t, Sound(t, m), NEW q \in Pointers, NEW b \in BOOLEAN
  PROVE  /\ Sound(SetRed(t, q, b), m) /\ (q = Null \/ Broken(t) => Broken(SetRed(t, q, b)))
         /\ SetRed(t, q, b).root = t.root
         /\ SetRed(t, q, b).left = t.left /\ SetRed(t, q, b).right = t.right
         /\ SetRed(t, q, b).parent = t.parent
         /\ Good(t, m) /\ q # Null /\ (q = Sentinel => ~b) => Good(SetRed(t, q, b), m)
<1>0. PICK u : u = SetRed(t, q, b)
  OBVIOUS
<1>1. t \in Trees
  BY DEF Sound
<1>2. /\ u \in Trees /\ (Broken(t) => Broken(u)) /\ (q = Null => Broken(u))
      /\ u.root = t.root /\ u.left = t.left /\ u.right = t.right /\ u.parent = t.parent
      /\ q # Null => u.fate = t.fate /\ u.red = [t.red EXCEPT ![q] = b]
  BY <1>0, <1>1, RedSet
<1>3. Sound(u, m)
  BY <1>2 DEF Sound, Ends, Shape
<1>4. ASSUME Good(t, m), q # Null, q = Sentinel => ~b PROVE Good(u, m)
  <2>1. u.fate = t.fate /\ u.red = [t.red EXCEPT ![q] = b] /\ t.red \in [Pointers -> BOOLEAN]
    BY <1>1, <1>2, <1>4 DEF Trees
  <2>2. ~u.red[Sentinel] /\ ~u.red[Null]
    <3>1. ~t.red[Sentinel] /\ ~t.red[Null] /\ Sentinel \in Pointers /\ Null \in Pointers
      BY <1>4, Basics DEF Good
    <3> QED BY <1>4, <2>1, <3>1
  <2> QED BY <1>3, <1>4, <2>1, <2>2 DEF Good, Broken
<1> QED BY <1>0, <1>2, <1>3, <1>4

LEMMA TurnedGood ==
  ASSUME NEW m \in SUBSET Nodes, NEW t, Good(t, m), NEW u, NEW x, NEW y, NEW b, Turned(t, u, m, x, y, b)
  PROVE  Good(u, m)
BY DEF Good, Turned, SameColours, Broken

LEMMA TurnedTo ==
  ASSUME NEW m \in SUBSET Nodes, NEW t, Sound(t, m), NEW x \in m, NEW side \in {"left", "right"},
         NEW y, y = Far(t, x, side)
  PROVE  /\ y \in m \cup {Sentinel}
         /\ y = Sentinel => Broken(RotateTo(t, x, side))
         /\ y \in m => Turned(t, RotateTo(t, x, side), m, x, y, Near(t, y, side)) /\ t.parent[y] = x
<1>0. PICK u : u = RotateTo(t, x, side)
  OBVIOUS
<1>1. CASE side = "left"
  <2>1. u = LeftRotate(t, x) /\ y = t.right[x] /\ Near(t, y, side) = t.left[y]
    BY <1>0, <1>1 DEF RotateTo, Far, Near
  <2>2. y \in m \cup {Sentinel} /\ (y \in m => t.parent[y] = x)
    BY <2>1, ChildrenOf
  <2> QED BY <1>0, <2>1, <2>2, LeftRotation
<1>2. CASE side = "right"
  <2>1. u = RightRotate(t, x) /\ y = t.left[x] /\ Near(t, y, side) = t.right[y]
    BY <1>0, <1>2 DEF RotateTo, Far, Near
  <2>2. y \in m \cup {Sentinel} /\ (y \in m => t.parent[y] = x)
    BY <2>1, ChildrenOf
  <2> QED BY <1>0, <2>1, <2>2, RightRotation
<1> QED BY <1>1, <1>2

LEMMA TurnedFrom ==
  ASSUME NEW m \in SUBSET Nodes, NEW t, Sound(t, m), NEW x \in m, NEW side \in {"left", "right"},
         NEW y, y = Near(t, x, side)
  PROVE  /\ y \in m \cup {Sentinel}
         /\ y = Sentinel => Broken(RotateFrom(t, x, side))
         /\ y \in m => Turned(t, RotateFrom(t, x, side), m, x, y, Far(t, y, side)) /\ t.parent[y] = x
<1>0. PICK u : u = RotateFrom(t, x, side)
  OBVIOUS
<1>1. CASE side = "left"
  <2>1. u = RightRotate(t, x) /\ y = t.left[x] /\ Far(t, y, side) = t.right[y]
    BY <1>0, <1>1 DEF RotateFrom, Far, Near
  <2>2. y \in m \cup {Sentinel} /\ (y \in m => t.parent[y] = x)
    BY <2>1, ChildrenOf
  <2> QED BY <1>0, <2>1, <2>2, RightRotation
<1>2. CASE side = "right"
  <2>1. u = LeftRotate(t, x) /\ y = t.right[x] /\ Far(t, y, side) = t.left[y]
    BY <1>0, <1>2 DEF RotateFrom, Far, Near
  <2>2. y \in m \cup {Sentinel} /\ (y \in m => t.parent[y] = x)
    BY <2>1, ChildrenOf
  <2> QED BY <1>0, <2>1, <2>2, LeftRotation
<1> QED BY <1>1, <1>2

(* A rotation of a good tree at a member, either way.                      *)
LEMMA Rotations ==
  ASSUME NEW m \in SUBSET Nodes, NEW t, Good(t, m), NEW x \in m, NEW side \in {"left", "right"}
  PROVE  /\ RotateTo(t, x, side) \in Trees
         /\ Broken(RotateTo(t, x, side)) \/ Good(RotateTo(t, x, side), m)
         /\ RotateFrom(t, x, side) \in Trees
         /\ Broken(RotateFrom(t, x, side)) \/ Good(RotateFrom(t, x, side), m)
<1>0. t \in Trees /\ x \in Pointers /\ Sound(t, m) /\ Sentinel \notin m
  BY Basics DEF Good, Sound
<1>1. RotateTo(t, x, side) \in Trees /\ RotateFrom(t, x, side) \in Trees
  BY <1>0, RotationTypes DEF RotateTo, RotateFrom
<1>2. Broken(RotateTo(t, x, side)) \/ Good(RotateTo(t, x, side), m)
  <2>1. PICK u, y : u = RotateTo(t, x, side) /\ y = Far(t, x, side)
    OBVIOUS
  <2>2. CASE y = Sentinel
    <3>1. Broken(u)
      BY <1>0, <2>1, <2>2, TurnedTo
    <3> QED BY <2>1, <3>1
  <2>3. CASE y \in m
    <3>1. Turned(t, u, m, x, y, Near(t, y, side))
      BY <1>0, <2>1, <2>3, TurnedTo
    <3> QED BY <2>1, <3>1, TurnedGood
  <2>4. y \in m \cup {Sentinel}
    BY <1>0, <2>1, TurnedTo
  <2> QED BY <2>2, <2>3, <2>4
<1>3. Broken(RotateFrom(t, x, side)) \/ Good(RotateFrom(t, x, side), m)
  <2>1. PICK u, y : u = RotateFrom(t, x, side) /\ y = Near(t, x, side)
    OBVIOUS
  <2>2. CASE y = Sentinel
    <3>1. Broken(u)
      BY <1>0, <2>1, <2>2, TurnedFrom
    <3> QED BY <2>1, <3>1
  <2>3. CASE y \in m
    <3>1. Turned(t, u, m, x, y, Far(t, y, side))
      BY <1>0, <2>1, <2>3, TurnedFrom
    <3> QED BY <2>1, <3>1, TurnedGood
  <2>4. y \in m \cup {Sentinel}
    BY <1>0, <2>1, TurnedFrom
  <2> QED BY <2>2, <2>3, <2>4
<1> QED BY <1>1, <1>2, <1>3

(* A fixup that is at a member.                                            *)
Climbs(m) == {c \in Fixups : Broken(c.tree) \/ (Good(c.tree, m) /\ c.at \in m)}

LEMMA Fixed ==
  ASSUME NEW t \in Trees, NEW x \in Pointers
  PROVE  Fixup(t, x) \in Fixups /\ Fixup(t, x).tree = t /\ Fixup(t, x).at = x
BY DEF Fixup, Fixups

LEMMA InsertPassKeeps ==
  ASSUME NEW m \in SUBSET Nodes, NEW t \in Trees, NEW z \in Pointers,
         Broken(t) \/ (Good(t, m) /\ z \in m)
  PROVE  InsertPass(t, z) \in Climbs(m)
<1>1. PICK p : p = t.parent[z]
  OBVIOUS
<1>2. PICK g : g = t.parent[p]
  OBVIOUS
<1>3. PICK side : side = SideOf(t, p)
  OBVIOUS
<1>4. PICK y : y = Far(t, g, side)
  OBVIOUS
<1>5. side \in {"left", "right"}
  BY <1>3 DEF SideOf
<1>6. p \in Pointers /\ g \in Pointers /\ y \in Pointers
  BY <1>1, <1>2, <1>4, Writes DEF Far
<1>7. CASE Broken(t) \/ (p # Null /\ ~t.red[p])
  <2>1. InsertPass(t, z) = Fixup(t, z)
    BY <1>1, <1>7 DEF InsertPass
  <2> QED BY <2>1, Fixed DEF Climbs
<1>8. CASE /\ ~(Broken(t) \/ (p # Null /\ ~t.red[p]))
           /\ y = Null
  <2>1. InsertPass(t, z) = Fixup(Fail(t, "null_deref"), z)
    BY <1>1, <1>2, <1>3, <1>4, <1>8 DEF InsertPass
  <2>2. Fail(t, "null_deref") \in Trees /\ Broken(Fail(t, "null_deref"))
    BY Failed
  <2> QED BY <2>1, <2>2, Fixed DEF Climbs
<1>9. CASE /\ ~(Broken(t) \/ (p # Null /\ ~t.red[p]))
           /\ y # Null
  <2>1. Good(t, m) /\ z \in m /\ Sound(t, m) /\ ~t.red[Sentinel] /\ ~t.red[Null]
    BY <1>9 DEF Good
  <2>2. p \in m
    <3>1. p \in m \cup {Sentinel}
      BY <1>1, <2>1, ChildrenOf
    <3>2. p # Sentinel
      BY <1>9, <2>1, Members
    <3> QED BY <3>1, <3>2
  <2>3. g \in m
    <3>1. g \in m \cup {Sentinel}
      BY <1>2, <2>1, <2>2, ChildrenOf
    <3>2. g # Sentinel
      BY <1>4, <1>9, <2>1 DEF Sound, Ends, Far
    <3> QED BY <3>1, <3>2
  <2>4. CASE t.red[y]
    <3>1. InsertPass(t, z) = Fixup(SetRed(SetRed(SetRed(t, p, FALSE), y, FALSE), g, TRUE), g)
      BY <1>1, <1>2, <1>3, <1>4, <1>9, <2>4 DEF InsertPass
    <3>2. PICK a : a = SetRed(t, p, FALSE)
      OBVIOUS
    <3>3. PICK b : b = SetRed(a, y, FALSE)
      OBVIOUS
    <3>4. PICK c : c = SetRed(b, g, TRUE)
      OBVIOUS
    <3>5. p # Null /\ g # Null /\ g # Sentinel
      BY <2>2, <2>3, Members
    <3>6. Good(a, m)
      BY <1>6, <2>1, <3>2, <3>5, Painted
    <3>7. Sound(a, m)
      BY <3>6 DEF Good
    <3>8. Good(b, m)
      BY <1>6, <1>9, <3>3, <3>6, <3>7, Painted
    <3>9. Sound(b, m)
      BY <3>8 DEF Good
    <3>10. Good(c, m)
      BY <1>6, <3>4, <3>5, <3>8, <3>9, Painted
    <3>11. c \in Trees
      BY <3>10 DEF Good, Sound
    <3>12. InsertPass(t, z) = Fixup(c, g)
      BY <3>1, <3>2, <3>3, <3>4
    <3> QED BY <1>6, <2>3, <3>10, <3>11, <3>12, Fixed DEF Climbs
  <2>5. CASE ~t.red[y]
    <3>1. PICK inner : inner = (z = Far(t, p, side))
      OBVIOUS
    <3>2. PICK z1 : z1 = IF inner THEN p ELSE z
      OBVIOUS
    <3>3. PICK t1 : t1 = IF inner THEN RotateTo(t, p, side) ELSE t
      OBVIOUS
    <3>4. PICK p1 : p1 = t1.parent[z1]
      OBVIOUS
    <3>5. PICK t2 : t2 = SetRed(SetRed(t1, p1, FALSE), t1.parent[p1], TRUE)
      OBVIOUS
    <3>6. PICK t3 : t3 = RotateFrom(t2, t2.parent[p1], side)
      OBVIOUS
    <3>7. InsertPass(t, z) = Fixup(t3, z1)
      <4>1. InsertPass(t, z) = Fixup(RaiseParent(t1, z1, side), z1)
        BY <1>1, <1>2, <1>3, <1>4, <1>9, <2>5, <3>1, <3>2, <3>3 DEF InsertPass
      <4>2. RaiseParent(t1, z1, side) = t3
        BY <3>4, <3>5, <3>6 DEF RaiseParent
      <4> QED BY <4>1, <4>2
    <3>8. z1 \in m
      BY <2>1, <2>2, <3>2
    <3>9. Good(t1, m) /\ t1.parent[z1] \in m /\ t1.parent[t1.parent[z1]] = g
      <4>1. CASE ~inner
        BY <1>1, <1>2, <2>1, <2>2, <3>2, <3>3, <4>1
      <4>2. CASE inner
        <5>1. t1 = RotateTo(t, p, side) /\ z = Far(t, p, side) /\ z1 = p
          BY <3>1, <3>2, <3>3, <4>2
        <5>2. Turned(t, t1, m, p, z, Near(t, z, side))
          BY <1>5, <2>1, <2>2, <5>1, TurnedTo
        <5>3. Good(t1, m)
          BY <2>1, <5>2, TurnedGood
        <5>4. p # z
          BY <1>1, <2>1, ChildrenOf
        <5>5. t1.parent[p] = z /\ t1.parent[z] = t.parent[p]
          BY <2>1, <2>2, <5>2, <5>4 DEF Turned
        <5> QED BY <1>2, <2>1, <5>1, <5>3, <5>5
      <4> QED BY <4>1, <4>2
    <3>10. p1 \in m /\ t1.parent[p1] = g /\ Sound(t1, m)
      BY <3>4, <3>9 DEF Good
    <3>11. p1 \in Pointers /\ p1 # Null /\ g # Null /\ g # Sentinel
      BY <2>3, <3>10, Members
    <3>12. PICK a : a = SetRed(t1, p1, FALSE)
      OBVIOUS
    <3>13. Good(a, m) /\ a.parent = t1.parent
      <4>1. a.parent = t1.parent
        BY <3>10, <3>11, <3>12, Painted
      <4>2. p1 # Sentinel
        BY <3>10, Members
      <4> QED BY <3>9, <3>10, <3>11, <3>12, <4>1, <4>2, Painted
    <3>14. t2 = SetRed(a, g, TRUE)
      BY <3>5, <3>10, <3>12
    <3>15. Sound(a, m)
      BY <3>13 DEF Good
    <3>16. Good(t2, m) /\ t2.parent = a.parent
      <4>1. t2.parent = a.parent
        BY <1>6, <3>11, <3>14, <3>15, Painted
      <4> QED BY <1>6, <3>11, <3>13, <3>14, <3>15, <4>1, Painted
    <3>17. t3 = RotateFrom(t2, g, side)
      BY <3>6, <3>10, <3>13, <3>16
    <3>18. t3 \in Trees /\ (Broken(t3) \/ Good(t3, m))
      BY <1>5, <2>3, <3>16, <3>17, Rotations
    <3>19. z1 \in Pointers
      BY <3>8, Members
    <3> QED BY <3>7, <3>8, <3>18, <3>19, Fixed DEF Climbs
  <2> QED BY <2>4, <2>5
<1> QED BY <1>7, <1>8, <1>9

LEMMA InsertFixupKeeps ==
  ASSUME NEW m \in SUBSET Nodes, NEW t, Good(t, m), NEW z \in m
  PROVE  InsertFixup(t, z) \in Trees /\ (Broken(InsertFixup(t, z)) \/ Good(InsertFixup(t, z), m))
<1> DEFINE body == [c \in Fixups |-> InsertPass(c.tree, c.at)]
<1>1. \A c \in Climbs(m) : body[c] \in Climbs(m)
  <2> TAKE c \in Climbs(m)
  <2>1. /\ c \in Fixups /\ c.tree \in Trees /\ c.at \in Pointers
        /\ Broken(c.tree) \/ (Good(c.tree, m) /\ c.at \in m)
    BY DEF Climbs, Fixups
  <2>2. body[c] = InsertPass(c.tree, c.at)
    BY <2>1
  <2> QED BY <2>1, <2>2, InsertPassKeeps
<1>2. Fixup(t, z) \in Climbs(m)
  <2>1. t \in Trees /\ z \in Pointers
    BY Members DEF Good, Sound
  <2> QED BY <2>1, Fixed DEF Climbs
<1> HIDE DEF body
<1>3. PICK e : e = Iterated(body, Fixup(t, z), LoopBound)
  OBVIOUS
<1>4. e \in Climbs(m)
  <2>1. LoopBound \in Nat
    BY Basics DEF LoopBound
  <2> QED BY <1>1, <1>2, <1>3, <2>1, IteratedStays
<1>5. e.tree \in Trees /\ (Broken(e.tree) \/ (Good(e.tree, m) /\ e.at \in m))
  BY <1>4 DEF Climbs, Fixups
<1>6. InsertFixup(t, z) = IF Broken(e.tree) THEN e.tree
                          ELSE IF e.tree.red[e.tree.parent[e.at]] THEN Fail(e.tree, "endless")
                          ELSE SetRed(e.tree, e.tree.root, FALSE)
  BY <1>3 DEF InsertFixup, InsertEnd, body
<1>7. CASE Broken(e.tree)
  BY <1>5, <1>6, <1>7
<1>8. CASE ~Broken(e.tree) /\ e.tree.red[e.tree.parent[e.at]]
  <2>1. Fail(e.tree, "endless") \in Trees /\ Broken(Fail(e.tree, "endless"))
    BY <1>5, Failed
  <2> QED BY <1>6, <1>8, <2>1
<1>9. CASE ~Broken(e.tree) /\ ~e.tree.red[e.tree.parent[e.at]]
  <2>1. Good(e.tree, m) /\ Sound(e.tree, m) /\ e.at \in m
    BY <1>5, <1>9 DEF Good
  <2>2. e.tree.root \in m
    BY <2>1, ChildrenOf
  <2>3. e.tree.root \in Pointers /\ e.tree.root # Null
    BY <2>2, Members
  <2>4. Good(SetRed(e.tree, e.tree.root, FALSE), m)
    BY <2>1, <2>3, Painted
  <2> QED BY <1>6, <1>9, <2>4 DEF Good, Sound
<1> QED BY <1>7, <1>8, <1>9

(* Where the descent may be: at the root, or where z belongs below y.      *)
PlaceFor(t, m, lo, hi, z, x, y) ==
  /\ x \in Pointers /\ y \in Pointers
  /\ \/ x = t.root /\ y = Sentinel
     \/ y \in m /\ x = ChildFor(t, z, y) /\ lo[y] < z /\ z < hi[y]

LEMMA DescentEnds ==
  ASSUME NEW m \in SUBSET Nodes, NEW t \in Trees, NEW lo, NEW hi,
         Layout(m, t.root, t.left, t.right, t.parent, lo, hi), NEW z \in Nodes \ m
  PROVE  PlaceFor(t, m, lo, hi, z, Descent(t, z)[1], Descent(t, z)[2])
<1> DEFINE P == {c \in Pointers \X Pointers :
                   \/ c = <<t.root, Sentinel>>
                   \/ c[2] \in m /\ c[1] = ChildFor(t, z, c[2]) /\ lo[c[2]] < z /\ z < hi[c[2]]}
           body == [c \in Pointers \X Pointers |->
                      IF c[1] \in {Sentinel, Null} THEN c ELSE <<ChildFor(t, z, c[1]), c[1]>>]
<1>0. /\ Sentinel \notin m /\ Null \notin m /\ m \subseteq Pointers
      /\ Sentinel \in Pointers /\ z \in Nat /\ z >= 1 /\ z < N + 1 /\ N \in Nat
  BY Basics
<1>1. ASSUME NEW x \in m, lo[x] < z, z < hi[x] PROVE <<ChildFor(t, z, x), x>> \in P
  <2>1. ChildFor(t, z, x) \in Pointers /\ x \in Pointers
    BY <1>0, Writes DEF ChildFor
  <2> QED BY <1>1, <2>1
<1>2. ASSUME NEW c \in P PROVE body[c] \in P
  <2>1. c \in Pointers \X Pointers
    OBVIOUS
  <2>2. CASE c[1] \in {Sentinel, Null}
    BY <2>1, <2>2
  <2>3. CASE c[1] \notin {Sentinel, Null}
    <3>1. body[c] = <<ChildFor(t, z, c[1]), c[1]>>
      BY <2>1, <2>3
    <3>2. c[1] \in m /\ lo[c[1]] < z /\ z < hi[c[1]]
      <4>1. CASE c = <<t.root, Sentinel>>
        <5>1. c[1] = t.root /\ ChildOn(t.root, Sentinel, 0, N + 1, t.parent, m, lo, hi)
          BY <4>1 DEF Layout, Linked
        <5> QED BY <1>0, <2>3, <5>1 DEF ChildOn
      <4>2. CASE c # <<t.root, Sentinel>>
        <5>1. c[2] \in m /\ c[1] = ChildFor(t, z, c[2]) /\ lo[c[2]] < z /\ z < hi[c[2]]
          BY <4>2
        <5>2. PICK y : y = c[2]
          OBVIOUS
        <5>3. /\ ChildOn(t.left[y], y, lo[y], y, t.parent, m, lo, hi)
              /\ ChildOn(t.right[y], y, y, hi[y], t.parent, m, lo, hi)
          BY <5>1, <5>2 DEF Layout, Linked
        <5>4. y \in Nat /\ y # z
          BY <1>0, <5>1, <5>2, Basics
        <5> QED BY <1>0, <2>3, <5>1, <5>2, <5>3, <5>4 DEF ChildFor, ChildOn
      <4> QED BY <4>1, <4>2
    <3> QED BY <1>1, <3>1, <3>2
  <2> QED BY <2>2, <2>3
<1>3. <<t.root, Sentinel>> \in P
  BY <1>0, FieldTypes
<1>4. LoopBound \in Nat /\ Descent(t, z) = Iterated(body, <<t.root, Sentinel>>, LoopBound)
  BY Basics DEF LoopBound, Descent
<1>5. Descent(t, z) \in P
  <2> HIDE DEF P, body
  <2> QED BY <1>2, <1>3, <1>4, IteratedStays
<1> QED BY <1>5 DEF PlaceFor

(* u is t with z as a leaf below y, or as its root.                         *)
Leafed(t, u, m, z, y) ==
  /\ Good(u, m \cup {z}) /\ u.root = IF y = Sentinel THEN z ELSE t.root
  /\ (y = Sentinel /\ m = {}) \/ (y \in m /\ ChildFor(t, z, y) = Sentinel)
  /\ \A q \in Pointers : u.left[q] = IF q = z THEN Sentinel
                                      ELSE IF q = y /\ y # Sentinel /\ z < y THEN z ELSE t.left[q]
  /\ \A q \in Pointers : u.right[q] = IF q = z THEN Sentinel
                                       ELSE IF q = y /\ y # Sentinel /\ ~(z < y) THEN z ELSE t.right[q]
  /\ \A q \in Pointers : u.parent[q] = IF q = z THEN y ELSE t.parent[q]
  /\ \A q \in Pointers : u.red[q] = IF q = z THEN TRUE ELSE t.red[q]

(* rb_tree_insert puts z in its place.                                     *)
LEMMA LeafHung ==
  ASSUME NEW m \in SUBSET Nodes, NEW t, Good(t, m), NEW z \in Nodes \ m, Descent(t, z)[1] = Sentinel
  PROVE  \E u, y : rb_tree_insert(t, z) = InsertFixup(u, z) /\ Leafed(t, u, m, z, y)
<1>0. /\ t \in Trees /\ Sound(t, m) /\ ~Broken(t) /\ ~t.red[Sentinel] /\ ~t.red[Null] /\ Ends(t)
      /\ Sentinel \notin m /\ Null \notin m /\ m \subseteq Pointers /\ z \in Pointers /\ z # Null
      /\ z # Sentinel /\ Sentinel \in Pointers /\ Null \in Pointers /\ Sentinel # Null
  BY Basics DEF Good, Sound
<1>1. PICK lo, hi : Layout(m, t.root, t.left, t.right, t.parent, lo, hi)
  BY <1>0 DEF Sound, Shape
<1>2. PICK d : d = Descent(t, z)
  OBVIOUS
<1>3. PICK x, y : x = d[1] /\ y = d[2]
  OBVIOUS
<1>4. /\ x \in Pointers /\ y \in Pointers
      /\ \/ x = t.root /\ y = Sentinel
         \/ y \in m /\ x = ChildFor(t, z, y) /\ lo[y] < z /\ z < hi[y]
  <2>1. PlaceFor(t, m, lo, hi, z, x, y)
    BY <1>0, <1>1, <1>2, <1>3, DescentEnds
  <2> QED BY <2>1 DEF PlaceFor
<1>7. x = Sentinel
  BY <1>2, <1>3
<1>11. PICK t1 : t1 = [t EXCEPT !.parent[z] = y]
  OBVIOUS
<1>12. PICK t2 : t2 = IF y = Sentinel THEN [t1 EXCEPT !.root = z]
                      ELSE IF z < y THEN [t1 EXCEPT !.left[y] = z] ELSE [t1 EXCEPT !.right[y] = z]
  OBVIOUS
<1>13. PICK u : u = [t2 EXCEPT !.left[z] = Sentinel, !.right[z] = Sentinel, !.red[z] = TRUE]
  OBVIOUS
<1>14. rb_tree_insert(t, z) = InsertFixup(u, z)
  BY <1>0, <1>2, <1>3, <1>7, <1>11, <1>12, <1>13 DEF rb_tree_insert
<1>15. /\ t1 \in Trees /\ t1.root = t.root /\ t1.left = t.left /\ t1.right = t.right
       /\ t1.parent = [t.parent EXCEPT ![z] = y] /\ t1.red = t.red /\ t1.fate = t.fate
  BY <1>0, <1>4, <1>11 DEF Trees
<1>16. /\ t2 \in Trees /\ t2.root = (IF y = Sentinel THEN z ELSE t.root)
       /\ t2.left = (IF y # Sentinel /\ z < y THEN [t.left EXCEPT ![y] = z] ELSE t.left)
       /\ t2.right = (IF y # Sentinel /\ ~(z < y) THEN [t.right EXCEPT ![y] = z] ELSE t.right)
       /\ t2.parent = t1.parent /\ t2.red = t.red /\ t2.fate = t.fate
  <2>1. CASE y = Sentinel
    BY <1>0, <1>12, <1>15, <2>1 DEF Trees
  <2>2. CASE y # Sentinel /\ z < y
    BY <1>0, <1>4, <1>12, <1>15, <2>2 DEF Trees
  <2>3. CASE y # Sentinel /\ ~(z < y)
    BY <1>0, <1>4, <1>12, <1>15, <2>3 DEF Trees
  <2> QED BY <2>1, <2>2, <2>3
<1>17. /\ u \in Trees /\ u.root = t2.root /\ u.left = [t2.left EXCEPT ![z] = Sentinel]
       /\ u.right = [t2.right EXCEPT ![z] = Sentinel] /\ u.parent = t1.parent
       /\ u.red = [t.red EXCEPT ![z] = TRUE] /\ u.fate = t.fate
  BY <1>0, <1>13, <1>16 DEF Trees
<1>18. /\ t.left \in [Pointers -> Pointers] /\ t.right \in [Pointers -> Pointers]
       /\ t.parent \in [Pointers -> Pointers] /\ t.red \in [Pointers -> BOOLEAN]
       /\ u.left \in [Pointers -> Pointers] /\ u.right \in [Pointers -> Pointers]
       /\ u.parent \in [Pointers -> Pointers] /\ u.root \in Pointers /\ t.root \in Pointers
  BY <1>0, <1>17 DEF Trees
<1>19. /\ \A q \in Pointers : u.left[q] = IF q = z THEN Sentinel
                                          ELSE IF q = y /\ y # Sentinel /\ z < y THEN z ELSE t.left[q]
       /\ \A q \in Pointers : u.right[q] = IF q = z THEN Sentinel
                                           ELSE IF q = y /\ y # Sentinel /\ ~(z < y) THEN z ELSE t.right[q]
       /\ \A q \in Pointers : u.parent[q] = IF q = z THEN y ELSE t.parent[q]
       /\ \A q \in Pointers : u.red[q] = IF q = z THEN TRUE ELSE t.red[q]
  <2>1. \A q \in Pointers : u.left[q] = IF q = z THEN Sentinel
                                          ELSE IF q = y /\ y # Sentinel /\ z < y THEN z ELSE t.left[q]
    BY <1>0, <1>4, <1>16, <1>17, <1>18
  <2>2. \A q \in Pointers : u.right[q] = IF q = z THEN Sentinel
                                           ELSE IF q = y /\ y # Sentinel /\ ~(z < y) THEN z ELSE t.right[q]
    BY <1>0, <1>4, <1>16, <1>17, <1>18
  <2>3. \A q \in Pointers : u.parent[q] = IF q = z THEN y ELSE t.parent[q]
    BY <1>0, <1>15, <1>17, <1>18
  <2>4. \A q \in Pointers : u.red[q] = IF q = z THEN TRUE ELSE t.red[q]
    <3>1. t.red \in [Pointers -> BOOLEAN] /\ u.red = [t.red EXCEPT ![z] = TRUE]
      BY <1>17, <1>18
    <3> QED BY <3>1
  <2> QED BY <2>1, <2>2, <2>3, <2>4
<1>20. y # Null
  BY <1>0, <1>4
<1>21. Ends(u) /\ ~u.red[Sentinel] /\ ~u.red[Null] /\ ~Broken(u)
  BY <1>0, <1>17, <1>19, <1>20 DEF Ends, Broken
<1>22. Shape(u, m \cup {z})
  <2>1. CASE y = Sentinel
    <3>1. t.root = Sentinel
      BY <1>0, <1>4, <1>7, <2>1
    <3>2. m = {}
      <4>1. ChildOn(t.root, Sentinel, 0, N + 1, t.parent, m, lo, hi)
        BY <1>1 DEF Layout, Linked
      <4>2. \A q \in m : 0 < q /\ q < N + 1
        BY Basics DEF Nodes
      <4> QED BY <1>0, <3>1, <4>1, <4>2 DEF ChildOn
    <3> DEFINE a == [q \in Nodes |-> 0]
               b == [q \in Nodes |-> N + 1]
    <3>3. a \in [Nodes -> Pointers] /\ b \in [Nodes -> Pointers] /\ a[z] = 0 /\ b[z] = N + 1
      BY Basics DEF Pointers
    <3>4. z \in Nat /\ 0 < z /\ z < N + 1
      BY Basics DEF Nodes
    <3> HIDE DEF a, b
    <3>5. Intervals({z}, a, b)
      BY <3>3, <3>4, Basics DEF Intervals
    <3>6. u.root = z /\ u.left[z] = Sentinel /\ u.right[z] = Sentinel /\ u.parent[z] = Sentinel
      BY <1>0, <1>16, <1>17, <1>19, <2>1
    <3>7. Linked(u.root, u.left, u.right, u.parent, {z}, a, b)
      BY <3>3, <3>4, <3>6, Basics DEF Linked, ChildOn
    <3>8. Layout({z}, u.root, u.left, u.right, u.parent, a, b)
      BY <1>18, <3>3, <3>5, <3>7 DEF Layout
    <3> QED BY <3>2, <3>8 DEF Shape
  <2>2. CASE y # Sentinel
    <3>1. y \in m /\ ChildFor(t, z, y) = Sentinel /\ lo[y] < z /\ z < hi[y]
      BY <1>4, <1>7, <2>2
    <3>2. y \in Nat /\ z \in Nat /\ y # z
      BY <3>1, Basics
    <3>3. /\ z < y => t.left[y] = Sentinel
          /\ z > y => t.right[y] = Sentinel
      BY <3>1, <3>2 DEF ChildFor
    <3>4. Grows(m, t.left, t.right, t.parent, lo, hi, z, y, u.left, u.right, u.parent)
      <4>1. \A q \in m : u.left[q] = IF q = y /\ z < y THEN z ELSE t.left[q]
        BY <1>0, <1>19, <2>2
      <4>2. \A q \in m : u.right[q] = IF q = y /\ z > y THEN z ELSE t.right[q]
        BY <1>0, <1>19, <2>2, <3>2
      <4>3. \A q \in m : u.parent[q] = t.parent[q]
        BY <1>0, <1>19
      <4>4. u.left[z] = Sentinel /\ u.right[z] = Sentinel /\ u.parent[z] = y
        BY <1>0, <1>19
      <4> QED BY <1>18, <3>1, <3>3, <4>1, <4>2, <4>3, <4>4 DEF Grows
    <3>5. u.root = t.root
      BY <1>16, <1>17, <2>2
    <3>6. \E lo2, hi2 : Layout(m \cup {z}, t.root, u.left, u.right, u.parent, lo2, hi2)
      BY <1>1, <3>1, <3>4, Grown
    <3> QED BY <3>5, <3>6 DEF Shape
  <2> QED BY <2>1, <2>2
<1>23. Good(u, m \cup {z})
  BY <1>17, <1>21, <1>22 DEF Good, Sound
<1>24. m \cup {z} \in SUBSET Nodes
  OBVIOUS
<1>25. (y = Sentinel /\ m = {}) \/ (y \in m /\ ChildFor(t, z, y) = Sentinel)
  <2>1. CASE y = Sentinel
    <3>1. t.root = Sentinel
      BY <1>0, <1>4, <1>7, <2>1
    <3>2. m = {}
      <4>1. ChildOn(t.root, Sentinel, 0, N + 1, t.parent, m, lo, hi)
        BY <1>1 DEF Layout, Linked
      <4>2. \A q \in m : 0 < q /\ q < N + 1
        BY Basics DEF Nodes
      <4> QED BY <1>0, <3>1, <4>1, <4>2 DEF ChildOn
    <3> QED BY <2>1, <3>2
  <2>2. CASE y # Sentinel
    BY <1>4, <1>7, <2>2
  <2> QED BY <2>1, <2>2
<1>26. Leafed(t, u, m, z, y)
  BY <1>16, <1>17, <1>19, <1>23, <1>25 DEF Leafed
<1> QED BY <1>14, <1>26

LEMMA Inserted ==
  ASSUME NEW m \in SUBSET Nodes, NEW t, Good(t, m), NEW z \in Nodes \ m
  PROVE  /\ rb_tree_insert(t, z) \in Trees
         /\ Broken(rb_tree_insert(t, z)) \/ Good(rb_tree_insert(t, z), m \cup {z})
<1>0. t \in Trees
  BY DEF Good, Sound
<1>1. CASE Descent(t, z)[1] = Null
  <2>1. rb_tree_insert(t, z) = Fail(t, "null_deref")
    BY <1>1 DEF rb_tree_insert
  <2> QED BY <1>0, <2>1, Failed
<1>2. CASE Descent(t, z)[1] # Null /\ Descent(t, z)[1] # Sentinel
  <2>1. rb_tree_insert(t, z) = Fail(t, "endless")
    BY <1>2 DEF rb_tree_insert
  <2> QED BY <1>0, <2>1, Failed
<1>3. CASE Descent(t, z)[1] = Sentinel
  <2>1. PICK u, y : rb_tree_insert(t, z) = InsertFixup(u, z) /\ Leafed(t, u, m, z, y)
    BY <1>3, LeafHung
  <2>2. Good(u, m \cup {z}) /\ m \cup {z} \in SUBSET Nodes /\ z \in m \cup {z}
    BY <2>1 DEF Leafed
  <2> QED BY <2>1, <2>2, InsertFixupKeeps
<1> QED BY <1>1, <1>2, <1>3

-----------------------------------------------------------------------------
(* Deletion.                                                               *)

LEMMA Skewing ==
  ASSUME NEW t \in Trees, NEW b \in BOOLEAN, NEW u, u = [t EXCEPT !.skewed = b]
  PROVE  /\ u \in Trees /\ (Broken(t) => Broken(u))
         /\ u.root = t.root /\ u.left = t.left /\ u.right = t.right /\ u.parent = t.parent
         /\ u.red = t.red /\ u.fate = t.fate
BY DEF Trees, Broken

LEMMA SkewingKeeps ==
  ASSUME NEW m \in SUBSET Nodes, NEW t, Sound(t, m), NEW b \in BOOLEAN, NEW u, u = [t EXCEPT !.skewed = b]
  PROVE  Sound(u, m) /\ (Good(t, m) => Good(u, m))
<1>1. t \in Trees
  BY DEF Sound
<1>2. /\ u \in Trees /\ u.root = t.root /\ u.left = t.left /\ u.right = t.right
      /\ u.parent = t.parent /\ u.red = t.red /\ u.fate = t.fate
  BY <1>1, Skewing
<1>3. Sound(u, m)
  BY <1>2 DEF Sound, Ends, Shape
<1> QED BY <1>2, <1>3 DEF Good, Broken

LEMMA NothingLinked ==
  ASSUME NEW t, Sound(t, {})
  PROVE  t.root = Sentinel
BY DEF Sound, Shape, Layout, Linked, ChildOn

(* Where the fixup of a deletion may be: at a member, or at the sentinel   *)
(* below a member.                                                         *)
Reaches(t, m, x) == x \in m \/ (x = Sentinel /\ (m = {} \/ t.parent[Sentinel] \in m))

Sinks(m) == {c \in Fixups : Broken(c.tree) \/ (Good(c.tree, m) /\ Reaches(c.tree, m, c.at))}

(* The first case: x's sibling w is rotated above their parent p.          *)
LEMMA SiblingTurned ==
  ASSUME NEW m \in SUBSET Nodes, NEW t, Good(t, m), NEW x, x \in m \cup {Sentinel},
         t.parent[x] \in m, Far(t, t.parent[x], SideOf(t, x)) \in m
  PROVE  /\ Good(RotateTo(t, t.parent[x], SideOf(t, x)), m)
         /\ RotateTo(t, t.parent[x], SideOf(t, x)).parent[x] = t.parent[x]
<1>0. Sound(t, m)
  BY DEF Good
<1>1. PICK p : p = t.parent[x]
  OBVIOUS
<1>2. PICK side : side = SideOf(t, x)
  OBVIOUS
<1>3. PICK w : w = Far(t, p, side)
  OBVIOUS
<1>4. PICK u : u = RotateTo(t, p, side)
  OBVIOUS
<1>5. side \in {"left", "right"}
  BY <1>2 DEF SideOf
<1>6. w \in m /\ w # Sentinel /\ p \in m /\ Sentinel \notin m
  BY <1>1, <1>2, <1>3, Members
<1>7. Turned(t, u, m, p, w, Near(t, w, side)) /\ t.parent[w] = p
  BY <1>0, <1>3, <1>4, <1>5, <1>6, TurnedTo
<1>8. Good(u, m)
  BY <1>7, TurnedGood
<1>9. u.parent[x] = p
  <2>1. CASE x = Sentinel
    BY <1>1, <1>7, <2>1 DEF Turned
  <2>2. CASE x \in m
    <3>1. x # p
      BY <1>0, <1>1, <2>2, ChildrenOf
    <3>2. x # w
      <4>1. t.left[p] = t.right[p] => t.left[p] = Sentinel
        BY <1>0, <1>6, ChildrenDiffer
      <4>2. CASE side = "left"
        <5>1. x = t.left[p] /\ w = t.right[p]
          BY <1>1, <1>2, <1>3, <4>2 DEF SideOf, Far
        <5> QED BY <1>6, <4>1, <5>1
      <4>3. CASE side = "right"
        <5>1. x # t.left[p] /\ w = t.left[p]
          BY <1>1, <1>2, <1>3, <4>3 DEF SideOf, Far
        <5> QED BY <5>1
      <4> QED BY <1>5, <4>2, <4>3
    <3>3. x # Near(t, w, side)
      <4>1. p # w
        BY <1>0, <1>6, <1>7, ChildrenOf
      <4>2. Near(t, w, side) \in m => t.parent[Near(t, w, side)] = w
        BY <1>0, <1>6, ChildrenOf DEF Near
      <4> QED BY <1>1, <2>2, <4>1, <4>2
    <3> QED BY <1>1, <1>7, <2>2, <3>1, <3>2, <3>3 DEF Turned
  <2> QED BY <2>1, <2>2
<1> QED BY <1>1, <1>2, <1>4, <1>8, <1>9

(* The third case: the near child of x's sibling w is rotated above w.     *)
LEMMA NephewTurned ==
  ASSUME NEW m \in SUBSET Nodes, NEW t, Good(t, m), NEW x, x \in m \cup {Sentinel},
         t.parent[x] \in m, NEW side \in {"left", "right"},
         NEW w \in m, w = Far(t, t.parent[x], side), Near(t, w, side) \in m
  PROVE  Good(RotateFrom(t, w, side), m) /\ RotateFrom(t, w, side).parent[x] \in m
<1>0. Sound(t, m)
  BY DEF Good
<1>1. PICK n : n = Near(t, w, side)
  OBVIOUS
<1>2. PICK u : u = RotateFrom(t, w, side)
  OBVIOUS
<1>3. n \in m
  BY <1>1
<1>4. Turned(t, u, m, w, n, Far(t, n, side))
  BY <1>0, <1>1, <1>2, <1>3, TurnedFrom
<1>5. Good(u, m)
  BY <1>4, TurnedGood
<1>6. t.parent[w] = t.parent[x]
  BY <1>0, TurnedTo
<1>7. u.parent[x] \in m
  <2>1. CASE x = Sentinel
    BY <1>4, <2>1 DEF Turned
  <2>2. CASE x \in m
    <3>1. u.parent[x] = IF x = w THEN n ELSE IF x = n THEN t.parent[w]
                        ELSE IF x = Far(t, n, side) THEN w ELSE t.parent[x]
      BY <1>4, <2>2 DEF Turned
    <3> QED BY <1>3, <1>6, <3>1
  <2> QED BY <2>1, <2>2
<1> QED BY <1>2, <1>5, <1>7

(* The last case.                                                          *)
LEMMA SiblingLifted ==
  ASSUME NEW m \in SUBSET Nodes, NEW t, Good(t, m), NEW x \in Pointers, t.parent[x] \in m,
         NEW side \in {"left", "right"}, NEW w, w = Far(t, t.parent[x], side),
         NEW u, u = LiftSibling(t, x, w, side)
  PROVE  u \in Trees /\ (Broken(u) \/ (Good(u, m) /\ u.root \in m))
<1>0. Sound(t, m) /\ t \in Trees /\ ~t.red[Sentinel]
  BY DEF Good, Sound
<1>1. PICK p : p = t.parent[x]
  OBVIOUS
<1>2. p \in m /\ p \in Pointers /\ p # Null /\ p # Sentinel /\ Sentinel \notin m /\ m \subseteq Pointers
      /\ Sentinel \in Pointers /\ Sentinel # Null /\ Null \notin m
  BY <1>1, Members
<1>3. w \in m \cup {Sentinel}
  BY <1>0, <1>1, <1>2, TurnedTo
<1>4. w \in Pointers /\ w # Null
  BY <1>2, <1>3
<1>5. PICK a1 : a1 = SetRed(t, w, t.red[p])
  OBVIOUS
<1>6. t.red[p] \in BOOLEAN
  BY <1>0, <1>2, FieldTypes
<1>7. Sound(a1, m) /\ a1.left = t.left /\ a1.right = t.right /\ a1.parent = t.parent
  BY <1>0, <1>4, <1>5, <1>6, Painted
<1>8. PICK a2 : a2 = SetRed(a1, p, FALSE)
  OBVIOUS
<1>9. Sound(a2, m) /\ a2.left = t.left /\ a2.right = t.right /\ a2.parent = t.parent
  <2>1. Sound(a2, m)
    BY <1>2, <1>7, <1>8, Painted
  <2>2. a2.left = a1.left /\ a2.right = a1.right /\ a2.parent = a1.parent
    BY <1>2, <1>7, <1>8, Painted
  <2> QED BY <1>7, <2>1, <2>2
<1>10. PICK k : k = IF side = "left" THEN a2.right[w] ELSE a2.left[x]
  OBVIOUS
<1>11. k \in Pointers
  BY <1>4, <1>9, <1>10, Writes DEF Sound
<1>12. PICK a3 : a3 = SetRed(a2, k, FALSE)
  OBVIOUS
<1>13. Sound(a3, m)
  BY <1>9, <1>11, <1>12, Painted
<1>14. a3.left = a2.left /\ a3.right = a2.right /\ a3 \in Trees
  <2>1. a3.left = a2.left /\ a3.right = a2.right
    BY <1>9, <1>11, <1>12, Painted
  <2> QED BY <1>13, <2>1 DEF Sound
<1>15. PICK s : s = (a3.skewed \/ side = "right")
  OBVIOUS
<1>16. s \in BOOLEAN
  BY <1>15
<1>17. PICK a4 : a4 = [a3 EXCEPT !.skewed = s]
  OBVIOUS
<1>18. a4 \in Trees /\ (Broken(a3) => Broken(a4)) /\ a4.left = a3.left /\ a4.right = a3.right
  BY <1>14, <1>16, <1>17, Skewing
<1>19. Sound(a4, m) /\ (Good(a3, m) => Good(a4, m))
  BY <1>13, <1>16, <1>17, SkewingKeeps
<1>20. u = RotateTo(a4, p, side)
  BY <1>1, <1>5, <1>8, <1>10, <1>12, <1>15, <1>17 DEF LiftSibling
<1>21. u \in Trees /\ (Broken(a4) => Broken(u))
  BY <1>2, <1>18, <1>20, RotationTypes DEF RotateTo
<1>22. Far(a4, p, side) = w
  BY <1>1, <1>9, <1>14, <1>18 DEF Far
<1>23. CASE w = Sentinel
  <2>1. Broken(u)
    BY <1>2, <1>19, <1>20, <1>22, <1>23, TurnedTo
  <2> QED BY <1>21, <2>1
<1>24. CASE k = Null
  <2>1. Broken(a3)
    BY <1>9, <1>11, <1>12, <1>24, Painted
  <2> QED BY <1>18, <1>21, <2>1
<1>25. CASE w # Sentinel /\ k # Null
  <2>1. Good(a1, m)
    BY <1>0, <1>4, <1>5, <1>6, <1>25, Painted
  <2>2. Good(a2, m)
    BY <1>2, <1>7, <1>8, <2>1, Painted
  <2>3. Good(a3, m)
    BY <1>9, <1>11, <1>12, <1>25, <2>2, Painted
  <2>4. Good(a4, m)
    BY <1>19, <2>3
  <2>5. Broken(u) \/ Good(u, m)
    BY <1>2, <1>20, <2>4, Rotations
  <2>6. Good(u, m) => u.root \in m
    BY <1>2, ChildrenOf DEF Good
  <2> QED BY <1>21, <2>5, <2>6
<1> QED BY <1>23, <1>24, <1>25

LEMMA DeletePassKeeps ==
  ASSUME NEW m \in SUBSET Nodes, NEW t \in Trees, NEW x \in Pointers,
         Broken(t) \/ (Good(t, m) /\ Reaches(t, m, x))
  PROVE  DeletePass(t, x) \in Sinks(m)
<1>1. PICK p : p = t.parent[x]
  OBVIOUS
<1>2. PICK side : side = SideOf(t, x)
  OBVIOUS
<1>3. PICK w0 : w0 = Far(t, p, side)
  OBVIOUS
<1>4. PICK t1 : t1 = RaiseSibling(t, p, w0, side)
  OBVIOUS
<1>5. PICK w : w = IF t.red[w0] THEN Far(t1, t1.parent[x], side) ELSE w0
  OBVIOUS
<1>6. CASE Broken(t) \/ x = t.root \/ t.red[x]
  <2>1. DeletePass(t, x) = Fixup(t, x)
    BY <1>6 DEF DeletePass
  <2> QED BY <2>1, Fixed DEF Sinks
<1>7. CASE ~(Broken(t) \/ x = t.root \/ t.red[x])
  <2>1. Good(t, m) /\ Reaches(t, m, x) /\ Sound(t, m) /\ x # t.root /\ ~t.red[x]
    BY <1>7 DEF Good
  <2>2. side \in {"left", "right"}
    BY <1>2 DEF SideOf
  <2>3. x \in m \cup {Sentinel} /\ p \in m
    <3>1. CASE x \in m
      BY <1>1, <2>1, <3>1, ChildrenOf
    <3>2. CASE x = Sentinel
      <4>1. m # {}
        BY <2>1, <3>2, NothingLinked
      <4> QED BY <1>1, <2>1, <3>2, <4>1, Members DEF Reaches
    <3> QED BY <2>1, <3>1, <3>2 DEF Reaches
  <2>4. t1 \in Trees /\ (Broken(t1) \/ (Good(t1, m) /\ t1.parent[x] = p))
    <3>1. CASE t.red[w0]
      <4>1. w0 \in m /\ w0 \in Pointers /\ w0 # Null /\ w0 # Sentinel
        <5>1. w0 \in m \cup {Sentinel}
          BY <1>3, <2>1, <2>2, <2>3, TurnedTo
        <5>2. w0 # Sentinel
          BY <2>1, <3>1 DEF Good
        <5> QED BY <5>1, <5>2, Members
      <4>2. p \in Pointers /\ p # Null /\ p # Sentinel
        BY <2>3, Members
      <4>3. PICK a : a = SetRed(t, w0, FALSE)
        OBVIOUS
      <4>4. Good(a, m) /\ Sound(a, m)
        BY <2>1, <4>1, <4>3, Painted
      <4>5. a.left = t.left /\ a.right = t.right /\ a.parent = t.parent
        BY <4>1, <4>3, Recoloured
      <4>6. PICK b : b = SetRed(a, p, TRUE)
        OBVIOUS
      <4>7. Good(b, m)
        BY <4>2, <4>4, <4>6, Painted
      <4>8. b.left = t.left /\ b.right = t.right /\ b.parent = t.parent
        <5>1. a \in Trees
          BY <4>4 DEF Sound
        <5> QED BY <4>2, <4>5, <4>6, <5>1, Recoloured
      <4>9. t1 = RotateTo(b, p, side)
        BY <1>4, <3>1, <4>3, <4>6 DEF RaiseSibling
      <4>10. b.parent[x] = p /\ SideOf(b, x) = side /\ Far(b, p, side) = w0
        BY <1>1, <1>2, <1>3, <4>8 DEF SideOf, Far
      <4>11. /\ Good(RotateTo(b, b.parent[x], SideOf(b, x)), m)
             /\ RotateTo(b, b.parent[x], SideOf(b, x)).parent[x] = b.parent[x]
        BY <2>3, <4>1, <4>7, <4>10, SiblingTurned
      <4>12. Good(t1, m) /\ t1.parent[x] = p
        BY <4>9, <4>10, <4>11
      <4> QED BY <4>12 DEF Good, Sound
    <3>2. CASE ~t.red[w0]
      BY <1>1, <1>4, <2>1, <3>2 DEF RaiseSibling
    <3> QED BY <3>1, <3>2
  <2>0. DeletePass(t, x) = PassExtraBlack(t1, x, w, side)
    BY <1>1, <1>2, <1>3, <1>4, <1>5, <1>7 DEF DeletePass
  <2>5. CASE Broken(t1) \/ Null \in {t1.left[w], t1.right[w]}
    <3>1. DeletePass(t, x) = Fixup(Fail(t1, "null_deref"), x)
      BY <2>0, <2>5 DEF PassExtraBlack
    <3>2. Fail(t1, "null_deref") \in Trees /\ Broken(Fail(t1, "null_deref"))
      BY <2>4, Failed
    <3> QED BY <3>1, <3>2, Fixed DEF Sinks
  <2>6. CASE ~(Broken(t1) \/ Null \in {t1.left[w], t1.right[w]})
    <3>1. Good(t1, m) /\ t1.parent[x] = p /\ Sound(t1, m) /\ ~t1.red[Sentinel]
      BY <2>4, <2>6 DEF Good
    <3>2. w = Far(t1, p, side)
      BY <1>3, <1>4, <1>5, <3>1 DEF RaiseSibling
    <3>3. w \in m
      <4>1. w \in m \cup {Sentinel}
        BY <2>2, <2>3, <3>1, <3>2, TurnedTo
      <4>2. w # Sentinel
        BY <2>6, <3>1 DEF Sound, Ends
      <4> QED BY <4>1, <4>2
    <3>4. w \in Pointers /\ w # Null /\ w # Sentinel /\ p \in Pointers
      BY <2>3, <3>3, Members
    <3>5. CASE ~t1.red[t1.left[w]] /\ ~t1.red[t1.right[w]]
      <4>1. DeletePass(t, x) = Fixup(SetRed(t1, w, TRUE), p)
        BY <2>0, <2>6, <3>1, <3>5 DEF PassExtraBlack
      <4>2. Good(SetRed(t1, w, TRUE), m)
        BY <3>1, <3>4, Painted
      <4>3. SetRed(t1, w, TRUE) \in Trees
        BY <4>2 DEF Good, Sound
      <4>4. PICK a : a = SetRed(t1, w, TRUE)
        OBVIOUS
      <4>5. Fixup(a, p) \in Fixups /\ Fixup(a, p).tree = a /\ Fixup(a, p).at = p
        BY <3>4, <4>3, <4>4, Fixed
      <4>6. Good(a, m) /\ DeletePass(t, x) = Fixup(a, p)
        BY <4>1, <4>2, <4>4
      <4> QED BY <2>3, <4>5, <4>6 DEF Sinks, Reaches
    <3>6. CASE ~(~t1.red[t1.left[w]] /\ ~t1.red[t1.right[w]])
      <4>2. PICK t2 : t2 = RaiseNephew(t1, w, side)
        OBVIOUS
      <4>3. PICK w2 : w2 = IF t1.red[Far(t1, w, side)] THEN w ELSE Far(t2, t2.parent[x], side)
        OBVIOUS
      <4>4. PICK t3 : t3 = LiftSibling(t2, x, w2, side)
        OBVIOUS
      <4>5. DeletePass(t, x) = Fixup(t3, t3.root)
        BY <2>0, <2>6, <3>6, <4>2, <4>3, <4>4 DEF PassExtraBlack
      <4>6. t2 \in Trees /\ Good(t2, m) /\ t2.parent[x] \in m
        <5>1. CASE t1.red[Far(t1, w, side)]
          BY <2>3, <2>4, <3>1, <4>2, <5>1 DEF RaiseNephew
        <5>2. CASE ~t1.red[Far(t1, w, side)]
          <6>1. PICK n : n = Near(t1, w, side)
            OBVIOUS
          <6>2. n \in m /\ n \in Pointers /\ n # Null /\ n # Sentinel
            <7>1. t1.red[n]
              BY <2>2, <3>6, <5>2, <6>1 DEF Near, Far
            <7>2. n \in m \cup {Sentinel}
              BY <2>2, <3>1, <3>3, <6>1, TurnedFrom
            <7>3. n # Sentinel
              BY <3>1, <7>1
            <7> QED BY <7>2, <7>3, Members
          <6>3. PICK a : a = SetRed(t1, n, FALSE)
            OBVIOUS
          <6>4. Good(a, m) /\ Sound(a, m)
            BY <3>1, <6>2, <6>3, Painted DEF Good
          <6>5. a.left = t1.left /\ a.right = t1.right /\ a.parent = t1.parent
            BY <2>4, <6>2, <6>3, Recoloured
          <6>6. PICK b : b = SetRed(a, w, TRUE)
            OBVIOUS
          <6>7. Good(b, m)
            BY <3>4, <6>4, <6>6, Painted
          <6>8. b.left = t1.left /\ b.right = t1.right /\ b.parent = t1.parent
            <7>1. a \in Trees
              BY <6>4 DEF Sound
            <7> QED BY <3>4, <6>5, <6>6, <7>1, Recoloured
          <6>9. t2 = RotateFrom(b, w, side)
            BY <4>2, <5>2, <6>1, <6>3, <6>6 DEF RaiseNephew
          <6>10. b.parent[x] = p /\ Far(b, p, side) = w /\ Near(b, w, side) = n
            BY <3>1, <3>2, <6>1, <6>8 DEF Near, Far
          <6>11. Good(RotateFrom(b, w, side), m) /\ RotateFrom(b, w, side).parent[x] \in m
            BY <2>2, <2>3, <3>3, <6>2, <6>7, <6>10, NephewTurned
          <6>12. Good(t2, m) /\ t2.parent[x] \in m
            BY <6>9, <6>11
          <6> QED BY <6>12 DEF Good, Sound
        <5> QED BY <5>1, <5>2
      <4>7. w2 = Far(t2, t2.parent[x], side)
        BY <3>1, <3>2, <4>2, <4>3 DEF RaiseNephew
      <4>8. t3 \in Trees /\ (Broken(t3) \/ (Good(t3, m) /\ t3.root \in m))
        BY <2>2, <4>4, <4>6, <4>7, SiblingLifted
      <4>9. t3.root \in Pointers
        BY <4>8 DEF Trees
      <4> QED BY <4>5, <4>8, <4>9, Fixed DEF Sinks, Reaches
    <3> QED BY <3>5, <3>6
  <2> QED BY <2>5, <2>6
<1> QED BY <1>6, <1>7

LEMMA DeleteFixupKeeps ==
  ASSUME NEW m \in SUBSET Nodes, NEW t \in Trees, NEW x \in Pointers,
         Broken(t) \/ (Good(t, m) /\ Reaches(t, m, x))
  PROVE  DeleteFixup(t, x) \in Trees /\ (Broken(DeleteFixup(t, x)) \/ Good(DeleteFixup(t, x), m))
<1> DEFINE body == [c \in Fixups |-> DeletePass(c.tree, c.at)]
<1>1. \A c \in Sinks(m) : body[c] \in Sinks(m)
  <2> TAKE c \in Sinks(m)
  <2>1. /\ c \in Fixups /\ c.tree \in Trees /\ c.at \in Pointers
        /\ Broken(c.tree) \/ (Good(c.tree, m) /\ Reaches(c.tree, m, c.at))
    BY DEF Sinks, Fixups
  <2>2. body[c] = DeletePass(c.tree, c.at)
    BY <2>1
  <2> QED BY <2>1, <2>2, DeletePassKeeps
<1>2. Fixup(t, x) \in Sinks(m)
  BY Fixed DEF Sinks
<1> HIDE DEF body
<1>3. PICK e : e = Iterated(body, Fixup(t, x), LoopBound)
  OBVIOUS
<1>4. e \in Sinks(m)
  <2>1. LoopBound \in Nat
    BY Basics DEF LoopBound
  <2> QED BY <1>1, <1>2, <1>3, <2>1, IteratedStays
<1>5. /\ e.tree \in Trees /\ e.at \in Pointers
      /\ Broken(e.tree) \/ (Good(e.tree, m) /\ Reaches(e.tree, m, e.at))
  BY <1>4 DEF Sinks, Fixups
<1>6. DeleteFixup(t, x) = IF Broken(e.tree) THEN e.tree
                          ELSE IF e.at # e.tree.root /\ ~e.tree.red[e.at] THEN Fail(e.tree, "endless")
                          ELSE SetRed(e.tree, e.at, FALSE)
  BY <1>3 DEF DeleteFixup, DeleteEnd, body
<1>7. CASE Broken(e.tree)
  BY <1>5, <1>6, <1>7
<1>8. CASE ~Broken(e.tree) /\ e.at # e.tree.root /\ ~e.tree.red[e.at]
  <2>1. Fail(e.tree, "endless") \in Trees /\ Broken(Fail(e.tree, "endless"))
    BY <1>5, Failed
  <2> QED BY <1>6, <1>8, <2>1
<1>9. CASE ~Broken(e.tree) /\ ~(e.at # e.tree.root /\ ~e.tree.red[e.at])
  <2>1. Good(e.tree, m) /\ Sound(e.tree, m) /\ Reaches(e.tree, m, e.at)
    BY <1>5, <1>9 DEF Good
  <2>2. e.at # Null
    BY <2>1, Members DEF Reaches
  <2>3. Good(SetRed(e.tree, e.at, FALSE), m)
    BY <1>5, <2>1, <2>2, Painted
  <2> QED BY <1>6, <1>9, <2>3 DEF Good, Sound
<1> QED BY <1>7, <1>8, <1>9

LEMMA FixKeeps ==
  ASSUME NEW k \in SUBSET Nodes, NEW u \in Trees, NEW x \in Pointers, NEW b,
         Broken(u) \/ (Good(u, k) /\ Reaches(u, k, x)),
         NEW v, v = IF b THEN u ELSE DeleteFixup(u, x)
  PROVE  v \in Trees /\ (Broken(v) \/ Good(v, k))
<1>1. DeleteFixup(u, x) \in Trees /\ (Broken(DeleteFixup(u, x)) \/ Good(DeleteFixup(u, x), k))
  BY DeleteFixupKeeps
<1> QED BY <1>1

(* z is alone if it is the root and has no child.                          *)
LEMMA Alone ==
  ASSUME NEW m \in SUBSET Nodes, NEW t, Sound(t, m), NEW z \in m,
         t.parent[z] = Sentinel, t.left[z] = Sentinel, t.right[z] = Sentinel
  PROVE  m = {z}
<1>1. PICK lo \in [Nodes -> Pointers], hi \in [Nodes -> Pointers] :
        Intervals(m, lo, hi) /\ Linked(t.root, t.left, t.right, t.parent, m, lo, hi)
  BY DEF Sound, Shape, Layout
<1>2. \A q \in m : q \in Nat /\ 0 < q /\ q < N + 1 /\ q # Sentinel
  BY Basics
<1>3. z = t.root
  BY <1>1, <1>2 DEF Linked
<1>4. lo[z] = 0 /\ hi[z] = N + 1
  BY <1>1, <1>2, <1>3 DEF Linked, ChildOn
<1>5. /\ \A q \in m : ~(lo[z] < q /\ q < z)
      /\ \A q \in m : ~(z < q /\ q < hi[z])
  <2>1. ChildOn(t.left[z], z, lo[z], z, t.parent, m, lo, hi) /\ ChildOn(t.right[z], z, z, hi[z], t.parent, m, lo, hi)
    BY <1>1 DEF Linked
  <2>2. Sentinel \notin m
    BY <1>2
  <2> QED BY <2>1, <2>2 DEF ChildOn
<1> QED BY <1>2, <1>4, <1>5

(* An item with at most one child, c, is cut out.                          *)
LEMMA CutOut ==
  ASSUME NEW m \in SUBSET Nodes, NEW t, Good(t, m), NEW z \in m, NEW c,
         \/ t.left[z] = Sentinel /\ c = t.right[z]
         \/ t.right[z] = Sentinel /\ c = t.left[z],
         NEW u, u = RBTransplant(t, z, c)
  PROVE  u \in Trees /\ Good(u, m \ {z}) /\ Reaches(u, m \ {z}, c) /\ c \in Pointers
<1>0. /\ t \in Trees /\ Sound(t, m) /\ Ends(t) /\ ~t.red[Sentinel] /\ ~t.red[Null] /\ ~Broken(t)
      /\ z \in Pointers /\ z # Sentinel /\ z # Null /\ Sentinel \notin m /\ Null \notin m
      /\ m \subseteq Pointers /\ Sentinel \in Pointers /\ Null \in Pointers /\ Sentinel # Null
  BY Members DEF Good, Sound
<1> DEFINE p == t.parent[z]
<1>2. c \in m \cup {Sentinel} /\ c # z /\ p \in m \cup {Sentinel} /\ p # z
  BY <1>0, ChildrenOf
<1>3. c \in Pointers /\ c # Null /\ p \in Pointers /\ p # Null
  BY <1>0, <1>2
<1>4. /\ u \in Trees /\ SameColours(t, u) /\ u.parent = [t.parent EXCEPT ![c] = p]
      /\ u.root = IF p = Sentinel THEN c ELSE t.root
      /\ u.left = IF p # Sentinel /\ z = t.left[p] THEN [t.left EXCEPT ![p] = c] ELSE t.left
      /\ u.right = IF p # Sentinel /\ z # t.left[p] THEN [t.right EXCEPT ![p] = c] ELSE t.right
  <2>1. t.parent[z] # Null /\ Moved(t, u, z, c)
    BY <1>0, <1>3, Transplanted
  <2> QED BY <2>1 DEF Moved
<1>5. /\ t.left \in [Pointers -> Pointers] /\ t.right \in [Pointers -> Pointers]
      /\ t.parent \in [Pointers -> Pointers] /\ u.left \in [Pointers -> Pointers]
      /\ u.right \in [Pointers -> Pointers] /\ u.parent \in [Pointers -> Pointers]
  BY <1>0, <1>4 DEF Trees
<1>6. \A q \in Pointers : u.left[q] = IF q = p /\ p # Sentinel /\ t.left[q] = z THEN c ELSE t.left[q]
  BY <1>3, <1>4, <1>5
<1>7. \A q \in Pointers : u.right[q] = IF q = p /\ p # Sentinel /\ t.left[q] # z THEN c ELSE t.right[q]
  BY <1>3, <1>4, <1>5
<1>8. \A q \in Pointers : u.parent[q] = IF q = c THEN p ELSE t.parent[q]
  BY <1>3, <1>4, <1>5
<1>9. Ends(u)
  BY <1>0, <1>3, <1>6, <1>7, <1>8 DEF Ends
<1>10. Shape(u, m \ {z})
  <2>1. PICK lo, hi : Layout(m, t.root, t.left, t.right, t.parent, lo, hi)
    BY <1>0 DEF Sound, Shape
  <2>2. Cuts(m, t.root, t.left, t.right, t.parent, z, c, u.root, u.left, u.right, u.parent)
    <3>1. \A q \in m : u.left[q] = IF q = t.parent[z] /\ t.left[q] = z THEN c ELSE t.left[q]
      BY <1>0, <1>6
    <3>2. \A q \in m : u.right[q] = IF q = t.parent[z] /\ t.left[q] # z THEN c ELSE t.right[q]
      BY <1>0, <1>7
    <3>3. \A q \in m : u.parent[q] = IF q = c THEN t.parent[z] ELSE t.parent[q]
      BY <1>0, <1>8
    <3>4. u.root = IF t.parent[z] = Sentinel THEN c ELSE t.root
      BY <1>4
    <3> QED BY <1>5, <3>1, <3>2, <3>3, <3>4 DEF Cuts
  <2>3. CASE t.left[z] = Sentinel /\ c = t.right[z]
    <3>1. OneChild(t.left, t.right, z, c)
      BY <2>3 DEF OneChild
    <3>2. \E lo2, hi2 : Layout(Without(m, z), u.root, u.left, u.right, u.parent, lo2, hi2)
      BY <2>1, <2>2, <3>1, CutLeftmost
    <3>3. Shape(u, Without(m, z))
      BY <3>2 DEF Shape
    <3> QED BY <3>3 DEF Without
  <2>4. CASE t.right[z] = Sentinel /\ c = t.left[z]
    <3>1. OneChild(t.right, t.left, z, c)
      BY <2>4 DEF OneChild
    <3>2. \E lo2, hi2 : Layout(Without(m, z), u.root, u.left, u.right, u.parent, lo2, hi2)
      BY <2>1, <2>2, <3>1, CutRightmost
    <3>3. Shape(u, Without(m, z))
      BY <3>2 DEF Shape
    <3> QED BY <3>3 DEF Without
  <2> QED BY <2>3, <2>4
<1>11. Good(u, m \ {z})
  BY <1>0, <1>4, <1>9, <1>10 DEF Good, Sound, SameColours, Broken
<1>12. Reaches(u, m \ {z}, c)
  <2>1. CASE c \in m
    BY <1>2, <2>1 DEF Reaches
  <2>2. CASE c = Sentinel
    <3>1. u.parent[Sentinel] = p
      BY <1>0, <1>8, <2>2
    <3>2. CASE p \in m
      BY <1>2, <2>2, <3>1, <3>2 DEF Reaches
    <3>3. CASE p = Sentinel
      <4>1. t.left[z] = Sentinel /\ t.right[z] = Sentinel
        BY <2>2
      <4>2. t.parent[z] = Sentinel
        BY <3>3
      <4>3. m = {z}
        BY <1>0, <4>1, <4>2, Alone
      <4> QED BY <2>2, <4>3 DEF Reaches
    <3> QED BY <1>2, <3>2, <3>3
  <2> QED BY <1>2, <2>1, <2>2
<1> QED BY <1>3, <1>4, <1>11, <1>12

(* z has two children, and y is the least item of its right subtree.       *)
Succeeds(m, t, lo, hi, z, y) ==
  /\ Layout(m, t.root, t.left, t.right, t.parent, lo, hi)
  /\ z \in m /\ t.left[z] \in m /\ t.right[z] \in m
  /\ y \in m /\ lo[y] = z /\ t.left[y] = Sentinel

(* tree_minimum of z's right child is z's successor.                       *)
LEMMA MinimumFound ==
  ASSUME NEW m \in SUBSET Nodes, NEW t \in Trees, NEW lo, NEW hi,
         Layout(m, t.root, t.left, t.right, t.parent, lo, hi),
         NEW z \in m, t.left[z] \in m, t.right[z] \in m
  PROVE  TreeMinimum(t, t.right[z]) = Null \/ Succeeds(m, t, lo, hi, z, TreeMinimum(t, t.right[z]))
<1> DEFINE P == {q \in m : lo[q] = z}
           body == [q \in Pointers |-> IF t.left[q] = Sentinel THEN q ELSE t.left[q]]
<1>1. Sentinel \notin m /\ m \subseteq Pointers
  BY Members
<1>2. \A q \in m : /\ ChildOn(t.left[q], q, lo[q], q, t.parent, m, lo, hi)
                   /\ ChildOn(t.right[q], q, q, hi[q], t.parent, m, lo, hi)
  BY DEF Layout, Linked
<1>3. t.right[z] \in P
  BY <1>1, <1>2 DEF ChildOn
<1>4. ASSUME NEW q \in P PROVE body[q] \in P
  <2>1. body[q] = IF t.left[q] = Sentinel THEN q ELSE t.left[q]
    BY <1>1
  <2>2. t.left[q] = Sentinel \/ (t.left[q] \in m /\ lo[t.left[q]] = lo[q])
    BY <1>2 DEF ChildOn
  <2> QED BY <2>1, <2>2
<1>5. PICK y : y = Iterated(body, t.right[z], LoopBound)
  OBVIOUS
<1>6. y \in P
  <2>1. LoopBound \in Nat
    BY Basics DEF LoopBound
  <2> HIDE DEF P, body
  <2> QED BY <1>3, <1>4, <1>5, <2>1, IteratedStays
<1>7. TreeMinimum(t, t.right[z]) = IF t.left[y] = Sentinel THEN y ELSE Null
  BY <1>5 DEF TreeMinimum
<1> QED BY <1>6, <1>7 DEF Succeeds

(* Where the successor y of z is.                                          *)
LEMMA Successor ==
  ASSUME NEW m \in SUBSET Nodes, NEW root, NEW l, NEW r, NEW pa, NEW lo, NEW hi,
         Layout(m, root, l, r, pa, lo, hi), NEW z \in m, l[z] \in m, r[z] \in m,
         NEW y \in m, lo[y] = z, l[y] = Sentinel
  PROVE  /\ y # z /\ r[y] \in m \cup {Sentinel} /\ r[y] # z /\ r[y] # y /\ l[z] # y /\ l[z] # r[y]
         /\ pa[z] # y /\ pa[z] # z /\ pa[z] \in m \cup {Sentinel} /\ l[z] # r[z]
         /\ pa[y] \in m /\ pa[y] # y
         /\ y # r[z] => l[pa[y]] = y /\ pa[y] # z /\ r[y] # r[z]
<1>1. /\ Intervals(m, lo, hi) /\ Linked(root, l, r, pa, m, lo, hi)
      /\ lo \in [Nodes -> Pointers] /\ hi \in [Nodes -> Pointers]
  BY DEF Layout
<1>2. /\ \A q \in m : q \in Nat /\ q # Sentinel /\ q # Null /\ q \in Nodes /\ q > 0
      /\ \A q \in m : lo[q] \in Nat /\ hi[q] \in Nat
  BY <1>1, MembersAreNumbers, Basics
<1>3. \A q \in m : lo[q] < q /\ q < hi[q]
  BY <1>1 DEF Intervals
<1>4. \A q \in m : /\ l[q] = Sentinel \/ (l[q] \in m /\ pa[l[q]] = q /\ lo[l[q]] = lo[q] /\ hi[l[q]] = q)
                   /\ r[q] = Sentinel \/ (r[q] \in m /\ pa[r[q]] = q /\ lo[r[q]] = q /\ hi[r[q]] = hi[q])
  BY <1>1 DEF Linked, ChildOn
<1>5. \A q \in m : q # root => pa[q] \in m /\ q \in {l[pa[q]], r[pa[q]]}
  BY <1>1 DEF Linked
<1>6. root \in m /\ lo[root] = 0 /\ pa[root] = Sentinel
  <2>1. ChildOn(root, Sentinel, 0, N + 1, pa, m, lo, hi)
    BY <1>1 DEF Linked
  <2>2. z < N + 1 /\ 0 < z
    BY <1>2, Basics
  <2> QED BY <2>1, <2>2 DEF ChildOn
<1>7. y # root
  BY <1>2, <1>6
<1>8. y # z /\ z < y
  BY <1>2, <1>3
<1>9. pa[y] \in m /\ y \in {l[pa[y]], r[pa[y]]}
  BY <1>5, <1>7
<1>10. Sentinel \notin m
  BY <1>2
<1>11. r[y] \in m => y < r[y]
  BY <1>2, <1>3, <1>4, <1>10
<1>12. l[z] < z
  BY <1>2, <1>3, <1>4, <1>10
<1>13. z < r[z]
  BY <1>2, <1>3, <1>4, <1>10
<1>14. r[y] \in m \cup {Sentinel} /\ r[y] # z /\ r[y] # y /\ l[z] # y /\ l[z] # r[y] /\ l[z] # r[z]
  BY <1>2, <1>4, <1>8, <1>10, <1>11, <1>12, <1>13
<1>15. pa[z] # z /\ pa[z] # y /\ pa[z] \in m \cup {Sentinel}
  <2>1. CASE z = root
    BY <1>6, <1>10, <2>1
  <2>2. CASE z # root
    <3>1. pa[z] \in m /\ z \in {l[pa[z]], r[pa[z]]}
      BY <1>5, <2>2
    <3>2. pa[z] # y
      BY <1>10, <1>14, <3>1
    <3>3. pa[z] # z
      BY <1>12, <1>13, <1>2, <3>1
    <3> QED BY <3>1, <3>2, <3>3
  <2> QED BY <2>1, <2>2
<1>16. pa[y] # y
  BY <1>9, <1>10, <1>14
<1>17. ASSUME y # r[z] PROVE l[pa[y]] = y /\ pa[y] # z /\ r[y] # r[z]
  <2>1. pa[y] # z
    BY <1>9, <1>14, <1>17
  <2>2. y # r[pa[y]]
    BY <1>4, <1>9, <1>10, <2>1
  <2>3. r[y] # r[z]
    BY <1>4, <1>8, <1>10
  <2> QED BY <1>9, <2>1, <2>2, <2>3
<1> QED BY <1>8, <1>9, <1>14, <1>15, <1>16, <1>17

(* What freeing y makes of the links, and what placing it in z's stead.    *)
FreedLinks(l, r, pa, l1, r1, pa1, y, x, b, py) ==
  /\ l1 = [l EXCEPT ![py] = x] /\ r1 = [r EXCEPT ![y] = b]
  /\ pa1 = [[pa EXCEPT ![x] = py] EXCEPT ![b] = y]

PlacedLinks(l1, r1, pa1, l2, r2, pa2, z, y, a, p) ==
  /\ l2 = [IF p # Sentinel /\ z = l1[p] THEN [l1 EXCEPT ![p] = y] ELSE l1 EXCEPT ![y] = a]
  /\ r2 = IF p # Sentinel /\ z # l1[p] THEN [r1 EXCEPT ![p] = y] ELSE r1
  /\ pa2 = [[pa1 EXCEPT ![y] = p] EXCEPT ![a] = y]

(* t1 is t with y freed, where it was not z's child.                       *)
Freed(t, t1, z, y, x) ==
  /\ t1 \in Trees /\ SameColours(t, t1) /\ t1.root = t.root
  /\ y = t.right[z] => t1.left = t.left /\ t1.right = t.right /\ t1.parent = [t.parent EXCEPT ![x] = y]
  /\ y # t.right[z] => FreedLinks(t.left, t.right, t.parent, t1.left, t1.right, t1.parent,
                                  y, x, t.right[z], t.parent[y])

(* t4 is t1 with y in the place of z, whose left child is a and parent p.  *)
Placed(t1, t4, z, y, a, p) ==
  /\ t4 \in Trees /\ t4.fate = t1.fate /\ t4.red = [t1.red EXCEPT ![y] = t1.red[z]]
  /\ t4.root = IF p = Sentinel THEN y ELSE t1.root
  /\ PlacedLinks(t1.left, t1.right, t1.parent, t4.left, t4.right, t4.parent, z, y, a, p)

(* The successor y of z, not z's child, is cut out and takes z's right     *)
(* child b.                                                                *)
LEMMA SuccessorFreed ==
  ASSUME NEW t \in Trees, NEW y \in Pointers, NEW x \in Pointers, NEW z \in Pointers,
         NEW b \in Pointers, NEW py \in Pointers, t.right[z] = b, t.parent[y] = py, t.left[py] = y,
         y # z, y # b, y # Null, x # Null, b # Null, py # Null, py # Sentinel
  PROVE  Freed(t, FreeSuccessor(t, z, y, x), z, y, x)
<1>0. PICK u, v, w : /\ u = RBTransplant(t, y, x) /\ v = SetRight(u, y, u.right[z])
                     /\ w = SetParent(v, v.right[y], y)
  OBVIOUS
<1>1. Moved(t, u, y, x)
  BY <1>0, Transplanted
<1>2. /\ u \in Trees /\ SameColours(t, u) /\ u.root = t.root
      /\ u.left = [t.left EXCEPT ![py] = x] /\ u.right = t.right
      /\ u.parent = [t.parent EXCEPT ![x] = py]
  BY <1>1 DEF Moved
<1>3. v = SetRight(u, y, b)
  BY <1>0, <1>2
<1>4. /\ v \in Trees /\ SameColours(u, v) /\ v.root = u.root
      /\ v.left = u.left /\ v.parent = u.parent /\ v.right = [u.right EXCEPT ![y] = b]
  BY <1>2, <1>3, RightSet
<1>5. v.right[y] = b
  <2>1. u.right \in [Pointers -> Pointers]
    BY <1>2 DEF Trees
  <2> QED BY <1>4, <2>1
<1>6. w = SetParent(v, b, y)
  BY <1>0, <1>5
<1>7. /\ w \in Trees /\ SameColours(v, w) /\ w.root = v.root
      /\ w.left = v.left /\ w.right = v.right /\ w.parent = [v.parent EXCEPT ![b] = y]
  BY <1>4, <1>6, ParentSet
<1>8. SameColours(t, w)
  BY <1>2, <1>4, <1>7 DEF SameColours
<1>9. FreedLinks(t.left, t.right, t.parent, w.left, w.right, w.parent, y, x, b, py)
  BY <1>2, <1>4, <1>7 DEF FreedLinks
<1>10. w = FreeSuccessor(t, z, y, x)
  BY <1>0 DEF FreeSuccessor
<1> QED BY <1>2, <1>4, <1>7, <1>8, <1>9, <1>10 DEF Freed

(* y, cut out above or z's right child, takes z's place, its left child a  *)
(* and its colour.                                                         *)
LEMMA SuccessorPlaced ==
  ASSUME NEW t \in Trees, NEW y \in Pointers, NEW z \in Pointers, NEW a \in Pointers, NEW p \in Pointers,
         t.left[z] = a, t.parent[z] = p, p # z, y # z, y # Null, z # Null, a # Null, p # Null
  PROVE  Placed(t, PlaceSuccessor(t, z, y), z, y, a, p)
<1>0. PICK t2, t3, s, c, t4 : /\ t2 = RBTransplant(t, z, y) /\ t3 = SetLeft(t2, y, t2.left[z])
                              /\ s = SetParent(t3, t3.left[y], y) /\ c = t3.red[z] /\ t4 = SetRed(s, y, c)
  OBVIOUS
<1>1. Moved(t, t2, z, y)
  BY <1>0, Transplanted
<1>2. /\ t2 \in Trees /\ SameColours(t, t2) /\ t2.parent = [t.parent EXCEPT ![y] = p]
      /\ t2.root = IF p = Sentinel THEN y ELSE t.root
      /\ t2.left = IF p # Sentinel /\ z = t.left[p] THEN [t.left EXCEPT ![p] = y] ELSE t.left
      /\ t2.right = IF p # Sentinel /\ z # t.left[p] THEN [t.right EXCEPT ![p] = y] ELSE t.right
  BY <1>1 DEF Moved
<1>3. t2.left[z] = a
  <2>1. t.left \in [Pointers -> Pointers]
    BY DEF Trees
  <2> QED BY <1>2, <2>1
<1>4. t3 = SetLeft(t2, y, a)
  BY <1>0, <1>3
<1>5. /\ t3 \in Trees /\ SameColours(t2, t3) /\ t3.root = t2.root /\ t3.right = t2.right
      /\ t3.parent = t2.parent /\ t3.left = [t2.left EXCEPT ![y] = a]
  BY <1>2, <1>4, LeftSet
<1>6. t3.left[y] = a
  <2>1. t2.left \in [Pointers -> Pointers]
    BY <1>2 DEF Trees
  <2> QED BY <1>5, <2>1
<1>7. s = SetParent(t3, a, y)
  BY <1>0, <1>6
<1>8. /\ s \in Trees /\ SameColours(t3, s) /\ s.root = t3.root /\ s.left = t3.left /\ s.right = t3.right
      /\ s.parent = [t3.parent EXCEPT ![a] = y]
  BY <1>5, <1>7, ParentSet
<1>9. t3.red = t.red /\ s.red = t.red /\ s.fate = t.fate
  BY <1>2, <1>5, <1>8 DEF SameColours
<1>10. c = t.red[z] /\ c \in BOOLEAN
  BY <1>0, <1>9 DEF Trees
<1>11. /\ t4 \in Trees /\ t4.fate = s.fate /\ t4.red = [s.red EXCEPT ![y] = c]
       /\ t4.root = s.root /\ t4.left = s.left /\ t4.right = s.right /\ t4.parent = s.parent
  <2>1. t4 = SetRed(s, y, c)
    BY <1>0
  <2> QED BY <1>8, <1>10, <2>1, RedSet
<1>12. t4.left = [t2.left EXCEPT ![y] = a] /\ t4.right = t2.right /\ t4.root = t2.root
       /\ t4.parent = [t2.parent EXCEPT ![a] = y]
  BY <1>5, <1>8, <1>11
<1>13. t4.red = [t.red EXCEPT ![y] = t.red[z]] /\ t4.fate = t.fate
  BY <1>9, <1>10, <1>11
<1>14. PlacedLinks(t.left, t.right, t.parent, t4.left, t4.right, t4.parent, z, y, a, p)
  BY <1>2, <1>12 DEF PlacedLinks
<1>15. t4 = PlaceSuccessor(t, z, y)
  BY <1>0 DEF PlaceSuccessor
<1>16. t4.root = IF p = Sentinel THEN y ELSE t.root
  BY <1>2, <1>12
<1> QED BY <1>11, <1>13, <1>14, <1>15, <1>16 DEF Placed

(* The links with y in the place of z: before, they were l, r and pa, x    *)
(* was y's right child, py its parent, a, b and p were z's children and    *)
(* parent.                                                                 *)
ChildMoved(m, l, r, pa, l2, r2, pa2, z, y, x, a, p) ==
  /\ \A q \in m : l2[q] = IF q = y THEN a ELSE IF q = p /\ l[q] = z THEN y ELSE l[q]
  /\ \A q \in m : r2[q] = IF q = p /\ l[q] # z THEN y ELSE r[q]
  /\ \A q \in Pointers : pa2[q] = IF q = y THEN p ELSE IF q = a THEN y ELSE IF q = x THEN y ELSE pa[q]

DescendantMoved(m, l, r, pa, l2, r2, pa2, z, y, x, a, p, b, py) ==
  /\ \A q \in m : l2[q] = IF q = y THEN a ELSE IF q = p /\ l[q] = z THEN y ELSE IF q = py THEN x ELSE l[q]
  /\ \A q \in m : r2[q] = IF q = y THEN b ELSE IF q = p /\ l[q] # z THEN y ELSE r[q]
  /\ \A q \in Pointers : pa2[q] = IF q = y THEN p ELSE IF q = a THEN y
                                  ELSE IF q = x THEN py ELSE IF q = b THEN y ELSE pa[q]

(* y was z's child.                                                        *)
LEMMA ChildLinks ==
  ASSUME NEW m \in SUBSET Pointers, NEW l \in [Pointers -> Pointers],
         NEW r \in [Pointers -> Pointers], NEW pa \in [Pointers -> Pointers],
         NEW z \in Pointers, NEW y \in Pointers, NEW x \in Pointers, NEW a \in Pointers, NEW p \in Pointers,
         y # z, x # y, a # y, a # x, p # y, p # z, Sentinel \notin m,
         NEW pa1, pa1 = [pa EXCEPT ![x] = y],
         NEW l2, NEW r2, NEW pa2, PlacedLinks(l, r, pa1, l2, r2, pa2, z, y, a, p)
  PROVE  ChildMoved(m, l, r, pa, l2, r2, pa2, z, y, x, a, p)
<1> USE DEF PlacedLinks
<1>1. pa1 \in [Pointers -> Pointers]
  OBVIOUS
<1>2. \A q \in m : l2[q] = IF q = y THEN a ELSE IF q = p /\ l[q] = z THEN y ELSE l[q]
  OBVIOUS
<1>3. \A q \in m : r2[q] = IF q = p /\ l[q] # z THEN y ELSE r[q]
  OBVIOUS
<1>4. ASSUME NEW q \in Pointers
      PROVE  pa2[q] = IF q = y THEN p ELSE IF q = a THEN y ELSE IF q = x THEN y ELSE pa[q]
  <2>1. pa1[q] = IF q = x THEN y ELSE pa[q]
    OBVIOUS
  <2> QED BY <1>1, <2>1
<1> QED BY <1>2, <1>3, <1>4 DEF ChildMoved

(* And where y was further down, the left child of py, and b was z's.      *)
LEMMA DescendantLinks ==
  ASSUME NEW m \in SUBSET Pointers, NEW l \in [Pointers -> Pointers],
         NEW r \in [Pointers -> Pointers], NEW pa \in [Pointers -> Pointers],
         NEW z \in Pointers, NEW y \in Pointers, NEW x \in Pointers, NEW a \in Pointers, NEW p \in Pointers,
         NEW b \in Pointers, NEW py \in Pointers, Sentinel \notin m,
         y # z, x # y, x # z, a # y, a # x, p # y, p # z, a # b, py # y, l[py] = y, x # b,
         NEW l1, NEW r1, NEW pa1, FreedLinks(l, r, pa, l1, r1, pa1, y, x, b, py),
         NEW l2, NEW r2, NEW pa2, PlacedLinks(l1, r1, pa1, l2, r2, pa2, z, y, a, p)
  PROVE  DescendantMoved(m, l, r, pa, l2, r2, pa2, z, y, x, a, p, b, py)
<1> USE DEF FreedLinks, PlacedLinks
<1>1. l1 \in [Pointers -> Pointers] /\ r1 \in [Pointers -> Pointers] /\ pa1 \in [Pointers -> Pointers]
  OBVIOUS
<1>2. z = l1[p] <=> z = l[p]
  OBVIOUS
<1>3. ASSUME NEW q \in m
      PROVE  l2[q] = IF q = y THEN a ELSE IF q = p /\ l[q] = z THEN y ELSE IF q = py THEN x ELSE l[q]
  <2>1. l1[q] = IF q = py THEN x ELSE l[q]
    OBVIOUS
  <2>2. l2[q] = IF q = y THEN a ELSE IF q = p /\ z = l1[p] THEN y ELSE l1[q]
    BY <1>1
  <2> QED BY <1>2, <2>1, <2>2
<1>4. ASSUME NEW q \in m
      PROVE  r2[q] = IF q = y THEN b ELSE IF q = p /\ l[q] # z THEN y ELSE r[q]
  <2>1. r1[q] = IF q = y THEN b ELSE r[q]
    OBVIOUS
  <2>2. r2[q] = IF q = p /\ z # l1[p] THEN y ELSE r1[q]
    BY <1>1
  <2> QED BY <1>2, <2>1, <2>2
<1>5. ASSUME NEW q \in Pointers
      PROVE  pa2[q] = IF q = y THEN p ELSE IF q = a THEN y ELSE IF q = x THEN py ELSE IF q = b THEN y ELSE pa[q]
  <2>1. pa1[q] = IF q = b THEN y ELSE IF q = x THEN py ELSE pa[q]
    OBVIOUS
  <2>2. pa2[q] = IF q = a THEN y ELSE IF q = y THEN p ELSE pa1[q]
    BY <1>1
  <2> QED BY <2>1, <2>2
<1> QED BY <1>3, <1>4, <1>5 DEF DescendantMoved

(* The two together are what CutsInner says.                               *)
LEMMA InnerCut ==
  ASSUME NEW m \in SUBSET Pointers, NEW root, NEW l, NEW r, NEW pa, NEW lo, NEW z, NEW y,
         NEW x, NEW a, NEW p, NEW b, NEW py, x = r[y], a = l[z], p = pa[z], b = r[z], py = pa[y],
         l[z] \in m, r[z] \in m, lo[y] = z, l[y] = Sentinel, p # y,
         NEW root2, root2 = IF p = Sentinel THEN y ELSE root,
         NEW l2 \in [Pointers -> Pointers], NEW r2 \in [Pointers -> Pointers],
         NEW pa2 \in [Pointers -> Pointers],
         y = b => ChildMoved(m, l, r, pa, l2, r2, pa2, z, y, x, a, p),
         y # b => DescendantMoved(m, l, r, pa, l2, r2, pa2, z, y, x, a, p, b, py)
  PROVE  CutsInner(m, root, l, r, pa, lo, z, y, x, root2, l2, r2, pa2)
<1> USE DEF ChildMoved, DescendantMoved
<1>1. ASSUME NEW q \in m
      PROVE  l2[q] = IF q = y THEN a ELSE IF q = p /\ l[q] = z THEN y ELSE IF q = py /\ y # b THEN x ELSE l[q]
  BY SMTT(30)
<1>2. ASSUME NEW q \in m
      PROVE  r2[q] = IF q = y THEN (IF y = b THEN x ELSE b) ELSE IF q = p /\ l[q] # z THEN y ELSE r[q]
  BY SMTT(30)
<1>3. ASSUME NEW q \in m
      PROVE  pa2[q] = IF q = y THEN p ELSE IF q = a THEN y ELSE IF q = x THEN (IF y = b THEN y ELSE py)
                      ELSE IF q = b THEN y ELSE pa[q]
  BY SMTT(30)
<1> QED BY <1>1, <1>2, <1>3 DEF CutsInner

(* Which nodes the deletion of z deals with.                               *)
LEMMA Dealt ==
  ASSUME NEW m \in SUBSET Nodes, NEW t, NEW lo, NEW hi, NEW z, NEW y, Succeeds(m, t, lo, hi, z, y)
  PROVE  /\ y # z /\ t.right[y] \in m \cup {Sentinel} /\ t.right[y] # z /\ t.right[y] # y /\ t.left[z] # y /\ t.left[z] # t.right[y]
         /\ t.parent[z] # y /\ t.parent[z] # z /\ t.parent[z] \in m \cup {Sentinel} /\ t.left[z] # t.right[z] /\ t.left[z] \in m /\ t.right[z] \in m
         /\ t.parent[y] \in m /\ t.parent[y] # y
         /\ y # t.right[z] => t.left[t.parent[y]] = y /\ t.parent[y] # z /\ t.right[y] # t.right[z]
         /\ z \in Pointers /\ y \in Pointers /\ t.right[y] \in Pointers /\ t.left[z] \in Pointers /\ t.right[z] \in Pointers
         /\ t.parent[z] \in Pointers /\ t.parent[y] \in Pointers
         /\ z # Null /\ y # Null /\ t.right[y] # Null /\ t.left[z] # Null /\ t.right[z] # Null /\ t.parent[z] # Null /\ t.parent[y] # Null
         /\ z # Sentinel /\ y # Sentinel /\ t.left[z] # Sentinel /\ t.right[z] # Sentinel /\ t.parent[y] # Sentinel
<1>1. /\ y # z /\ t.right[y] \in m \cup {Sentinel} /\ t.right[y] # z /\ t.right[y] # y
      /\ t.left[z] # y /\ t.left[z] # t.right[y]
      /\ t.parent[z] # y /\ t.parent[z] # z /\ t.parent[z] \in m \cup {Sentinel} /\ t.left[z] # t.right[z]
      /\ t.parent[y] \in m /\ t.parent[y] # y
      /\ y # t.right[z] => t.left[t.parent[y]] = y /\ t.parent[y] # z /\ t.right[y] # t.right[z]
  BY SMTT(40), Successor DEF Succeeds
<1>2. /\ Sentinel \notin m /\ Null \notin m /\ m \subseteq Pointers
      /\ Sentinel \in Pointers /\ Null \in Pointers /\ Sentinel # Null
  BY Members
<1> QED BY <1>1, <1>2 DEF Succeeds

(* Where y's right child goes.                                             *)
HangsBelow(t, u, z, y, x) == u.parent[x] = IF y = t.right[z] THEN y ELSE t.parent[y]

(* What comes of it has the links of CutsInner.                            *)
LEMMA DealtLinks ==
  ASSUME NEW m \in SUBSET Nodes, NEW t, Good(t, m), NEW lo, NEW hi, NEW z, NEW y,
         Succeeds(m, t, lo, hi, z, y), NEW x, x = t.right[y],
         NEW t1, Freed(t, t1, z, y, x), NEW t4, Placed(t1, t4, z, y, t.left[z], t.parent[z])
  PROVE  /\ CutsInner(m, t.root, t.left, t.right, t.parent, lo, z, y, x, t4.root, t4.left, t4.right, t4.parent)
         /\ Ends(t4)
         /\ Reaches(t4, Without(m, z), x)
         /\ HangsBelow(t, t4, z, y, x)
<1>0. PICK a, p, b, py : a = t.left[z] /\ p = t.parent[z] /\ b = t.right[z] /\ py = t.parent[y]
  OBVIOUS
<1>1. /\ y # z /\ x \in m \cup {Sentinel} /\ x # z /\ x # y /\ a # y /\ a # x
      /\ p # y /\ p # z /\ p \in m \cup {Sentinel} /\ a # b /\ a \in m /\ b \in m
      /\ py \in m /\ py # y
      /\ y # b => t.left[py] = y /\ py # z /\ x # b
      /\ z \in Pointers /\ y \in Pointers /\ x \in Pointers /\ a \in Pointers /\ b \in Pointers
      /\ p \in Pointers /\ py \in Pointers
      /\ z # Null /\ y # Null /\ x # Null /\ a # Null /\ b # Null /\ p # Null /\ py # Null
      /\ z # Sentinel /\ y # Sentinel /\ a # Sentinel /\ b # Sentinel /\ py # Sentinel
  <2>1. /\ y # z /\ t.right[y] \in m \cup {Sentinel} /\ t.right[y] # z /\ t.right[y] # y /\ t.left[z] # y /\ t.left[z] # t.right[y]
        /\ t.parent[z] # y /\ t.parent[z] # z /\ t.parent[z] \in m \cup {Sentinel} /\ t.left[z] # t.right[z] /\ t.left[z] \in m /\ t.right[z] \in m
        /\ t.parent[y] \in m /\ t.parent[y] # y
        /\ y # t.right[z] => t.left[t.parent[y]] = y /\ t.parent[y] # z /\ t.right[y] # t.right[z]
        /\ z \in Pointers /\ y \in Pointers /\ t.right[y] \in Pointers /\ t.left[z] \in Pointers /\ t.right[z] \in Pointers
        /\ t.parent[z] \in Pointers /\ t.parent[y] \in Pointers
        /\ z # Null /\ y # Null /\ t.right[y] # Null /\ t.left[z] # Null /\ t.right[z] # Null /\ t.parent[z] # Null /\ t.parent[y] # Null
        /\ z # Sentinel /\ y # Sentinel /\ t.left[z] # Sentinel /\ t.right[z] # Sentinel /\ t.parent[y] # Sentinel
    BY Dealt
  <2> QED BY <1>0, <2>1
<1>2. PICK l, r, pa : l = t.left /\ r = t.right /\ pa = t.parent
  OBVIOUS
<1>3. /\ l \in [Pointers -> Pointers] /\ r \in [Pointers -> Pointers] /\ pa \in [Pointers -> Pointers]
      /\ m \subseteq Pointers /\ Sentinel \notin m /\ Sentinel \in Pointers /\ Null \in Pointers
      /\ l[Sentinel] = Null /\ r[Sentinel] = Null /\ l[Null] = Null /\ r[Null] = Null /\ pa[Null] = Null
      /\ Sentinel # Null /\ Null \notin m
  <2>1. t \in Trees /\ Ends(t)
    BY DEF Good, Sound
  <2> QED BY <1>2, <2>1, Members DEF Trees, Ends
<1>4. PICK l2, r2, pa2 : l2 = t4.left /\ r2 = t4.right /\ pa2 = t4.parent
  OBVIOUS
<1>5. l2 \in [Pointers -> Pointers] /\ r2 \in [Pointers -> Pointers] /\ pa2 \in [Pointers -> Pointers]
  BY <1>4 DEF Placed, Trees
<1>6. PICK l1, r1, pa1 : l1 = t1.left /\ r1 = t1.right /\ pa1 = t1.parent
  OBVIOUS
<1>7. PlacedLinks(l1, r1, pa1, l2, r2, pa2, z, y, a, p)
  BY <1>0, <1>4, <1>6 DEF Placed
<1>8. y = b => l1 = l /\ r1 = r /\ pa1 = [pa EXCEPT ![x] = y]
  BY <1>0, <1>2, <1>6 DEF Freed
<1>9. y # b => FreedLinks(l, r, pa, l1, r1, pa1, y, x, b, py)
  BY <1>0, <1>2, <1>6 DEF Freed
<1>10. t4.root = IF p = Sentinel THEN y ELSE t.root
  BY <1>0 DEF Placed, Freed
<1>11. ASSUME y = b PROVE ChildMoved(m, l, r, pa, l2, r2, pa2, z, y, x, a, p)
  <2>1. PlacedLinks(l, r, pa1, l2, r2, pa2, z, y, a, p) /\ pa1 = [pa EXCEPT ![x] = y]
    BY <1>7, <1>8, <1>11
  <2> QED BY <1>1, <1>3, <2>1, ChildLinks
<1>12. ASSUME y # b PROVE DescendantMoved(m, l, r, pa, l2, r2, pa2, z, y, x, a, p, b, py)
  <2>1. FreedLinks(l, r, pa, l1, r1, pa1, y, x, b, py)
    BY <1>9, <1>12
  <2>2. l[py] = y /\ x # b /\ x \in Pointers
    BY <1>1, <1>2, <1>12
  <2> QED BY <1>1, <1>3, <1>7, <2>1, <2>2, DescendantLinks
<1>13. CutsInner(m, t.root, l, r, pa, lo, z, y, x, t4.root, l2, r2, pa2)
  <2>1. /\ x = r[y] /\ a = l[z] /\ p = pa[z] /\ b = r[z] /\ py = pa[y]
        /\ l[z] \in m /\ r[z] \in m /\ l[y] = Sentinel /\ lo[y] = z
    BY <1>0, <1>1, <1>2 DEF Succeeds
  <2> QED BY <1>1, <1>3, <1>5, <1>10, <1>11, <1>12, <2>1, InnerCut
<1>14. CutsInner(m, t.root, t.left, t.right, t.parent, lo, z, y, x, t4.root, t4.left, t4.right, t4.parent)
  BY <1>2, <1>4, <1>13
<1>15. l1[Sentinel] = Null /\ l1[Null] = Null /\ r1[Sentinel] = Null /\ r1[Null] = Null
  BY <1>1, <1>3, <1>8, <1>9 DEF FreedLinks
<1>16. l1 \in [Pointers -> Pointers] /\ r1 \in [Pointers -> Pointers]
  BY <1>6 DEF Freed, Trees
<1>17. l2[Sentinel] = Null /\ l2[Null] = Null /\ r2[Sentinel] = Null /\ r2[Null] = Null
  BY <1>1, <1>3, <1>7, <1>15, <1>16 DEF PlacedLinks
<1>18. pa2[Null] = Null
  BY <1>1, <1>3, <1>11, <1>12 DEF ChildMoved, DescendantMoved
<1>19. Ends(t4)
  BY <1>4, <1>17, <1>18 DEF Ends
<1>20. pa2[x] = IF y = b THEN y ELSE py
  BY <1>1, <1>3, <1>11, <1>12 DEF ChildMoved, DescendantMoved
<1>21. pa2[x] \in m \ {z}
  <2>1. y \in m
    BY DEF Succeeds
  <2> QED BY <1>1, <1>20, <2>1
<1>22. Reaches(t4, Without(m, z), x)
  BY <1>1, <1>4, <1>21 DEF Reaches, Without
<1>23. HangsBelow(t, t4, z, y, x)
  BY <1>0, <1>4, <1>20 DEF HangsBelow
<1> QED BY <1>14, <1>19, <1>22, <1>23

(* An item with two children: its successor y takes its place.             *)
LEMMA SuccessorTakesOver ==
  ASSUME NEW m \in SUBSET Nodes, NEW t, Good(t, m), NEW lo, NEW hi, NEW z, NEW y,
         Succeeds(m, t, lo, hi, z, y), NEW x, x = t.right[y],
         NEW t1, Freed(t, t1, z, y, x), NEW t4, Placed(t1, t4, z, y, t.left[z], t.parent[z])
  PROVE  Good(t4, m \ {z}) /\ Reaches(t4, m \ {z}, x) /\ x \in Pointers
<1>1. /\ CutsInner(m, t.root, t.left, t.right, t.parent, lo, z, y, x, t4.root, t4.left, t4.right, t4.parent)
      /\ Ends(t4)
      /\ Reaches(t4, Without(m, z), x)
  <2>1. CutsInner(m, t.root, t.left, t.right, t.parent, lo, z, y, x, t4.root, t4.left, t4.right, t4.parent)
    BY DealtLinks
  <2>2. Ends(t4)
    BY DealtLinks
  <2>3. Reaches(t4, Without(m, z), x)
    BY DealtLinks
  <2> QED BY <2>1, <2>2, <2>3
<1>2. /\ y # z /\ t.right[y] \in m \cup {Sentinel} /\ t.right[y] # z /\ t.right[y] \in Pointers
      /\ y # Null /\ y # Sentinel /\ y \in Pointers /\ z \in Pointers
      /\ t.parent[y] \in m /\ (y # t.right[z] => t.parent[y] # z)
  BY Dealt
<1>3. \E lo2, hi2 : Layout(Without(m, z), t4.root, t4.left, t4.right, t4.parent, lo2, hi2)
  <2>1. Layout(m, t.root, t.left, t.right, t.parent, lo, hi) /\ z \in m /\ y \in m
    BY DEF Succeeds
  <2> QED BY <1>1, <2>1, CutInner
<1>4. Shape(t4, m \ {z})
  <2>1. Shape(t4, Without(m, z))
    BY <1>3 DEF Shape
  <2> QED BY <2>1 DEF Without
<1>5. t4 \in Trees /\ ~Broken(t4) /\ ~t4.red[Sentinel] /\ ~t4.red[Null]
  <2>1. /\ t4.fate = t.fate /\ t4 \in Trees /\ t4.red = [t.red EXCEPT ![y] = t.red[z]]
    BY DEF Freed, Placed, SameColours
  <2>2. /\ t.fate = "ok" /\ t.red \in [Pointers -> BOOLEAN] /\ ~t.red[Sentinel] /\ ~t.red[Null]
    BY DEF Good, Sound, Broken, Trees
  <2>3. Sentinel \in Pointers /\ Null \in Pointers
    BY Members
  <2>4. ~t4.red[Sentinel] /\ ~t4.red[Null]
    BY <1>2, <2>1, <2>2, <2>3
  <2> QED BY <2>1, <2>2, <2>4 DEF Broken
<1>6. Good(t4, m \ {z})
  BY <1>1, <1>4, <1>5 DEF Good, Sound
<1>7. Reaches(t4, m \ {z}, x)
  BY <1>1 DEF Without
<1> QED BY <1>2, <1>6, <1>7

LEMMA SuccessorIsFreed ==
  ASSUME NEW m \in SUBSET Nodes, NEW t, Good(t, m), NEW lo, NEW hi, NEW z, NEW y,
         Succeeds(m, t, lo, hi, z, y)
  PROVE  Freed(t, FreeSuccessor(t, z, y, t.right[y]), z, y, t.right[y])
<1>1. PICK x, py, b : x = t.right[y] /\ py = t.parent[y] /\ b = t.right[z]
  OBVIOUS
<1>2. PICK w : w = FreeSuccessor(t, z, y, x)
  OBVIOUS
<1>3. /\ y # z /\ x # Null /\ y # Null /\ b # Null /\ py # Null /\ py # Sentinel /\ x # y
      /\ y \in Pointers /\ x \in Pointers /\ z \in Pointers /\ b \in Pointers /\ py \in Pointers
      /\ (y # b => t.left[py] = y)
  <2>1. /\ y # z /\ t.right[y] # Null /\ y # Null /\ t.right[z] # Null /\ t.parent[y] # Null
        /\ t.parent[y] # Sentinel /\ t.right[y] # y
        /\ y \in Pointers /\ t.right[y] \in Pointers /\ z \in Pointers /\ t.right[z] \in Pointers
        /\ t.parent[y] \in Pointers /\ (y # t.right[z] => t.left[t.parent[y]] = y)
    BY Dealt
  <2> QED BY <1>1, <2>1
<1>4. t \in Trees
  BY DEF Good, Sound
<1>5. CASE y = b
  <2>1. w = SetParent(t, x, y)
    BY <1>1, <1>2, <1>5 DEF FreeSuccessor
  <2>2. /\ w \in Trees /\ SameColours(t, w) /\ w.root = t.root /\ w.left = t.left /\ w.right = t.right
        /\ w.parent = [t.parent EXCEPT ![x] = y]
    BY <1>3, <1>4, <2>1, ParentSet
  <2>3. Freed(t, w, z, y, x)
    BY <1>1, <1>5, <2>2 DEF Freed
  <2> QED BY <1>1, <1>2, <2>3
<1>6. CASE y # b
  <2>1. t.right[z] = b /\ t.parent[y] = py /\ t.left[py] = y
    BY <1>1, <1>3, <1>6
  <2>2. Freed(t, FreeSuccessor(t, z, y, x), z, y, x)
    BY <1>3, <1>4, <1>6, <2>1, SuccessorFreed
  <2> QED BY <1>1, <2>2
<1> QED BY <1>5, <1>6

LEMMA SuccessorIsPlaced ==
  ASSUME NEW m \in SUBSET Nodes, NEW t, Good(t, m), NEW lo, NEW hi, NEW z, NEW y,
         Succeeds(m, t, lo, hi, z, y), NEW t1, Freed(t, t1, z, y, t.right[y])
  PROVE  Placed(t1, PlaceSuccessor(t1, z, y), z, y, t.left[z], t.parent[z])
<1>1. PICK x, py, b, a, p :
        x = t.right[y] /\ py = t.parent[y] /\ b = t.right[z] /\ a = t.left[z] /\ p = t.parent[z]
  OBVIOUS
<1>2. /\ y # z /\ x # z /\ z # Null /\ y # Null /\ a # Null /\ p # Null /\ p # z
      /\ y \in Pointers /\ x \in Pointers /\ z \in Pointers /\ b \in Pointers /\ py \in Pointers
      /\ a \in Pointers /\ p \in Pointers /\ (y # b => py # z)
  <2>1. /\ y # z /\ t.right[y] # z /\ z # Null /\ y # Null /\ t.left[z] # Null /\ t.parent[z] # Null
        /\ t.parent[z] # z
        /\ y \in Pointers /\ t.right[y] \in Pointers /\ z \in Pointers /\ t.right[z] \in Pointers
        /\ t.parent[y] \in Pointers /\ t.left[z] \in Pointers /\ t.parent[z] \in Pointers
        /\ (y # t.right[z] => t.parent[y] # z)
    BY Dealt
  <2> QED BY <1>1, <2>1
<1>3. b # z
  <2>1. Layout(m, t.root, t.left, t.right, t.parent, lo, hi) /\ z \in m
    BY DEF Succeeds
  <2>2. Sound(t, m)
    BY DEF Good
  <2>3. t.right[z] # z
    BY <2>1, <2>2, ChildrenOf
  <2> QED BY <1>1, <2>3
<1>4. t \in Trees /\ t1 \in Trees
  BY DEF Good, Sound, Freed
<1>5. t.left \in [Pointers -> Pointers] /\ t.parent \in [Pointers -> Pointers]
  BY <1>4 DEF Trees
<1>6. t1.left[z] = a /\ t1.parent[z] = p
  <2>1. CASE y = b
    <3>1. t1.left = t.left /\ t1.parent = [t.parent EXCEPT ![x] = y]
      BY <1>1, <2>1 DEF Freed
    <3> QED BY <1>1, <1>2, <1>5, <3>1
  <2>2. CASE y # b
    <3>1. /\ t1.left = [t.left EXCEPT ![py] = x]
          /\ t1.parent = [[t.parent EXCEPT ![x] = py] EXCEPT ![b] = y]
      BY <1>1, <2>2 DEF Freed, FreedLinks
    <3> QED BY <1>1, <1>2, <1>3, <1>5, <2>2, <3>1
  <2> QED BY <2>1, <2>2
<1>7. Placed(t1, PlaceSuccessor(t1, z, y), z, y, a, p)
  BY <1>2, <1>4, <1>6, SuccessorPlaced
<1> QED BY <1>1, <1>7

(* If TreeMinimum ended nowhere, the tree is broken.                       *)
LEMMA NoSuccessor ==
  ASSUME NEW t \in Trees, NEW z \in Pointers, NEW x \in Pointers, t.right[z] # Null
  PROVE  /\ PlaceSuccessor(FreeSuccessor(t, z, Null, x), z, Null) \in Trees
         /\ Broken(PlaceSuccessor(FreeSuccessor(t, z, Null, x), z, Null))
<1>0. Null \in Pointers
  BY Basics
<1>1. PICK u : u = RBTransplant(t, Null, x)
  OBVIOUS
<1>2. PICK v : v = SetRight(u, Null, u.right[z])
  OBVIOUS
<1>3. PICK t1 : t1 = SetParent(v, v.right[Null], Null)
  OBVIOUS
<1>4. PICK t2 : t2 = RBTransplant(t1, z, Null)
  OBVIOUS
<1>5. PICK t3 : t3 = SetLeft(t2, Null, t2.left[z])
  OBVIOUS
<1>6. PICK s : s = SetParent(t3, t3.left[Null], Null)
  OBVIOUS
<1>7. u \in Trees
  BY <1>0, <1>1, Transplanted
<1>8. v \in Trees
  BY <1>0, <1>2, <1>7, RightSet, FieldTypes
<1>9. t1 \in Trees
  BY <1>0, <1>3, <1>8, ParentSet, FieldTypes
<1>10. t2 \in Trees /\ Broken(t2)
  BY <1>0, <1>4, <1>9, Transplanted
<1>11. t3 \in Trees /\ Broken(t3)
  <2>1. PICK q \in Pointers : q = t2.left[z]
    BY <1>10, FieldTypes
  <2>2. SetLeft(t2, Null, q) \in Trees /\ Broken(SetLeft(t2, Null, q))
    BY <1>0, <1>10, Writes
  <2> QED BY <1>5, <2>1, <2>2
<1>12. s \in Trees /\ Broken(s)
  <2>1. PICK q \in Pointers : q = t3.left[Null]
    BY <1>0, <1>11, FieldTypes
  <2>2. SetParent(t3, q, Null) \in Trees /\ Broken(SetParent(t3, q, Null))
    BY <1>0, <1>11, Writes
  <2> QED BY <1>6, <2>1, <2>2
<1>13. PICK c \in BOOLEAN : c = t3.red[z]
  BY <1>11 DEF Trees
<1>14. PICK t4 : t4 = SetRed(s, Null, c)
  OBVIOUS
<1>15. t4 \in Trees /\ Broken(t4)
  BY <1>0, <1>12, <1>14, RedSet
<1>16. FreeSuccessor(t, z, Null, x) = t1
  BY <1>1, <1>2, <1>3 DEF FreeSuccessor
<1>17. PlaceSuccessor(t1, z, Null) = t4
  BY <1>4, <1>5, <1>6, <1>13, <1>14 DEF PlaceSuccessor
<1> QED BY <1>15, <1>16, <1>17

LEMMA Deleted ==
  ASSUME NEW m \in SUBSET Nodes, NEW t, Good(t, m), NEW z \in m
  PROVE  /\ rb_tree_delete(t, z) \in Trees
         /\ Broken(rb_tree_delete(t, z)) \/ Good(rb_tree_delete(t, z), m \ {z})
<1> DEFINE k == m \ {z}
           Done(v) == v \in Trees /\ (Broken(v) \/ Good(v, k))
<1>0. /\ t \in Trees /\ ~Broken(t) /\ Sound(t, m) /\ k \in SUBSET Nodes
      /\ z \in Pointers /\ Sentinel \notin m /\ Null \notin m /\ m \subseteq Pointers
      /\ t.left[z] \in m \cup {Sentinel} /\ t.right[z] \in m \cup {Sentinel}
  BY Members, ChildrenOf DEF Good, Sound
<1>1. CASE t.left[z] = Sentinel
  <2>1. PICK u, c, b : u = RBTransplant(t, z, t.right[z]) /\ c = t.right[z] /\ b = t.red[z]
    OBVIOUS
  <2>2. u \in Trees /\ Good(u, k) /\ Reaches(u, k, c) /\ c \in Pointers
    BY <1>1, <2>1, CutOut
  <2>3. PICK v : v = IF b THEN u ELSE DeleteFixup(u, c)
    OBVIOUS
  <2>4. Done(v)
    BY <1>0, <2>2, <2>3, FixKeeps
  <2>5. rb_tree_delete(t, z) = v
    BY <1>0, <1>1, <2>1, <2>3 DEF rb_tree_delete
  <2> QED BY <2>4, <2>5
<1>2. CASE t.left[z] # Sentinel /\ t.right[z] = Sentinel
  <2>1. PICK u, c, b : u = RBTransplant(t, z, t.left[z]) /\ c = t.left[z] /\ b = t.red[z]
    OBVIOUS
  <2>2. u \in Trees /\ Good(u, k) /\ Reaches(u, k, c) /\ c \in Pointers
    BY <1>2, <2>1, CutOut
  <2>3. PICK v : v = IF b THEN u ELSE DeleteFixup(u, c)
    OBVIOUS
  <2>4. Done(v)
    BY <1>0, <2>2, <2>3, FixKeeps
  <2>5. rb_tree_delete(t, z) = v
    BY <1>0, <1>2, <2>1, <2>3 DEF rb_tree_delete
  <2> QED BY <2>4, <2>5
<1>3. CASE t.left[z] # Sentinel /\ t.right[z] # Sentinel
  <2>1. PICK y : y = TreeMinimum(t, t.right[z])
    OBVIOUS
  <2>2. PICK x, b, u : x = t.right[y] /\ b = t.red[y] /\ u = PlaceSuccessor(FreeSuccessor(t, z, y, x), z, y)
    OBVIOUS
  <2>3. PICK v : v = IF b THEN u ELSE DeleteFixup(u, x)
    OBVIOUS
  <2>4. rb_tree_delete(t, z) = v
    <3> DEFINE e == PlaceSuccessor(FreeSuccessor(t, z, TreeMinimum(t, t.right[z]),
                                                 t.right[TreeMinimum(t, t.right[z])]),
                                   z, TreeMinimum(t, t.right[z]))
    <3>1. rb_tree_delete(t, z) = IF t.red[TreeMinimum(t, t.right[z])] THEN e
                                 ELSE DeleteFixup(e, t.right[TreeMinimum(t, t.right[z])])
      BY <1>0, <1>3 DEF rb_tree_delete
    <3> QED BY <2>1, <2>2, <2>3, <3>1
  <2>5. PICK lo, hi : Layout(m, t.root, t.left, t.right, t.parent, lo, hi)
    BY <1>0 DEF Sound, Shape
  <2>6. t.left[z] \in m /\ t.right[z] \in m
    BY <1>0, <1>3
  <2>7. CASE y = Null
    <3>1. x \in Pointers /\ t.right[z] # Null
      BY <1>0, <2>2, <2>6, <2>7, FieldTypes, Basics
    <3>2. u \in Trees /\ Broken(u)
      BY <1>0, <2>2, <2>7, <3>1, NoSuccessor
    <3> QED BY <1>0, <2>3, <2>4, <3>1, <3>2, FixKeeps
  <2>8. CASE y # Null
    <3>1. TreeMinimum(t, t.right[z]) = Null \/ Succeeds(m, t, lo, hi, z, TreeMinimum(t, t.right[z]))
      BY <1>0, <2>5, <2>6, MinimumFound
    <3>2. Succeeds(m, t, lo, hi, z, y)
      BY <2>1, <2>8, <3>1
    <3>3. PICK t1 : t1 = FreeSuccessor(t, z, y, t.right[y])
      OBVIOUS
    <3>4. Freed(t, t1, z, y, t.right[y])
      BY <3>2, <3>3, SuccessorIsFreed
    <3>5. Placed(t1, PlaceSuccessor(t1, z, y), z, y, t.left[z], t.parent[z])
      BY <3>2, <3>4, SuccessorIsPlaced
    <3>6. u = PlaceSuccessor(t1, z, y)
      BY <2>2, <3>3
    <3>7. Placed(t1, u, z, y, t.left[z], t.parent[z]) /\ Freed(t, t1, z, y, x)
      BY <2>2, <3>4, <3>5, <3>6
    <3>8. Good(u, k) /\ Reaches(u, k, x) /\ x \in Pointers
      BY <2>2, <3>2, <3>7, SuccessorTakesOver
    <3>9. u \in Trees
      BY <3>7 DEF Placed
    <3> QED BY <1>0, <2>3, <2>4, <3>8, <3>9, FixKeeps
  <2> QED BY <2>7, <2>8
<1> QED BY <1>1, <1>2, <1>3

-----------------------------------------------------------------------------
(* What is below a node.                                                   *)

(* A loop whose runs take it from P[0] to P[1] and so on ends in P[n].     *)
LEMMA IteratedGoes ==
  ASSUME NEW body, NEW n \in Nat, NEW P, NEW x \in P[0],
         \A k \in 1 .. n : \A c \in P[k - 1] : body[c] \in P[k]
  PROVE  Iterated(body, x, n) \in P[n]
<1>1. PICK f : Unfolds(f, body, x, n) /\ Iterated(body, x, n) = f[n]
  BY IteratedUnfolds
<1> DEFINE Bad == {k \in 0 .. n : f[k] \notin P[k]}
<1>2. Bad = {}
  <2> SUFFICES ASSUME Bad # {} PROVE FALSE
    OBVIOUS
  <2>1. PICK k \in Bad : \A j \in Bad : k <= j
    <3>1. Bad \subseteq Nat
      OBVIOUS
    <3> HIDE DEF Bad
    <3> QED BY <3>1, Least
  <2>2. k # 0
    BY <1>1, <2>1 DEF Unfolds
  <2>3. k \in 1 .. n /\ k - 1 \in 0 .. n /\ k - 1 \notin Bad
    BY <2>1, <2>2
  <2>4. f[k - 1] \in P[k - 1] /\ f[k] = body[f[k - 1]]
    BY <1>1, <2>3 DEF Unfolds
  <2> QED BY <2>1, <2>3, <2>4
<1> QED BY <1>1, <1>2

(* One step further down from the nodes of S.                              *)
Further(t) ==
  [S \in SUBSET Nodes |-> S \cup (({t.left[q] : q \in S} \cup {t.right[q] : q \in S}) \cap Nodes)]

LEMMA FurtherStays ==
  ASSUME NEW t, NEW K \in SUBSET Nodes,
         \A q \in K : t.left[q] \in K \cup {Sentinel} /\ t.right[q] \in K \cup {Sentinel},
         NEW S \in SUBSET K
  PROVE  Further(t)[S] \in SUBSET K
<1>1. Further(t)[S] = S \cup (({t.left[q] : q \in S} \cup {t.right[q] : q \in S}) \cap Nodes)
  BY DEF Further
<1>2. Sentinel \notin Nodes
  BY Basics
<1> QED BY <1>1, <1>2

LEMMA BelowStays ==
  ASSUME NEW t, NEW K \in SUBSET Nodes,
         \A q \in K : t.left[q] \in K \cup {Sentinel} /\ t.right[q] \in K \cup {Sentinel},
         NEW x \in K \cup {Sentinel}
  PROVE  Below(t, x) \subseteq K
<1>1. {x} \cap Nodes \in SUBSET K
  BY Basics
<1>2. \A S \in SUBSET K : Further(t)[S] \in SUBSET K
  BY FurtherStays
<1>3. Below(t, x) = Iterated(Further(t), {x} \cap Nodes, N)
  BY DEF Below, Further
<1>4. PICK P : P = SUBSET K
  OBVIOUS
<1>5. Iterated(Further(t), {x} \cap Nodes, N) \in P
  BY <1>1, <1>2, <1>4, Basics, IteratedStays
<1> QED BY <1>3, <1>4, <1>5

(* A traversal visits the members: after k steps down from the root, one   *)
(* it has not met is between the bounds of one that it has, and these are  *)
(* at most N + 1 - k apart.                                                *)
LEMMA TraversalComplete ==
  ASSUME NEW m \in SUBSET Nodes, NEW t, Sound(t, m)
  PROVE  rb_tree_inorder_traversal(t) = m /\ (rb_tree_is_empty(t) <=> m = {})
<1>1. PICK lo, hi : Layout(m, t.root, t.left, t.right, t.parent, lo, hi)
  BY DEF Sound, Shape
<1>2. /\ \A q \in m : q \in Nat /\ lo[q] \in Nat /\ hi[q] \in Nat /\ lo[q] < q /\ q < hi[q] /\ q \in Nodes
      /\ m \subseteq Pointers /\ Sentinel \notin m
  BY <1>1, Members, MembersAreNumbers DEF Layout, Intervals
<1>3. /\ t.root = Sentinel => m = {}
      /\ t.root # Sentinel => t.root \in m /\ lo[t.root] = 0 /\ hi[t.root] = N + 1
  <2>1. ChildOn(t.root, Sentinel, 0, N + 1, t.parent, m, lo, hi)
    BY <1>1 DEF Layout, Linked
  <2>2. \A q \in m : 0 < q /\ q < N + 1
    BY Basics
  <2> QED BY <2>1, <2>2, <1>2 DEF ChildOn
<1>4. \A q \in m : /\ ChildOn(t.left[q], q, lo[q], q, t.parent, m, lo, hi)
                   /\ ChildOn(t.right[q], q, q, hi[q], t.parent, m, lo, hi)
  BY <1>1 DEF Layout, Linked
<1>5. rb_tree_inorder_traversal(t) \subseteq m
  <2>1. \A q \in m : t.left[q] \in m \cup {Sentinel} /\ t.right[q] \in m \cup {Sentinel}
    BY <1>4 DEF ChildOn
  <2>2. Below(t, t.root) \subseteq m
    BY <1>3, <2>1, BelowStays
  <2> QED BY <2>2 DEF rb_tree_inorder_traversal
<1> DEFINE Close(S, v, w) == \E u \in S : lo[u] < v /\ v < hi[u] /\ hi[u] - lo[u] <= w
           P == [k \in 0 .. N |-> {S \in SUBSET m : \A v \in m : v \in S \/ Close(S, v, N + 1 - k)}]
<1>6. m \subseteq rb_tree_inorder_traversal(t)
  <2>1. CASE m = {}
    BY <2>1
  <2>2. CASE m # {}
    <3>1. t.root \in m /\ lo[t.root] = 0 /\ hi[t.root] = N + 1
      BY <1>3, <2>2
    <3>2. {t.root} \cap Nodes \in P[0]
      <4>1. {t.root} \cap Nodes = {t.root}
        BY <1>2, <3>1
      <4>2. ASSUME NEW v \in m PROVE Close({t.root}, v, N + 1)
        BY <3>1, Basics
      <4>3. N + 1 - 0 = N + 1 /\ 0 \in 0 .. N
        BY Basics
      <4> QED BY <3>1, <4>1, <4>2, <4>3
    <3>3. ASSUME NEW k \in 1 .. N, NEW S \in P[k - 1]
          PROVE  Further(t)[S] \in P[k]
      <4>1. /\ S \in SUBSET m /\ k - 1 \in 0 .. N /\ k \in 0 .. N
            /\ \A v \in m : v \in S \/ Close(S, v, N + 1 - (k - 1))
        BY Basics
      <4>2. PICK T : T = Further(t)[S]
        OBVIOUS
      <4>3. T = S \cup (({t.left[q] : q \in S} \cup {t.right[q] : q \in S}) \cap Nodes)
        BY <1>2, <4>1, <4>2 DEF Further
      <4>4. T \in SUBSET m
        <5>1. \A q \in m : t.left[q] \in m \cup {Sentinel} /\ t.right[q] \in m \cup {Sentinel}
          BY <1>4 DEF ChildOn
        <5> QED BY <4>1, <4>2, <5>1, FurtherStays
      <4>5. ASSUME NEW v \in m, v \notin T PROVE Close(T, v, N + 1 - k)
        <5>1. PICK u \in S : lo[u] < v /\ v < hi[u] /\ hi[u] - lo[u] <= N + 1 - (k - 1)
          BY <4>1, <4>3, <4>5
        <5>2. u \in m /\ u # v /\ v \in Nat
          BY <1>2, <4>1, <4>3, <4>5, <5>1
        <5>3. CASE v < u
          <6>1. t.left[u] \in m /\ lo[t.left[u]] = lo[u] /\ hi[t.left[u]] = u
            BY <1>4, <5>1, <5>2, <5>3 DEF ChildOn
          <6>2. t.left[u] \in T
            BY <1>2, <4>3, <6>1
          <6>3. u - lo[u] <= N + 1 - k
            BY <1>2, <5>1, <5>2, Basics
          <6> QED BY <5>1, <5>3, <6>1, <6>2, <6>3
        <5>4. CASE u < v
          <6>1. t.right[u] \in m /\ lo[t.right[u]] = u /\ hi[t.right[u]] = hi[u]
            BY <1>4, <5>1, <5>2, <5>4 DEF ChildOn
          <6>2. t.right[u] \in T
            BY <1>2, <4>3, <6>1
          <6>3. hi[u] - u <= N + 1 - k
            BY <1>2, <5>1, <5>2, Basics
          <6> QED BY <5>1, <5>4, <6>1, <6>2, <6>3
        <5> QED BY <1>2, <5>2, <5>3, <5>4
      <4> QED BY <4>1, <4>2, <4>4, <4>5
    <3>4. Iterated(Further(t), {t.root} \cap Nodes, N) \in P[N]
      <4> HIDE DEF P
      <4> QED BY <3>2, <3>3, Basics, IteratedGoes
    <3>5. PICK S : S = rb_tree_inorder_traversal(t)
      OBVIOUS
    <3>6. S \in P[N]
      BY <3>4, <3>5 DEF rb_tree_inorder_traversal, Below, Further
    <3>7. N \in 0 .. N /\ N + 1 - N = 1
      BY Basics
    <3>8. S \in SUBSET m /\ \A v \in m : v \in S \/ Close(S, v, 1)
      BY <3>6, <3>7
    <3>9. ASSUME NEW v \in m PROVE ~Close(S, v, 1)
      BY <1>2, <3>8
    <3> QED BY <3>5, <3>8, <3>9
  <2> QED BY <2>1, <2>2
<1>7. rb_tree_is_empty(t) <=> m = {}
  BY <1>2, <1>3 DEF rb_tree_is_empty
<1> QED BY <1>5, <1>6, <1>7

(* On the left of a member everything is smaller, on the right greater.    *)
LEMMA Ordered ==
  ASSUME NEW m \in SUBSET Nodes, NEW t, Sound(t, m), NEW x \in m
  PROVE  /\ \A y \in Below(t, t.left[x]) : y < x
         /\ \A y \in Below(t, t.right[x]) : y > x
<1>1. PICK lo, hi : Layout(m, t.root, t.left, t.right, t.parent, lo, hi)
  BY DEF Sound, Shape
<1>2. \A q \in m : q \in Nat /\ lo[q] \in Nat /\ hi[q] \in Nat /\ lo[q] < q /\ q < hi[q]
  BY <1>1, MembersAreNumbers DEF Layout, Intervals
<1>3. \A q \in m : /\ ChildOn(t.left[q], q, lo[q], q, t.parent, m, lo, hi)
                   /\ ChildOn(t.right[q], q, q, hi[q], t.parent, m, lo, hi)
  BY <1>1 DEF Layout, Linked
<1>4. ASSUME NEW a \in Nat, NEW b \in Nat, NEW c, c = Sentinel \/ (c \in m /\ lo[c] = a /\ hi[c] = b)
      PROVE  \A y \in Below(t, c) : a < y /\ y < b
  <2>1. PICK K : K = {q \in m : a <= lo[q] /\ hi[q] <= b}
    OBVIOUS
  <2>2. K \in SUBSET Nodes /\ c \in K \cup {Sentinel}
    BY <1>2, <1>4, <2>1
  <2>3. ASSUME NEW q \in K PROVE t.left[q] \in K \cup {Sentinel} /\ t.right[q] \in K \cup {Sentinel}
    <3>1. q \in m /\ a <= lo[q] /\ hi[q] <= b
      BY <2>1
    <3>2. t.left[q] = Sentinel \/ (t.left[q] \in m /\ lo[t.left[q]] = lo[q] /\ hi[t.left[q]] = q)
      BY <1>3, <3>1 DEF ChildOn
    <3>3. t.right[q] = Sentinel \/ (t.right[q] \in m /\ lo[t.right[q]] = q /\ hi[t.right[q]] = hi[q])
      BY <1>3, <3>1 DEF ChildOn
    <3>4. t.left[q] \in m => a <= lo[q] /\ q <= b
      BY <1>2, <3>1
    <3>5. a <= q
      BY <1>2, <3>1
    <3> QED BY <2>1, <3>1, <3>2, <3>3, <3>4, <3>5
  <2>4. Below(t, c) \subseteq K
    BY <2>2, <2>3, BelowStays
  <2> QED BY <1>2, <2>1, <2>4
<1>5. \A y \in Below(t, t.left[x]) : lo[x] < y /\ y < x
  <2>1. t.left[x] = Sentinel \/ (t.left[x] \in m /\ lo[t.left[x]] = lo[x] /\ hi[t.left[x]] = x)
    BY <1>3 DEF ChildOn
  <2> QED BY <1>2, <1>4, <2>1
<1>6. \A y \in Below(t, t.right[x]) : x < y /\ y < hi[x]
  <2>1. t.right[x] = Sentinel \/ (t.right[x] \in m /\ lo[t.right[x]] = x /\ hi[t.right[x]] = hi[x])
    BY <1>3 DEF ChildOn
  <2> QED BY <1>2, <1>4, <2>1
<1>7. Below(t, t.right[x]) \subseteq m
  <2>1. /\ \A q \in m : t.left[q] \in m \cup {Sentinel} /\ t.right[q] \in m \cup {Sentinel}
        /\ t.right[x] \in m \cup {Sentinel}
    BY <1>3 DEF ChildOn
  <2> QED BY <2>1, BelowStays
<1> QED BY <1>2, <1>5, <1>6, <1>7
-----------------------------------------------------------------------------
(* The empty tree.                                                         *)

LEMMA EmptyIsGood == EmptyTree \in Trees /\ Good(EmptyTree, {}) /\ EmptyTree.root # Null
<1> USE Basics
<1>1. EmptyTree \in Trees
  BY DEF EmptyTree, Zeroed, Trees
<1>2. /\ EmptyTree.root = Sentinel /\ EmptyTree.fate = "ok"
      /\ EmptyTree.left[Sentinel] = Null /\ EmptyTree.right[Sentinel] = Null
      /\ EmptyTree.left[Null] = Null /\ EmptyTree.right[Null] = Null /\ EmptyTree.parent[Null] = Null
      /\ ~EmptyTree.red[Sentinel] /\ ~EmptyTree.red[Null]
  <2>1. Null \notin Nodes /\ Sentinel \notin Nodes
    OBVIOUS
  <2> QED BY <2>1 DEF EmptyTree, Zeroed
<1>3. Shape(EmptyTree, {})
  <2> DEFINE lo == [q \in Nodes |-> 0]
  <2>1. lo \in [Nodes -> Pointers] /\ Intervals({}, lo, lo)
    BY DEF Intervals
  <2>2. Linked(EmptyTree.root, EmptyTree.left, EmptyTree.right, EmptyTree.parent, {}, lo, lo)
    BY <1>2 DEF Linked, ChildOn
  <2>3. Layout({}, EmptyTree.root, EmptyTree.left, EmptyTree.right, EmptyTree.parent, lo, lo)
    BY <1>1, <2>1, <2>2 DEF Layout, Trees
  <2> QED BY <2>3 DEF Shape
<1> QED BY <1>1, <1>2, <1>3 DEF Good, Sound, Ends, Broken

=============================================================================
