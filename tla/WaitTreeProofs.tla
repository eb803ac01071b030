---------------------------- MODULE WaitTreeProofs ----------------------------
(***************************************************************************)
(* Proofs about WaitTree, for any number of items and whatever the order   *)
(* of inserts and deletes.  As long as no operation has followed a null    *)
(* pointer or failed to end, the wait tree holds exactly the items that    *)
(* wait, in order, with parent pointers that mirror the children.  As long *)
(* as the last case of DeleteFixup has not run on the right, the tree is   *)
(* red-black, no operation follows a null pointer, and every loop ends.    *)
(***************************************************************************)
EXTENDS WaitTree, RBTreeProofs

-----------------------------------------------------------------------------
(* The wait tree.                                                          *)

(* While no operation has followed a null pointer or failed to end, the    *)
(* tree is laid out as a binary search tree of the members, and the        *)
(* sentinel is black.                                                      *)
IInv == TypeOK /\ (Intact => Good(tree, members))

LEMMA RootNotNull ==
  ASSUME NEW m \in SUBSET Nodes, NEW t, Good(t, m)
  PROVE  t.root # Null
<1>1. PICK lo, hi : Layout(m, t.root, t.left, t.right, t.parent, lo, hi)
  BY DEF Good, Sound, Shape
<1>2. t.root = Sentinel \/ t.root \in m
  BY <1>1 DEF Layout, Linked, ChildOn
<1> QED BY <1>2, Members

LEMMA InitIInv == Init => IInv
<1> SUFFICES ASSUME Init PROVE IInv
  OBVIOUS
<1>1. tree = EmptyTree /\ members = {}
  BY DEF Init
<1> QED BY <1>1, EmptyIsGood DEF IInv, TypeOK, Intact

LEMMA NextIInv == IInv /\ [Next]_vars => IInv'
<1> SUFFICES ASSUME IInv, [Next]_vars PROVE IInv'
  OBVIOUS
<1>1. members \in SUBSET Nodes
  BY DEF IInv, TypeOK
<1>2. ASSUME NEW z \in Nodes, Insert(z) PROVE IInv'
  <2>1. /\ Good(tree, members) /\ z \in Nodes \ members
        /\ tree' = rb_tree_insert(tree, z) /\ members' = members \cup {z}
    BY <1>2 DEF Insert, IInv, Intact
  <2>2. tree' \in Trees /\ (Broken(tree') \/ Good(tree', members'))
    BY <1>1, <2>1, Inserted
  <2>3. members' \in SUBSET Nodes
    BY <1>1, <2>1
  <2>4. Broken(tree') \/ tree'.root # Null
    BY <2>2, <2>3, RootNotNull
  <2> QED BY <2>2, <2>3, <2>4 DEF IInv, TypeOK, Intact
<1>3. ASSUME NEW z \in Nodes, Delete(z) PROVE IInv'
  <2>1. /\ Good(tree, members) /\ z \in members
        /\ tree' = rb_tree_delete(tree, z) /\ members' = members \ {z}
    BY <1>3 DEF Delete, IInv, Intact
  <2>2. tree' \in Trees /\ (Broken(tree') \/ Good(tree', members'))
    BY <1>1, <2>1, Deleted
  <2>3. members' \in SUBSET Nodes
    BY <1>1, <2>1
  <2>4. Broken(tree') \/ tree'.root # Null
    BY <2>2, <2>3, RootNotNull
  <2> QED BY <2>2, <2>3, <2>4 DEF IInv, TypeOK, Intact
<1>4. CASE UNCHANGED vars
  BY <1>4 DEF vars, IInv, TypeOK, Intact
<1> QED BY <1>2, <1>3, <1>4 DEF Next

LEMMA AlwaysIInv == Spec => []IInv
<1> QED BY InitIInv, NextIInv, PTL DEF Spec

(* Every pointer an insert, a delete or a fixup writes is an item, the     *)
(* sentinel or null, and no operation that ends leaves the root null.      *)
THEOREM WaitTreeTypes == Spec => []TypeOK
<1>1. IInv => TypeOK
  BY DEF IInv
<1> QED BY <1>1, AlwaysIInv, PTL

(* A traversal of the wait tree, which sends the evictions, ends, having   *)
(* visited exactly the items that wait, and net_send_eviction_message ends *)
(* when none does.                                                         *)
THEOREM WaitTreeHoldsMembers == Spec => []HoldsMembers
<1>1. IInv => HoldsMembers
  <2> SUFFICES ASSUME IInv, Intact PROVE HoldsMembers
    BY DEF HoldsMembers
  <2>1. members \in SUBSET Nodes /\ Sound(tree, members)
    BY DEF IInv, TypeOK, Good
  <2>2. /\ rb_tree_inorder_traversal(tree) = members
        /\ rb_tree_is_empty(tree) <=> members = {}
    BY <2>1, TraversalComplete
  <2>3. ASSUME NEW q \in members
        PROVE  /\ Null \notin {tree.left[q], tree.right[q]}
               /\ q \notin Below(tree, tree.left[q]) \cup Below(tree, tree.right[q])
    <3>1. /\ \A y \in Below(tree, tree.left[q]) : y < q
          /\ \A y \in Below(tree, tree.right[q]) : y > q
      BY <2>1, Ordered
    <3>2. tree.left[q] \in members \cup {Sentinel} /\ tree.right[q] \in members \cup {Sentinel}
      BY <2>1, ChildrenOf
    <3>3. Null \notin members /\ Null # Sentinel /\ q \in Nat
      BY <2>1, Members, Basics
    <3> QED BY <3>1, <3>2, <3>3
  <2>4. TraversalEnds(tree)
    BY <2>2, <2>3 DEF TraversalEnds
  <2> QED BY <2>2, <2>4 DEF HoldsMembers
<1> QED BY <1>1, AlwaysIInv, PTL

(* The items below an item on the left have smaller hash values, those on  *)
(* the right greater: the descent of an insert finds the one place there   *)
(* is, and a traversal is in order.                                        *)
THEOREM WaitTreeSearches == Spec => []SearchTree
<1>1. IInv => SearchTree
  <2> SUFFICES ASSUME IInv, Intact PROVE SearchTree
    BY DEF SearchTree
  <2>1. members \in SUBSET Nodes /\ Sound(tree, members)
    BY DEF IInv, TypeOK, Good
  <2>2. ASSUME NEW x \in members
        PROVE  /\ \A y \in Below(tree, tree.left[x]) : y < x
               /\ \A y \in Below(tree, tree.right[x]) : y > x
    BY <2>1, Ordered
  <2> QED BY <2>2 DEF SearchTree
<1> QED BY <1>1, AlwaysIInv, PTL

(* The parent pointers, which rotations and transplants write by the side  *)
(* of the child pointers and the fixups climb, mirror them.                *)
THEOREM WaitTreeParentsMirror == Spec => []ParentsMirror
<1>1. IInv => ParentsMirror
  <2> SUFFICES ASSUME IInv, Intact PROVE ParentsMirror
    BY DEF ParentsMirror
  <2>1. members \in SUBSET Nodes /\ Sound(tree, members)
    BY DEF IInv, TypeOK, Good
  <2>2. ASSUME NEW x \in members
        PROVE  IF tree.root = x THEN tree.parent[x] = Sentinel
               ELSE x \in {tree.left[tree.parent[x]], tree.right[tree.parent[x]]}
    BY <2>1, ChildrenOf
  <2> QED BY <2>2 DEF ParentsMirror
<1> QED BY <1>1, AlwaysIInv, PTL

-----------------------------------------------------------------------------
(* The conditions, by way of a count of black nodes for each item.         *)

Sides == {"left", "right"}
Other(s) == IF s = "left" THEN "right" ELSE "left"

(* An item's colour.                                                       *)
Shade(t, q) == IF t.red[q] THEN "red" ELSE "black"

(* The black nodes on a path down from q, itself included, where c[q] are  *)
(* those below it.                                                         *)
Tall(t, c, q) == IF q = Sentinel THEN 0 ELSE c[q] + (IF Shade(t, q) = "red" THEN 0 ELSE 1)

(* The paths below each item have as many black nodes as c says, where one *)
(* more is counted on side e of d: the extra black of a deletion.  There   *)
(* is none if d is the sentinel.                                           *)
Even(t, m, c, d, e) ==
  /\ c \in [Nodes -> Nat]
  /\ \A q \in m, s \in Sides :
       Tall(t, c, Near(t, q, s)) + (IF q = d /\ s = e THEN 1 ELSE 0) = c[q]

(* A red item has black children, except a, and except for b as a child.   *)
Reds(t, m, a, b) ==
  \A q \in m, s \in Sides : Shade(t, q) = "red" /\ Shade(t, Near(t, q, s)) = "red" => q = a \/ Near(t, q, s) = b

Level(t, m, c) ==
  Even(t, m, c, Sentinel, "left") /\ Reds(t, m, Sentinel, Sentinel) /\ Shade(t, t.root) # "red"

LEMMA SidesTwo ==
  /\ \A s \in Sides : Other(s) \in Sides /\ Other(s) # s /\ Other(Other(s)) = s
  /\ \A s, e \in Sides : s = e \/ s = Other(e)
  /\ \A s \in Sides : s \in {"left", "right"}
BY DEF Sides, Other

LEMMA OtherSide ==
  ASSUME NEW t, NEW x, NEW s \in Sides
  PROVE  /\ Far(t, x, s) = Near(t, x, Other(s)) /\ Near(t, x, s) = Far(t, x, Other(s))
         /\ RotateFrom(t, x, s) = RotateTo(t, x, Other(s))
BY DEF Far, Near, RotateFrom, RotateTo, Sides, Other

LEMMA Basis ==
  ASSUME NEW m \in SUBSET Nodes, NEW t, Good(t, m)
  PROVE  /\ t \in Trees /\ Sound(t, m) /\ ~Broken(t)
         /\ Shade(t, Sentinel) # "red" /\ Shade(t, Null) # "red"
         /\ Sentinel \notin m /\ Null \notin m /\ m \subseteq Pointers /\ Sentinel \in Pointers /\ Null \in Pointers
         /\ \A q \in Pointers : Shade(t, q) = "red" <=> t.red[q]
BY Members DEF Good, Sound, Shade, Pointers, Sentinel, Null

(* Every item is the child of at most one, on one side.                    *)
LEMMA Kids ==
  ASSUME NEW m \in SUBSET Nodes, NEW t, Sound(t, m), NEW q \in m, NEW s \in Sides
  PROVE  /\ Near(t, q, s) \in m \cup {Sentinel} /\ Near(t, q, s) # q
         /\ Near(t, q, s) \in m => t.parent[Near(t, q, s)] = q /\ Near(t, q, s) # t.root
         /\ Near(t, q, s) = Near(t, q, Other(s)) => Near(t, q, s) = Sentinel
         /\ \A q2 \in m, s2 \in Sides : Near(t, q, s) \in m /\ Near(t, q2, s2) = Near(t, q, s)
                                        => q2 = q /\ s2 = s
<1>0. Sentinel \notin m /\ (s = "left" \/ s = "right") /\ "left" \in Sides /\ "right" \in Sides
  BY Members DEF Sides
<1>1. ASSUME NEW x \in m
      PROVE  /\ t.left[x] \in m \cup {Sentinel} /\ t.right[x] \in m \cup {Sentinel}
             /\ t.left[x] \in m => t.parent[t.left[x]] = x
             /\ t.right[x] \in m => t.parent[t.right[x]] = x
             /\ t.left[x] = t.right[x] => t.left[x] = Sentinel
             /\ t.left[x] # x /\ t.right[x] # x
             /\ x = t.root => t.parent[x] = Sentinel
  BY ChildrenOf
<1>2. \A x \in m, e \in Sides : Near(t, x, e) = IF e = "left" THEN t.left[x] ELSE t.right[x]
  BY DEF Near
<1>3. ASSUME NEW q2 \in m, NEW s2 \in Sides, Near(t, q, s) \in m, Near(t, q2, s2) = Near(t, q, s)
      PROVE  q2 = q /\ s2 = s
  <2>1. s2 = "left" \/ s2 = "right"
    BY DEF Sides
  <2>2. t.parent[Near(t, q, s)] = q
    BY <1>0, <1>1, <1>2, <1>3
  <2>3. t.parent[Near(t, q2, s2)] = q2
    BY <1>1, <1>2, <1>3, <2>1
  <2>4. q2 = q
    BY <1>3, <2>2, <2>3
  <2> QED BY <1>0, <1>1, <1>2, <1>3, <2>1, <2>4
<1>4. Near(t, q, s) \in m \cup {Sentinel} /\ Near(t, q, s) # q
  BY <1>0, <1>1, <1>2
<1>5. ASSUME Near(t, q, s) \in m PROVE t.parent[Near(t, q, s)] = q /\ Near(t, q, s) # t.root
  BY <1>0, <1>1, <1>2, <1>5
<1>6. Near(t, q, s) = Near(t, q, Other(s)) => Near(t, q, s) = Sentinel
  BY <1>0, <1>1, <1>2 DEF Other
<1> QED BY <1>3, <1>4, <1>5, <1>6

(* An item below the root is its parent's child on the side SideOf gives.  *)
LEMMA KidOf ==
  ASSUME NEW m \in SUBSET Nodes, NEW t, Sound(t, m), NEW x \in m, x # t.root
  PROVE  /\ t.parent[x] \in m /\ SideOf(t, x) \in Sides /\ Near(t, t.parent[x], SideOf(t, x)) = x
<1>1. t.parent[x] \in m /\ x \in {t.left[t.parent[x]], t.right[t.parent[x]]}
  BY ChildrenOf
<1> QED BY <1>1 DEF SideOf, Near, Sides

-----------------------------------------------------------------------------
(* Rotations, once more: y, on x's other side, goes above x.               *)

Swings(t, u, m, x, y, side) ==
  /\ u.root = IF x = t.root THEN y ELSE t.root
  /\ u.parent[Sentinel] = t.parent[Sentinel]
  /\ \A q \in m : u.parent[q] = IF q = x THEN y ELSE IF q = y THEN t.parent[x]
                                ELSE IF q = Near(t, y, side) THEN x ELSE t.parent[q]
  /\ \A q \in m, s \in Sides :
       Near(u, q, s) = IF q = x /\ s # side THEN Near(t, y, side)
                       ELSE IF q = y /\ s = side THEN x
                       ELSE IF Near(t, q, s) = x THEN y ELSE Near(t, q, s)

LEMMA SwungOnce ==
  ASSUME NEW m \in SUBSET Nodes, NEW t, Good(t, m), NEW x \in m, NEW side \in Sides,
         NEW y, y = Near(t, x, Other(side)), y \in m, NEW u, u = RotateTo(t, x, side)
  PROVE  Good(u, m) /\ SameColours(t, u) /\ Swings(t, u, m, x, y, side)
<1>0. Sound(t, m) /\ t.parent[t.root] = Sentinel /\ (x # t.root => t.parent[x] \in m) /\ Sentinel \notin m
  <2>1. Sound(t, m) /\ Sentinel \notin m
    BY Members DEF Good
  <2>2. t.root \in m /\ (x # t.root => t.parent[x] \in m)
    BY <2>1, ChildrenOf
  <2>3. t.parent[t.root] = Sentinel
    BY <2>1, <2>2, RootHasNoParent
  <2> QED BY <2>1, <2>2, <2>3
<1>1. x = t.root <=> t.parent[x] = Sentinel
  BY <1>0
<1>2. ASSUME NEW q \in m
      PROVE  /\ t.left[q] = x => t.parent[x] = q
             /\ t.right[q] = x => t.parent[x] = q
             /\ t.parent[x] = q /\ t.left[q] # x => t.right[q] = x
             /\ t.left[q] = t.right[q] => t.left[q] = Sentinel
             /\ t.left[q] # q /\ t.right[q] # q
  BY <1>0, ChildrenOf
<1>3. CASE side = "left"
  <2>1. y = t.right[x] /\ u = LeftRotate(t, x)
    BY <1>3 DEF Other, Near, RotateTo
  <2>2. /\ Turned(t, u, m, x, y, t.left[y])
        /\ TurnsLeft(m, t.root, t.left, t.right, t.parent, x, y, u.root, u.left, u.right, u.parent)
    BY <1>0, <2>1, LeftRotation
  <2>3. Good(u, m)
    BY <2>2, TurnedGood
  <2>4. /\ \A q \in m : u.left[q] = IF q = y THEN x ELSE IF q = t.parent[x] /\ t.left[q] = x THEN y ELSE t.left[q]
        /\ \A q \in m : u.right[q] = IF q = x THEN t.left[y] ELSE IF q = t.parent[x] /\ t.left[q] # x THEN y ELSE t.right[q]
    BY <2>2 DEF TurnsLeft
  <2>5. ASSUME NEW q \in m, NEW s \in Sides
        PROVE  Near(u, q, s) = IF q = x /\ s # side THEN Near(t, y, side)
                               ELSE IF q = y /\ s = side THEN x
                               ELSE IF Near(t, q, s) = x THEN y ELSE Near(t, q, s)
    <3>1. CASE s = "left"
      BY <1>2, <1>3, <2>4, <3>1 DEF Near
    <3>2. CASE s = "right"
      BY <1>0, <1>2, <1>3, <2>4, <3>2 DEF Near
    <3> QED BY <3>1, <3>2 DEF Sides
  <2>6. Near(t, y, side) = t.left[y]
    BY <1>3 DEF Near
  <2> QED BY <1>1, <2>2, <2>3, <2>5, <2>6 DEF Swings, Turned
<1>4. CASE side = "right"
  <2>1. y = t.left[x] /\ u = RightRotate(t, x)
    BY <1>4 DEF Other, Near, RotateTo
  <2>2. /\ Turned(t, u, m, x, y, t.right[y])
        /\ TurnsRight(m, t.root, t.left, t.right, t.parent, x, y, u.root, u.left, u.right, u.parent)
    BY <1>0, <2>1, RightRotation
  <2>3. Good(u, m)
    BY <2>2, TurnedGood
  <2>4. /\ \A q \in m : u.left[q] = IF q = x THEN t.right[y] ELSE IF q = t.parent[x] /\ t.left[q] = x THEN y ELSE t.left[q]
        /\ \A q \in m : u.right[q] = IF q = y THEN x ELSE IF q = t.parent[x] /\ t.left[q] # x THEN y ELSE t.right[q]
    BY <2>2 DEF TurnsRight
  <2>5. ASSUME NEW q \in m, NEW s \in Sides
        PROVE  Near(u, q, s) = IF q = x /\ s # side THEN Near(t, y, side)
                               ELSE IF q = y /\ s = side THEN x
                               ELSE IF Near(t, q, s) = x THEN y ELSE Near(t, q, s)
    <3>1. CASE s = "left"
      BY <1>2, <1>4, <2>4, <3>1 DEF Near
    <3>2. CASE s = "right"
      BY <1>0, <1>2, <1>4, <2>4, <3>2 DEF Near
    <3> QED BY <3>1, <3>2 DEF Sides
  <2>6. Near(t, y, side) = t.right[y]
    BY <1>4 DEF Near
  <2> QED BY <1>1, <2>2, <2>3, <2>5, <2>6 DEF Swings, Turned
<1> QED BY <1>3, <1>4 DEF Sides

(* u is t with other colours.                                              *)
Repainted(t, u) ==
  u.root = t.root /\ u.left = t.left /\ u.right = t.right /\ u.parent = t.parent

LEMMA RepaintedSame ==
  ASSUME NEW t, NEW u, Repainted(t, u)
  PROVE  \A q, s : Near(u, q, s) = Near(t, q, s) /\ Far(u, q, s) = Far(t, q, s)
BY DEF Repainted, Near, Far

Blackens(t, u, q) == u = SetRed(t, q, FALSE)
Reddens(t, u, q)  == u = SetRed(t, q, TRUE)

LEMMA Blackened ==
  ASSUME NEW m \in SUBSET Nodes, NEW t, Good(t, m), NEW q \in m, NEW u, Blackens(t, u, q)
  PROVE  Good(u, m) /\ Repainted(t, u) /\ u.skewed = t.skewed
         /\ \A p \in Pointers : Shade(u, p) = IF p = q THEN "black" ELSE Shade(t, p)
<1>1. t \in Trees /\ Sound(t, m) /\ q \in Pointers /\ q # Null /\ q # Sentinel
  BY Members DEF Good, Sound
<1>2. Good(u, m) /\ Repainted(t, u)
  BY <1>1, Painted DEF Repainted, Blackens, Reddens
<1>3. /\ u.skewed = t.skewed
      /\ \A p \in Pointers : u.red[p] <=> p # q /\ t.red[p]
  BY <1>1 DEF SetRed, Trees, Blackens
<1> QED BY <1>2, <1>3 DEF Shade

LEMMA Reddened ==
  ASSUME NEW m \in SUBSET Nodes, NEW t, Good(t, m), NEW q \in m, NEW u, Reddens(t, u, q)
  PROVE  Good(u, m) /\ Repainted(t, u) /\ u.skewed = t.skewed
         /\ \A p \in Pointers : Shade(u, p) = IF p = q THEN "red" ELSE Shade(t, p)
<1>1. t \in Trees /\ Sound(t, m) /\ q \in Pointers /\ q # Null /\ q # Sentinel
  BY Members DEF Good, Sound
<1>2. Good(u, m) /\ Repainted(t, u)
  BY <1>1, Painted DEF Repainted, Blackens, Reddens
<1>3. /\ u.skewed = t.skewed
      /\ \A p \in Pointers : u.red[p] <=> p = q \/ t.red[p]
  BY <1>1 DEF SetRed, Trees, Reddens
<1> QED BY <1>1, <1>2, <1>3 DEF Shade

(* A rotation after some painting.                                         *)
LEMMA Swung ==
  ASSUME NEW m \in SUBSET Nodes, NEW t, NEW a, Good(a, m), Repainted(t, a), NEW x \in m,
         NEW side \in Sides, NEW y, y = Near(t, x, Other(side)), y \in m,
         NEW u, u = RotateTo(a, x, side)
  PROVE  Good(u, m) /\ SameColours(a, u) /\ Swings(t, u, m, x, y, side)
<1>1. y = Near(a, x, Other(side))
  BY RepaintedSame
<1>2. Good(u, m) /\ SameColours(a, u) /\ Swings(a, u, m, x, y, side)
  BY <1>1, SwungOnce
<1>3. Swings(t, u, m, x, y, side)
  <2>1. \A q, s : Near(a, q, s) = Near(t, q, s)
    BY RepaintedSame
  <2> QED BY <1>2, <2>1 DEF Swings, Repainted
<1> QED BY <1>2, <1>3

(* x and its red child y change colours as y goes above x.                 *)
SwapColours(t, u, x, y) ==
  /\ Shade(t, y) = "red" /\ Shade(u, x) = "red" /\ Shade(u, y) = Shade(t, x)
  /\ \A q \in Pointers : q # x /\ q # y => Shade(u, q) = Shade(t, q)

LEMMA TallTypes ==
  ASSUME NEW m \in SUBSET Nodes, NEW t \in Trees, NEW c \in [Nodes -> Nat], NEW q \in m \cup {Sentinel}
  PROVE  /\ Tall(t, c, q) \in Nat
         /\ q \in m => c[q] \in Nat /\ Tall(t, c, q) = c[q] + (IF Shade(t, q) = "red" THEN 0 ELSE 1)
         /\ q = Sentinel => Tall(t, c, q) = 0
         /\ ~(q \in m /\ q = Sentinel)
<1>1. Sentinel \notin m
  BY Members
<1>2. CASE q = Sentinel
  BY <1>1, <1>2 DEF Tall
<1>3. CASE q \in m
  <2>1. c[q] \in Nat /\ q # Sentinel
    BY <1>1, <1>3
  <2> QED BY <1>3, <2>1 DEF Tall
<1> QED BY <1>2, <1>3

LEMMA EvenAt ==
  ASSUME NEW m, NEW t, NEW c, NEW d, NEW e, Even(t, m, c, d, e), NEW q \in m, NEW s \in Sides
  PROVE  Tall(t, c, Near(t, q, s)) + (IF q = d /\ s = e THEN 1 ELSE 0) = c[q]
BY DEF Even

(* Such a rotation keeps the paths even with the same counts.              *)
LEMMA SwungEven ==
  ASSUME NEW m \in SUBSET Nodes, NEW t, Sound(t, m), NEW u \in Trees, NEW x \in m, NEW y \in m,
         NEW side \in Sides, y = Near(t, x, Other(side)),
         Swings(t, u, m, x, y, side), SwapColours(t, u, x, y),
         NEW c, NEW d, NEW e, Even(t, m, c, d, e), d # y, ~(d = x /\ e # side)
  PROVE  Even(u, m, c, d, e)
<1>0. /\ t \in Trees /\ c \in [Nodes -> Nat] /\ m \subseteq Pointers /\ Sentinel \notin m
      /\ Sentinel \in Pointers /\ Other(side) \in Sides /\ Other(side) # side /\ y # x
  <2>1. y # x
    BY SidesTwo, Kids
  <2> QED BY <2>1, Members, SidesTwo DEF Even, Sound
<1>1. ASSUME NEW q \in m \cup {Sentinel}, q # x, q # y PROVE Tall(u, c, q) = Tall(t, c, q)
  <2>1. q \in Pointers
    BY <1>0
  <2> QED BY <1>0, <1>1, <2>1 DEF Tall, SwapColours
<1>2. c[x] \in Nat /\ c[y] \in Nat /\ x # Sentinel /\ y # Sentinel
  BY <1>0
<1>3. c[x] = c[y]
  <2>1. Tall(t, c, y) = c[x]
    <3>1. Tall(t, c, y) + 0 = c[x]
      BY <1>0, EvenAt
    <3> QED BY <1>0, <3>1, TallTypes
  <2> QED BY <1>2, <2>1 DEF Tall, SwapColours
<1>4. Tall(u, c, x) = c[y] /\ Tall(u, c, y) = Tall(t, c, x)
  BY <1>2, <1>3 DEF Tall, SwapColours
<1>5. ASSUME NEW q \in m, NEW s \in Sides
      PROVE  Tall(u, c, Near(u, q, s)) + (IF q = d /\ s = e THEN 1 ELSE 0) = c[q]
  <2>1. Near(u, q, s) = IF q = x /\ s # side THEN Near(t, y, side)
                        ELSE IF q = y /\ s = side THEN x
                        ELSE IF Near(t, q, s) = x THEN y ELSE Near(t, q, s)
    BY DEF Swings
  <2>2. Tall(t, c, Near(t, q, s)) + (IF q = d /\ s = e THEN 1 ELSE 0) = c[q]
    BY EvenAt
  <2>3. CASE q = x /\ s # side
    <3>1. Near(t, y, side) \in m \cup {Sentinel} /\ Near(t, y, side) # y
      BY Kids
    <3>2. Near(t, y, side) # x
      <4>1. Near(t, y, side) \in m => t.parent[Near(t, y, side)] = y
        BY Kids
      <4>2. t.parent[y] = x
        BY <1>0, Kids
      <4>3. ASSUME Near(t, y, side) = x PROVE FALSE
        BY <4>1, <4>2, <4>3, NoTwoCycle
      <4> QED BY <4>3
    <3>3. Tall(t, c, Near(t, y, side)) + 0 = c[y]
      BY EvenAt
    <3>4. Tall(u, c, Near(u, q, s)) = Tall(t, c, Near(t, y, side))
      BY <1>1, <2>1, <2>3, <3>1, <3>2
    <3> QED BY <1>3, <2>3, <3>3, <3>4
  <2>4. CASE q = y /\ s = side
    <3>1. Near(u, q, s) = x
      BY <1>0, <2>1, <2>4
    <3> QED BY <1>2, <1>3, <1>4, <2>4, <3>1
  <2>5. CASE ~(q = x /\ s # side) /\ ~(q = y /\ s = side) /\ Near(t, q, s) = x
    <3>1. Near(u, q, s) = y
      BY <2>1, <2>5
    <3> QED BY <1>4, <2>2, <2>5, <3>1
  <2>6. CASE ~(q = x /\ s # side) /\ ~(q = y /\ s = side) /\ Near(t, q, s) # x
    <3>1. Near(u, q, s) = Near(t, q, s) /\ Near(t, q, s) \in m \cup {Sentinel}
      BY <2>1, <2>6, Kids
    <3>2. Near(t, q, s) # y
      <4>1. Near(t, q, s) = y => q = x /\ s = Other(side)
        BY <1>0, Kids
      <4> QED BY <1>0, <2>6, <4>1
    <3>3. Tall(u, c, Near(t, q, s)) = Tall(t, c, Near(t, q, s))
      BY <1>1, <2>6, <3>1, <3>2
    <3> QED BY <2>2, <3>1, <3>3
  <2> QED BY <2>3, <2>4, <2>5, <2>6
<1> QED BY <1>0, <1>5 DEF Even

(* Afterwards only x may be a red child of a red item, and the root has    *)
(* the colour it had.                                                      *)
LEMMA SwungReds ==
  ASSUME NEW m \in SUBSET Nodes, NEW t, Good(t, m), NEW u, NEW x \in m, NEW y \in m,
         NEW side \in Sides, y = Near(t, x, Other(side)),
         Swings(t, u, m, x, y, side), SwapColours(t, u, x, y),
         NEW e, Reds(t, m, Sentinel, e), e = Sentinel \/ e = y \/ e = Near(t, y, Other(side)),
         Shade(t, Near(t, x, side)) # "red", Shade(t, Near(t, y, side)) # "red",
         Shade(t, x) = "red" => Shade(t, Near(t, y, Other(side))) # "red"
  PROVE  /\ \A q \in m, s \in Sides : Shade(u, q) = "red" /\ Shade(u, Near(u, q, s)) = "red" => Shade(t, x) = "red" /\ Near(u, q, s) = x
         /\ Shade(u, u.root) = Shade(t, t.root)
<1>0. /\ t \in Trees /\ m \subseteq Pointers /\ Sentinel \notin m /\ Sound(t, m) /\ Shade(t, Sentinel) # "red"
      /\ Sentinel \in Pointers /\ Other(side) \in Sides /\ Other(side) # side
      /\ \A s \in Sides : s = side \/ s = Other(side)
  BY Basis, SidesTwo
<1>1. y # x /\ t.parent[y] = x /\ y # t.root /\ t.root \in m
  <2>1. y # x /\ t.parent[y] = x /\ y # t.root
    BY <1>0, Kids
  <2> QED BY <1>0, <2>1, ChildrenOf
<1>2. \A q \in Pointers : Shade(u, q) = IF q = x THEN "red" ELSE IF q = y THEN Shade(t, x) ELSE Shade(t, q)
  BY <1>1 DEF SwapColours
<1>3. ASSUME NEW q \in m, NEW s \in Sides, Shade(u, q) = "red", Shade(u, Near(u, q, s)) = "red"
      PROVE  Shade(t, x) = "red" /\ Near(u, q, s) = x
  <2>1. Near(u, q, s) = IF q = x /\ s # side THEN Near(t, y, side)
                        ELSE IF q = y /\ s = side THEN x
                        ELSE IF Near(t, q, s) = x THEN y ELSE Near(t, q, s)
    BY DEF Swings
  <2>2. ASSUME NEW p \in m, NEW v \in Sides
        PROVE  /\ Near(t, p, v) \in m \cup {Sentinel} /\ Near(t, p, v) \in Pointers /\ Near(t, p, v) # p
               /\ Near(t, p, v) = y => p = x /\ v = Other(side)
    BY <1>0, Kids
  <2>3. Near(t, y, side) # x
    <3>1. Near(t, y, side) = x => t.parent[x] = y
      BY <1>0, Kids
    <3> QED BY <1>0, <1>1, <3>1, NoTwoCycle
  <2>4. CASE q = x /\ s # side
    BY <1>2, <1>3, <2>1, <2>2, <2>3, <2>4
  <2>5. CASE q = y /\ s = side
    BY <1>0, <1>1, <1>2, <1>3, <2>1, <2>5
  <2>6. CASE ~(q = x /\ s # side) /\ ~(q = y /\ s = side) /\ Near(t, q, s) = x
    <3>1. Near(u, q, s) = y /\ Shade(t, x) = "red"
      BY <1>0, <1>1, <1>2, <1>3, <2>1, <2>6
    <3>2. q # x /\ q # y
      <4>1. q = y => t.parent[x] = y
        BY <1>0, <2>6, Kids
      <4> QED BY <1>0, <1>1, <2>2, <2>6, <4>1, NoTwoCycle
    <3>3. Shade(t, q) = "red"
      BY <1>0, <1>2, <1>3, <3>2
    <3>4. q = Sentinel \/ x = e
      BY <2>6, <3>1, <3>3 DEF Reds
    <3>5. x # e
      <4>1. Near(t, y, Other(side)) = x => t.parent[x] = y
        BY <1>0, Kids
      <4> QED BY <1>0, <1>1, <4>1, NoTwoCycle
    <3> QED BY <1>0, <3>4, <3>5
  <2>7. CASE ~(q = x /\ s # side) /\ ~(q = y /\ s = side) /\ Near(t, q, s) # x
    <3>1. Near(u, q, s) = Near(t, q, s) /\ Near(t, q, s) # y
      BY <1>0, <2>1, <2>2, <2>7
    <3>2. Shade(t, Near(t, q, s)) = "red"
      BY <1>2, <1>3, <2>2, <2>7, <3>1
    <3>3. q # x
      BY <2>7, <3>2
    <3>4. CASE q = y
      <4>1. s = Other(side) /\ Shade(t, x) = "red"
        BY <1>0, <1>1, <1>2, <1>3, <2>7, <3>4
      <4> QED BY <3>2, <3>4, <4>1
    <3>5. CASE q # y
      <4>1. Shade(t, q) = "red"
        BY <1>0, <1>2, <1>3, <3>3, <3>5
      <4>2. Near(t, q, s) = e
        BY <1>0, <3>2, <4>1 DEF Reds
      <4>3. e = Near(t, y, Other(side)) /\ e \in m
        BY <1>0, <2>2, <3>1, <3>2, <4>2
      <4>4. q = y
        BY <1>0, <4>2, <4>3, Kids
      <4> QED BY <3>5, <4>4
    <3> QED BY <3>4, <3>5
  <2> QED BY <2>4, <2>5, <2>6, <2>7
<1>4. Shade(u, u.root) = Shade(t, t.root)
  <2>1. u.root = IF x = t.root THEN y ELSE t.root
    BY DEF Swings
  <2> QED BY <1>0, <1>1, <1>2, <2>1
<1> QED BY <1>3, <1>4

-----------------------------------------------------------------------------
(* Insertion.                                                              *)

(* InsertFixup at z: z is the only red item that may be the child of a red *)
(* one, or be the root.                                                    *)
Climbing(t, m, z) ==
  /\ Good(t, m) /\ z \in m /\ Shade(t, z) = "red"
  /\ Reds(t, m, Sentinel, z) /\ (Shade(t, t.root) = "red" => t.root = z)
  /\ \E c : Even(t, m, c, Sentinel, "left")

(* z, its red parent p, and its grandparent g, whose other child is y.     *)
Family(t, m, z, p, g, y, side) ==
  /\ p \in m /\ p = t.parent[z] /\ Shade(t, p) = "red" /\ z # t.root /\ Shade(t, t.root) # "red"
  /\ g \in m /\ g = t.parent[p] /\ Shade(t, g) # "red" /\ side \in Sides
  /\ Near(t, g, side) = p /\ Near(t, g, Other(side)) = y /\ y \in m \cup {Sentinel}

LEMMA FamilyOf ==
  ASSUME NEW m \in SUBSET Nodes, NEW t, NEW z, Climbing(t, m, z), Shade(t, t.parent[z]) = "red"
  PROVE  Family(t, m, z, t.parent[z], t.parent[t.parent[z]],
                Far(t, t.parent[t.parent[z]], SideOf(t, t.parent[z])), SideOf(t, t.parent[z]))
<1> USE DEF Climbing
<1>1. PICK p, g, side, y : /\ p = t.parent[z] /\ g = t.parent[p] /\ side = SideOf(t, p)
                           /\ y = Far(t, g, side)
  OBVIOUS
<1>2. Sound(t, m) /\ Shade(t, Sentinel) # "red" /\ Sentinel \notin m
  BY Basis
<1>3. p \in m /\ z # t.root /\ p # z
  BY <1>1, <1>2, ChildrenOf
<1>4. p # t.root /\ Shade(t, t.root) # "red"
  BY <1>1, <1>3
<1>5. g \in m /\ side \in Sides /\ Near(t, g, side) = p
  BY <1>1, <1>2, <1>3, <1>4, KidOf
<1>6. Shade(t, g) # "red"
  BY <1>1, <1>2, <1>3, <1>5 DEF Reds
<1>7. y = Near(t, g, Other(side)) /\ y \in m \cup {Sentinel}
  BY <1>1, <1>2, <1>5, OtherSide, SidesTwo, Kids
<1> QED BY <1>1, <1>3, <1>4, <1>5, <1>6, <1>7 DEF Family

LEMMA FamilyApart ==
  ASSUME NEW m \in SUBSET Nodes, NEW t, NEW z, Climbing(t, m, z), NEW p, NEW g, NEW y, NEW side,
         Family(t, m, z, p, g, y, side)
  PROVE  /\ p # z /\ g # p /\ g # z /\ y # p /\ y # g
         /\ \E s \in Sides : Near(t, p, s) = z
         /\ \A q \in m, s \in Sides :
              /\ Near(t, q, s) = z => q = p
              /\ Near(t, q, s) = p => q = g /\ s = side
              /\ Near(t, q, s) = y /\ y \in m => q = g /\ s = Other(side)
<1> USE DEF Climbing, Family
<1>1. Sound(t, m) /\ Sentinel \notin m /\ Other(side) \in Sides /\ Other(side) # side
  BY Members, SidesTwo DEF Good
<1>2. p # z /\ g # p /\ g # z
  BY <1>1, ChildrenOf, NoTwoCycle
<1>3. y # p /\ y # g
  BY <1>1, Kids
<1>4. \E s \in Sides : Near(t, p, s) = z
  BY <1>1, KidOf
<1>5. ASSUME NEW q \in m, NEW s \in Sides
      PROVE  /\ Near(t, q, s) = z => q = p
             /\ Near(t, q, s) = p => q = g /\ s = side
             /\ Near(t, q, s) = y /\ y \in m => q = g /\ s = Other(side)
  <2>1. Near(t, q, s) = z => q = p
    BY <1>1, Kids
  <2>2. Near(t, q, s) = p => q = g /\ s = side
    BY <1>1, Kids
  <2>3. Near(t, q, s) = y /\ y \in m => q = g /\ s = Other(side)
    BY <1>1, Kids
  <2> QED BY <2>1, <2>2, <2>3
<1> QED BY <1>2, <1>3, <1>4, <1>5

(* A red uncle: the red moves up.                                          *)
LEMMA RedUncle ==
  ASSUME NEW m \in SUBSET Nodes, NEW t, NEW z, Climbing(t, m, z), NEW p, NEW g, NEW y, NEW side,
         Family(t, m, z, p, g, y, side), Shade(t, y) = "red",
         NEW a, NEW b, NEW u, Blackens(t, a, p), Blackens(a, b, y), Reddens(b, u, g)
  PROVE  Climbing(u, m, g) /\ Repainted(t, u)
<1>f. /\ p \in m /\ z # t.root /\ Shade(t, t.root) # "red" /\ g \in m /\ Shade(t, g) # "red" /\ Shade(t, p) = "red" /\ side \in Sides
      /\ Near(t, g, side) = p /\ Near(t, g, Other(side)) = y /\ y \in m \cup {Sentinel}
  BY DEF Family
<1>0. /\ Good(t, m) /\ Sound(t, m) /\ t \in Trees /\ Shade(t, Sentinel) # "red" /\ y \in m /\ m \subseteq Pointers
      /\ Sentinel \notin m /\ Sentinel \in Pointers /\ m \subseteq Nodes
  BY <1>f, Basis DEF Climbing
<1>2. /\ Good(a, m) /\ Repainted(t, a)
      /\ \A q \in Pointers : Shade(a, q) = IF q = p THEN "black" ELSE Shade(t, q)
  BY <1>0, <1>f, Blackened
<1>3. /\ Good(b, m) /\ Repainted(a, b)
      /\ \A q \in Pointers : Shade(b, q) = IF q = y THEN "black" ELSE Shade(a, q)
  BY <1>0, <1>2, Blackened
<1>4. /\ Good(u, m) /\ Repainted(b, u)
      /\ \A q \in Pointers : Shade(u, q) = IF q = g THEN "red" ELSE Shade(b, q)
  BY <1>f, <1>3, Reddened
<1>5. Repainted(t, u)
  BY <1>2, <1>3, <1>4 DEF Repainted
<1>6. \A q \in Pointers : Shade(u, q) = IF q = g THEN "red" ELSE IF q \in {p, y} THEN "black" ELSE Shade(t, q)
  BY <1>2, <1>3, <1>4
<1>7. /\ p # z /\ g # p /\ g # z /\ y # p /\ y # g
      /\ \A q \in m, s \in Sides :
           /\ Near(t, q, s) = z => q = p
           /\ Near(t, q, s) = p => q = g /\ s = side
           /\ Near(t, q, s) = y => q = g /\ s = Other(side)
  BY <1>0, <1>f, FamilyApart
<1>8. \A q \in m, s \in Sides : /\ Near(u, q, s) = Near(t, q, s) /\ Near(t, q, s) \in m \cup {Sentinel}
                                /\ Near(t, q, s) # q
  <2> TAKE q \in m, s \in Sides
  <2>1. Near(u, q, s) = Near(t, q, s)
    BY <1>5, RepaintedSame
  <2> QED BY <1>0, <1>f, <2>1, Kids
<1>9. Reds(u, m, Sentinel, g)
  <2> SUFFICES ASSUME NEW q \in m, NEW s \in Sides, Shade(u, q) = "red", Shade(u, Near(t, q, s)) = "red", Near(t, q, s) # g
               PROVE  FALSE
    BY <1>8 DEF Reds
  <2>1. Near(t, q, s) \in m /\ Near(t, q, s) # p /\ Near(t, q, s) # y /\ q # p /\ q # y
    BY <1>0, <1>f, <1>6, <1>7, <1>8
  <2>2. q # g
    BY <1>f, <2>1, SidesTwo
  <2>3. Shade(t, q) = "red" /\ Shade(t, Near(t, q, s)) = "red"
    BY <1>0, <1>f, <1>6, <2>1, <2>2
  <2>4. Near(t, q, s) = z
    BY <1>0, <1>f, <2>3 DEF Climbing, Reds
  <2> QED BY <1>7, <2>1, <2>4
<1>10. Shade(u, u.root) = "red" => u.root = g
  <2>1. t.root \in m
    BY <1>0, <1>f, ChildrenOf
  <2> QED BY <1>0, <1>f, <1>5, <1>6, <2>1 DEF Repainted
<1>11. PICK c : Even(t, m, c, Sentinel, "left")
  BY DEF Climbing
<1>12. c \in [Nodes -> Nat] /\ \A q \in m : c[q] \in Nat /\ q # Sentinel
  BY <1>0, <1>f, <1>11 DEF Even
<1> DEFINE c2 == [c EXCEPT ![g] = c[g] + 1]
<1>13. c2 \in [Nodes -> Nat] /\ \A q \in m : c2[q] = IF q = g THEN c[g] + 1 ELSE c[q]
  BY <1>0, <1>f, <1>12
<1> HIDE DEF c2
<1>14. ASSUME NEW q \in m, NEW s \in Sides PROVE Tall(t, c, Near(t, q, s)) = c[q]
  <2>1. Tall(t, c, Near(t, q, s)) + 0 = c[q]
    BY <1>0, <1>f, <1>11, EvenAt
  <2> QED BY <1>0, <1>f, <1>8, <1>12, <2>1, TallTypes
<1>15. ASSUME NEW q \in m \cup {Sentinel}, q # p, q # y PROVE Tall(u, c2, q) = Tall(t, c, q)
  <2>1. CASE q = Sentinel
    BY <2>1 DEF Tall
  <2>2. CASE q \in m
    BY <1>0, <1>f, <1>6, <1>12, <1>13, <1>15, <2>2 DEF Tall
  <2> QED BY <2>1, <2>2
<1>16. Tall(u, c2, p) = c[g] + 1 /\ Tall(u, c2, y) = c[g] + 1
  <2>1. c[p] = c[g] /\ c[y] = c[g]
    <3>1. Tall(t, c, p) = c[g] /\ Tall(t, c, y) = c[g]
      BY <1>f, <1>14, SidesTwo
    <3> QED BY <1>0, <1>f, <1>12, <3>1 DEF Tall
  <2> QED BY <1>0, <1>f, <1>6, <1>7, <1>12, <1>13, <2>1 DEF Tall
<1>17. ASSUME NEW q \in m, NEW s \in Sides PROVE Tall(u, c2, Near(u, q, s)) = c2[q]
  <2>1. Tall(t, c, Near(t, q, s)) = c[q] /\ Near(u, q, s) = Near(t, q, s)
    BY <1>8, <1>14
  <2>2. CASE q = g
    <3>1. Near(t, q, s) \in {p, y}
      BY <1>f, <2>2, SidesTwo
    <3> QED BY <1>13, <1>16, <2>1, <2>2, <3>1
  <2>3. CASE q # g
    <3>1. Near(t, q, s) # p /\ Near(t, q, s) # y
      BY <1>7, <2>3
    <3> QED BY <1>8, <1>13, <1>15, <2>1, <2>3, <3>1
  <2> QED BY <2>2, <2>3
<1>18. Even(u, m, c2, Sentinel, "left")
  BY <1>0, <1>f, <1>12, <1>13, <1>17 DEF Even
<1>19. Shade(u, g) = "red"
  BY <1>0, <1>f, <1>6
<1> QED BY <1>f, <1>4, <1>5, <1>9, <1>10, <1>18, <1>19 DEF Climbing

LEMMA ColoursKept ==
  ASSUME NEW t, NEW u, SameColours(t, u)
  PROVE  \A q : Shade(u, q) = Shade(t, q)
BY DEF SameColours, Shade

LEMMA TwoShades == \A t, q : Shade(t, q) = "red" \/ Shade(t, q) = "black"
BY DEF Shade

LEMMA Unpainted == \A t : Repainted(t, t)
BY DEF Repainted

(* A black uncle, and z the inner child of p: p goes below it.             *)
LEMMA InnerTurned ==
  ASSUME NEW m \in SUBSET Nodes, NEW t, NEW z, Climbing(t, m, z), NEW p, NEW g, NEW y, NEW side,
         Family(t, m, z, p, g, y, side), Shade(t, y) # "red", z = Near(t, p, Other(side)),
         NEW u, u = RotateTo(t, p, side)
  PROVE  /\ Climbing(u, m, p) /\ Family(u, m, p, z, g, y, side)
         /\ Shade(u, y) # "red" /\ p = Near(u, z, side)
<1>f. /\ p \in m /\ p = t.parent[z] /\ z # t.root /\ Shade(t, t.root) # "red" /\ g \in m /\ g = t.parent[p]
      /\ Shade(t, g) # "red" /\ Shade(t, p) = "red" /\ side \in Sides
      /\ Near(t, g, side) = p /\ Near(t, g, Other(side)) = y /\ y \in m \cup {Sentinel}
  BY DEF Family
<1>c. Good(t, m) /\ z \in m /\ Shade(t, z) = "red" /\ Reds(t, m, Sentinel, z)
  BY DEF Climbing
<1>0. /\ Sound(t, m) /\ t \in Trees /\ Shade(t, Sentinel) # "red" /\ m \subseteq Pointers
      /\ Sentinel \notin m /\ Sentinel \in Pointers /\ Other(side) \in Sides /\ Other(side) # side
  BY <1>f, <1>c, Basis, SidesTwo
<1>1. p # z /\ g # p /\ g # z /\ y # p /\ y # g
  BY FamilyApart
<1>2. Good(u, m) /\ SameColours(t, u) /\ Swings(t, u, m, p, z, side)
  BY <1>0, <1>f, <1>c, Unpainted, Swung
<1>3. \A q : Shade(u, q) = Shade(t, q)
  BY <1>2, ColoursKept
<1>4. SwapColours(t, u, p, z)
  BY <1>f, <1>c, <1>3 DEF SwapColours
<1>5. u \in Trees
  BY <1>2, Basis
<1>6. PICK c : Even(t, m, c, Sentinel, "left")
  BY DEF Climbing
<1>7. Even(u, m, c, Sentinel, "left")
  BY <1>0, <1>f, <1>c, <1>2, <1>4, <1>5, <1>6, SwungEven
<1>8. Shade(t, Near(t, p, side)) # "red"
  <2>1. Near(t, p, side) # z
    BY <1>0, <1>c, <1>f, Kids
  <2> QED BY <1>0, <1>c, <1>f, <2>1 DEF Reds
<1>9. ASSUME NEW s \in Sides PROVE Shade(t, Near(t, z, s)) # "red"
  <2>1. Near(t, z, s) # z
    BY <1>0, <1>c, Kids
  <2> QED BY <1>0, <1>c, <2>1 DEF Reds
<1>10. /\ \A q \in m, s \in Sides : Shade(u, q) = "red" /\ Shade(u, Near(u, q, s)) = "red"
                                    => Shade(t, p) = "red" /\ Near(u, q, s) = p
       /\ Shade(u, u.root) = Shade(t, t.root)
  <2>1. Shade(t, Near(t, z, side)) # "red" /\ Shade(t, Near(t, z, Other(side))) # "red"
    BY <1>0, <1>f, <1>9
  <2> QED BY <1>0, <1>f, <1>c, <1>2, <1>4, <1>8, <2>1, SwungReds
<1>11. Climbing(u, m, p)
  BY SMTT(40), <1>2, <1>3, <1>f, <1>7, <1>10 DEF Climbing, Reds
<1>12. /\ u.root = IF p = t.root THEN z ELSE t.root
       /\ u.parent[p] = z /\ u.parent[z] = t.parent[p]
       /\ \A q \in m, s \in Sides :
            Near(u, q, s) = IF q = p /\ s # side THEN Near(t, z, side)
                            ELSE IF q = z /\ s = side THEN p
                            ELSE IF Near(t, q, s) = p THEN z ELSE Near(t, q, s)
  BY <1>f, <1>c, <1>1, <1>2 DEF Swings
<1>13. p # u.root
  BY <1>1, <1>12
<1>14. Near(u, g, side) = z /\ Near(u, g, Other(side)) = y /\ Near(u, z, side) = p
  BY <1>0, <1>f, <1>c, <1>1, <1>12
<1>15. Family(u, m, p, z, g, y, side)
  BY <1>f, <1>c, <1>3, <1>10, <1>12, <1>13, <1>14 DEF Family
<1> QED BY <1>3, <1>11, <1>14, <1>15

(* A black uncle, and z the outer child: p goes above g and takes its      *)
(* colour.                                                                 *)
LEMMA ParentRaised ==
  ASSUME NEW m \in SUBSET Nodes, NEW t, NEW z, Climbing(t, m, z), NEW p, NEW g, NEW y, NEW side,
         Family(t, m, z, p, g, y, side), Shade(t, y) # "red", z = Near(t, p, side),
         NEW a, NEW b, NEW u, Blackens(t, a, p), Reddens(a, b, g), u = RotateFrom(b, g, side)
  PROVE  Climbing(u, m, z) /\ Shade(u, u.parent[z]) # "red"
<1>f. /\ p \in m /\ p = t.parent[z] /\ z # t.root /\ Shade(t, t.root) # "red" /\ g \in m
      /\ Shade(t, g) # "red" /\ Shade(t, p) = "red" /\ side \in Sides
      /\ Near(t, g, side) = p /\ Near(t, g, Other(side)) = y /\ y \in m \cup {Sentinel}
  BY DEF Family
<1>c. Good(t, m) /\ z \in m /\ Shade(t, z) = "red" /\ Reds(t, m, Sentinel, z)
  BY DEF Climbing
<1>0. /\ Sound(t, m) /\ t \in Trees /\ Shade(t, Sentinel) # "red" /\ m \subseteq Pointers
      /\ Sentinel \notin m /\ Sentinel \in Pointers /\ Other(side) \in Sides /\ Other(side) # side
      /\ Other(Other(side)) = side
  BY <1>f, <1>c, Basis, SidesTwo
<1>1. p # z /\ g # p /\ g # z
  BY FamilyApart
<1>2. /\ Good(a, m) /\ Repainted(t, a)
      /\ \A q \in Pointers : Shade(a, q) = IF q = p THEN "black" ELSE Shade(t, q)
  <2>1. Good(t, m) /\ p \in m
    BY <1>c, <1>f
  <2> QED BY <2>1, Blackened
<1>3. /\ Good(b, m) /\ Repainted(a, b)
      /\ \A q \in Pointers : Shade(b, q) = IF q = g THEN "red" ELSE Shade(a, q)
  <2>1. Good(a, m)
    BY <1>2
  <2> QED BY <1>f, <2>1, Reddened
<1>4. Repainted(t, b)
  BY <1>2, <1>3 DEF Repainted
<1>5. u = RotateTo(b, g, Other(side))
  BY <1>f, OtherSide
<1>6. Good(u, m) /\ SameColours(b, u) /\ Swings(t, u, m, g, p, Other(side))
  BY <1>0, <1>f, <1>3, <1>4, <1>5, Swung
<1>7. \A q \in Pointers : Shade(u, q) = IF q = g THEN "red" ELSE IF q = p THEN "black" ELSE Shade(t, q)
  <2>1. \A q : Shade(u, q) = Shade(b, q)
    BY <1>6, ColoursKept
  <2> QED BY <1>2, <1>3, <2>1
<1>8. SwapColours(t, u, g, p)
  <2>1. Shade(t, g) = "black"
    BY <1>f, TwoShades
  <2> QED BY <1>0, <1>f, <1>1, <1>7, <2>1 DEF SwapColours
<1>9. u \in Trees
  BY <1>6, Basis
<1>10. PICK c : Even(t, m, c, Sentinel, "left")
  BY DEF Climbing
<1>11. Even(u, m, c, Sentinel, "left")
  BY <1>0, <1>f, <1>6, <1>8, <1>9, <1>10, SwungEven
<1>12. Shade(t, Near(t, p, Other(side))) # "red"
  <2>1. Near(t, p, Other(side)) # z
    BY <1>0, <1>c, <1>f, Kids
  <2> QED BY <1>0, <1>c, <1>f, <2>1 DEF Reds
<1>13. /\ \A q \in m, s \in Sides : Shade(u, q) = "red" /\ Shade(u, Near(u, q, s)) = "red"
                                    => Shade(t, g) = "red" /\ Near(u, q, s) = g
       /\ Shade(u, u.root) = Shade(t, t.root)
  BY SMTT(40), <1>0, <1>f, <1>c, <1>6, <1>8, <1>12, SwungReds
<1>14. Reds(u, m, Sentinel, z)
  BY <1>f, <1>13 DEF Reds
<1>15. Shade(u, z) = "red" /\ Shade(u, p) = "black"
  BY <1>0, <1>f, <1>c, <1>1, <1>7
<1>16. u.parent[z] = p
  <2>1. z # Near(t, p, Other(side))
    BY <1>0, <1>c, <1>f, Kids
  <2> QED BY <1>c, <1>f, <1>1, <1>6, <2>1 DEF Swings
<1>17. Climbing(u, m, z)
  BY <1>c, <1>f, <1>6, <1>11, <1>13, <1>14, <1>15 DEF Climbing
<1> QED BY <1>15, <1>16, <1>17

(* How far x is from being the root: the items that its subtree covers lie *)
(* in an interval this wide at least.                                      *)
Span(t, m, x, k) ==
  \/ k = 0
  \/ /\ x \in m
     /\ \E lo, hi : Layout(m, t.root, t.left, t.right, t.parent, lo, hi) /\ hi[x] - lo[x] >= k

LEMMA SpanUp ==
  ASSUME NEW m \in SUBSET Nodes, NEW t, Sound(t, m), NEW u, Repainted(t, u), NEW k \in Nat,
         NEW x, x \in m \/ (x = Sentinel /\ k = 0), Span(t, m, x, k),
         NEW p \in m, p = t.parent[x]
  PROVE  Span(u, m, p, k + 1)
<1>1. PICK lo, hi : /\ Layout(m, t.root, t.left, t.right, t.parent, lo, hi)
                    /\ k = 0 \/ (x \in m /\ hi[x] - lo[x] >= k)
  <2>1. \E lo, hi : Layout(m, t.root, t.left, t.right, t.parent, lo, hi)
    BY DEF Sound, Shape
  <2> QED BY <2>1 DEF Span
<1>2. /\ lo[p] \in Nat /\ hi[p] \in Nat /\ p \in Nat /\ lo[p] < p /\ p < hi[p]
      /\ Sentinel \notin m
  <2>1. lo \in [Nodes -> Pointers] /\ hi \in [Nodes -> Pointers] /\ Intervals(m, lo, hi)
    BY <1>1 DEF Layout
  <2>2. lo[p] \in Nat /\ hi[p] \in Nat /\ p \in Nat
    BY <2>1, Basics
  <2> QED BY <2>1, <2>2, Members DEF Intervals
<1>3. hi[p] - lo[p] >= k + 1
  <2>1. CASE k = 0
    BY <1>2, <2>1
  <2>2. CASE k # 0
    <3>1. x \in m /\ hi[x] - lo[x] >= k
      BY <1>1, <2>2
    <3>2. x # t.root
      <4>1. ASSUME NEW r \in m, r = t.root PROVE t.parent[r] = Sentinel
        BY <4>1, ChildrenOf
      <4> QED BY <1>2, <3>1, <4>1
    <3>3. x \in {t.left[p], t.right[p]} /\ ChildOn(t.left[p], p, lo[p], p, t.parent, m, lo, hi)
          /\ ChildOn(t.right[p], p, p, hi[p], t.parent, m, lo, hi)
      BY <1>1, <3>1, <3>2 DEF Layout, Linked
    <3>4. (lo[x] = lo[p] /\ hi[x] = p) \/ (lo[x] = p /\ hi[x] = hi[p])
      BY <1>2, <3>1, <3>3 DEF ChildOn
    <3> QED BY <1>2, <3>1, <3>4
  <2> QED BY <2>1, <2>2
<1>4. Layout(m, u.root, u.left, u.right, u.parent, lo, hi)
  BY <1>1 DEF Repainted
<1> QED BY <1>3, <1>4 DEF Span

LEMMA SpanLess ==
  ASSUME NEW m \in SUBSET Nodes, NEW t, NEW x, NEW k \in Nat, Span(t, m, x, k + 1)
  PROVE  Span(t, m, x, k)
<1>1. PICK lo, hi : Layout(m, t.root, t.left, t.right, t.parent, lo, hi) /\ x \in m /\ hi[x] - lo[x] >= k + 1
  BY DEF Span
<1>2. hi[x] \in Nat /\ lo[x] \in Nat
  BY <1>1, Basics DEF Layout
<1>3. hi[x] - lo[x] >= k
  BY <1>1, <1>2
<1> QED BY <1>1, <1>3 DEF Span

LEMMA SpanBounded ==
  ASSUME NEW m \in SUBSET Nodes, NEW t, NEW x, Span(t, m, x, LoopBound) PROVE FALSE
<1>1. LoopBound = N + 2 /\ N \in Nat /\ LoopBound # 0
  BY Basics DEF LoopBound
<1>2. PICK lo, hi : Layout(m, t.root, t.left, t.right, t.parent, lo, hi) /\ x \in m /\ hi[x] - lo[x] >= N + 2
  BY <1>1 DEF Span
<1>3. hi[x] \in 0 .. N + 1 /\ lo[x] \in 0 .. N + 1
  BY <1>2 DEF Layout, Pointers
<1> QED BY <1>1, <1>2, <1>3

(* The root may be painted black at any time.                              *)
LEMMA RootBlackened ==
  ASSUME NEW m \in SUBSET Nodes, NEW t, Good(t, m), t.root \in m, NEW c, Even(t, m, c, Sentinel, "left"),
         NEW b, Reds(t, m, Sentinel, b), b \in m => Shade(t, t.parent[b]) # "red",
         NEW u, Blackens(t, u, t.root)
  PROVE  Good(u, m) /\ Level(u, m, c)
<1>0. /\ Sound(t, m) /\ Shade(t, Sentinel) # "red" /\ m \subseteq Pointers /\ Sentinel \notin m
      /\ Sentinel \in Pointers
  BY Basis
<1>1. /\ Good(u, m) /\ Repainted(t, u)
      /\ \A q \in Pointers : Shade(u, q) = IF q = t.root THEN "black" ELSE Shade(t, q)
  <2>1. t.root \in m
    OBVIOUS
  <2> QED BY <2>1, Blackened
<1>2. \A q \in m, s \in Sides : /\ Near(u, q, s) = Near(t, q, s) /\ Near(t, q, s) \in m \cup {Sentinel}
                                /\ Near(t, q, s) # t.root
                                /\ Near(t, q, s) \in m => t.parent[Near(t, q, s)] = q
  <2> TAKE q \in m, s \in Sides
  <2>1. Near(u, q, s) = Near(t, q, s)
    BY <1>1, RepaintedSame
  <2>2. /\ Near(t, q, s) \in m \cup {Sentinel}
        /\ Near(t, q, s) \in m => t.parent[Near(t, q, s)] = q /\ Near(t, q, s) # t.root
    BY <1>0, Kids
  <2> QED BY <1>0, <2>1, <2>2
<1>3. Reds(u, m, Sentinel, Sentinel)
  <2> SUFFICES ASSUME NEW q \in m, NEW s \in Sides, Shade(u, q) = "red", Shade(u, Near(u, q, s)) = "red"
               PROVE  FALSE
    BY DEF Reds
  <2>1. Near(t, q, s) \in Pointers /\ Near(u, q, s) = Near(t, q, s)
    BY <1>0, <1>2
  <2>2. Shade(t, q) = "red" /\ Shade(t, Near(t, q, s)) = "red"
    BY <1>0, <1>1, <2>1
  <2>3. Near(t, q, s) = b
    BY <1>0, <2>2 DEF Reds
  <2>4. b \in m /\ t.parent[b] = q
    BY <1>0, <1>2, <2>2, <2>3
  <2> QED BY <2>2, <2>4
<1>4. ASSUME NEW q \in m \cup {Sentinel}, q # t.root PROVE Tall(u, c, q) = Tall(t, c, q)
  <2>1. Shade(u, q) = Shade(t, q)
    BY <1>0, <1>1, <1>4
  <2> QED BY <2>1 DEF Tall
<1>5. Even(u, m, c, Sentinel, "left")
  BY <1>2, <1>4 DEF Even
<1>6. Shade(u, u.root) # "red"
  <2>1. u.root = t.root /\ t.root \in Pointers
    BY <1>0, <1>1 DEF Repainted
  <2> QED BY <1>1, <2>1
<1> QED BY <1>1, <1>3, <1>5, <1>6 DEF Level

(* One run of InsertFixup's body.                                          *)
LEMMA InsertPassClimbs ==
  ASSUME NEW m \in SUBSET Nodes, NEW t, NEW z, Climbing(t, m, z), NEW r, r = InsertPass(t, z)
  PROVE  /\ r \in Fixups /\ Climbing(r.tree, m, r.at)
         /\ Shade(t, t.parent[z]) # "red" => r = Fixup(t, z)
         /\ Shade(r.tree, r.tree.parent[r.at]) = "red"
            => /\ Repainted(t, r.tree) /\ r.at = t.parent[t.parent[z]]
               /\ t.parent[z] \in m /\ t.parent[t.parent[z]] \in m
<1>1. PICK p, g, side, y : /\ p = t.parent[z] /\ g = t.parent[p] /\ side = SideOf(t, p)
                           /\ y = Far(t, g, side)
  OBVIOUS
<1>2. Good(t, m) /\ z \in m
  BY DEF Climbing
<1>3. /\ Sound(t, m) /\ t \in Trees /\ ~Broken(t) /\ Shade(t, Sentinel) # "red" /\ Shade(t, Null) # "red"
      /\ m \subseteq Pointers /\ Sentinel \notin m /\ Null \notin m /\ Sentinel \in Pointers
      /\ Sentinel # Null
      /\ \A q \in Pointers : Shade(t, q) = "red" <=> t.red[q]
  BY <1>2, Basis, Members
<1>4. p \in m \cup {Sentinel} /\ p \in Pointers /\ p # Null
  BY <1>1, <1>2, <1>3, ChildrenOf
<1>5. CASE Shade(t, p) # "red"
  <2>1. r = Fixup(t, z)
    BY <1>1, <1>3, <1>4, <1>5 DEF InsertPass
  <2>2. Fixup(t, z) \in Fixups /\ Fixup(t, z).tree = t /\ Fixup(t, z).at = z
    BY <1>2, <1>3, Fixed
  <2> QED BY <1>1, <1>5, <2>1, <2>2
<1>6. CASE Shade(t, p) = "red"
  <2>1. Family(t, m, z, p, g, y, side)
    BY <1>1, <1>6, FamilyOf
  <2>2. /\ p \in m /\ g \in m /\ side \in Sides /\ y \in m \cup {Sentinel} /\ y \in Pointers /\ y # Null
        /\ Far(t, p, side) = Near(t, p, Other(side)) /\ Near(t, g, side) = p
    <3>1. p \in m /\ g \in m /\ side \in Sides /\ y \in m \cup {Sentinel} /\ Near(t, g, side) = p
      BY <2>1 DEF Family
    <3> QED BY <1>3, <3>1, OtherSide
  <2>3. t.red[p] /\ (t.red[y] <=> Shade(t, y) = "red")
    BY <1>3, <1>4, <1>6, <2>2
  <2>4. CASE Shade(t, y) = "red"
    <3>1. PICK a, b, u : a = SetRed(t, p, FALSE) /\ b = SetRed(a, y, FALSE) /\ u = SetRed(b, g, TRUE)
      OBVIOUS
    <3>2. r = Fixup(u, g)
      BY <1>1, <1>3, <1>4, <2>2, <2>3, <2>4, <3>1 DEF InsertPass
    <3>3. Climbing(u, m, g) /\ Repainted(t, u)
      <4>1. Blackens(t, a, p) /\ Blackens(a, b, y) /\ Reddens(b, u, g)
        BY <3>1 DEF Blackens, Reddens
      <4> HIDE <3>1
      <4> QED BY <2>1, <2>4, <4>1, RedUncle
    <3>4. u \in Trees /\ g \in Pointers
      BY <1>3, <2>2, <3>3, Basis DEF Climbing
    <3>5. r \in Fixups /\ r.tree = u /\ r.at = g
      BY <3>2, <3>4, Fixed
    <3> QED BY <1>1, <1>6, <2>2, <3>3, <3>5
  <2>5. CASE Shade(t, y) # "red"
    <3>1. PICK z1, t1 : /\ z1 = IF z = Far(t, p, side) THEN p ELSE z
                        /\ t1 = IF z = Far(t, p, side) THEN RotateTo(t, p, side) ELSE t
      OBVIOUS
    <3>2. r = Fixup(RaiseParent(t1, z1, side), z1)
      BY <1>1, <1>3, <1>4, <2>2, <2>3, <2>5, <3>1 DEF InsertPass
    <3>3. PICK p1 : Climbing(t1, m, z1) /\ Family(t1, m, z1, p1, g, y, side) /\ Shade(t1, y) # "red"
                    /\ z1 = Near(t1, p1, side)
      <4>1. CASE z = Far(t, p, side)
        <5>1. z1 = p /\ t1 = RotateTo(t, p, side) /\ z = Near(t, p, Other(side))
          BY <2>2, <3>1, <4>1
        <5> QED BY <2>1, <2>5, <5>1, InnerTurned
      <4>2. CASE z # Far(t, p, side)
        <5>1. z1 = z /\ t1 = t
          BY <3>1, <4>2
        <5>2. z = Near(t, p, side)
          <6>1. \E s \in Sides : Near(t, p, s) = z
            BY <2>1, FamilyApart
          <6> QED BY <2>2, <4>2, <6>1, SidesTwo
        <5> QED BY <2>1, <2>5, <5>1, <5>2
      <4> QED BY <4>1, <4>2
    <3>4. p1 = t1.parent[z1] /\ g = t1.parent[p1] /\ p1 \in m /\ g \in m /\ side \in Sides
      BY <3>3 DEF Family
    <3>5. PICK a, b : a = SetRed(t1, p1, FALSE) /\ b = SetRed(a, t1.parent[p1], TRUE)
      OBVIOUS
    <3>6. Blackens(t1, a, p1) /\ Reddens(a, b, g)
      BY <3>4, <3>5 DEF Blackens, Reddens
    <3>7. b.parent[p1] = g
      <4>1. Good(t1, m)
        BY <3>3 DEF Climbing
      <4>2. Good(a, m) /\ Repainted(t1, a)
        BY <3>4, <3>6, <4>1, Blackened
      <4>3. Repainted(a, b)
        BY <3>4, <3>6, <4>2, Reddened
      <4> QED BY <3>4, <4>2, <4>3 DEF Repainted
    <3>8. RaiseParent(t1, z1, side) = RotateFrom(b, g, side)
      <4>1. a.parent = t1.parent
        <5>1. Good(t1, m)
          BY <3>3 DEF Climbing
        <5>2. Repainted(t1, a)
          BY <3>4, <3>6, <5>1, Blackened
        <5> QED BY <5>2 DEF Repainted
      <4> QED BY <3>4, <3>5, <3>7, <4>1 DEF RaiseParent
    <3>9. PICK u : u = RotateFrom(b, g, side)
      OBVIOUS
    <3>10. Climbing(u, m, z1) /\ Shade(u, u.parent[z1]) # "red"
      <4> HIDE <3>5
      <4> QED BY <3>3, <3>6, <3>9, ParentRaised
    <3>11. u \in Trees /\ z1 \in Pointers
      <4>1. Good(u, m) /\ z1 \in m
        BY <3>10 DEF Climbing
      <4> QED BY <1>3, <4>1, Basis
    <3>12. r \in Fixups /\ r.tree = u /\ r.at = z1
      BY <3>2, <3>8, <3>9, <3>11, Fixed
    <3> QED BY <1>1, <1>6, <3>10, <3>12
  <2> QED BY <2>4, <2>5
<1> QED BY <1>5, <1>6

(* All of InsertFixup.                                                     *)
LEMMA InsertFixupLevels ==
  ASSUME NEW m \in SUBSET Nodes, NEW t, NEW z, Climbing(t, m, z)
  PROVE  Good(InsertFixup(t, z), m) /\ \E c : Level(InsertFixup(t, z), m, c)
<1> DEFINE body == [c \in Fixups |-> InsertPass(c.tree, c.at)]
           P == [k \in 0 .. LoopBound |->
                   {c \in Fixups : /\ Climbing(c.tree, m, c.at)
                                   /\ \/ Shade(c.tree, c.tree.parent[c.at]) # "red"
                                      \/ Span(c.tree, m, c.at, k)}]
<1>1. LoopBound \in Nat
  BY Basics DEF LoopBound
<1>2. ASSUME NEW k \in 1 .. LoopBound, NEW c \in P[k - 1] PROVE body[c] \in P[k]
  <2>1. k - 1 \in Nat /\ k - 1 \in 0 .. LoopBound /\ k \in 0 .. LoopBound /\ (k - 1) + 1 = k
    BY <1>1
  <2>2. PICK a, x, r : a = c.tree /\ x = c.at /\ r = InsertPass(a, x)
    OBVIOUS
  <2>3. /\ c \in Fixups /\ Climbing(a, m, x)
        /\ Shade(a, a.parent[x]) # "red" \/ Span(a, m, x, k - 1)
    BY <2>1, <2>2
  <2>4. c = Fixup(a, x) /\ body[c] = r
    BY <2>2, <2>3 DEF Fixup, Fixups
  <2>5. /\ r \in Fixups /\ Climbing(r.tree, m, r.at)
        /\ Shade(a, a.parent[x]) # "red" => r = Fixup(a, x)
        /\ Shade(r.tree, r.tree.parent[r.at]) = "red"
           => /\ Repainted(a, r.tree) /\ r.at = a.parent[a.parent[x]]
              /\ a.parent[x] \in m /\ a.parent[a.parent[x]] \in m
    BY SMTT(40), <2>2, <2>3, InsertPassClimbs
  <2>6. Shade(r.tree, r.tree.parent[r.at]) # "red" \/ Span(r.tree, m, r.at, k)
    <3>1. CASE Shade(a, a.parent[x]) # "red"
      <4>1. r.tree = a /\ r.at = x
        BY <2>2, <2>4, <2>5, <3>1
      <4> QED BY SMTT(40), <3>1, <4>1
    <3>2. CASE Span(a, m, x, k - 1) /\ Shade(r.tree, r.tree.parent[r.at]) = "red"
      <4>1. PICK p, g : /\ p = a.parent[x] /\ g = a.parent[p] /\ p \in m /\ g \in m
                        /\ r.at = g /\ Repainted(a, r.tree)
        BY <2>5, <3>2
      <4>2. Sound(a, m) /\ x \in m /\ Repainted(a, a)
        BY <2>3, Basis, Unpainted DEF Climbing
      <4>3. Span(a, m, p, k)
        BY <2>1, <3>2, <4>1, <4>2, SpanUp
      <4>4. k \in Nat
        BY <2>1
      <4>5. Span(r.tree, m, g, k + 1)
        BY <4>1, <4>2, <4>3, <4>4, SpanUp
      <4>6. Span(r.tree, m, g, k)
        BY <4>4, <4>5, SpanLess
      <4> QED BY <4>1, <4>6
    <3> QED BY <2>3, <3>1, <3>2
  <2> QED BY <2>1, <2>4, <2>5, <2>6
<1>3. Fixup(t, z) \in P[0]
  <2>1. t \in Trees /\ z \in Pointers
    <3>1. Good(t, m) /\ z \in m
      BY DEF Climbing
    <3> QED BY <3>1, Basis
  <2>2. Fixup(t, z) \in Fixups /\ Fixup(t, z).tree = t /\ Fixup(t, z).at = z
    BY <2>1, Fixed
  <2>3. Span(t, m, z, 0) /\ 0 \in 0 .. LoopBound
    BY <1>1 DEF Span
  <2> QED BY <2>2, <2>3
<1>4. PICK e : e = Iterated(body, Fixup(t, z), LoopBound)
  OBVIOUS
<1>5. e \in P[LoopBound]
  <2> HIDE DEF P, body
  <2> QED BY <1>1, <1>2, <1>3, <1>4, IteratedGoes
<1>6. e \in Fixups /\ Climbing(e.tree, m, e.at) /\ Shade(e.tree, e.tree.parent[e.at]) # "red"
  <2>1. LoopBound \in 0 .. LoopBound
    BY <1>1
  <2> QED BY <1>5, <2>1, SpanBounded
<1>7. InsertFixup(t, z) = InsertEnd(e.tree, e.at)
  BY <1>4 DEF InsertFixup
<1> HIDE DEF P, body
<1>8. PICK a, x : a = e.tree /\ x = e.at
  OBVIOUS
<1>9. Good(a, m) /\ x \in m /\ Reds(a, m, Sentinel, x) /\ Shade(a, a.parent[x]) # "red"
  BY <1>6, <1>8 DEF Climbing
<1>10. PICK c : Even(a, m, c, Sentinel, "left")
  BY <1>6, <1>8 DEF Climbing
<1>11. a.root \in m /\ a.parent[x] \in Pointers
  <2>1. a.root \in m /\ a.parent[x] \in m \cup {Sentinel}
    BY <1>9, Basis, ChildrenOf
  <2> QED BY <1>9, <2>1, Basis
<1>12. InsertFixup(t, z) = SetRed(a, a.root, FALSE)
  <2>1. ~Broken(a) /\ ~a.red[a.parent[x]]
    BY <1>9, <1>11, Basis
  <2> QED BY <1>7, <1>8, <2>1 DEF InsertEnd
<1>13. Blackens(a, InsertFixup(t, z), a.root)
  BY <1>12 DEF Blackens
<1>14. Good(InsertFixup(t, z), m) /\ Level(InsertFixup(t, z), m, c)
  BY <1>9, <1>10, <1>11, <1>13, RootBlackened
<1> QED BY <1>14

(* The descent does not follow a null pointer, and ends.                   *)
LEMMA DescentFinds ==
  ASSUME NEW m \in SUBSET Nodes, NEW t, Good(t, m), NEW z \in Nodes \ m
  PROVE  Descent(t, z)[1] = Sentinel
<1>0. /\ t \in Trees /\ Sound(t, m) /\ m \subseteq Pointers /\ Sentinel \notin m /\ Null \notin m
      /\ Sentinel \in Pointers /\ Sentinel # Null /\ N \in Nat /\ LoopBound = N + 2
  BY Basis, Basics DEF LoopBound
<1>1. PICK lo, hi : Layout(m, t.root, t.left, t.right, t.parent, lo, hi)
  BY <1>0 DEF Sound, Shape
<1> DEFINE body == [c \in Pointers \X Pointers |->
                      IF c[1] \in {Sentinel, Null} THEN c ELSE <<ChildFor(t, z, c[1]), c[1]>>]
           P == [k \in 0 .. LoopBound |->
                   {c \in Pointers \X Pointers :
                      c[1] = Sentinel \/ (c[1] \in m /\ hi[c[1]] - lo[c[1]] <= N + 1 - k)}]
<1>2. \A q \in m : /\ lo[q] \in Nat /\ hi[q] \in Nat /\ q \in Nat /\ lo[q] < q /\ q < hi[q]
                   /\ lo[q] >= 0 /\ hi[q] <= N + 1
  <2> TAKE q \in m
  <2>1. lo \in [Nodes -> Pointers] /\ hi \in [Nodes -> Pointers] /\ Intervals(m, lo, hi)
    BY <1>1 DEF Layout
  <2>2. lo[q] \in 0 .. N + 1 /\ hi[q] \in 0 .. N + 1 /\ q \in Nat
    BY <2>1, Basics DEF Pointers
  <2> QED BY <1>0, <2>1, <2>2 DEF Intervals
<1>3. ASSUME NEW k \in 1 .. LoopBound, NEW c \in P[k - 1] PROVE body[c] \in P[k]
  <2>1. k - 1 \in 0 .. LoopBound /\ k \in 0 .. LoopBound /\ k \in Nat
    BY <1>0
  <2>2. /\ c \in Pointers \X Pointers
        /\ c[1] = Sentinel \/ (c[1] \in m /\ hi[c[1]] - lo[c[1]] <= N + 1 - (k - 1))
    BY <2>1
  <2>3. CASE c[1] = Sentinel
    <3>1. body[c] = c
      BY <2>2, <2>3
    <3> QED BY <2>1, <2>2, <2>3, <3>1
  <2>4. CASE c[1] # Sentinel
    <3>1. PICK q : q = c[1] /\ q \in m /\ hi[q] - lo[q] <= N + 1 - (k - 1)
      BY <2>2, <2>4
    <3>2. body[c] = <<ChildFor(t, z, q), q>>
      BY <1>0, <2>2, <3>1
    <3>3. PICK x : x = ChildFor(t, z, q)
      OBVIOUS
    <3>4. ChildOn(x, q, lo[q], q, t.parent, m, lo, hi) \/ ChildOn(x, q, q, hi[q], t.parent, m, lo, hi)
      BY <1>1, <3>1, <3>3 DEF ChildFor, Layout, Linked
    <3>5. x = Sentinel \/ (x \in m /\ hi[x] - lo[x] <= N + 1 - k)
      <4>1. x = Sentinel \/ (x \in m /\ lo[x] = lo[q] /\ hi[x] = q) \/ (x \in m /\ lo[x] = q /\ hi[x] = hi[q])
        BY <3>4 DEF ChildOn
      <4> QED BY <1>0, <1>2, <2>1, <3>1, <4>1
    <3>6. x \in Pointers /\ q \in Pointers
      BY <1>0, <3>1, <3>5
    <3>7. <<x, q>> \in P[k]
      BY <2>1, <3>5, <3>6
    <3> QED BY <3>2, <3>3, <3>7
  <2> QED BY <2>3, <2>4
<1>4. <<t.root, Sentinel>> \in P[0]
  <2>1. ChildOn(t.root, Sentinel, 0, N + 1, t.parent, m, lo, hi)
    BY <1>1 DEF Layout, Linked
  <2>2. t.root = Sentinel \/ (t.root \in m /\ hi[t.root] - lo[t.root] <= N + 1 - 0)
    BY <1>0, <2>1 DEF ChildOn
  <2>3. 0 \in 0 .. LoopBound /\ t.root \in Pointers
    BY <1>0, <2>2
  <2> QED BY <1>0, <2>2, <2>3
<1>5. LoopBound \in Nat /\ Descent(t, z) = Iterated(body, <<t.root, Sentinel>>, LoopBound)
  BY <1>0 DEF Descent
<1>6. Descent(t, z) \in P[LoopBound]
  <2> HIDE DEF P, body
  <2> QED BY <1>3, <1>4, <1>5, IteratedGoes
<1>7. PICK x : x = Descent(t, z)[1]
  OBVIOUS
<1>8. x = Sentinel \/ (x \in m /\ hi[x] - lo[x] <= N + 1 - LoopBound)
  <2>1. LoopBound \in 0 .. LoopBound
    BY <1>5
  <2> QED BY <1>6, <1>7, <2>1
<1> QED BY <1>0, <1>2, <1>7, <1>8

(* z as a leaf is where InsertFixup starts.                                *)
LEMMA LeafClimbs ==
  ASSUME NEW m \in SUBSET Nodes, NEW t, Good(t, m), NEW c, Level(t, m, c), NEW z \in Nodes \ m,
         NEW u, NEW y, Leafed(t, u, m, z, y)
  PROVE  Climbing(u, m \cup {z}, z)
<1>0. /\ Sound(t, m) /\ Shade(t, Sentinel) # "red" /\ m \subseteq Pointers /\ Sentinel \notin m
      /\ Sentinel \in Pointers /\ z \notin m /\ z \in Pointers /\ z # Sentinel
  BY Basis, Basics
<1>1. PICK side : side = IF z < y THEN "left" ELSE "right"
  OBVIOUS
<1>2. ASSUME NEW q \in m, NEW s \in Sides
      PROVE  /\ Near(u, q, s) = IF q = y /\ s = side THEN z ELSE Near(t, q, s)
             /\ Near(t, q, s) \in m \cup {Sentinel} /\ Near(t, q, s) # z
             /\ q = y /\ s = side => Near(t, q, s) = Sentinel
  <2>1. q \in Pointers /\ q # z /\ q # Sentinel /\ s \in {"left", "right"}
    BY <1>0 DEF Sides
  <2>2. /\ u.left[q] = IF q = y /\ y # Sentinel /\ z < y THEN z ELSE t.left[q]
        /\ u.right[q] = IF q = y /\ y # Sentinel /\ ~(z < y) THEN z ELSE t.right[q]
        /\ q = y => ChildFor(t, z, y) = Sentinel
    BY <2>1 DEF Leafed
  <2>3. Near(u, q, s) = IF q = y /\ s = side THEN z ELSE Near(t, q, s)
    BY <1>1, <2>1, <2>2 DEF Near
  <2>4. Near(t, q, s) \in m \cup {Sentinel}
    BY <1>0, Kids
  <2>5. q = y /\ s = side => Near(t, q, s) = Sentinel
    BY <1>1, <2>1, <2>2 DEF Near, ChildFor
  <2> QED BY <1>0, <2>3, <2>4, <2>5
<1>3. ASSUME NEW s \in Sides PROVE Near(u, z, s) = Sentinel
  <2>1. u.left[z] = Sentinel /\ u.right[z] = Sentinel
    BY <1>0 DEF Leafed
  <2> QED BY <2>1 DEF Near
<1>4. \A q \in Pointers : Shade(u, q) = IF q = z THEN "red" ELSE Shade(t, q)
  <2> TAKE q \in Pointers
  <2>1. u.red[q] = IF q = z THEN TRUE ELSE t.red[q]
    BY DEF Leafed
  <2> QED BY <2>1 DEF Shade
<1>5. Reds(u, m \cup {z}, Sentinel, z)
  <2> SUFFICES ASSUME NEW q \in m \cup {z}, NEW s \in Sides, Shade(u, q) = "red",
                      Shade(u, Near(u, q, s)) = "red", Near(u, q, s) # z
               PROVE  FALSE
    BY DEF Reds
  <2>1. q \in m
    BY <1>0, <1>3, <1>4
  <2>2. Near(u, q, s) = Near(t, q, s) /\ Near(t, q, s) \in Pointers /\ q # z
    BY <1>0, <1>2, <2>1
  <2>3. Shade(t, q) = "red" /\ Shade(t, Near(t, q, s)) = "red"
    BY <1>0, <1>4, <2>1, <2>2
  <2>4. q = Sentinel \/ Near(t, q, s) = Sentinel
    BY <2>1, <2>3 DEF Level, Reds
  <2> QED BY <1>0, <2>1, <2>3, <2>4
<1>6. Shade(u, u.root) = "red" => u.root = z
  <2>1. CASE y = Sentinel
    BY <2>1 DEF Leafed
  <2>2. CASE y # Sentinel
    <3>1. u.root = t.root /\ y \in m
      BY <2>2 DEF Leafed
    <3>2. t.root \in m
      BY <1>0, <3>1, ChildrenOf
    <3> QED BY <1>0, <1>4, <3>1, <3>2 DEF Level
  <2> QED BY <2>1, <2>2
<1>7. /\ c \in [Nodes -> Nat]
      /\ \A q \in m, s \in Sides : Tall(t, c, Near(t, q, s)) + 0 = c[q]
  <2>1. Even(t, m, c, Sentinel, "left")
    BY DEF Level
  <2> QED BY <1>0, <2>1 DEF Even
<1> DEFINE c2 == [c EXCEPT ![z] = 0]
<1>8. c2 \in [Nodes -> Nat] /\ c2[z] = 0 /\ \A q \in m : c2[q] = c[q] /\ c[q] \in Nat
  BY <1>0, <1>7
<1> HIDE DEF c2
<1>9. Tall(u, c2, z) = 0
  BY <1>0, <1>4, <1>8 DEF Tall
<1>10. ASSUME NEW q \in m \cup {Sentinel} PROVE Tall(u, c2, q) = Tall(t, c, q)
  <2>1. q \in Pointers /\ q # z
    BY <1>0
  <2>2. Shade(u, q) = Shade(t, q)
    BY <1>4, <2>1
  <2> QED BY <1>8, <2>2 DEF Tall
<1>11. ASSUME NEW q \in m \cup {z}, NEW s \in Sides PROVE Tall(u, c2, Near(u, q, s)) = c2[q]
  <2>1. CASE q = z
    BY <1>3, <1>8, <2>1 DEF Tall
  <2>2. CASE q \in m /\ Near(u, q, s) = Near(t, q, s)
    <3>1. Tall(u, c2, Near(t, q, s)) = Tall(t, c, Near(t, q, s)) /\ Tall(t, c, Near(t, q, s)) \in Nat
      BY <1>0, <1>2, <1>7, <1>10, <2>2, TallTypes DEF Sound
    <3> QED BY <1>7, <1>8, <2>2, <3>1
  <2>3. CASE q \in m /\ Near(u, q, s) # Near(t, q, s)
    <3>1. Near(u, q, s) = z /\ Near(t, q, s) = Sentinel
      BY <1>2, <2>3
    <3>2. c[q] = 0
      <4>1. Tall(t, c, Near(t, q, s)) + 0 = c[q]
        BY <1>7, <2>3
      <4> QED BY <3>1, <4>1 DEF Tall
    <3> QED BY <1>8, <1>9, <2>3, <3>1, <3>2
  <2> QED BY <2>1, <2>2, <2>3
<1>12. Even(u, m \cup {z}, c2, Sentinel, "left")
  <2>1. ASSUME NEW q \in m \cup {z}, NEW s \in Sides
        PROVE  Tall(u, c2, Near(u, q, s)) + (IF q = Sentinel /\ s = "left" THEN 1 ELSE 0) = c2[q]
    <3>1. q # Sentinel /\ c2[q] \in Nat
      BY <1>0, <1>8
    <3> QED BY <1>11, <3>1
  <2> QED BY <1>8, <2>1 DEF Even
<1>13. Good(u, m \cup {z}) /\ Shade(u, z) = "red"
  BY <1>0, <1>4 DEF Leafed
<1> QED BY <1>5, <1>6, <1>12, <1>13 DEF Climbing

LEMMA InsertLevels ==
  ASSUME NEW m \in SUBSET Nodes, NEW t, Good(t, m), NEW c, Level(t, m, c), NEW z \in Nodes \ m
  PROVE  /\ Good(rb_tree_insert(t, z), m \cup {z})
         /\ \E c2 : Level(rb_tree_insert(t, z), m \cup {z}, c2)
<1>1. PICK u, y : rb_tree_insert(t, z) = InsertFixup(u, z) /\ Leafed(t, u, m, z, y)
  BY DescentFinds, LeafHung
<1>2. Climbing(u, m \cup {z}, z) /\ m \cup {z} \in SUBSET Nodes
  BY <1>1, LeafClimbs
<1> QED BY <1>1, <1>2, InsertFixupLevels

-----------------------------------------------------------------------------
(* Deletion.                                                               *)

(* Where the extra black of x is: with the root it is of no account.       *)
Owing(t, m, c, x) ==
  \/ x = t.root /\ Even(t, m, c, Sentinel, "left")
  \/ /\ x # t.root /\ t.parent[x] \in m /\ Near(t, t.parent[x], SideOf(t, x)) = x
     /\ Even(t, m, c, t.parent[x], SideOf(t, x))

(* DeleteFixup at x: x has an extra black, and is the only red item that   *)
(* may have a red child or parent, or be the root.                         *)
Sinking(t, m, x) ==
  /\ Good(t, m) /\ Reaches(t, m, x)
  /\ Reds(t, m, x, x) /\ (Shade(t, t.root) = "red" => t.root = x)
  /\ \E c : Owing(t, m, c, x)

(* x, with its extra black, on this side of p, and its black sibling w.    *)
Poised(t, m, c, x, p, side, w) ==
  /\ Good(t, m) /\ x \in m \cup {Sentinel} /\ p \in m /\ side \in Sides /\ p = t.parent[x]
  /\ x = Near(t, p, side) /\ w = Near(t, p, Other(side)) /\ w \in m
  /\ Shade(t, w) # "red" /\ Shade(t, x) # "red"
  /\ Reds(t, m, Sentinel, Sentinel) /\ Shade(t, t.root) # "red" /\ Even(t, m, c, p, side)

LEMMA PoisedSibling ==
  ASSUME NEW m, NEW t, NEW c, NEW x, NEW p, NEW side, NEW w, Poised(t, m, c, x, p, side, w)
  PROVE  t.parent[x] = p /\ w = Near(t, p, Other(side))
BY DEF Poised

LEMMA DebtSide ==
  ASSUME NEW m \in SUBSET Nodes, NEW t, Sound(t, m), NEW c, NEW p \in m, NEW s \in Sides,
         Even(t, m, c, p, s), NEW x, x = Near(t, p, s), t.parent[x] = p
  PROVE  SideOf(t, x) = s
<1>0. Sentinel \notin m /\ (s = "left" \/ s = "right") /\ "left" \in Sides /\ "right" \in Sides
  BY Members DEF Sides
<1>1. CASE s = "left"
  BY <1>1 DEF SideOf, Near
<1>2. CASE s = "right"
  <2> SUFFICES ASSUME x = t.left[p] PROVE FALSE
    BY <1>2 DEF SideOf
  <2>1. Near(t, p, "left") = x /\ Near(t, p, "right") = x
    BY <1>2 DEF Near
  <2>2. x = Sentinel
    <3>1. t.left[p] = t.right[p] => t.left[p] = Sentinel
      BY ChildrenOf
    <3> QED BY <2>1, <3>1 DEF Near
  <2>3. Tall(t, c, x) + 0 = c[p] /\ Tall(t, c, x) + 1 = c[p]
    <3>1. Tall(t, c, Near(t, p, "left")) + (IF p = p /\ "left" = s THEN 1 ELSE 0) = c[p]
      BY <1>0, EvenAt
    <3>2. Tall(t, c, Near(t, p, "right")) + (IF p = p /\ "right" = s THEN 1 ELSE 0) = c[p]
      BY <1>0, EvenAt
    <3> QED BY <1>2, <2>1, <3>1, <3>2
  <2>4. Tall(t, c, x) = 0
    BY <2>2 DEF Tall
  <2> QED BY <2>3, <2>4
<1> QED BY <1>0, <1>1, <1>2

(* The other side has more black, so that it is not empty.                 *)
LEMMA SiblingThere ==
  ASSUME NEW m \in SUBSET Nodes, NEW t, Sound(t, m), NEW c, NEW p \in m, NEW s \in Sides,
         Even(t, m, c, p, s)
  PROVE  /\ Near(t, p, Other(s)) \in m /\ Tall(t, c, Near(t, p, Other(s))) = c[p]
         /\ Tall(t, c, Near(t, p, s)) + 1 = c[p] /\ c[p] \in Nat /\ c[p] >= 1
         /\ Tall(t, c, Near(t, p, s)) \in Nat
<1>0. /\ Other(s) \in Sides /\ Other(s) # s /\ t \in Trees /\ c \in [Nodes -> Nat] /\ m \subseteq Nodes
  BY SidesTwo DEF Sound, Even
<1>1. Near(t, p, s) \in m \cup {Sentinel} /\ Near(t, p, Other(s)) \in m \cup {Sentinel}
  BY <1>0, Kids
<1>2. Tall(t, c, Near(t, p, s)) \in Nat /\ Tall(t, c, Near(t, p, Other(s))) \in Nat
  BY <1>0, <1>1, TallTypes
<1>3. Tall(t, c, Near(t, p, s)) + 1 = c[p]
  BY EvenAt
<1>4. Tall(t, c, Near(t, p, Other(s))) + 0 = c[p]
  BY <1>0, EvenAt
<1>5. Near(t, p, Other(s)) # Sentinel
  <2>1. ASSUME Near(t, p, Other(s)) = Sentinel PROVE FALSE
    <3>1. Tall(t, c, Near(t, p, Other(s))) = 0
      BY <2>1 DEF Tall
    <3> QED BY <1>2, <1>3, <1>4, <3>1
  <2> QED BY <2>1
<1> QED BY <1>0, <1>1, <1>2, <1>3, <1>4, <1>5

(* x below the root, black, with its extra black.                          *)
LEMMA SinkingBelow ==
  ASSUME NEW m \in SUBSET Nodes, NEW t, NEW x, Sinking(t, m, x), x # t.root, Shade(t, x) # "red",
         NEW p, p = t.parent[x], NEW side, side = SideOf(t, x), NEW w, w = Near(t, p, Other(side))
  PROVE  \E c : /\ Good(t, m) /\ x \in m \cup {Sentinel} /\ p \in m /\ side \in Sides
                /\ x = Near(t, p, side) /\ w \in m /\ x # p /\ x # w /\ w # p
                /\ Reds(t, m, Sentinel, Sentinel) /\ Shade(t, t.root) # "red" /\ Even(t, m, c, p, side)
<1>1. PICK c : /\ Good(t, m) /\ Reaches(t, m, x) /\ Reds(t, m, x, x) /\ Shade(t, t.root) # "red"
               /\ p \in m /\ Near(t, p, side) = x /\ Even(t, m, c, p, side)
  BY DEF Sinking, Owing
<1>2. side \in Sides /\ Sound(t, m)
  BY <1>1, Basis DEF SideOf, Sides
<1>3. w \in m
  BY <1>1, <1>2, SiblingThere
<1>4. x \in m \cup {Sentinel}
  BY <1>1, <1>2, Kids
<1>5. x # p /\ x # w /\ w # p
  <2>1. x # p /\ w # p
    BY <1>1, <1>2, SidesTwo, Kids
  <2>2. Near(t, p, side) = Near(t, p, Other(side)) => Near(t, p, side) = Sentinel
    BY <1>1, <1>2, Kids
  <2> QED BY <1>1, <1>2, <1>3, <2>1, <2>2, Members
<1>6. Reds(t, m, Sentinel, Sentinel)
  BY <1>1 DEF Reds
<1> QED BY <1>1, <1>2, <1>3, <1>4, <1>5, <1>6

(* x is ready for one of the other cases, where its parent p is red.       *)
Readied(t, m, x, p, side) ==
  /\ \E c : Poised(t, m, c, x, p, side, Near(t, p, Other(side)))
  /\ Shade(t, p) = "red" /\ t.parent[x] = p

(* The first case: a red sibling goes above p.                             *)
LEMMA SiblingRaised ==
  ASSUME NEW m \in SUBSET Nodes, NEW t, NEW x, Sinking(t, m, x), x # t.root, Shade(t, x) # "red",
         NEW p, p = t.parent[x], NEW side, side = SideOf(t, x), NEW w, w = Near(t, p, Other(side)),
         Shade(t, w) = "red", NEW a, NEW b, NEW u,
         Blackens(t, a, w), Reddens(a, b, p), u = RotateTo(b, p, side)
  PROVE  Readied(u, m, x, p, side)
<1>1. PICK c : /\ Good(t, m) /\ x \in m \cup {Sentinel} /\ p \in m /\ side \in Sides
               /\ x = Near(t, p, side) /\ w \in m /\ x # p /\ x # w /\ w # p
               /\ Reds(t, m, Sentinel, Sentinel) /\ Shade(t, t.root) # "red" /\ Even(t, m, c, p, side)
  BY SinkingBelow
<1>0. /\ Sound(t, m) /\ t \in Trees /\ Shade(t, Sentinel) # "red" /\ m \subseteq Pointers
      /\ Sentinel \notin m /\ Sentinel \in Pointers /\ Other(side) \in Sides /\ Other(side) # side
  BY <1>1, Basis, SidesTwo
<1>2. /\ Good(a, m) /\ Repainted(t, a)
      /\ \A q \in Pointers : Shade(a, q) = IF q = w THEN "black" ELSE Shade(t, q)
  <2>1. Good(t, m) /\ w \in m
    BY <1>1
  <2> QED BY <2>1, Blackened
<1>3. /\ Good(b, m) /\ Repainted(a, b)
      /\ \A q \in Pointers : Shade(b, q) = IF q = p THEN "red" ELSE Shade(a, q)
  <2>1. Good(a, m) /\ p \in m
    BY <1>1, <1>2
  <2> QED BY <2>1, Reddened
<1>4. Repainted(t, b)
  BY <1>2, <1>3 DEF Repainted
<1>5. Good(u, m) /\ SameColours(b, u) /\ Swings(t, u, m, p, w, side)
  <2>1. Good(b, m) /\ p \in m /\ w \in m /\ side \in Sides
    BY <1>1, <1>3
  <2> QED BY <1>4, <2>1, Swung
<1>6. \A q \in Pointers : Shade(u, q) = IF q = p THEN "red" ELSE IF q = w THEN "black" ELSE Shade(t, q)
  <2>1. \A q : Shade(u, q) = Shade(b, q)
    BY <1>5, ColoursKept
  <2> QED BY <1>2, <1>3, <2>1
<1>7. Shade(t, p) # "red"
  BY <1>0, <1>1 DEF Reds
<1>8. SwapColours(t, u, p, w)
  <2>1. Shade(t, p) = "black"
    BY <1>7, TwoShades
  <2> QED BY <1>0, <1>1, <1>6, <2>1 DEF SwapColours
<1>9. u \in Trees
  BY <1>5, Basis
<1>10. Even(u, m, c, p, side)
  BY <1>0, <1>1, <1>5, <1>8, <1>9, SwungEven
<1>11. Shade(t, Near(t, w, side)) # "red"
  <2>1. Near(t, w, side) # Sentinel \/ Shade(t, Near(t, w, side)) # "red"
    BY SMTT(40), <1>0
  <2> QED BY <1>0, <1>1, <2>1 DEF Reds
<1>12. /\ \A q \in m, s \in Sides : Shade(u, q) = "red" /\ Shade(u, Near(u, q, s)) = "red"
                                    => Shade(t, p) = "red" /\ Near(u, q, s) = p
       /\ Shade(u, u.root) = Shade(t, t.root)
  BY <1>0, <1>1, <1>5, <1>7, <1>8, <1>11, SwungReds
<1>13. Reds(u, m, Sentinel, Sentinel)
  BY <1>7, <1>12 DEF Reds
<1>14. x = Sentinel \/ (x \in m /\ x # Near(t, w, side))
  <2>1. Near(t, w, side) \in m => t.parent[Near(t, w, side)] = w
    BY SMTT(40), <1>0, <1>1, Kids
  <2> QED BY <1>1, <2>1
<1>15. u.parent[x] = p /\ Near(u, p, side) = x /\ Near(u, p, Other(side)) = Near(t, w, side)
  BY <1>0, <1>1, <1>5, <1>14 DEF Swings
<1>16. Shade(u, x) # "red" /\ Shade(u, p) = "red"
  BY <1>0, <1>1, <1>6
<1>17. Near(u, p, Other(side)) \in m
  <2>1. Sound(u, m)
    BY <1>5, Basis
  <2> QED BY <1>1, <1>10, <2>1, SiblingThere
<1>18. Shade(u, Near(u, p, Other(side))) # "red"
  BY <1>0, <1>1, <1>13, <1>16, <1>17 DEF Reds
<1>19. Poised(u, m, c, x, p, side, Near(u, p, Other(side)))
  BY <1>1, <1>5, <1>10, <1>12, <1>13, <1>15, <1>16, <1>17, <1>18 DEF Poised
<1> QED BY <1>15, <1>16, <1>19 DEF Readied

(* The second case: w's children are black, and the extra black moves up.  *)
LEMMA ExtraBlackUp ==
  ASSUME NEW m \in SUBSET Nodes, NEW t, NEW c, NEW x, NEW p, NEW side, NEW w,
         Poised(t, m, c, x, p, side, w), \A s \in Sides : Shade(t, Near(t, w, s)) # "red",
         NEW u, Reddens(t, u, w)
  PROVE  /\ Sinking(u, m, p) /\ Repainted(t, u) /\ Shade(u, p) = Shade(t, p)
<1>1. /\ Good(t, m) /\ x \in m \cup {Sentinel} /\ p \in m /\ side \in Sides
      /\ x = Near(t, p, side) /\ w = Near(t, p, Other(side)) /\ w \in m
      /\ Shade(t, w) # "red" /\ Shade(t, x) # "red"
      /\ Reds(t, m, Sentinel, Sentinel) /\ Shade(t, t.root) # "red" /\ Even(t, m, c, p, side)
  BY DEF Poised
<1>0. /\ Sound(t, m) /\ t \in Trees /\ Shade(t, Sentinel) # "red" /\ m \subseteq Pointers /\ m \subseteq Nodes
      /\ Sentinel \notin m /\ Sentinel \in Pointers /\ Other(side) \in Sides /\ Other(side) # side
      /\ \A s \in Sides : s = side \/ s = Other(side)
  BY <1>1, Basis, SidesTwo
<1>2. /\ Good(u, m) /\ Repainted(t, u)
      /\ \A q \in Pointers : Shade(u, q) = IF q = w THEN "red" ELSE Shade(t, q)
  <2>1. Good(t, m) /\ w \in m
    BY <1>1
  <2> QED BY <2>1, Reddened
<1>3. /\ w # p /\ x # p /\ x # w /\ w # t.root /\ t.parent[w] = p
  <2>1. w # p /\ x # p /\ w # t.root /\ t.parent[w] = p
    BY <1>0, <1>1, Kids
  <2>2. Near(t, p, side) = Near(t, p, Other(side)) => Near(t, p, side) = Sentinel
    BY <1>0, <1>1, Kids
  <2> QED BY <1>0, <1>1, <2>1, <2>2
<1>4. \A q \in m, s \in Sides : /\ Near(u, q, s) = Near(t, q, s) /\ Near(t, q, s) \in m \cup {Sentinel}
                                /\ Near(t, q, s) = w => q = p /\ s = Other(side)
  <2> TAKE q \in m, s \in Sides
  <2>1. Near(u, q, s) = Near(t, q, s)
    BY <1>2, RepaintedSame
  <2>2. Near(t, q, s) \in m \cup {Sentinel}
    BY <1>0, Kids
  <2>3. Near(t, q, s) = w => q = p /\ s = Other(side)
    BY <1>0, <1>1, Kids
  <2> QED BY <2>1, <2>2, <2>3
<1>5. Reds(u, m, p, p)
  <2> SUFFICES ASSUME NEW q \in m, NEW s \in Sides, Shade(u, q) = "red", Shade(u, Near(t, q, s)) = "red",
                      q # p
               PROVE  FALSE
    BY <1>4 DEF Reds
  <2>1. Near(t, q, s) # w /\ Near(t, q, s) \in Pointers /\ q \in Pointers
    BY <1>0, <1>4
  <2>2. Shade(t, Near(t, q, s)) = "red"
    BY <1>2, <2>1
  <2>3. q # w
    BY <2>2
  <2>4. Shade(t, q) = "red"
    BY <1>2, <2>1, <2>3
  <2> QED BY <1>0, <1>1, <2>2, <2>4 DEF Reds
<1>6. u.root = t.root /\ Shade(u, t.root) # "red" /\ t.root \in m /\ u.parent = t.parent
  <2>1. t.root \in m
    BY <1>0, <1>1, ChildrenOf
  <2>2. u.root = t.root /\ u.parent = t.parent
    BY <1>2 DEF Repainted
  <2>3. t.root \in Pointers
    BY <1>0, <2>1
  <2> QED BY <1>1, <1>2, <1>3, <2>1, <2>2, <2>3
<1>7. /\ Tall(t, c, w) = c[p] /\ Tall(t, c, x) + 1 = c[p] /\ c[p] \in Nat /\ c[p] >= 1
      /\ Tall(t, c, x) \in Nat
  BY <1>0, <1>1, SiblingThere
<1>8. c \in [Nodes -> Nat]
  BY <1>1 DEF Even
<1> DEFINE c2 == [c EXCEPT ![p] = c[p] - 1]
<1>9. c2 \in [Nodes -> Nat] /\ \A q \in m : c2[q] = IF q = p THEN c[p] - 1 ELSE c[q]
  <2>1. c[p] - 1 \in Nat
    BY <1>7
  <2> QED BY <1>0, <1>1, <1>8, <2>1
<1> HIDE DEF c2
<1>10. c[w] \in Nat /\ c[w] + 1 = c[p] /\ Tall(u, c2, w) = c[p] - 1
  <2>1. c[w] \in Nat /\ w # Sentinel /\ c2[w] = c[w]
    BY <1>0, <1>1, <1>3, <1>8, <1>9
  <2>2. Tall(t, c, w) = c[w] + 1
    BY <1>1, <2>1 DEF Tall
  <2>3. Tall(u, c2, w) = c[w] + 0
    <3>1. Shade(u, w) = "red"
      BY <1>0, <1>1, <1>2
    <3> QED BY <2>1, <3>1 DEF Tall
  <2> QED BY <1>7, <2>1, <2>2, <2>3
<1>11. ASSUME NEW q \in m \cup {Sentinel}, q # p, q # w PROVE Tall(u, c2, q) = Tall(t, c, q)
  <2>1. Shade(u, q) = Shade(t, q)
    BY <1>0, <1>2, <1>11
  <2>2. q = Sentinel \/ c2[q] = c[q]
    BY <1>9, <1>11
  <2> QED BY <2>1, <2>2 DEF Tall
<1>12. Tall(u, c2, p) + 1 = Tall(t, c, p)
  <2>1. Shade(u, p) = Shade(t, p)
    BY <1>0, <1>1, <1>2, <1>3
  <2>2. c2[p] = c[p] - 1 /\ p # Sentinel
    BY <1>0, <1>1, <1>9
  <2> QED BY <1>7, <2>1, <2>2 DEF Tall
<1>13. ASSUME NEW q \in m, NEW s \in Sides, Near(t, q, s) # p PROVE Tall(u, c2, Near(u, q, s)) = c2[q]
  <2>1. Near(u, q, s) = Near(t, q, s) /\ Near(t, q, s) \in m \cup {Sentinel}
    BY <1>4
  <2>2. Tall(t, c, Near(t, q, s)) + (IF q = p /\ s = side THEN 1 ELSE 0) = c[q]
    BY <1>1, EvenAt
  <2>3. CASE q = p /\ s = side
    <3>1. Tall(u, c2, x) = Tall(t, c, x)
      BY <1>1, <1>3, <1>11
    <3> QED BY <1>1, <1>7, <1>9, <2>1, <2>3, <3>1
  <2>4. CASE q = p /\ s # side
    BY <1>0, <1>1, <1>9, <1>10, <2>1, <2>4
  <2>5. CASE q # p
    <3>1. Tall(u, c2, Near(t, q, s)) = Tall(t, c, Near(t, q, s))
      BY <1>4, <1>11, <1>13, <2>1, <2>5
    <3>2. Tall(t, c, Near(t, q, s)) \in Nat
      BY <1>0, <1>8, <2>1, TallTypes
    <3> QED BY <1>9, <2>1, <2>2, <2>5, <3>1, <3>2
  <2> QED BY <2>3, <2>4, <2>5
<1>14. \A q \in m : c2[q] \in Nat
  BY <1>0, <1>9
<1>15. Owing(u, m, c2, p)
  <2>1. CASE p = t.root
    <3>1. ASSUME NEW q \in m, NEW s \in Sides
          PROVE  Tall(u, c2, Near(u, q, s)) + (IF q = Sentinel /\ s = "left" THEN 1 ELSE 0) = c2[q]
      <4>1. Near(t, q, s) # p
        <5>1. Near(t, q, s) \in m => Near(t, q, s) # t.root
          BY <1>0, Kids
        <5> QED BY <1>1, <2>1, <5>1
      <4>2. Tall(u, c2, Near(u, q, s)) = c2[q] /\ c2[q] \in Nat /\ q # Sentinel
        BY <1>0, <1>13, <1>14, <4>1
      <4> QED BY <4>2
    <3>2. Even(u, m, c2, Sentinel, "left")
      BY <1>9, <3>1 DEF Even
    <3> QED BY <1>6, <2>1, <3>2 DEF Owing
  <2>2. CASE p # t.root
    <3>1. PICK g, e : g = t.parent[p] /\ e = SideOf(t, p)
      OBVIOUS
    <3>2. g \in m /\ e \in Sides /\ Near(t, g, e) = p
      BY <1>0, <1>1, <2>2, <3>1, KidOf
    <3>3. \A q \in m, s \in Sides : Near(t, q, s) = p => q = g /\ s = e
      BY <1>0, <1>1, <3>2, Kids
    <3>4. g # p
      <4>1. Near(t, g, e) # g
        BY <1>0, <3>2, Kids
      <4> QED BY <3>2, <4>1
    <3>5. ASSUME NEW q \in m, NEW s \in Sides
          PROVE  Tall(u, c2, Near(u, q, s)) + (IF q = g /\ s = e THEN 1 ELSE 0) = c2[q]
      <4>1. CASE q = g /\ s = e
        <5>1. Tall(t, c, p) + (IF g = p /\ e = side THEN 1 ELSE 0) = c[g]
          BY <1>1, <3>2, EvenAt
        <5>2. Near(u, q, s) = p
          BY <1>4, <3>2, <4>1
        <5>3. Tall(t, c, p) \in Nat
          BY <1>0, <1>1, <1>8, TallTypes
        <5>4. c2[g] = c[g]
          BY <1>9, <3>2, <3>4
        <5> QED BY <1>12, <3>4, <4>1, <5>1, <5>2, <5>3, <5>4
      <4>2. CASE ~(q = g /\ s = e)
        <5>1. Tall(u, c2, Near(u, q, s)) = c2[q] /\ c2[q] \in Nat
          BY <1>13, <1>14, <3>3, <4>2
        <5> QED BY <4>2, <5>1
      <4> QED BY <4>1, <4>2
    <3>6. Even(u, m, c2, g, e)
      BY <1>9, <3>5 DEF Even
    <3>7. SideOf(u, p) = e /\ u.parent[p] = g /\ Near(u, g, e) = p
      <4>1. u.left = t.left
        BY <1>2 DEF Repainted
      <4> QED BY <1>4, <1>6, <3>1, <3>2, <4>1 DEF SideOf
    <3> QED BY <1>6, <2>2, <3>2, <3>6, <3>7 DEF Owing
  <2> QED BY <2>1, <2>2
<1>16. Reaches(u, m, p)
  BY <1>1 DEF Reaches
<1>17. Shade(u, p) = Shade(t, p)
  BY <1>0, <1>1, <1>2, <1>3
<1> QED BY <1>2, <1>5, <1>6, <1>15, <1>16, <1>17 DEF Sinking

(* The third case: the red near child of w goes above it.                  *)
LEMMA NephewRaised ==
  ASSUME NEW m \in SUBSET Nodes, NEW t, NEW c, NEW x, NEW p, NEW side, NEW w,
         Poised(t, m, c, x, p, side, w), NEW n, n = Near(t, w, side), Shade(t, n) = "red",
         Shade(t, Near(t, w, Other(side))) # "red",
         NEW a, NEW b, NEW u, Blackens(t, a, n), Reddens(a, b, w), u = RotateFrom(b, w, side)
  PROVE  Poised(u, m, c, x, p, side, n) /\ Shade(u, Near(u, n, Other(side))) = "red"
<1>1. /\ Good(t, m) /\ x \in m \cup {Sentinel} /\ p \in m /\ side \in Sides /\ p = t.parent[x]
      /\ x = Near(t, p, side) /\ w = Near(t, p, Other(side)) /\ w \in m
      /\ Shade(t, w) # "red" /\ Shade(t, x) # "red"
      /\ Reds(t, m, Sentinel, Sentinel) /\ Shade(t, t.root) # "red" /\ Even(t, m, c, p, side)
  BY DEF Poised
<1>0. /\ Sound(t, m) /\ t \in Trees /\ Shade(t, Sentinel) # "red" /\ m \subseteq Pointers
      /\ Sentinel \notin m /\ Sentinel \in Pointers /\ Other(side) \in Sides /\ Other(side) # side
      /\ Other(Other(side)) = side
  BY <1>1, Basis, SidesTwo
<1>2. n \in m /\ n # w /\ t.parent[n] = w /\ t.parent[w] = p /\ p # w /\ p # n /\ x # w /\ x # n
  <2>1. n \in m /\ n # w /\ t.parent[n] = w
    BY <1>0, <1>1, Kids
  <2>2. t.parent[w] = p /\ p # w
    BY <1>0, <1>1, Kids
  <2>3. p # n
    BY <1>0, <1>1, <2>1, <2>2, NoTwoCycle
  <2>4. Near(t, p, side) = Near(t, p, Other(side)) => Near(t, p, side) = Sentinel
    BY <1>0, <1>1, Kids
  <2>5. x # w
    BY <1>0, <1>1, <2>4
  <2>6. x # n
    BY <1>1, <2>1, <2>2
  <2> QED BY <2>1, <2>2, <2>3, <2>5, <2>6
<1>3. /\ Good(a, m) /\ Repainted(t, a)
      /\ \A q \in Pointers : Shade(a, q) = IF q = n THEN "black" ELSE Shade(t, q)
  <2>1. Good(t, m) /\ n \in m
    BY <1>1, <1>2
  <2> QED BY <2>1, Blackened
<1>4. /\ Good(b, m) /\ Repainted(a, b)
      /\ \A q \in Pointers : Shade(b, q) = IF q = w THEN "red" ELSE Shade(a, q)
  <2>1. Good(a, m) /\ w \in m
    BY <1>1, <1>3
  <2> QED BY <2>1, Reddened
<1>5. Repainted(t, b)
  BY <1>3, <1>4 DEF Repainted
<1>6. Good(u, m) /\ SameColours(b, u) /\ Swings(t, u, m, w, n, Other(side))
  <2>1. Good(b, m) /\ w \in m /\ n \in m /\ Other(side) \in Sides
    BY <1>0, <1>1, <1>2, <1>4
  <2>2. u = RotateTo(b, w, Other(side)) /\ n = Near(t, w, Other(Other(side)))
    BY <1>0, <1>1, OtherSide
  <2> QED BY <1>5, <2>1, <2>2, Swung
<1>7. \A q \in Pointers : Shade(u, q) = IF q = w THEN "red" ELSE IF q = n THEN "black" ELSE Shade(t, q)
  <2>1. \A q : Shade(u, q) = Shade(b, q)
    BY <1>6, ColoursKept
  <2> QED BY <1>3, <1>4, <2>1
<1>8. SwapColours(t, u, w, n)
  <2>1. Shade(t, w) = "black"
    BY <1>1, TwoShades
  <2> QED BY <1>0, <1>1, <1>2, <1>7, <2>1 DEF SwapColours
<1>9. u \in Trees
  BY <1>6, Basis
<1>10. Even(u, m, c, p, side)
  BY <1>0, <1>1, <1>2, <1>6, <1>8, <1>9, SwungEven
<1>11. Shade(t, Near(t, n, Other(side))) # "red"
  BY <1>0, <1>1, <1>2 DEF Reds
<1>12. /\ \A q \in m, s \in Sides : Shade(u, q) = "red" /\ Shade(u, Near(u, q, s)) = "red"
                                    => Shade(t, w) = "red" /\ Near(u, q, s) = w
       /\ Shade(u, u.root) = Shade(t, t.root)
  BY SMTT(40), <1>0, <1>1, <1>2, <1>6, <1>8, <1>11, SwungReds
<1>13. Reds(u, m, Sentinel, Sentinel)
  BY <1>1, <1>12 DEF Reds
<1>14. x = Sentinel \/ (x \in m /\ x # Near(t, n, Other(side)))
  <2>1. Near(t, n, Other(side)) \in m => t.parent[Near(t, n, Other(side))] = n
    BY <1>0, <1>2, Kids
  <2> QED BY <1>1, <1>2, <2>1
<1>15. u.parent[x] = p /\ Near(u, p, side) = x /\ Near(u, p, Other(side)) = n
       /\ Near(u, n, Other(side)) = w
  BY <1>0, <1>1, <1>2, <1>6, <1>14 DEF Swings
<1>16. Shade(u, x) # "red" /\ Shade(u, n) # "red" /\ Shade(u, w) = "red"
  BY <1>0, <1>1, <1>2, <1>7
<1>17. Poised(u, m, c, x, p, side, n)
  BY <1>1, <1>2, <1>6, <1>10, <1>12, <1>13, <1>15, <1>16 DEF Poised
<1> QED BY <1>15, <1>16, <1>17

(* q takes p's colour.                                                     *)
Takes(t, u, q, p) == u = SetRed(t, q, t.red[p])

LEMMA Taken ==
  ASSUME NEW m \in SUBSET Nodes, NEW t, Good(t, m), NEW q \in m, NEW p \in m, NEW u, Takes(t, u, q, p)
  PROVE  Good(u, m) /\ Repainted(t, u) /\ u.skewed = t.skewed
         /\ \A o \in Pointers : Shade(u, o) = IF o = q THEN Shade(t, p) ELSE Shade(t, o)
<1>1. t \in Trees /\ Sound(t, m) /\ q \in Pointers /\ q # Null /\ q # Sentinel /\ p \in Pointers
  BY Members DEF Good, Sound
<1>2. t.red[p] \in BOOLEAN
  BY <1>1, FieldTypes
<1>3. CASE t.red[p]
  <2>1. Reddens(t, u, q) /\ Shade(t, p) = "red"
    <3>1. t.red[p] = TRUE
      BY <1>2, <1>3
    <3> QED BY <1>3, <3>1 DEF Reddens, Takes, Shade
  <2> QED BY <2>1, Reddened
<1>4. CASE ~t.red[p]
  <2>1. Blackens(t, u, q) /\ Shade(t, p) = "black"
    <3>1. t.red[p] = FALSE
      BY <1>2, <1>4
    <3> QED BY <1>4, <3>1 DEF Blackens, Takes, Shade
  <2> QED BY <2>1, Blackened
<1> QED BY <1>3, <1>4

(* The colours for it: w's red far child n and p black, w as p was.        *)
Repays(t, b, p, w, n) ==
  \A q \in Pointers : Shade(b, q) = IF q = n \/ q = p THEN "black"
                                    ELSE IF q = w THEN Shade(t, p) ELSE Shade(t, q)

(* The last case: the red far child of w turns black as w goes above p and *)
(* takes its colour, which pays the extra black.                           *)
LEMMA BalanceRestored ==
  ASSUME NEW m \in SUBSET Nodes, NEW t, NEW c, NEW x, NEW p, NEW side, NEW w,
         Poised(t, m, c, x, p, side, w), NEW n, n = Near(t, w, Other(side)), Shade(t, n) = "red",
         NEW b, Good(b, m), Repainted(t, b),
         Repays(t, b, p, w, n), NEW u, u = RotateTo(b, p, side)
  PROVE  Sinking(u, m, u.root) /\ u.root \in m
<1>1. /\ Good(t, m) /\ x \in m \cup {Sentinel} /\ p \in m /\ side \in Sides /\ p = t.parent[x]
      /\ x = Near(t, p, side) /\ w = Near(t, p, Other(side)) /\ w \in m
      /\ Shade(t, w) # "red" /\ Shade(t, x) # "red"
      /\ Reds(t, m, Sentinel, Sentinel) /\ Shade(t, t.root) # "red" /\ Even(t, m, c, p, side)
  BY DEF Poised
<1>0. /\ Sound(t, m) /\ t \in Trees /\ Shade(t, Sentinel) # "red" /\ m \subseteq Pointers /\ m \subseteq Nodes
      /\ Sentinel \notin m /\ Sentinel \in Pointers /\ Other(side) \in Sides /\ Other(side) # side
      /\ \A s \in Sides : s = side \/ s = Other(side)
  BY <1>1, Basis, SidesTwo
<1>2. PICK i : i = Near(t, w, side)
  OBVIOUS
<1>3. /\ n \in m /\ n # w /\ t.parent[n] = w /\ t.parent[w] = p /\ p # w /\ p # n /\ x # w /\ x # n /\ x # p
      /\ w # t.root /\ i \in m \cup {Sentinel} /\ i # w /\ i # n /\ i # p
  <2>1. n \in m /\ n # w /\ t.parent[n] = w
    BY <1>0, <1>1, Kids
  <2>2. t.parent[w] = p /\ p # w /\ w # t.root
    BY <1>0, <1>1, Kids
  <2>11. x # p
    BY <1>0, <1>1, Kids
  <2>3. p # n
    BY <1>0, <1>1, <2>1, <2>2, NoTwoCycle
  <2>4. Near(t, p, side) = Near(t, p, Other(side)) => Near(t, p, side) = Sentinel
    BY <1>0, <1>1, Kids
  <2>5. x # w
    BY <1>0, <1>1, <2>4
  <2>6. x # n
    BY <1>1, <2>1, <2>2
  <2>7. i \in m \cup {Sentinel} /\ i # w /\ (i \in m => t.parent[i] = w)
    BY <1>0, <1>1, <1>2, Kids
  <2>8. i # p
    BY <1>0, <1>1, <2>2, <2>7, NoTwoCycle
  <2>9. Near(t, w, side) = Near(t, w, Other(side)) => Near(t, w, side) = Sentinel
    BY SMTT(40), <1>0, <1>1, Kids
  <2>10. i # n
    BY <1>0, <1>2, <2>1, <2>9
  <2> QED BY <2>1, <2>2, <2>3, <2>5, <2>6, <2>7, <2>8, <2>10, <2>11
<1>4. Good(u, m) /\ SameColours(b, u) /\ Swings(t, u, m, p, w, side)
  <2>1. p \in m /\ w \in m /\ side \in Sides /\ w = Near(t, p, Other(side))
    BY <1>1
  <2> QED BY <2>1, Swung
<1>5. \A q \in Pointers : Shade(u, q) = IF q = n \/ q = p THEN "black"
                                         ELSE IF q = w THEN Shade(t, p) ELSE Shade(t, q)
  <2>1. \A q : Shade(u, q) = Shade(b, q)
    BY <1>4, ColoursKept
  <2> QED BY <2>1 DEF Repays
<1>6. /\ c \in [Nodes -> Nat] /\ Tall(t, c, w) = c[p] /\ Tall(t, c, x) + 1 = c[p] /\ c[p] \in Nat /\ c[p] >= 1
  <2>1. c \in [Nodes -> Nat]
    BY <1>1 DEF Even
  <2>2. /\ Tall(t, c, Near(t, p, Other(side))) = c[p] /\ Tall(t, c, Near(t, p, side)) + 1 = c[p]
        /\ c[p] \in Nat /\ c[p] >= 1
    <3>1. Sound(t, m) /\ Even(t, m, c, p, side) /\ p \in m /\ side \in Sides
      BY <1>0, <1>1
    <3> QED BY <3>1, SiblingThere
  <2> QED BY <1>1, <2>1, <2>2
<1>7. c[w] \in Nat /\ c[w] + 1 = c[p] /\ w # Sentinel /\ p # Sentinel /\ n # Sentinel
  <2>1. c[w] \in Nat /\ w # Sentinel /\ p # Sentinel /\ n # Sentinel
    BY <1>0, <1>1, <1>3, <1>6
  <2>2. Tall(t, c, w) = c[w] + 1
    BY <1>1, <2>1 DEF Tall
  <2> QED BY <1>6, <2>1, <2>2
<1>8. Tall(t, c, n) = c[w] /\ Tall(t, c, i) = c[w] /\ Tall(t, c, x) = c[w]
  <2>1. Tall(t, c, n) + 0 = c[w]
    BY <1>0, <1>1, <1>3, EvenAt
  <2>2. Tall(t, c, i) + 0 = c[w]
    BY <1>1, <1>2, <1>3, EvenAt
  <2>3. Tall(t, c, n) \in Nat /\ Tall(t, c, i) \in Nat /\ Tall(t, c, x) \in Nat
    BY SMTT(40), <1>0, <1>1, <1>3, <1>6, TallTypes
  <2> QED BY <1>6, <1>7, <2>1, <2>2, <2>3
<1> DEFINE c2 == [q \in Nodes |-> IF q = p THEN c[w] ELSE IF q = w THEN c[p] ELSE c[q]]
<1>9. c2 \in [Nodes -> Nat] /\ \A q \in m : c2[q] = IF q = p THEN c[w] ELSE IF q = w THEN c[p] ELSE c[q]
  BY <1>0, <1>1, <1>6
<1> HIDE DEF c2
<1>10. ASSUME NEW q \in m \cup {Sentinel}, q # p, q # w, q # n PROVE Tall(u, c2, q) = Tall(t, c, q)
  <2>1. Shade(u, q) = Shade(t, q)
    BY <1>0, <1>5, <1>10
  <2>2. q = Sentinel \/ c2[q] = c[q]
    BY <1>9, <1>10
  <2> QED BY <2>1, <2>2 DEF Tall
<1>11. Tall(u, c2, p) = c[p] /\ Tall(u, c2, n) = c[p] /\ Tall(u, c2, w) = Tall(t, c, p)
  <2>1. Shade(u, p) = "black" /\ Shade(u, n) = "black" /\ Shade(u, w) = Shade(t, p) /\ Shade(t, n) = "red"
    BY <1>0, <1>1, <1>3, <1>5
  <2>2. c2[p] = c[w] /\ c2[w] = c[p] /\ c2[n] = c[n]
    BY <1>1, <1>3, <1>9
  <2>3. c[n] = c[w]
    <3>1. c[n] \in Nat
      BY <1>0, <1>3, <1>6
    <3> QED BY <1>7, <1>8, <2>1, <3>1 DEF Tall
  <2> QED BY <1>7, <2>1, <2>2, <2>3 DEF Tall
<1>12. ASSUME NEW q \in m, NEW s \in Sides PROVE Tall(u, c2, Near(u, q, s)) = c2[q]
  <2>1. Near(u, q, s) = IF q = p /\ s # side THEN i
                        ELSE IF q = w /\ s = side THEN p
                        ELSE IF Near(t, q, s) = p THEN w ELSE Near(t, q, s)
    BY <1>2, <1>4 DEF Swings
  <2>2. Near(t, q, s) \in m \cup {Sentinel} /\ (Near(t, q, s) = w => q = p /\ s = Other(side))
        /\ (Near(t, q, s) = n => q = w /\ s = Other(side))
    BY <1>0, <1>1, <1>3, Kids
  <2>3. Tall(t, c, Near(t, q, s)) + (IF q = p /\ s = side THEN 1 ELSE 0) = c[q]
    BY <1>1, EvenAt
  <2>4. CASE q = p /\ s # side
    <3>1. Tall(u, c2, i) = Tall(t, c, i)
      BY <1>3, <1>10
    <3> QED BY <1>8, <1>9, <2>1, <2>4, <3>1
  <2>5. CASE q = p /\ s = side
    <3>1. Near(u, q, s) = x
      BY <1>1, <1>3, <2>1, <2>5
    <3>2. Tall(u, c2, x) = Tall(t, c, x)
      BY <1>1, <1>3, <1>10
    <3> QED BY <1>8, <1>9, <2>5, <3>1, <3>2
  <2>6. CASE q = w /\ s = side
    BY <1>3, <1>9, <1>11, <2>1, <2>6
  <2>7. CASE q = w /\ s # side
    <3>1. Near(u, q, s) = n
      BY <1>0, <1>3, <2>1, <2>7
    <3> QED BY <1>3, <1>9, <1>11, <2>7, <3>1
  <2>8. CASE q # p /\ q # w
    <3>1. c2[q] = c[q] /\ Near(t, q, s) # w /\ Near(t, q, s) # n
      BY <1>9, <2>2, <2>8
    <3>2. Tall(t, c, Near(t, q, s)) = c[q]
      <4>1. Tall(t, c, Near(t, q, s)) \in Nat
        BY <1>0, <1>6, <2>2, TallTypes
      <4> QED BY <2>3, <2>8, <4>1
    <3>3. CASE Near(t, q, s) = p
      BY <1>11, <2>1, <2>8, <3>1, <3>2, <3>3
    <3>4. CASE Near(t, q, s) # p
      <4>1. Tall(u, c2, Near(t, q, s)) = Tall(t, c, Near(t, q, s))
        BY <1>10, <2>2, <3>1, <3>4
      <4> QED BY <2>1, <2>8, <3>1, <3>2, <3>4, <4>1
    <3> QED BY <3>3, <3>4
  <2> QED BY <2>4, <2>5, <2>6, <2>7, <2>8
<1>13. Even(u, m, c2, Sentinel, "left")
  <2>1. ASSUME NEW q \in m, NEW s \in Sides
        PROVE  Tall(u, c2, Near(u, q, s)) + (IF q = Sentinel /\ s = "left" THEN 1 ELSE 0) = c2[q]
    <3>1. q # Sentinel /\ c2[q] \in Nat
      BY <1>0, <1>9
    <3> QED BY <1>12, <3>1
  <2> QED BY <1>9, <2>1 DEF Even
<1>14. ASSUME NEW q \in m, NEW s \in Sides, Shade(u, q) = "red", Shade(u, Near(u, q, s)) = "red" PROVE FALSE
  <2>1. Near(u, q, s) = IF q = p /\ s # side THEN i
                        ELSE IF q = w /\ s = side THEN p
                        ELSE IF Near(t, q, s) = p THEN w ELSE Near(t, q, s)
    BY <1>2, <1>4 DEF Swings
  <2>2. /\ Near(t, q, s) \in Pointers /\ q \in Pointers
        /\ Near(t, q, s) = w => q = p
    BY <1>0, <1>1, <1>3, Kids
  <2>3. q # p /\ q # n
    BY <1>5, <1>14, <2>2
  <2>4. CASE q = w
    <3>1. Near(u, q, s) = p \/ Near(u, q, s) = n
      BY <1>0, <1>3, <2>1, <2>4
    <3> QED BY <1>0, <1>1, <1>3, <1>5, <1>14, <3>1
  <2>5. CASE q # w
    <3>1. Shade(t, q) = "red"
      BY <1>5, <1>14, <2>2, <2>3, <2>5
    <3>2. CASE Near(t, q, s) = p
      <4>1. Shade(t, p) = "red"
        BY <1>0, <1>1, <1>3, <1>5, <1>14, <2>1, <2>3, <2>5, <3>2
      <4> QED BY <1>0, <1>1, <3>1, <3>2, <4>1 DEF Reds
    <3>3. CASE Near(t, q, s) # p
      <4>1. Near(u, q, s) = Near(t, q, s) /\ Near(t, q, s) # w
        BY <2>1, <2>2, <2>3, <2>5, <3>3
      <4>2. Shade(t, Near(t, q, s)) = "red"
        BY <1>5, <1>14, <2>2, <3>3, <4>1
      <4> QED BY <1>0, <1>1, <3>1, <4>2 DEF Reds
    <3> QED BY <3>2, <3>3
  <2> QED BY <2>4, <2>5
<1>15. Reds(u, m, u.root, u.root)
  BY <1>14 DEF Reds
<1>16. u.root \in m
  <2>1. Sound(u, m)
    BY <1>4, Basis
  <2> QED BY <1>1, <2>1, ChildrenOf
<1> QED BY <1>4, <1>13, <1>15, <1>16 DEF Sinking, Owing, Reaches

(* And so does LiftSibling on the left; on the right it is taken note of.  *)
LEMMA LiftedLeft ==
  ASSUME NEW m \in SUBSET Nodes, NEW t, NEW c, NEW x, NEW p, NEW w,
         Poised(t, m, c, x, p, "left", w), Shade(t, t.right[w]) = "red",
         NEW u, u = LiftSibling(t, x, w, "left")
  PROVE  Sinking(u, m, u.root) /\ u.root \in m
<1>1. Good(t, m) /\ p \in m /\ w \in m /\ p = t.parent[x] /\ w = Near(t, p, Other("left"))
  BY DEF Poised
<1>0. /\ Sound(t, m) /\ t \in Trees /\ Shade(t, Sentinel) # "red" /\ m \subseteq Pointers
      /\ Sentinel \in Pointers /\ "left" \in Sides /\ Other("left") \in Sides /\ Other("left") = "right"
  BY <1>1, Basis DEF Sides, Other
<1>2. PICK n : n = t.right[w]
  OBVIOUS
<1>3. n \in m /\ n = Near(t, w, Other("left")) /\ n # p /\ n # w /\ w # p
  <2>1. n = Near(t, w, Other("left"))
    BY <1>0, <1>2 DEF Near
  <2>2. n \in m /\ n # w /\ t.parent[n] = w
    BY <1>0, <1>1, <1>2, <2>1, Kids
  <2>3. t.parent[w] = p /\ w # p
    BY <1>0, <1>1, Kids
  <2>4. n # p
    BY <1>0, <1>1, <2>2, <2>3, NoTwoCycle
  <2> QED BY <2>1, <2>2, <2>3, <2>4
<1>4. PICK a1, a2, a3 : Takes(t, a1, w, p) /\ Blackens(a1, a2, p) /\ Blackens(a2, a3, n)
  BY DEF Takes, Blackens
<1>5. /\ Good(a1, m) /\ Repainted(t, a1)
      /\ \A q \in Pointers : Shade(a1, q) = IF q = w THEN Shade(t, p) ELSE Shade(t, q)
  <2>1. Good(t, m) /\ w \in m /\ p \in m
    BY <1>1
  <2> QED BY <1>4, <2>1, Taken
<1>6. /\ Good(a2, m) /\ Repainted(a1, a2)
      /\ \A q \in Pointers : Shade(a2, q) = IF q = p THEN "black" ELSE Shade(a1, q)
  <2>1. Good(a1, m) /\ p \in m
    BY <1>1, <1>5
  <2> QED BY <1>4, <2>1, Blackened
<1>7. /\ Good(a3, m) /\ Repainted(a2, a3)
      /\ \A q \in Pointers : Shade(a3, q) = IF q = n THEN "black" ELSE Shade(a2, q)
  <2>1. Good(a2, m) /\ n \in m
    BY <1>3, <1>6
  <2> QED BY <1>4, <2>1, Blackened
<1>8. PICK k : k = a3.skewed
  OBVIOUS
<1>9. k \in BOOLEAN /\ Sound(a3, m) /\ a3 \in Trees
  BY <1>7, <1>8, Basis DEF Trees
<1>10. PICK b : b = [a3 EXCEPT !.skewed = k]
  OBVIOUS
<1>11. Good(b, m) /\ Repainted(a3, b) /\ b.red = a3.red
  BY <1>7, <1>9, <1>10, Skewing, SkewingKeeps DEF Repainted
<1>12. Repainted(t, b)
  BY <1>5, <1>6, <1>7, <1>11 DEF Repainted
<1>13. Repays(t, b, p, w, n)
  <2>1. \A q : Shade(b, q) = Shade(a3, q)
    BY <1>11 DEF Shade
  <2> QED BY <1>3, <1>5, <1>6, <1>7, <2>1 DEF Repays
<1>14. u = RotateTo(b, p, "left")
  <2>1. a2.right[w] = n
    BY <1>2, <1>5, <1>6 DEF Repainted
  <2>2. k = (a3.skewed \/ "left" = "right")
    BY <1>8, <1>9
  <2> QED BY <1>1, <1>4, <1>10, <2>1, <2>2 DEF LiftSibling, Takes, Blackens
<1>15. Shade(t, n) = "red" /\ Good(b, m) /\ n = Near(t, w, Other("left"))
  BY <1>2, <1>3, <1>11
<1> QED BY <1>12, <1>13, <1>14, <1>15, BalanceRestored

-----------------------------------------------------------------------------
(* Once the last case of DeleteFixup has run on the right, that stays noted. *)

Skews == {t \in Trees : t.skewed}

LEMMA SkewWrites ==
  ASSUME NEW t \in Skews, NEW p \in Pointers, NEW q \in Pointers
  PROVE  /\ SetLeft(t, p, q) \in Skews /\ SetRight(t, p, q) \in Skews /\ SetParent(t, p, q) \in Skews
         /\ \A b \in BOOLEAN : SetRed(t, p, b) \in Skews
         /\ \A f \in {"null_deref", "endless"} : Fail(t, f) \in Skews
         /\ Replace(t, p, q) \in Skews
<1>0. t \in Trees /\ t.skewed
  BY DEF Skews
<1>1. \A f \in {"null_deref", "endless"} : Fail(t, f) \in Skews
  BY <1>0 DEF Fail, Trees, Skews
<1>2. \A s \in Pointers : SetLeft(t, s, q) \in Skews
  <2> TAKE s \in Pointers
  <2>1. CASE s = Null
    BY <1>1, <2>1 DEF SetLeft
  <2>2. CASE s # Null
    BY <1>0, <2>2, LeftSet DEF Skews, SameColours
  <2> QED BY <2>1, <2>2
<1>3. \A s \in Pointers : SetRight(t, s, q) \in Skews
  <2> TAKE s \in Pointers
  <2>1. CASE s = Null
    BY <1>1, <2>1 DEF SetRight
  <2>2. CASE s # Null
    BY <1>0, <2>2, RightSet DEF Skews, SameColours
  <2> QED BY <2>1, <2>2
<1>4. SetParent(t, p, q) \in Skews
  <2>1. CASE p = Null
    BY <1>1, <2>1 DEF SetParent
  <2>2. CASE p # Null
    BY <1>0, <2>2, ParentSet DEF Skews, SameColours
  <2> QED BY <2>1, <2>2
<1>5. \A b \in BOOLEAN : SetRed(t, p, b) \in Skews
  BY <1>0, RedSet DEF Skews
<1>6. Replace(t, p, q) \in Skews
  <2>1. t.parent[p] \in Pointers
    BY <1>0, FieldTypes
  <2>2. [t EXCEPT !.root = q] \in Skews
    BY <1>0 DEF Trees, Skews
  <2> QED BY <1>2, <1>3, <2>1, <2>2 DEF Replace
<1> QED BY <1>1, <1>2, <1>3, <1>4, <1>5, <1>6

LEMMA SkewFields ==
  ASSUME NEW t \in Skews, NEW p \in Pointers
  PROVE  /\ t \in Trees /\ t.root \in Pointers /\ t.red[p] \in BOOLEAN
         /\ t.left[p] \in Pointers /\ t.right[p] \in Pointers /\ t.parent[p] \in Pointers
         /\ \A side : Near(t, p, side) \in Pointers /\ Far(t, p, side) \in Pointers
<1>1. t \in Trees
  BY DEF Skews
<1> QED BY <1>1, FieldTypes DEF Near, Far

LEMMA SkewTransplants ==
  ASSUME NEW t \in Skews, NEW x \in Pointers, NEW y \in Pointers
  PROVE  RBTransplant(t, x, y) \in Skews
<1>1. Replace(t, x, y) \in Skews /\ t.parent[x] \in Pointers
  BY SkewWrites, SkewFields
<1> QED BY <1>1, SkewWrites DEF RBTransplant

LEMMA SkewRotates ==
  ASSUME NEW t \in Skews, NEW x \in Pointers
  PROVE  /\ LeftRotate(t, x) \in Skews /\ RightRotate(t, x) \in Skews
         /\ \A side : RotateTo(t, x, side) \in Skews /\ RotateFrom(t, x, side) \in Skews
<1>1. ASSUME NEW y, y = t.right[x] PROVE LeftRotate(t, x) \in Skews
  <2>1. y \in Pointers /\ t.left[y] \in Pointers
    BY <1>1, SkewFields
  <2>2. PICK t1 : t1 = SetRight(t, x, t.left[y])
    OBVIOUS
  <2>3. t1 \in Skews
    BY <2>1, <2>2, SkewWrites
  <2>4. PICK t2 : t2 = IF t.left[y] # Sentinel THEN SetParent(t1, t.left[y], x) ELSE t1
    OBVIOUS
  <2>5. t2 \in Skews
    BY <2>1, <2>3, <2>4, SkewWrites
  <2>6. t1.parent[x] \in Pointers /\ t2.parent[x] \in Pointers
    BY <2>3, <2>5, SkewFields
  <2>7. PICK ta : ta = SetParent(t2, y, t2.parent[x])
    OBVIOUS
  <2>8. ta \in Skews
    BY <2>1, <2>5, <2>6, <2>7, SkewWrites
  <2>9. PICK t3 : t3 = Replace(ta, x, y)
    OBVIOUS
  <2>10. t3 \in Skews
    BY <2>1, <2>8, <2>9, SkewWrites
  <2>11. PICK t4 : t4 = SetLeft(t3, y, x)
    OBVIOUS
  <2>12. t4 \in Skews
    BY <2>1, <2>10, <2>11, SkewWrites
  <2>13. LeftRotate(t, x) = SetParent(t4, x, y)
    BY <1>1, <2>2, <2>4, <2>7, <2>9, <2>11 DEF LeftRotate
  <2> QED BY <2>1, <2>12, <2>13, SkewWrites
<1>2. ASSUME NEW y, y = t.left[x] PROVE RightRotate(t, x) \in Skews
  <2>1. y \in Pointers /\ t.right[y] \in Pointers
    BY <1>2, SkewFields
  <2>2. PICK t1 : t1 = SetLeft(t, x, t.right[y])
    OBVIOUS
  <2>3. t1 \in Skews
    BY <2>1, <2>2, SkewWrites
  <2>4. PICK t2 : t2 = IF t.right[y] # Sentinel THEN SetParent(t1, t.right[y], x) ELSE t1
    OBVIOUS
  <2>5. t2 \in Skews
    BY <2>1, <2>3, <2>4, SkewWrites
  <2>6. t1.parent[x] \in Pointers /\ t2.parent[x] \in Pointers
    BY <2>3, <2>5, SkewFields
  <2>7. PICK ta : ta = SetParent(t2, y, t2.parent[x])
    OBVIOUS
  <2>8. ta \in Skews
    BY <2>1, <2>5, <2>6, <2>7, SkewWrites
  <2>9. PICK t3 : t3 = Replace(ta, x, y)
    OBVIOUS
  <2>10. t3 \in Skews
    BY <2>1, <2>8, <2>9, SkewWrites
  <2>11. PICK t4 : t4 = SetRight(t3, y, x)
    OBVIOUS
  <2>12. t4 \in Skews
    BY <2>1, <2>10, <2>11, SkewWrites
  <2>13. RightRotate(t, x) = SetParent(t4, x, y)
    BY <1>2, <2>2, <2>4, <2>7, <2>9, <2>11 DEF RightRotate
  <2> QED BY <2>1, <2>12, <2>13, SkewWrites
<1> QED BY <1>1, <1>2 DEF RotateTo, RotateFrom

SkewFixups == {c \in Fixups : c.tree \in Skews}

LEMMA SkewFixed ==
  ASSUME NEW t \in Skews, NEW x \in Pointers
  PROVE  Fixup(t, x) \in SkewFixups
<1>1. t \in Trees
  BY DEF Skews
<1> QED BY <1>1, Fixed DEF SkewFixups

LEMMA SkewInsertPass ==
  ASSUME NEW t \in Skews, NEW z \in Pointers
  PROVE  InsertPass(t, z) \in SkewFixups
<1>1. PICK p, g : p = t.parent[z] /\ g = t.parent[p]
  OBVIOUS
<1>2. p \in Pointers /\ g \in Pointers
  BY <1>1, SkewFields
<1>3. PICK side, y : side = SideOf(t, p) /\ y = Far(t, g, side)
  OBVIOUS
<1>4. y \in Pointers
  BY <1>2, <1>3, SkewFields
<1>5. PICK a, b, d : a = SetRed(t, p, FALSE) /\ b = SetRed(a, y, FALSE) /\ d = SetRed(b, g, TRUE)
  OBVIOUS
<1>6. d \in Skews
  <2>1. a \in Skews
    BY <1>2, <1>5, SkewWrites
  <2>2. b \in Skews
    BY <1>4, <1>5, <2>1, SkewWrites
  <2> QED BY <1>2, <1>5, <2>2, SkewWrites
<1>7. PICK inner \in BOOLEAN : inner = (z = Far(t, p, side))
  OBVIOUS
<1>8. PICK z1 : z1 = IF inner THEN p ELSE z
  OBVIOUS
<1>9. PICK t1 : t1 = IF inner THEN RotateTo(t, p, side) ELSE t
  OBVIOUS
<1>10. t1 \in Skews /\ z1 \in Pointers
  BY <1>2, <1>8, <1>9, SkewRotates
<1>11. RaiseParent(t1, z1, side) \in Skews
  <2>1. PICK q : q = t1.parent[z1]
    OBVIOUS
  <2>2. q \in Pointers /\ t1.parent[q] \in Pointers
    BY <1>10, <2>1, SkewFields
  <2>3. PICK e, f : e = SetRed(t1, q, FALSE) /\ f = SetRed(e, t1.parent[q], TRUE)
    OBVIOUS
  <2>4. e \in Skews
    BY <1>10, <2>2, <2>3, SkewWrites
  <2>5. f \in Skews
    BY <2>2, <2>3, <2>4, SkewWrites
  <2>6. f.parent[q] \in Pointers
    BY <2>2, <2>5, SkewFields
  <2>7. RaiseParent(t1, z1, side) = RotateFrom(f, f.parent[q], side)
    BY <2>1, <2>3 DEF RaiseParent
  <2> QED BY <2>5, <2>6, <2>7, SkewRotates
<1>12. InsertPass(t, z) = IF Broken(t) \/ (p # Null /\ ~t.red[p]) THEN Fixup(t, z)
                          ELSE IF y = Null THEN Fixup(Fail(t, "null_deref"), z)
                          ELSE IF t.red[y] THEN Fixup(d, g) ELSE Fixup(RaiseParent(t1, z1, side), z1)
  BY <1>1, <1>3, <1>5, <1>7, <1>8, <1>9 DEF InsertPass
<1>13. Fail(t, "null_deref") \in Skews
  BY <1>2, SkewWrites
<1>14. /\ Fixup(t, z) \in SkewFixups /\ Fixup(Fail(t, "null_deref"), z) \in SkewFixups
       /\ Fixup(d, g) \in SkewFixups /\ Fixup(RaiseParent(t1, z1, side), z1) \in SkewFixups
  BY <1>2, <1>6, <1>10, <1>11, <1>13, SkewFixed
<1> QED BY <1>12, <1>14

LEMMA SkewInsertFixup ==
  ASSUME NEW t \in Skews, NEW z \in Pointers
  PROVE  InsertFixup(t, z) \in Skews
<1> DEFINE body == [c \in Fixups |-> InsertPass(c.tree, c.at)]
<1>1. \A c \in SkewFixups : body[c] \in SkewFixups
  <2> TAKE c \in SkewFixups
  <2>1. c \in Fixups /\ c.tree \in Skews /\ c.at \in Pointers
    BY DEF SkewFixups, Fixups
  <2>2. body[c] = InsertPass(c.tree, c.at)
    BY <2>1
  <2> QED BY <2>1, <2>2, SkewInsertPass
<1>2. Fixup(t, z) \in SkewFixups
  BY SkewFixed
<1> HIDE DEF body
<1>3. PICK e : e = Iterated(body, Fixup(t, z), LoopBound)
  OBVIOUS
<1>4. e \in SkewFixups
  <2>1. LoopBound \in Nat
    BY Basics DEF LoopBound
  <2> QED BY <1>1, <1>2, <1>3, <2>1, IteratedStays
<1>5. e.tree \in Skews /\ e.tree.root \in Pointers
  <2>1. e.tree \in Skews /\ e.at \in Pointers
    BY <1>4 DEF SkewFixups, Fixups
  <2> QED BY <2>1, SkewFields
<1>6. Fail(e.tree, "endless") \in Skews /\ SetRed(e.tree, e.tree.root, FALSE) \in Skews
  BY <1>5, SkewWrites
<1>7. InsertFixup(t, z) = InsertEnd(e.tree, e.at)
  BY <1>3 DEF InsertFixup, body
<1> QED BY <1>5, <1>6, <1>7 DEF InsertEnd

LEMMA SkewInserted ==
  ASSUME NEW t \in Skews, NEW z \in Nodes
  PROVE  rb_tree_insert(t, z) \in Skews
<1>0. t \in Trees /\ z \in Pointers /\ Sentinel \in Pointers
  BY Basics DEF Skews
<1> DEFINE body == [c \in Pointers \X Pointers |->
                      IF c[1] \in {Sentinel, Null} THEN c ELSE <<ChildFor(t, z, c[1]), c[1]>>]
<1>1. \A c \in Pointers \X Pointers : body[c] \in Pointers \X Pointers
  <2> TAKE c \in Pointers \X Pointers
  <2>1. ChildFor(t, z, c[1]) \in Pointers
    BY SkewFields DEF ChildFor
  <2> QED BY <2>1
<1>2. Descent(t, z) = Iterated(body, <<t.root, Sentinel>>, LoopBound)
  BY DEF Descent
<1>3. <<t.root, Sentinel>> \in Pointers \X Pointers
  BY <1>0, SkewFields
<1> HIDE DEF body
<1>4. Descent(t, z) \in Pointers \X Pointers
  <2>1. LoopBound \in Nat
    BY Basics DEF LoopBound
  <2> DEFINE P == Pointers \X Pointers
             start == <<t.root, Sentinel>>
  <2>2. start \in P /\ \A e \in P : body[e] \in P
    BY <1>1, <1>3
  <2>3. Descent(t, z) = Iterated(body, start, LoopBound)
    BY <1>2
  <2> HIDE DEF P, start
  <2>4. Iterated(body, start, LoopBound) \in P
    BY <2>1, <2>2, IteratedStays
  <2> QED BY <2>3, <2>4 DEF P
<1>5. PICK x, y : x = Descent(t, z)[1] /\ y = Descent(t, z)[2]
  OBVIOUS
<1>6. y \in Pointers
  BY <1>4, <1>5
<1>7. PICK t1 : t1 = [t EXCEPT !.parent[z] = y]
  OBVIOUS
<1>8. PICK t2 : t2 = IF y = Sentinel THEN [t1 EXCEPT !.root = z]
                     ELSE IF z < y THEN [t1 EXCEPT !.left[y] = z] ELSE [t1 EXCEPT !.right[y] = z]
  OBVIOUS
<1>9. PICK t3 : t3 = [t2 EXCEPT !.left[z] = Sentinel, !.right[z] = Sentinel, !.red[z] = TRUE]
  OBVIOUS
<1>10. t1 \in Skews
  BY <1>0, <1>6, <1>7 DEF Skews, Trees
<1>11. t2 \in Skews
  BY <1>0, <1>6, <1>8, <1>10 DEF Skews, Trees
<1>12. t3 \in Skews
  BY <1>0, <1>9, <1>11 DEF Skews, Trees
<1>13. rb_tree_insert(t, z) = IF x = Null THEN Fail(t, "null_deref")
                              ELSE IF x # Sentinel THEN Fail(t, "endless") ELSE InsertFixup(t3, z)
  BY <1>5, <1>7, <1>8, <1>9 DEF rb_tree_insert
<1>14. Fail(t, "null_deref") \in Skews /\ Fail(t, "endless") \in Skews
  BY <1>0, SkewWrites
<1> QED BY <1>0, <1>12, <1>13, <1>14, SkewInsertFixup

LEMMA PaintNotes ==
  ASSUME NEW t \in Trees, NEW p \in Pointers
  PROVE  \A b \in BOOLEAN : SetRed(t, p, b) \in Trees /\ SetRed(t, p, b).skewed = t.skewed
<1> TAKE b \in BOOLEAN
<1>1. CASE p = Null
  BY <1>1 DEF SetRed, Fail, Trees
<1>2. CASE p # Null
  BY <1>2 DEF SetRed, Trees
<1> QED BY <1>1, <1>2

(* The last case of DeleteFixup, on either side.                           *)
LEMMA SkewLift ==
  ASSUME NEW t \in Trees, NEW x \in Pointers, NEW w \in Pointers, NEW side, t \in Skews \/ side = "right"
  PROVE  LiftSibling(t, x, w, side) \in Skews
<1>1. PICK p : p = t.parent[x]
  OBVIOUS
<1>2. p \in Pointers /\ t.red[p] \in BOOLEAN
  BY <1>1, FieldTypes
<1>3. PICK a1 : a1 = SetRed(t, w, t.red[p])
  OBVIOUS
<1>4. a1 \in Trees /\ a1.skewed = t.skewed
  BY <1>2, <1>3, PaintNotes
<1>5. PICK a2 : a2 = SetRed(a1, p, FALSE)
  OBVIOUS
<1>6. a2 \in Trees /\ a2.skewed = t.skewed
  BY <1>2, <1>4, <1>5, PaintNotes
<1>7. PICK k : k = IF side = "left" THEN a2.right[w] ELSE a2.left[x]
  OBVIOUS
<1>8. k \in Pointers
  BY <1>6, <1>7, FieldTypes
<1>9. PICK a3 : a3 = SetRed(a2, k, FALSE)
  OBVIOUS
<1>10. a3 \in Trees /\ a3.skewed = t.skewed
  BY <1>6, <1>8, <1>9, PaintNotes
<1>11. PICK a4 : a4 = [a3 EXCEPT !.skewed = a3.skewed \/ side = "right"]
  OBVIOUS
<1>12. a4 \in Skews
  BY <1>10, <1>11 DEF Skews, Trees
<1>13. LiftSibling(t, x, w, side) = RotateTo(a4, p, side)
  BY <1>1, <1>3, <1>5, <1>7, <1>9, <1>11 DEF LiftSibling
<1> QED BY <1>2, <1>12, <1>13, SkewRotates

LEMMA SkewRaiseSibling ==
  ASSUME NEW t \in Skews, NEW p \in Pointers, NEW w \in Pointers, NEW side
  PROVE  RaiseSibling(t, p, w, side) \in Skews
<1>1. PICK a, b : a = SetRed(t, w, FALSE) /\ b = SetRed(a, p, TRUE)
  OBVIOUS
<1>2. a \in Skews
  BY <1>1, SkewWrites
<1>3. b \in Skews
  BY <1>1, <1>2, SkewWrites
<1>4. RotateTo(b, p, side) \in Skews
  BY <1>3, SkewRotates
<1> QED BY <1>1, <1>4 DEF RaiseSibling

LEMMA SkewRaiseNephew ==
  ASSUME NEW t \in Skews, NEW w \in Pointers, NEW side
  PROVE  RaiseNephew(t, w, side) \in Skews
<1>1. PICK a, b : a = SetRed(t, Near(t, w, side), FALSE) /\ b = SetRed(a, w, TRUE)
  OBVIOUS
<1>2. a \in Skews
  BY <1>1, SkewWrites, SkewFields
<1>3. b \in Skews
  BY <1>1, <1>2, SkewWrites
<1>4. RotateFrom(b, w, side) \in Skews
  BY <1>3, SkewRotates
<1> QED BY <1>1, <1>4 DEF RaiseNephew

LEMMA SkewDeletePass ==
  ASSUME NEW t \in Skews, NEW x \in Pointers
  PROVE  DeletePass(t, x) \in SkewFixups
<1>1. PICK p, side : p = t.parent[x] /\ side = SideOf(t, x)
  OBVIOUS
<1>2. PICK w0 : w0 = Far(t, p, side)
  OBVIOUS
<1>3. p \in Pointers /\ w0 \in Pointers
  BY <1>1, <1>2, SkewFields
<1>4. PICK t1 : t1 = RaiseSibling(t, p, w0, side)
  OBVIOUS
<1>5. t1 \in Skews /\ t1 \in Trees /\ t1.parent[x] \in Pointers
  BY <1>3, <1>4, SkewRaiseSibling, SkewFields
<1>6. PICK w : w = IF t.red[w0] THEN Far(t1, t1.parent[x], side) ELSE w0
  OBVIOUS
<1>7. w \in Pointers
  BY <1>3, <1>5, <1>6, SkewFields
<1>8. PICK t2 : t2 = RaiseNephew(t1, w, side)
  OBVIOUS
<1>9. t2 \in Skews /\ t2 \in Trees /\ t2.parent[x] \in Pointers
  BY <1>5, <1>7, <1>8, SkewRaiseNephew, SkewFields
<1>10. PICK w2 : w2 = IF t1.red[Far(t1, w, side)] THEN w ELSE Far(t2, t2.parent[x], side)
  OBVIOUS
<1>11. w2 \in Pointers
  BY <1>7, <1>9, <1>10, SkewFields
<1>12. PICK t3 : t3 = LiftSibling(t2, x, w2, side)
  OBVIOUS
<1>13. t3 \in Skews /\ t3.root \in Pointers
  BY <1>9, <1>11, <1>12, SkewLift, SkewFields
<1>14. DeletePass(t, x) =
         IF Broken(t) \/ x = t.root \/ t.red[x] THEN Fixup(t, x)
         ELSE IF Broken(t1) \/ Null \in {t1.left[w], t1.right[w]} THEN Fixup(Fail(t1, "null_deref"), x)
         ELSE IF ~t1.red[t1.left[w]] /\ ~t1.red[t1.right[w]] THEN Fixup(SetRed(t1, w, TRUE), t1.parent[x])
         ELSE Fixup(t3, t3.root)
  <2>1. DeletePass(t, x) = IF Broken(t) \/ x = t.root \/ t.red[x] THEN Fixup(t, x)
                           ELSE PassExtraBlack(t1, x, w, side)
    BY <1>1, <1>2, <1>4, <1>6 DEF DeletePass
  <2>2. PassExtraBlack(t1, x, w, side) =
          IF Broken(t1) \/ Null \in {t1.left[w], t1.right[w]} THEN Fixup(Fail(t1, "null_deref"), x)
          ELSE IF ~t1.red[t1.left[w]] /\ ~t1.red[t1.right[w]] THEN Fixup(SetRed(t1, w, TRUE), t1.parent[x])
          ELSE Fixup(t3, t3.root)
    BY <1>8, <1>10, <1>12 DEF PassExtraBlack
  <2> QED BY <2>1, <2>2
<1>15. Fail(t1, "null_deref") \in Skews /\ SetRed(t1, w, TRUE) \in Skews
  BY <1>5, <1>7, SkewWrites
<1>16. /\ Fixup(t, x) \in SkewFixups /\ Fixup(Fail(t1, "null_deref"), x) \in SkewFixups
       /\ Fixup(SetRed(t1, w, TRUE), t1.parent[x]) \in SkewFixups /\ Fixup(t3, t3.root) \in SkewFixups
  BY <1>5, <1>13, <1>15, SkewFixed
<1> QED BY <1>14, <1>16

LEMMA SkewDeleteFixup ==
  ASSUME NEW t \in Skews, NEW x \in Pointers
  PROVE  DeleteFixup(t, x) \in Skews
<1> DEFINE body == [c \in Fixups |-> DeletePass(c.tree, c.at)]
<1>1. \A c \in SkewFixups : body[c] \in SkewFixups
  <2> TAKE c \in SkewFixups
  <2>1. c \in Fixups /\ c.tree \in Skews /\ c.at \in Pointers
    BY DEF SkewFixups, Fixups
  <2>2. body[c] = DeletePass(c.tree, c.at)
    BY <2>1
  <2> QED BY <2>1, <2>2, SkewDeletePass
<1>2. Fixup(t, x) \in SkewFixups
  BY SkewFixed
<1> HIDE DEF body
<1>3. PICK e : e = Iterated(body, Fixup(t, x), LoopBound)
  OBVIOUS
<1>4. e \in SkewFixups
  <2>1. LoopBound \in Nat
    BY Basics DEF LoopBound
  <2> QED BY <1>1, <1>2, <1>3, <2>1, IteratedStays
<1>5. e.tree \in Skews /\ e.at \in Pointers
  BY <1>4 DEF SkewFixups, Fixups
<1>6. Fail(e.tree, "endless") \in Skews /\ SetRed(e.tree, e.at, FALSE) \in Skews
  BY <1>5, SkewWrites
<1>7. DeleteFixup(t, x) = DeleteEnd(e.tree, e.at)
  BY <1>3 DEF DeleteFixup, body
<1> QED BY <1>5, <1>6, <1>7 DEF DeleteEnd

LEMMA MinimumTypes ==
  ASSUME NEW t \in Trees, NEW x \in Pointers
  PROVE  TreeMinimum(t, x) \in Pointers
<1> DEFINE body == [q \in Pointers |-> IF t.left[q] = Sentinel THEN q ELSE t.left[q]]
<1>1. \A q \in Pointers : body[q] \in Pointers
  BY FieldTypes
<1> HIDE DEF body
<1>2. Iterated(body, x, LoopBound) \in Pointers
  <2>1. LoopBound \in Nat
    BY Basics DEF LoopBound
  <2> QED BY <1>1, <2>1, IteratedStays
<1> QED BY <1>2, Basics DEF TreeMinimum, body

LEMMA SkewSuccessor ==
  ASSUME NEW t \in Skews, NEW z \in Pointers, NEW y \in Pointers, NEW x \in Pointers
  PROVE  PlaceSuccessor(FreeSuccessor(t, z, y, x), z, y) \in Skews
<1>1. FreeSuccessor(t, z, y, x) \in Skews
  <2>1. SetParent(t, x, y) \in Skews
    BY SkewWrites
  <2>2. PICK u, v : u = RBTransplant(t, y, x) /\ v = SetRight(u, y, u.right[z])
    OBVIOUS
  <2>3. u \in Skews /\ u.right[z] \in Pointers
    BY <2>2, SkewTransplants, SkewFields
  <2>4. v \in Skews /\ v.right[y] \in Pointers
    BY <2>2, <2>3, SkewWrites, SkewFields
  <2>5. SetParent(v, v.right[y], y) \in Skews
    BY <2>4, SkewWrites
  <2> QED BY <2>1, <2>2, <2>5 DEF FreeSuccessor
<1>2. ASSUME NEW t1 \in Skews PROVE PlaceSuccessor(t1, z, y) \in Skews
  <2>1. PICK t2, t3, t4 : /\ t2 = RBTransplant(t1, z, y) /\ t3 = SetLeft(t2, y, t2.left[z])
                          /\ t4 = SetParent(t3, t3.left[y], y)
    OBVIOUS
  <2>2. t2 \in Skews /\ t2.left[z] \in Pointers
    BY <2>1, SkewTransplants, SkewFields
  <2>3. t3 \in Skews /\ t3.left[y] \in Pointers /\ t3.red[z] \in BOOLEAN
    BY <2>1, <2>2, SkewWrites, SkewFields
  <2>4. t4 \in Skews
    BY <2>1, <2>3, SkewWrites
  <2>5. PlaceSuccessor(t1, z, y) = SetRed(t4, y, t3.red[z])
    BY <2>1 DEF PlaceSuccessor
  <2> QED BY <2>3, <2>4, <2>5, SkewWrites
<1> QED BY <1>1, <1>2

LEMMA SkewDeleted ==
  ASSUME NEW t \in Skews, NEW z \in Pointers
  PROVE  rb_tree_delete(t, z) \in Skews
<1>1. PICK y : y = TreeMinimum(t, t.right[z])
  OBVIOUS
<1>2. y \in Pointers /\ t.left[z] \in Pointers /\ t.right[z] \in Pointers /\ t.right[y] \in Pointers
  BY <1>1, SkewFields, MinimumTypes
<1>3. PICK ul, ur, u : /\ ul = RBTransplant(t, z, t.right[z]) /\ ur = RBTransplant(t, z, t.left[z])
                       /\ u = PlaceSuccessor(FreeSuccessor(t, z, y, t.right[y]), z, y)
  OBVIOUS
<1>4. ul \in Skews /\ ur \in Skews /\ u \in Skews
  BY <1>2, <1>3, SkewTransplants, SkewSuccessor
<1>5. \A b : (IF b THEN ul ELSE DeleteFixup(ul, t.right[z])) \in Skews
  BY <1>2, <1>4, SkewDeleteFixup
<1>6. \A b : (IF b THEN ur ELSE DeleteFixup(ur, t.left[z])) \in Skews
  BY <1>2, <1>4, SkewDeleteFixup
<1>7. \A b : (IF b THEN u ELSE DeleteFixup(u, t.right[y])) \in Skews
  BY <1>2, <1>4, SkewDeleteFixup
<1>8. CASE Broken(t)
  BY <1>8 DEF rb_tree_delete
<1>9. CASE ~Broken(t) /\ t.left[z] = Sentinel
  <2>1. rb_tree_delete(t, z) = IF t.red[z] THEN ul ELSE DeleteFixup(ul, t.right[z])
    BY <1>3, <1>9 DEF rb_tree_delete
  <2> QED BY <1>5, <2>1
<1>10. CASE ~Broken(t) /\ t.left[z] # Sentinel /\ t.right[z] = Sentinel
  <2>1. rb_tree_delete(t, z) = IF t.red[z] THEN ur ELSE DeleteFixup(ur, t.left[z])
    BY <1>3, <1>10 DEF rb_tree_delete
  <2> QED BY <1>6, <2>1
<1>11. CASE ~Broken(t) /\ t.left[z] # Sentinel /\ t.right[z] # Sentinel
  <2>1. rb_tree_delete(t, z) = IF t.red[y] THEN u ELSE DeleteFixup(u, t.right[y])
    <3> DEFINE e == PlaceSuccessor(FreeSuccessor(t, z, TreeMinimum(t, t.right[z]),
                                                 t.right[TreeMinimum(t, t.right[z])]),
                                   z, TreeMinimum(t, t.right[z]))
    <3>1. rb_tree_delete(t, z) = IF t.red[TreeMinimum(t, t.right[z])] THEN e
                                 ELSE DeleteFixup(e, t.right[TreeMinimum(t, t.right[z])])
      BY <1>11 DEF rb_tree_delete
    <3> QED BY <1>1, <1>3, <3>1
  <2> QED BY <1>7, <2>1
<1> QED BY <1>8, <1>9, <1>10, <1>11

-----------------------------------------------------------------------------
(* DeleteFixup.                                                            *)

(* The cases of a black sibling: the extra black is gone, moved up to p,   *)
(* or the last case was met on the right.                                  *)
LEMMA ExtraBlackPassed ==
  ASSUME NEW m \in SUBSET Nodes, NEW t, NEW c, NEW x, NEW p, NEW side, NEW w,
         Poised(t, m, c, x, p, side, w), NEW r, r = PassExtraBlack(t, x, w, side)
  PROVE  /\ r \in Fixups
         /\ \/ r.tree \in Skews
            \/ /\ Sinking(r.tree, m, r.at)
               /\ \/ r.at = r.tree.root
                  \/ Repainted(t, r.tree) /\ r.at = p /\ Shade(r.tree, p) = Shade(t, p)
<1>1. /\ Good(t, m) /\ x \in m \cup {Sentinel} /\ p \in m /\ side \in Sides /\ p = t.parent[x]
      /\ w = Near(t, p, Other(side)) /\ w \in m
  BY DEF Poised
<1>0. /\ Sound(t, m) /\ t \in Trees /\ ~Broken(t) /\ m \subseteq Pointers /\ Sentinel \in Pointers
      /\ Sentinel \notin m /\ Null \notin m /\ Null # Sentinel
      /\ \A q \in Pointers : Shade(t, q) = "red" <=> t.red[q]
  BY <1>1, Basis, Members
<1>2. /\ t.left[w] \in m \cup {Sentinel} /\ t.right[w] \in m \cup {Sentinel}
      /\ x \in Pointers /\ p \in Pointers /\ w \in Pointers
  BY <1>0, <1>1, ChildrenOf
<1>3. /\ t.left[w] \in Pointers /\ t.right[w] \in Pointers /\ Null \notin {t.left[w], t.right[w]}
  BY SMTT(40), <1>0, <1>2
<1>4. Near(t, w, side) \in {t.left[w], t.right[w]} /\ Far(t, w, side) = Near(t, w, Other(side))
      /\ {Near(t, w, side), Far(t, w, side)} = {t.left[w], t.right[w]}
  BY <1>1 DEF Near, Far, Sides, Other
<1>5. CASE ~t.red[t.left[w]] /\ ~t.red[t.right[w]]
  <2>1. PICK u : u = SetRed(t, w, TRUE)
    OBVIOUS
  <2>2. r = Fixup(u, p)
    BY <1>0, <1>1, <1>3, <1>5, <2>1 DEF PassExtraBlack
  <2>3. \A s \in Sides : Shade(t, Near(t, w, s)) # "red"
    <3>1. Shade(t, t.left[w]) # "red" /\ Shade(t, t.right[w]) # "red"
      BY <1>0, <1>3, <1>5
    <3> QED BY <3>1 DEF Near
  <2>4. Reddens(t, u, w)
    BY <2>1 DEF Reddens
  <2>5. Sinking(u, m, p) /\ Repainted(t, u) /\ Shade(u, p) = Shade(t, p)
    BY <2>3, <2>4, ExtraBlackUp
  <2>6. u \in Trees
    BY <2>5 DEF Sinking, Good, Sound
  <2>7. r \in Fixups /\ r.tree = u /\ r.at = p
    BY <1>2, <2>2, <2>6, Fixed
  <2> QED BY <2>5, <2>7
<1>6. CASE ~(~t.red[t.left[w]] /\ ~t.red[t.right[w]])
  <2>1. PICK t1 : t1 = RaiseNephew(t, w, side)
    OBVIOUS
  <2>2. PICK w1 : w1 = IF t.red[Far(t, w, side)] THEN w ELSE Far(t1, t1.parent[x], side)
    OBVIOUS
  <2>3. PICK v : v = LiftSibling(t1, x, w1, side)
    OBVIOUS
  <2>4. r = Fixup(v, v.root)
    BY <1>0, <1>3, <1>6, <2>1, <2>2, <2>3 DEF PassExtraBlack
  <2>5. Poised(t1, m, c, x, p, side, w1) /\ Shade(t1, Near(t1, w1, Other(side))) = "red"
    <3>1. CASE t.red[Far(t, w, side)]
      <4>1. t1 = t /\ w1 = w
        BY <2>1, <2>2, <3>1 DEF RaiseNephew
      <4>2. Far(t, w, side) \in Pointers
        BY <1>3 DEF Far
      <4>3. Shade(t, Far(t, w, side)) = "red"
        BY <1>0, <3>1, <4>2
      <4> QED BY <1>4, <4>1, <4>3
    <3>2. CASE ~t.red[Far(t, w, side)]
      <4>1. PICK n : n = Near(t, w, side)
        OBVIOUS
      <4>2. t.red[n]
        BY <1>4, <1>6, <3>2, <4>1
      <4>3. Shade(t, n) = "red" /\ Shade(t, Near(t, w, Other(side))) # "red"
        <5>1. n \in Pointers /\ Far(t, w, side) \in Pointers
          BY <1>3, <1>4, <4>1 DEF Far
        <5>2. Shade(t, n) = "red" /\ Shade(t, Far(t, w, side)) # "red"
          BY <1>0, <3>2, <4>2, <5>1
        <5> QED BY <1>4, <5>2
      <4>4. PICK a, b : Blackens(t, a, n) /\ Reddens(a, b, w)
        BY DEF Blackens, Reddens
      <4>5. t1 = RotateFrom(b, w, side)
        BY <2>1, <3>2, <4>1, <4>4 DEF RaiseNephew, Blackens, Reddens
      <4>6. Poised(t1, m, c, x, p, side, n) /\ Shade(t1, Near(t1, n, Other(side))) = "red"
        BY <4>1, <4>3, <4>4, <4>5, NephewRaised
      <4>7. w1 = n
        <5>1. t1.parent[x] = p /\ n = Near(t1, p, Other(side))
          BY <4>6, PoisedSibling
        <5> QED BY <1>1, <2>2, <3>2, <5>1, OtherSide
      <4> QED BY <4>6, <4>7
    <3> QED BY <3>1, <3>2
  <2>6. t1 \in Trees /\ w1 \in Pointers
    BY <1>0, <2>5 DEF Poised, Good, Sound
  <2>7. CASE side = "left"
    <3>1. Near(t1, w1, Other(side)) = t1.right[w1]
      BY <2>7 DEF Near, Other
    <3>2. Poised(t1, m, c, x, p, "left", w1) /\ Shade(t1, t1.right[w1]) = "red" /\ v = LiftSibling(t1, x, w1, "left")
      BY <2>3, <2>5, <2>7, <3>1
    <3>3. Sinking(v, m, v.root) /\ v.root \in m
      BY <3>2, LiftedLeft
    <3>4. v \in Trees /\ v.root \in Pointers
      BY <1>0, <3>3 DEF Sinking, Good, Sound
    <3>5. r \in Fixups /\ r.tree = v /\ r.at = v.root
      BY <2>4, <3>4, Fixed
    <3> QED BY <3>3, <3>5
  <2>8. CASE side = "right"
    <3>1. v \in Skews
      BY <1>2, <2>3, <2>6, <2>8, SkewLift
    <3>2. v \in Trees /\ v.root \in Pointers
      BY <1>2, <3>1, SkewFields
    <3>3. r \in Fixups /\ r.tree = v
      BY <2>4, <3>2, Fixed
    <3> QED BY <3>1, <3>3
  <2> QED BY <1>1, <2>7, <2>8 DEF Sides
<1> QED BY <1>5, <1>6

(* DeleteFixup at y in u goes on from x in t, or is over.                  *)
Proceeds(t, m, x, u, y) ==
  /\ Sinking(u, m, y)
  /\ x = t.root \/ Shade(t, x) = "red" => u = t /\ y = x
  /\ y = u.root \/ Shade(u, y) = "red" \/ (Repainted(t, u) /\ y = t.parent[x] /\ y \in m)

(* One run of DeleteFixup's body.                                          *)
LEMMA DeletePassSinks ==
  ASSUME NEW m \in SUBSET Nodes, NEW t, NEW x, Sinking(t, m, x), NEW r, r = DeletePass(t, x)
  PROVE  r \in Fixups /\ (r.tree \in Skews \/ Proceeds(t, m, x, r.tree, r.at))
<1>0. /\ Good(t, m) /\ Sound(t, m) /\ t \in Trees /\ ~Broken(t) /\ m \subseteq Pointers /\ x \in Pointers
      /\ \A q \in Pointers : Shade(t, q) = "red" <=> t.red[q]
  <2>1. Good(t, m) /\ Reaches(t, m, x)
    BY DEF Sinking
  <2>2. x \in m \cup {Sentinel}
    BY <2>1 DEF Reaches
  <2> QED BY <2>1, <2>2, Basis
<1>1. CASE x = t.root \/ Shade(t, x) = "red"
  <2>1. r = Fixup(t, x)
    BY <1>0, <1>1 DEF DeletePass
  <2>2. r \in Fixups /\ r.tree = t /\ r.at = x
    BY <1>0, <2>1, Fixed
  <2> QED BY <1>1, <2>2 DEF Proceeds
<1>2. CASE x # t.root /\ Shade(t, x) # "red"
  <2>1. PICK p, side : p = t.parent[x] /\ side = SideOf(t, x)
    OBVIOUS
  <2>2. PICK w0 : w0 = Near(t, p, Other(side))
    OBVIOUS
  <2>3. PICK c : /\ x \in m \cup {Sentinel} /\ p \in m /\ side \in Sides
                 /\ x = Near(t, p, side) /\ w0 \in m /\ x # p /\ x # w0 /\ w0 # p
                 /\ Reds(t, m, Sentinel, Sentinel) /\ Shade(t, t.root) # "red" /\ Even(t, m, c, p, side)
    BY <1>2, <2>1, <2>2, SinkingBelow
  <2>4. w0 = Far(t, p, side)
    BY <2>2, <2>3, OtherSide
  <2>5. PICK t1 : t1 = RaiseSibling(t, p, w0, side)
    OBVIOUS
  <2>6. PICK w : w = IF t.red[w0] THEN Far(t1, t1.parent[x], side) ELSE w0
    OBVIOUS
  <2>7. r = PassExtraBlack(t1, x, w, side)
    <3>1. ~(Broken(t) \/ x = t.root \/ t.red[x])
      BY <1>0, <1>2
    <3> QED BY <2>1, <2>4, <2>5, <2>6, <3>1 DEF DeletePass
  <2>8. CASE Shade(t, w0) = "red"
    <3>1. t.red[w0]
      BY <1>0, <2>3, <2>8
    <3>2. PICK a, b : Blackens(t, a, w0) /\ Reddens(a, b, p)
      BY DEF Blackens, Reddens
    <3>3. t1 = RotateTo(b, p, side)
      BY <2>5, <3>1, <3>2 DEF RaiseSibling, Blackens, Reddens
    <3>4. Readied(t1, m, x, p, side)
      <4>1. /\ x # t.root /\ Shade(t, x) # "red" /\ p = t.parent[x] /\ side = SideOf(t, x)
            /\ w0 = Near(t, p, Other(side)) /\ Shade(t, w0) = "red"
        BY <1>2, <2>1, <2>2, <2>8
      <4>2. Blackens(t, a, w0) /\ Reddens(a, b, p) /\ t1 = RotateTo(b, p, side)
        BY <3>2, <3>3
      <4> QED BY <4>1, <4>2, SiblingRaised
    <3>5. w = Near(t1, p, Other(side))
      BY <2>3, <2>6, <3>1, <3>4, OtherSide DEF Readied
    <3>6. PICK d : Poised(t1, m, d, x, p, side, w)
      BY <3>4, <3>5 DEF Readied
    <3>7. /\ r \in Fixups
          /\ \/ r.tree \in Skews
             \/ /\ Sinking(r.tree, m, r.at)
                /\ \/ r.at = r.tree.root
                   \/ Repainted(t1, r.tree) /\ r.at = p /\ Shade(r.tree, p) = Shade(t1, p)
      BY <2>7, <3>6, ExtraBlackPassed
    <3> QED BY <1>2, <3>4, <3>7 DEF Proceeds, Readied
  <2>9. CASE Shade(t, w0) # "red"
    <3>1. ~t.red[w0]
      BY <1>0, <2>3, <2>9
    <3>2. t1 = t /\ w = w0
      BY <2>5, <2>6, <3>1 DEF RaiseSibling
    <3>3. Poised(t, m, c, x, p, side, w0)
      BY <1>0, <1>2, <2>1, <2>2, <2>3, <2>9 DEF Poised
    <3>4. /\ r \in Fixups
          /\ \/ r.tree \in Skews
             \/ /\ Sinking(r.tree, m, r.at)
                /\ \/ r.at = r.tree.root
                   \/ Repainted(t, r.tree) /\ r.at = p /\ Shade(r.tree, p) = Shade(t, p)
      BY <2>7, <3>2, <3>3, ExtraBlackPassed
    <3> QED BY <1>2, <2>1, <2>3, <3>4 DEF Proceeds
  <2> QED BY <2>8, <2>9
<1> QED BY <1>1, <1>2

(* Where the loop ends, the extra black is the root's or can be painted.   *)
LEMMA DebtPaid ==
  ASSUME NEW m \in SUBSET Nodes, NEW t, NEW x, Sinking(t, m, x), x = t.root \/ Shade(t, x) = "red",
         NEW u, Blackens(t, u, x)
  PROVE  Good(u, m) /\ \E c : Level(u, m, c)
<1>0. /\ Good(t, m) /\ Sound(t, m) /\ t \in Trees /\ ~Broken(t) /\ Shade(t, Sentinel) # "red" /\ m \subseteq Pointers
      /\ Sentinel \in Pointers /\ Sentinel \notin m /\ Reaches(t, m, x) /\ Reds(t, m, x, x)
      /\ Shade(t, t.root) = "red" => t.root = x
  <2>1. Good(t, m) /\ Reaches(t, m, x) /\ Reds(t, m, x, x) /\ (Shade(t, t.root) = "red" => t.root = x)
    BY DEF Sinking
  <2> QED BY <2>1, Basis
<1>1. CASE m = {}
  <2>1. x = Sentinel /\ t.root = Sentinel
    <3>1. Sound(t, {})
      BY <1>0, <1>1
    <3> QED BY <1>0, <1>1, <3>1, NothingLinked DEF Reaches
  <2>2. Good(u, m) /\ u.root = t.root
    <3>1. Sentinel # Null
      BY Basics
    <3> QED BY <1>0, <2>1, <3>1, Painted DEF Blackens
  <2>3. Shade(u, u.root) # "red"
    BY <2>1, <2>2, Basis
  <2>4. Level(u, m, [q \in Nodes |-> 0])
    BY <1>1, <2>3 DEF Level, Even, Reds
  <2> QED BY <2>2, <2>4
<1>2. CASE m # {}
  <2>1. x \in m /\ t.root \in m
    <3>1. t.root \in m
      <4>1. PICK q : q \in m
        BY <1>2
      <4> QED BY <1>0, <4>1, ChildrenOf
    <3> QED BY <1>0, <3>1 DEF Reaches
  <2>2. /\ Good(u, m) /\ Repainted(t, u)
        /\ \A q \in Pointers : Shade(u, q) = IF q = x THEN "black" ELSE Shade(t, q)
    <3>1. Good(t, m)
      BY <1>0
    <3> QED BY <2>1, <3>1, Blackened
  <2>3. \A q \in m, s \in Sides : Near(u, q, s) = Near(t, q, s) /\ Near(t, q, s) \in m \cup {Sentinel}
                                  /\ (Near(t, q, s) \in m => Near(t, q, s) # t.root)
    <3> TAKE q \in m, s \in Sides
    <3>1. Near(u, q, s) = Near(t, q, s)
      BY <2>2, RepaintedSame
    <3>2. Near(t, q, s) \in m \cup {Sentinel} /\ (Near(t, q, s) \in m => Near(t, q, s) # t.root)
      BY <1>0, Kids
    <3> QED BY <3>1, <3>2
  <2>4. Reds(u, m, Sentinel, Sentinel)
    <3> SUFFICES ASSUME NEW q \in m, NEW s \in Sides, Shade(u, q) = "red", Shade(u, Near(u, q, s)) = "red"
                 PROVE  FALSE
      BY DEF Reds
    <3>1. q \in Pointers /\ Near(t, q, s) \in Pointers /\ Near(u, q, s) = Near(t, q, s)
      BY <1>0, <2>3
    <3>2. q # x /\ Near(t, q, s) # x /\ Shade(t, q) = "red" /\ Shade(t, Near(t, q, s)) = "red"
      BY <2>2, <3>1
    <3> QED BY <1>0, <3>2 DEF Reds
  <2>5. Shade(u, u.root) # "red"
    <3>1. u.root = t.root /\ t.root \in Pointers
      BY <1>0, <2>1, <2>2 DEF Repainted
    <3> QED BY <1>0, <2>2, <3>1
  <2>6. ASSUME NEW c, NEW q \in m \cup {Sentinel}, q # x PROVE Tall(u, c, q) = Tall(t, c, q)
    <3>1. Shade(u, q) = Shade(t, q)
      BY <1>0, <2>2, <2>6
    <3> QED BY <3>1 DEF Tall
  <2>7. PICK c : Owing(t, m, c, x)
    BY DEF Sinking
  <2>8. CASE x = t.root
    <3>1. Even(t, m, c, Sentinel, "left")
      BY <2>7, <2>8 DEF Owing
    <3>2. ASSUME NEW q \in m, NEW s \in Sides
          PROVE  Tall(u, c, Near(u, q, s)) + (IF q = Sentinel /\ s = "left" THEN 1 ELSE 0) = c[q]
      <4>1. Tall(t, c, Near(t, q, s)) + (IF q = Sentinel /\ s = "left" THEN 1 ELSE 0) = c[q]
        BY <3>1, EvenAt
      <4>2. Tall(u, c, Near(t, q, s)) = Tall(t, c, Near(t, q, s))
        BY <1>0, <2>1, <2>3, <2>6, <2>8
      <4> QED BY <2>3, <4>1, <4>2
    <3>3. Even(u, m, c, Sentinel, "left")
      BY <3>1, <3>2 DEF Even
    <3> QED BY <2>2, <2>4, <2>5, <3>3 DEF Level
  <2>9. CASE x # t.root
    <3>1. PICK p, e : p = t.parent[x] /\ e = SideOf(t, x)
      OBVIOUS
    <3>2. p \in m /\ Near(t, p, e) = x /\ Even(t, m, c, p, e) /\ e \in Sides /\ Shade(t, x) = "red"
      BY <2>7, <2>9, <3>1 DEF Owing, SideOf, Sides
    <3>3. \A q \in m, s \in Sides : Near(t, q, s) = x => q = p /\ s = e
      BY <1>0, <2>1, <3>2, Kids
    <3>4. c \in [Nodes -> Nat] /\ x \in Nodes /\ c[x] \in Nat /\ x # Sentinel
      BY <1>0, <2>1, <3>2 DEF Even
    <3>5. Tall(u, c, x) = Tall(t, c, x) + 1 /\ Tall(t, c, x) \in Nat
      <4>1. Shade(u, x) = "black"
        BY <1>0, <2>1, <2>2
      <4>2. Tall(u, c, x) = c[x] + 1
        BY <3>4, <4>1 DEF Tall
      <4>3. Tall(t, c, x) = c[x]
        <5>1. Tall(t, c, x) = c[x] + 0
          BY <3>2, <3>4 DEF Tall
        <5> QED BY <3>4, <5>1
      <4> QED BY <3>4, <4>2, <4>3
    <3>6. ASSUME NEW q \in m, NEW s \in Sides
          PROVE  Tall(u, c, Near(u, q, s)) + (IF q = Sentinel /\ s = "left" THEN 1 ELSE 0) = c[q]
      <4>1. Tall(t, c, Near(t, q, s)) + (IF q = p /\ s = e THEN 1 ELSE 0) = c[q]
        BY <3>2, EvenAt
      <4>2. c[q] \in Nat /\ q # Sentinel /\ Tall(t, c, Near(t, q, s)) \in Nat
        BY <1>0, <2>3, <3>4, TallTypes
      <4>3. CASE Near(t, q, s) = x
        <5>1. q = p /\ s = e
          BY <3>3, <4>3
        <5> QED BY <2>3, <3>5, <4>1, <4>2, <4>3, <5>1
      <4>4. CASE Near(t, q, s) # x
        <5>1. ~(q = p /\ s = e)
          BY <3>2, <4>4
        <5>2. Tall(u, c, Near(t, q, s)) = Tall(t, c, Near(t, q, s))
          BY <2>3, <2>6, <4>4
        <5> QED BY <2>3, <4>1, <4>2, <5>1, <5>2
      <4> QED BY <4>3, <4>4
    <3>7. Even(u, m, c, Sentinel, "left")
      BY <3>4, <3>6 DEF Even
    <3> QED BY <2>2, <2>4, <2>5, <3>7 DEF Level
  <2> QED BY <2>8, <2>9
<1> QED BY <1>1, <1>2

(* All of DeleteFixup.                                                     *)
LEMMA DeleteFixupLevels ==
  ASSUME NEW m \in SUBSET Nodes, NEW t, NEW x, Sinking(t, m, x), NEW v, v = DeleteFixup(t, x)
  PROVE  v \in Skews \/ (Good(v, m) /\ \E c : Level(v, m, c))
<1> DEFINE body == [c \in Fixups |-> DeletePass(c.tree, c.at)]
           P == [k \in 0 .. LoopBound |->
                   {c \in Fixups : \/ c.tree \in Skews
                                   \/ /\ Sinking(c.tree, m, c.at)
                                      /\ \/ c.at = c.tree.root
                                         \/ Shade(c.tree, c.at) = "red"
                                         \/ Span(c.tree, m, c.at, k)}]
<1>1. LoopBound \in Nat /\ Sentinel \notin m
  BY Basics DEF LoopBound
<1>2. ASSUME NEW k \in 1 .. LoopBound, NEW c \in P[k - 1] PROVE body[c] \in P[k]
  <2>1. k - 1 \in Nat /\ k - 1 \in 0 .. LoopBound /\ k \in 0 .. LoopBound /\ (k - 1) + 1 = k
    BY <1>1
  <2>2. PICK a, y, r : a = c.tree /\ y = c.at /\ r = DeletePass(a, y)
    OBVIOUS
  <2>3. /\ c \in Fixups
        /\ \/ a \in Skews
           \/ /\ Sinking(a, m, y)
              /\ y = a.root \/ Shade(a, y) = "red" \/ Span(a, m, y, k - 1)
    BY <2>1, <2>2
  <2>4. c = Fixup(a, y) /\ body[c] = r /\ y \in Pointers
    BY <2>2, <2>3 DEF Fixup, Fixups
  <2>5. CASE a \in Skews
    <3>1. r \in Fixups /\ r.tree \in Skews
      BY <2>2, <2>4, <2>5, SkewDeletePass DEF SkewFixups
    <3> QED BY <2>1, <2>4, <3>1
  <2>6. CASE Sinking(a, m, y) /\ (y = a.root \/ Shade(a, y) = "red" \/ Span(a, m, y, k - 1))
    <3>1. r \in Fixups /\ (r.tree \in Skews \/ Proceeds(a, m, y, r.tree, r.at))
      BY <2>2, <2>6, DeletePassSinks
    <3>2. CASE r.tree \in Skews
      BY <2>1, <2>4, <3>1, <3>2
    <3>3. CASE Proceeds(a, m, y, r.tree, r.at)
      <4>1. PICK b, q : b = r.tree /\ q = r.at
        OBVIOUS
      <4>2. /\ Sinking(b, m, q)
            /\ y = a.root \/ Shade(a, y) = "red" => b = a /\ q = y
            /\ q = b.root \/ Shade(b, q) = "red" \/ (Repainted(a, b) /\ q = a.parent[y] /\ q \in m)
        BY <3>3, <4>1 DEF Proceeds
      <4>3. q = b.root \/ Shade(b, q) = "red" \/ Span(b, m, q, k)
        <5>1. CASE y = a.root \/ Shade(a, y) = "red"
          BY <4>2, <5>1
        <5>2. CASE Span(a, m, y, k - 1) /\ Repainted(a, b) /\ q = a.parent[y] /\ q \in m
          <6>1. Sound(a, m) /\ (y \in m \/ y = Sentinel)
            <7>1. Good(a, m) /\ Reaches(a, m, y)
              BY <2>6 DEF Sinking
            <7> QED BY <7>1, Basis DEF Reaches
          <6>2. y \in m \/ (y = Sentinel /\ k - 1 = 0)
            BY <1>1, <5>2, <6>1 DEF Span
          <6> QED BY <2>1, <5>2, <6>1, <6>2, SpanUp
        <5> QED BY <2>6, <4>2, <5>1, <5>2
      <4> QED BY <2>1, <2>4, <3>1, <4>1, <4>2, <4>3
    <3> QED BY <3>1, <3>2, <3>3
  <2> QED BY <2>3, <2>5, <2>6
<1>3. Fixup(t, x) \in P[0]
  <2>1. t \in Trees /\ x \in Pointers
    <3>1. Good(t, m) /\ Reaches(t, m, x)
      BY DEF Sinking
    <3> QED BY <3>1, Basis DEF Reaches
  <2>2. Fixup(t, x) \in Fixups /\ Fixup(t, x).tree = t /\ Fixup(t, x).at = x
    BY <2>1, Fixed
  <2>3. Span(t, m, x, 0) /\ 0 \in 0 .. LoopBound
    BY <1>1 DEF Span
  <2> QED BY <2>2, <2>3
<1>4. PICK e : e = Iterated(body, Fixup(t, x), LoopBound)
  OBVIOUS
<1>5. e \in P[LoopBound]
  <2> HIDE DEF P, body
  <2> QED BY <1>1, <1>2, <1>3, <1>4, IteratedGoes
<1>6. e \in Fixups /\ (\/ e.tree \in Skews
                       \/ Sinking(e.tree, m, e.at) /\ (e.at = e.tree.root \/ Shade(e.tree, e.at) = "red"))
  <2>1. LoopBound \in 0 .. LoopBound
    BY <1>1
  <2> QED BY <1>5, <2>1, SpanBounded
<1>7. DeleteFixup(t, x) = DeleteEnd(e.tree, e.at)
  BY <1>4 DEF DeleteFixup
<1> HIDE DEF P, body
<1>8. PICK a, y : a = e.tree /\ y = e.at
  OBVIOUS
<1>9. CASE a \in Skews
  <2>1. y \in Pointers
    BY <1>6, <1>8 DEF Fixups
  <2>2. Fail(a, "endless") \in Skews /\ SetRed(a, y, FALSE) \in Skews
    BY <1>9, <2>1, SkewWrites
  <2> QED BY <1>7, <1>8, <1>9, <2>2 DEF DeleteEnd
<1>10. CASE Sinking(a, m, y) /\ (y = a.root \/ Shade(a, y) = "red")
  <2>1. Good(a, m) /\ Reaches(a, m, y)
    BY <1>10 DEF Sinking
  <2>2. ~Broken(a) /\ (y = a.root \/ a.red[y])
    <3>1. y \in Pointers
      BY <2>1, Basis DEF Reaches
    <3> QED BY <1>10, <2>1, <3>1, Basis
  <2>3. v = SetRed(a, y, FALSE)
    BY <1>7, <1>8, <2>2 DEF DeleteEnd
  <2>4. Blackens(a, v, y)
    BY <2>3 DEF Blackens
  <2> QED BY <1>10, <2>4, DebtPaid
<1> QED BY <1>6, <1>8, <1>9, <1>10

-----------------------------------------------------------------------------
(* An item with at most one child.                                         *)

(* u is t after z, which had no child but x, was cut out.                  *)
Spliced(t, u, m, z, x) ==
  /\ Good(u, m \ {z}) /\ Reaches(u, m \ {z}, x) /\ z \in m
  /\ \E e \in Sides : Near(t, z, e) = x /\ Near(t, z, Other(e)) = Sentinel
  /\ \A q \in Pointers : Shade(u, q) = Shade(t, q)
  /\ u.root = IF t.root = z THEN x ELSE t.root
  /\ u.parent[x] = t.parent[z]
  /\ \A q \in m \ {z}, s \in Sides : Near(u, q, s) = IF Near(t, q, s) = z THEN x ELSE Near(t, q, s)

(* A red item goes without a trace, a black one leaves its black to x.     *)
LEMMA SplicedOut ==
  ASSUME NEW m \in SUBSET Nodes, NEW t, Good(t, m), NEW c, Level(t, m, c), NEW z, NEW x, NEW u,
         Spliced(t, u, m, z, x)
  PROVE  /\ Shade(t, z) = "red" => Level(u, m \ {z}, c)
         /\ Shade(t, z) # "red" => Sinking(u, m \ {z}, x)
<1> DEFINE k == m \ {z}
<1>0. /\ Sound(t, m) /\ t \in Trees /\ Shade(t, Sentinel) # "red" /\ m \subseteq Pointers /\ Sentinel \in Pointers
      /\ Sentinel \notin m /\ Good(u, k) /\ Sound(u, k) /\ u \in Trees /\ k \in SUBSET Nodes /\ Sentinel \notin k
  <2>1. Good(u, k) /\ k \in SUBSET Nodes
    BY DEF Spliced
  <2> QED BY <2>1, Basis
<1>1. PICK e \in Sides : Near(t, z, e) = x
  BY DEF Spliced
<1>2. z \in m /\ x \in m \cup {Sentinel} /\ x # z /\ x \in Pointers /\ z \in Pointers /\ z # Sentinel
  <2>1. z \in m
    BY DEF Spliced
  <2>2. x \in m \cup {Sentinel} /\ x # z
    BY <1>0, <1>1, <2>1, Kids
  <2> QED BY <1>0, <2>1, <2>2
<1>3. /\ c \in [Nodes -> Nat] /\ Even(t, m, c, Sentinel, "left") /\ Reds(t, m, Sentinel, Sentinel)
      /\ Shade(t, t.root) # "red"
  BY DEF Level, Even
<1>4. ASSUME NEW q \in m, NEW s \in Sides
      PROVE  /\ Tall(t, c, Near(t, q, s)) = c[q] /\ c[q] \in Nat /\ Near(t, q, s) \in m \cup {Sentinel}
             /\ Near(t, q, s) \in m => t.parent[Near(t, q, s)] = q
  <2>1. Near(t, q, s) \in m \cup {Sentinel} /\ (Near(t, q, s) \in m => t.parent[Near(t, q, s)] = q)
    BY <1>0, Kids
  <2>2. Tall(t, c, Near(t, q, s)) + (IF q = Sentinel /\ s = "left" THEN 1 ELSE 0) = c[q]
    BY <1>3, EvenAt
  <2>3. c[q] \in Nat /\ Tall(t, c, Near(t, q, s)) \in Nat /\ q # Sentinel
    BY <1>0, <1>3, <2>1, TallTypes
  <2> QED BY <2>1, <2>2, <2>3
<1>5. \A q \in m \cup {Sentinel} : Tall(u, c, q) = Tall(t, c, q)
  <2> TAKE q \in m \cup {Sentinel}
  <2>1. Shade(u, q) = Shade(t, q)
    BY <1>0 DEF Spliced
  <2> QED BY <2>1 DEF Tall
<1>6. ASSUME NEW q \in k, NEW s \in Sides
      PROVE  Near(u, q, s) = IF Near(t, q, s) = z THEN x ELSE Near(t, q, s)
  BY DEF Spliced
<1>7. Tall(t, c, x) = c[z] /\ c[z] \in Nat
  BY <1>1, <1>2, <1>4
<1>8. ASSUME NEW q \in k, NEW s \in Sides, Near(t, q, s) # z
      PROVE  Tall(u, c, Near(u, q, s)) = c[q]
  BY <1>4, <1>5, <1>6, <1>8
<1>9. ASSUME NEW q \in k, NEW s \in Sides, Shade(u, q) = "red", Shade(u, Near(u, q, s)) = "red"
      PROVE  Near(t, q, s) = z /\ Near(u, q, s) = x /\ Shade(t, q) = "red"
  <2>1. q \in Pointers /\ Near(t, q, s) \in Pointers
    BY <1>0, <1>4
  <2>2. Shade(t, q) = "red"
    BY <1>9, <2>1 DEF Spliced
  <2>3. ASSUME Near(t, q, s) # z PROVE FALSE
    <3>1. Near(u, q, s) = Near(t, q, s)
      BY <1>6, <2>3
    <3>2. Shade(t, Near(t, q, s)) = "red"
      BY <1>9, <2>1, <3>1 DEF Spliced
    <3>3. q = Sentinel \/ Near(t, q, s) = Sentinel
      BY <1>3, <2>2, <3>2 DEF Reds
    <3> QED BY <1>0, <3>2, <3>3
  <2> QED BY <1>6, <2>2, <2>3
<1>10. u.root = (IF t.root = z THEN x ELSE t.root) /\ u.parent[x] = t.parent[z] /\ t.root \in m
  <2>1. t.root \in m
    BY <1>0, <1>2, ChildrenOf
  <2> QED BY <2>1 DEF Spliced
<1>11. t.root # z => Shade(u, u.root) # "red"
  <2> SUFFICES ASSUME t.root # z PROVE Shade(u, u.root) # "red"
    OBVIOUS
  <2>1. u.root = t.root /\ t.root \in Pointers
    BY <1>0, <1>10
  <2> QED BY <1>3, <2>1 DEF Spliced
<1>12. ASSUME Shade(t, z) = "red" PROVE Level(u, k, c)
  <2>1. Shade(t, x) # "red"
    <3>1. Shade(t, x) = "red" => z = Sentinel \/ x = Sentinel
      BY <1>1, <1>2, <1>3, <1>12 DEF Reds
    <3> QED BY <1>0, <1>2, <3>1
  <2>2. Reds(u, k, Sentinel, Sentinel)
    <3> SUFFICES ASSUME NEW q \in k, NEW s \in Sides, Shade(u, q) = "red", Shade(u, Near(u, q, s)) = "red"
                 PROVE  FALSE
      BY DEF Reds
    <3>1. Near(t, q, s) = z /\ Shade(t, q) = "red"
      BY <1>9
    <3> QED BY <1>0, <1>2, <1>3, <1>12, <3>1 DEF Reds
  <2>3. Tall(t, c, z) = c[z]
    <3>1. Tall(t, c, z) = c[z] + 0
      BY <1>2, <1>12 DEF Tall
    <3> QED BY <1>7, <3>1
  <2>4. ASSUME NEW q \in k, NEW s \in Sides
        PROVE  Tall(u, c, Near(u, q, s)) + (IF q = Sentinel /\ s = "left" THEN 1 ELSE 0) = c[q]
    <3>1. q # Sentinel /\ c[q] \in Nat
      BY <1>0, <1>4
    <3>2. Tall(u, c, Near(u, q, s)) = c[q]
      <4>1. CASE Near(t, q, s) = z
        <5>1. Tall(t, c, z) = c[q]
          BY <1>4, <4>1
        <5>2. Near(u, q, s) = x /\ Tall(u, c, x) = Tall(t, c, x)
          BY <1>2, <1>5, <1>6, <4>1
        <5> QED BY <1>7, <2>3, <5>1, <5>2
      <4> QED BY <1>8, <4>1
    <3> QED BY <3>1, <3>2
  <2>5. Even(u, k, c, Sentinel, "left")
    BY <1>3, <2>4 DEF Even
  <2>6. t.root # z
    BY <1>3, <1>12
  <2> QED BY <1>11, <2>2, <2>5, <2>6 DEF Level
<1>13. ASSUME Shade(t, z) # "red" PROVE Sinking(u, k, x)
  <2>1. Reds(u, k, x, x)
    BY <1>9 DEF Reds
  <2>2. Reaches(u, k, x)
    BY DEF Spliced
  <2>3. Shade(u, u.root) = "red" => u.root = x
    BY <1>10, <1>11
  <2>4. CASE t.root = z
    <3>1. ASSUME NEW q \in k, NEW s \in Sides
          PROVE  Tall(u, c, Near(u, q, s)) + (IF q = Sentinel /\ s = "left" THEN 1 ELSE 0) = c[q]
      <4>1. q # Sentinel /\ c[q] \in Nat
        BY <1>0, <1>4
      <4>2. Near(t, q, s) # z
        BY <1>0, <1>2, <2>4, Kids
      <4> QED BY <1>8, <4>1, <4>2
    <3>2. Even(u, k, c, Sentinel, "left")
      BY <1>3, <3>1 DEF Even
    <3>3. Owing(u, k, c, x)
      BY <1>10, <2>4, <3>2 DEF Owing
    <3> QED BY <1>0, <2>1, <2>2, <2>3, <3>3 DEF Sinking
  <2>5. CASE t.root # z
    <3>1. PICK p, f : p = t.parent[z] /\ f = SideOf(t, z)
      OBVIOUS
    <3>2. p \in k /\ f \in Sides /\ Near(t, p, f) = z
      <4>1. p \in m /\ f \in Sides /\ Near(t, p, f) = z
        BY <1>0, <1>2, <2>5, <3>1, KidOf
      <4>2. p # z
        BY <1>0, <4>1, Kids
      <4> QED BY <4>1, <4>2
    <3>3. \A q \in k, s \in Sides : Near(t, q, s) = z => q = p /\ s = f
      BY <1>0, <1>2, <3>2, Kids
    <3>4. Tall(t, c, z) = c[z] + 1
      BY <1>2, <1>13 DEF Tall
    <3>5. Near(u, p, f) = x
      BY <1>6, <3>2
    <3>6. ASSUME NEW q \in k, NEW s \in Sides
          PROVE  Tall(u, c, Near(u, q, s)) + (IF q = p /\ s = f THEN 1 ELSE 0) = c[q]
      <4>1. CASE q = p /\ s = f
        <5>1. Tall(t, c, z) = c[p]
          BY <1>4, <3>2
        <5>2. Tall(u, c, x) = c[z]
          BY <1>2, <1>5, <1>7
        <5> QED BY <1>7, <3>4, <3>5, <4>1, <5>1, <5>2
      <4>2. CASE ~(q = p /\ s = f)
        <5>1. Tall(u, c, Near(u, q, s)) = c[q] /\ c[q] \in Nat
          BY <1>4, <1>8, <3>3, <4>2
        <5> QED BY <4>2, <5>1
      <4> QED BY <4>1, <4>2
    <3>7. Even(u, k, c, p, f)
      BY <1>3, <3>6 DEF Even
    <3>8. u.parent[x] = p
      BY <1>10, <3>1
    <3>9. SideOf(u, x) = f
      BY <1>0, <3>2, <3>5, <3>7, <3>8, DebtSide
    <3>10. x # u.root
      <4>1. ASSUME x = u.root PROVE FALSE
        <5>1. x \in k
          BY <1>10, <2>5, <4>1
        <5>2. u.parent[x] = Sentinel
          BY <1>0, <4>1, <5>1, ChildrenOf
        <5> QED BY <1>0, <3>2, <3>8, <5>2
      <4> QED BY <4>1
    <3>11. Owing(u, k, c, x)
      BY <3>2, <3>5, <3>7, <3>8, <3>9, <3>10 DEF Owing
    <3> QED BY <1>0, <2>1, <2>2, <2>3, <3>11 DEF Sinking
  <2> QED BY <2>4, <2>5
<1> QED BY <1>12, <1>13

(* This is what RBTransplant makes of such an item.                        *)
LEMMA CutSplices ==
  ASSUME NEW m \in SUBSET Nodes, NEW t, Good(t, m), NEW z \in m, NEW x,
         \/ t.left[z] = Sentinel /\ x = t.right[z]
         \/ t.right[z] = Sentinel /\ x = t.left[z],
         NEW u, u = RBTransplant(t, z, x)
  PROVE  Spliced(t, u, m, z, x)
<1>0. /\ Sound(t, m) /\ t \in Trees /\ m \subseteq Pointers /\ Sentinel \in Pointers /\ z \in Pointers
      /\ Sentinel \notin m /\ Null \notin m /\ Sentinel # Null /\ "left" \in Sides /\ "right" \in Sides
      /\ Other("left") = "right" /\ Other("right") = "left"
  BY Basis, Members DEF Sides, Other
<1>1. Good(u, m \ {z}) /\ Reaches(u, m \ {z}, x)
  BY CutOut
<1>2. x \in m \cup {Sentinel} /\ t.parent[z] \in m \cup {Sentinel} /\ x \in Pointers /\ t.parent[z] \in Pointers
      /\ t.parent[z] # z /\ (z = t.root <=> t.parent[z] = Sentinel)
  <2>1. x \in m \cup {Sentinel}
    BY <1>0, ChildrenOf
  <2>2. z = t.root => t.parent[z] = Sentinel
    BY <1>0, ChildrenOf
  <2>3. z # t.root => t.parent[z] \in m /\ Near(t, t.parent[z], SideOf(t, z)) = z /\ SideOf(t, z) \in Sides
    BY <1>0, KidOf
  <2>4. t.parent[z] # z
    <3>1. t.parent[z] \in m => Near(t, t.parent[z], SideOf(t, z)) # t.parent[z]
      BY SMTT(40), <1>0, Kids DEF SideOf, Sides
    <3> QED BY <1>0, <2>2, <2>3, <3>1
  <2> QED BY <1>0, <2>1, <2>2, <2>3, <2>4
<1>3. Moved(t, u, z, x)
  <2>1. t.parent[z] # Null /\ x # Null
    BY <1>0, <1>2
  <2> QED BY <1>0, <1>2, <2>1, Transplanted
<1>4. \A q \in Pointers : Shade(u, q) = Shade(t, q)
  BY <1>3 DEF Moved, SameColours, Shade
<1>5. u.root = (IF t.root = z THEN x ELSE t.root) /\ u.parent[x] = t.parent[z]
  <2>1. u.parent = [t.parent EXCEPT ![x] = t.parent[z]] /\ t.parent \in [Pointers -> Pointers]
    BY <1>0, <1>3 DEF Moved, Trees
  <2>2. u.root = IF t.parent[z] = Sentinel THEN x ELSE t.root
    BY <1>3 DEF Moved
  <2> QED BY <1>2, <2>1, <2>2
<1>6. \E e \in Sides : Near(t, z, e) = x /\ Near(t, z, Other(e)) = Sentinel
  <2>1. CASE t.left[z] = Sentinel /\ x = t.right[z]
    <3>1. Near(t, z, "right") = x /\ Near(t, z, Other("right")) = Sentinel
      BY <1>0, <2>1 DEF Near
    <3> QED BY <1>0, <3>1
  <2>2. CASE t.right[z] = Sentinel /\ x = t.left[z]
    <3>1. Near(t, z, "left") = x /\ Near(t, z, Other("left")) = Sentinel
      BY <1>0, <2>2 DEF Near
    <3> QED BY <1>0, <3>1
  <2> QED BY <2>1, <2>2
<1>7. ASSUME NEW q \in m \ {z}, NEW s \in Sides
      PROVE  Near(u, q, s) = IF Near(t, q, s) = z THEN x ELSE Near(t, q, s)
  <2>1. PICK p : p = t.parent[z]
    OBVIOUS
  <2>2. /\ u.left = IF p # Sentinel /\ z = t.left[p] THEN [t.left EXCEPT ![p] = x] ELSE t.left
        /\ u.right = IF p # Sentinel /\ z # t.left[p] THEN [t.right EXCEPT ![p] = x] ELSE t.right
        /\ t.left \in [Pointers -> Pointers] /\ t.right \in [Pointers -> Pointers] /\ p \in Pointers
    BY <1>0, <1>2, <1>3, <2>1 DEF Moved, Trees
  <2>3. q \in Pointers /\ q # Sentinel
    BY <1>0
  <2>4. /\ u.left[q] = IF q = p /\ z = t.left[p] THEN x ELSE t.left[q]
        /\ u.right[q] = IF q = p /\ z # t.left[p] THEN x ELSE t.right[q]
    BY <2>2, <2>3
  <2>5. /\ t.left[q] = z => q = p
        /\ t.right[q] = z => q = p
        /\ q = p /\ t.left[q] # z => t.right[q] = z
        /\ t.left[q] = z => t.right[q] # z
    <3>1. /\ t.left[q] \in m => t.parent[t.left[q]] = q
          /\ t.right[q] \in m => t.parent[t.right[q]] = q
          /\ t.left[q] = t.right[q] => t.left[q] = Sentinel
      BY <1>0, ChildrenOf
    <3>2. q = p => z \in {t.left[q], t.right[q]}
      BY <1>0, <1>2, <2>1, <2>3, ChildrenOf
    <3> QED BY <1>0, <2>1, <3>1, <3>2
  <2>6. CASE s = "left"
    BY <2>4, <2>5, <2>6 DEF Near
  <2>7. CASE s = "right"
    BY <2>4, <2>5, <2>7 DEF Near
  <2> QED BY <2>6, <2>7 DEF Sides
<1> QED BY <1>1, <1>4, <1>5, <1>6, <1>7 DEF Spliced

-----------------------------------------------------------------------------
(* An item with two children.                                              *)

(* u is t after y, the successor of z, took its place and colour, and x,   *)
(* its child, that of y: on side e of d.                                   *)
TakesOver(t, u, m, z, y, x, d, e) ==
  /\ Good(u, m \ {z}) /\ Reaches(u, m \ {z}, x) /\ z \in m /\ y \in m \ {z}
  /\ Near(t, y, "right") = x /\ x # z /\ x # y
  /\ \A q \in Pointers : Shade(u, q) = IF q = y THEN Shade(t, z) ELSE Shade(t, q)
  /\ u.root = IF t.root = z THEN y ELSE t.root
  /\ d \in m \ {z} /\ e \in Sides /\ u.parent[x] = d /\ Near(u, d, e) = x
  /\ (IF d = y THEN Near(t, z, e) ELSE Near(t, d, e)) = y
  /\ \A q \in m \ {z}, s \in Sides :
       ~(q = d /\ s = e) => Near(u, q, s) = IF q = y THEN Near(t, z, s)
                                            ELSE IF Near(t, q, s) = z THEN y ELSE Near(t, q, s)

(* A red successor leaves its place without a trace, a black one leaves    *)
(* its black to x.                                                         *)
LEMMA TakenOver ==
  ASSUME NEW m \in SUBSET Nodes, NEW t, Good(t, m), NEW c, Level(t, m, c), NEW z, NEW y, NEW x, NEW d, NEW e,
         NEW u, TakesOver(t, u, m, z, y, x, d, e)
  PROVE  /\ Shade(t, y) = "red" => \E c2 : Level(u, m \ {z}, c2)
         /\ Shade(t, y) # "red" => Sinking(u, m \ {z}, x)
<1> DEFINE k == m \ {z}
           c2 == [c EXCEPT ![y] = c[z]]
<1>0. /\ Sound(t, m) /\ t \in Trees /\ Shade(t, Sentinel) # "red" /\ m \subseteq Pointers /\ Sentinel \in Pointers
      /\ Sentinel \notin m /\ Good(u, k) /\ Sound(u, k) /\ u \in Trees /\ k \in SUBSET Nodes /\ Sentinel \notin k
      /\ "right" \in Sides
  <2>1. Good(u, k) /\ k \in SUBSET Nodes
    BY DEF TakesOver
  <2> QED BY <2>1, Basis DEF Sides
<1>1. /\ z \in m /\ y \in k /\ y # z /\ d \in k /\ e \in Sides /\ u.parent[x] = d /\ Near(u, d, e) = x
      /\ Near(t, y, "right") = x /\ Reaches(u, k, x) /\ x # z /\ x # y
      /\ (IF d = y THEN Near(t, z, e) ELSE Near(t, d, e)) = y
      /\ u.root = IF t.root = z THEN y ELSE t.root
  BY DEF TakesOver
<1>2. /\ c \in [Nodes -> Nat] /\ Even(t, m, c, Sentinel, "left") /\ Reds(t, m, Sentinel, Sentinel)
      /\ Shade(t, t.root) # "red"
  BY DEF Level, Even
<1>3. ASSUME NEW q \in m, NEW s \in Sides
      PROVE  /\ Tall(t, c, Near(t, q, s)) = c[q] /\ c[q] \in Nat /\ Near(t, q, s) \in m \cup {Sentinel}
             /\ Near(t, q, s) \in m => t.parent[Near(t, q, s)] = q /\ Near(t, q, s) # t.root
  <2>1. /\ Near(t, q, s) \in m \cup {Sentinel}
        /\ (Near(t, q, s) \in m => t.parent[Near(t, q, s)] = q /\ Near(t, q, s) # t.root)
    BY <1>0, Kids
  <2>2. Tall(t, c, Near(t, q, s)) + (IF q = Sentinel /\ s = "left" THEN 1 ELSE 0) = c[q]
    BY <1>2, EvenAt
  <2>3. c[q] \in Nat /\ Tall(t, c, Near(t, q, s)) \in Nat /\ q # Sentinel
    BY <1>0, <1>2, <2>1, TallTypes
  <2> QED BY <2>1, <2>2, <2>3
<1>4. \A q \in Pointers : Shade(u, q) = IF q = y THEN Shade(t, z) ELSE Shade(t, q)
  BY DEF TakesOver
<1>5. c2 \in [Nodes -> Nat] /\ c2[y] = c[z] /\ \A q \in m : q # y => c2[q] = c[q]
  <2>1. c[z] \in Nat /\ y \in Nodes /\ m \subseteq Nodes
    BY <1>0, <1>1, <1>2
  <2> QED BY <1>2, <2>1
<1> HIDE DEF c2
<1>6. \A q \in k \cup {Sentinel} : Tall(u, c2, q) = IF q = y THEN Tall(t, c, z) ELSE Tall(t, c, q)
  <2> TAKE q \in k \cup {Sentinel}
  <2>1. Shade(u, q) = IF q = y THEN Shade(t, z) ELSE Shade(t, q)
    BY <1>0, <1>4
  <2>2. y # Sentinel /\ z # Sentinel
    BY <1>0, <1>1
  <2>3. q # Sentinel => q \in m
    OBVIOUS
  <2> QED BY <1>5, <2>1, <2>2, <2>3 DEF Tall
<1>7. x \in k \cup {Sentinel} /\ Tall(t, c, x) = c[y] /\ c[y] \in Nat /\ Tall(u, c2, x) = c[y]
  <2>1. x \in m \cup {Sentinel} /\ Tall(t, c, x) = c[y] /\ c[y] \in Nat
    BY <1>0, <1>1, <1>3
  <2>2. x \in k \cup {Sentinel}
    BY <1>1, <2>1
  <2> QED BY <1>1, <1>6, <2>1, <2>2
<1>8. Tall(t, c, y) = c2[d] /\ Tall(t, c, y) \in Nat /\ y # t.root
  <2>1. CASE d = y
    BY <1>0, <1>1, <1>2, <1>3, <1>5, <2>1
  <2>2. CASE d # y
    BY <1>0, <1>1, <1>2, <1>3, <1>5, <2>2
  <2> QED BY <2>1, <2>2
<1>9. Tall(t, c, y) = c[y] + (IF Shade(t, y) = "red" THEN 0 ELSE 1)
  BY <1>0, <1>1 DEF Tall
<1>10. ASSUME NEW q \in m, NEW s \in Sides, Near(t, q, s) = y
       PROVE  IF d = y THEN q = z /\ s = e ELSE q = d /\ s = e
  <2>1. CASE d = y
    <3>1. Near(t, z, e) = y /\ Near(t, q, s) \in m
      BY <1>1, <1>10, <2>1
    <3> QED BY <1>0, <1>1, <1>10, <2>1, <3>1, Kids
  <2>2. CASE d # y
    <3>1. Near(t, d, e) = y /\ d \in m /\ Near(t, q, s) \in m
      BY <1>1, <1>10, <2>2
    <3> QED BY <1>0, <1>1, <1>10, <2>2, <3>1, Kids
  <2> QED BY <2>1, <2>2
<1>11. ASSUME NEW q \in k, NEW s \in Sides, ~(q = d /\ s = e)
       PROVE  IF q = y THEN Near(u, q, s) = Near(t, z, s) /\ Near(u, q, s) \in (k \ {y}) \cup {Sentinel}
              ELSE IF Near(t, q, s) = z THEN Near(u, q, s) = y
              ELSE Near(u, q, s) = Near(t, q, s) /\ Near(u, q, s) \in (k \ {y}) \cup {Sentinel}
  <2>1. Near(u, q, s) = IF q = y THEN Near(t, z, s) ELSE IF Near(t, q, s) = z THEN y ELSE Near(t, q, s)
    BY <1>11 DEF TakesOver
  <2>2. CASE q = y
    <3>1. Near(t, z, s) \in m \cup {Sentinel} /\ Near(t, z, s) # z
      BY <1>0, <1>1, Kids
    <3>2. Near(t, z, s) # y
      BY <1>1, <1>10, <1>11, <2>2
    <3> QED BY <2>1, <2>2, <3>1, <3>2
  <2>3. CASE q # y /\ Near(t, q, s) # z
    <3>1. Near(t, q, s) \in m \cup {Sentinel}
      BY <1>3
    <3>2. Near(t, q, s) # y
      BY <1>1, <1>10, <1>11, <2>3
    <3> QED BY <2>1, <2>3, <3>1, <3>2
  <2> QED BY <2>1, <2>2, <2>3
<1>12. ASSUME NEW q \in k, NEW s \in Sides, ~(q = d /\ s = e)
       PROVE  Tall(u, c2, Near(u, q, s)) = c2[q] /\ c2[q] \in Nat
  <2>1. CASE q = y
    <3>1. Tall(t, c, Near(t, z, s)) = c[z] /\ c[z] \in Nat
      BY <1>1, <1>3
    <3>2. Near(u, q, s) = Near(t, z, s) /\ Near(u, q, s) \in (k \ {y}) \cup {Sentinel}
      BY <1>11, <1>12, <2>1
    <3>3. Tall(u, c2, Near(u, q, s)) = Tall(t, c, Near(u, q, s))
      BY <1>0, <1>1, <1>6, <3>2
    <3> QED BY <1>5, <2>1, <3>1, <3>2, <3>3
  <2>2. CASE q # y /\ Near(t, q, s) = z
    <3>1. Tall(t, c, z) = c[q] /\ c[q] \in Nat /\ c2[q] = c[q]
      BY <1>3, <1>5, <2>2
    <3>2. Near(u, q, s) = y
      BY <1>11, <1>12, <2>2
    <3> QED BY <1>1, <1>6, <3>1, <3>2
  <2>3. CASE q # y /\ Near(t, q, s) # z
    <3>1. Tall(t, c, Near(t, q, s)) = c[q] /\ c[q] \in Nat /\ c2[q] = c[q]
      BY <1>3, <1>5, <2>3
    <3>2. Near(u, q, s) = Near(t, q, s) /\ Near(u, q, s) \in (k \ {y}) \cup {Sentinel}
      BY <1>11, <1>12, <2>3
    <3>3. Tall(u, c2, Near(u, q, s)) = Tall(t, c, Near(u, q, s))
      BY <1>0, <1>1, <1>6, <3>2
    <3> QED BY <3>1, <3>2, <3>3
  <2> QED BY <2>1, <2>2, <2>3
<1>13. ASSUME NEW q \in k, NEW s \in Sides, ~(q = d /\ s = e),
              Shade(u, q) = "red", Shade(u, Near(u, q, s)) = "red"
       PROVE  FALSE
  <2>0. \A p \in m, v \in Sides : Shade(t, p) = "red" => Shade(t, Near(t, p, v)) # "red"
    <3> SUFFICES ASSUME NEW p \in m, NEW v \in Sides, Shade(t, p) = "red", Shade(t, Near(t, p, v)) = "red"
                 PROVE FALSE
      OBVIOUS
    <3>1. p = Sentinel \/ Near(t, p, v) = Sentinel
      BY <1>2 DEF Reds
    <3> QED BY <1>0, <3>1
  <2>1. CASE q = y
    <3>1. Near(u, q, s) = Near(t, z, s) /\ Near(u, q, s) \in (k \ {y}) \cup {Sentinel}
      BY <1>11, <1>13, <2>1
    <3>2. Shade(t, z) = "red" /\ Shade(t, Near(t, z, s)) = "red"
      BY <1>0, <1>1, <1>4, <1>13, <2>1, <3>1
    <3> QED BY <1>1, <2>0, <3>2
  <2>2. CASE q # y
    <3>1. Shade(t, q) = "red"
      BY <1>0, <1>4, <1>13, <2>2
    <3>2. Shade(t, Near(t, q, s)) = "red"
      <4>1. CASE Near(t, q, s) = z
        <5>1. Near(u, q, s) = y
          BY <1>11, <1>13, <2>2, <4>1
        <5> QED BY <1>0, <1>1, <1>4, <1>13, <4>1, <5>1
      <4>2. CASE Near(t, q, s) # z
        <5>1. Near(u, q, s) = Near(t, q, s) /\ Near(u, q, s) \in (k \ {y}) \cup {Sentinel}
          BY <1>11, <1>13, <2>2, <4>2
        <5> QED BY <1>0, <1>1, <1>4, <1>13, <5>1
      <4> QED BY <4>1, <4>2
    <3> QED BY <2>0, <3>1, <3>2
  <2> QED BY <2>1, <2>2
<1>14. Shade(u, u.root) # "red"
  <2>1. t.root \in m
    BY <1>0, <1>1, ChildrenOf
  <2>2. t.root \in Pointers /\ y \in Pointers
    BY <1>0, <1>1, <2>1
  <2> QED BY <1>1, <1>2, <1>4, <1>8, <2>2
<1>15. ASSUME Shade(t, y) = "red" PROVE Level(u, k, c2)
  <2>1. ASSUME NEW q \in k, NEW s \in Sides
        PROVE  Tall(u, c2, Near(u, q, s)) + (IF q = Sentinel /\ s = "left" THEN 1 ELSE 0) = c2[q]
    <3>1. q # Sentinel
      BY <1>0
    <3>2. CASE q = d /\ s = e
      <4>1. Tall(u, c2, Near(u, q, s)) = c[y]
        BY <1>1, <1>7, <3>2
      <4>2. Tall(t, c, y) = c[y] + 0
        BY <1>9, <1>15
      <4>3. c2[q] = c[y]
        BY <1>7, <1>8, <3>2, <4>2
      <4> QED BY <1>7, <3>1, <4>1, <4>3
    <3>3. CASE ~(q = d /\ s = e)
      BY <1>12, <3>1, <3>3
    <3> QED BY <3>2, <3>3
  <2>2. Even(u, k, c2, Sentinel, "left")
    BY <1>5, <2>1 DEF Even
  <2>3. Reds(u, k, Sentinel, Sentinel)
    <3> SUFFICES ASSUME NEW q \in k, NEW s \in Sides, Shade(u, q) = "red", Shade(u, Near(u, q, s)) = "red"
                 PROVE  FALSE
      BY DEF Reds
    <3>1. q = d /\ s = e
      BY <1>13
    <3>2. Shade(u, x) = "red"
      BY <1>1, <3>1
    <3>3. Shade(t, x) = "red"
      BY <1>0, <1>1, <1>4, <1>7, <3>2
    <3>4. y = Sentinel \/ x = Sentinel
      BY <1>0, <1>1, <1>2, <1>15, <3>3 DEF Reds
    <3> QED BY <1>0, <1>1, <3>3, <3>4
  <2> QED BY <1>14, <2>2, <2>3 DEF Level
<1>16. ASSUME Shade(t, y) # "red" PROVE Sinking(u, k, x)
  <2>1. ASSUME NEW q \in k, NEW s \in Sides
        PROVE  Tall(u, c2, Near(u, q, s)) + (IF q = d /\ s = e THEN 1 ELSE 0) = c2[q]
    <3>1. CASE q = d /\ s = e
      <4>1. Tall(u, c2, Near(u, q, s)) = c[y]
        BY <1>1, <1>7, <3>1
      <4>2. c2[q] = c[y] + 1
        BY <1>8, <1>9, <1>16, <3>1
      <4> QED BY <3>1, <4>1, <4>2
    <3>2. CASE ~(q = d /\ s = e)
      <4>1. Tall(u, c2, Near(u, q, s)) = c2[q] /\ c2[q] \in Nat
        BY <1>12, <3>2
      <4> QED BY <3>2, <4>1
    <3> QED BY <3>1, <3>2
  <2>2. Even(u, k, c2, d, e)
    BY <1>5, <2>1 DEF Even
  <2>3. Reds(u, k, x, x)
    <3> SUFFICES ASSUME NEW q \in k, NEW s \in Sides, Shade(u, q) = "red", Shade(u, Near(u, q, s)) = "red"
                 PROVE  Near(u, q, s) = x
      BY DEF Reds
    <3> QED BY <1>1, <1>13
  <2>4. SideOf(u, x) = e
    BY <1>0, <1>1, <2>2, DebtSide
  <2>5. x # u.root
    <3>1. ASSUME x = u.root PROVE FALSE
      <4>1. d \in k
        BY <1>1
      <4>2. u.root \in k
        BY <1>0, <4>1, ChildrenOf
      <4>3. x \in k
        BY <3>1, <4>2
      <4>4. u.parent[x] = Sentinel
        BY <1>0, <3>1, <4>3, ChildrenOf
      <4> QED BY <1>0, <1>1, <4>1, <4>4
    <3> QED BY <3>1
  <2>6. Owing(u, k, c2, x)
    BY <1>1, <2>2, <2>4, <2>5 DEF Owing
  <2> QED BY <1>0, <1>1, <1>14, <2>3, <2>6 DEF Sinking
<1> QED BY <1>15, <1>16

(* This is what freeing and placing the successor make of such an item.    *)
LEMMA PlacedTakesOver ==
  ASSUME NEW m \in SUBSET Nodes, NEW t, Good(t, m), NEW lo, NEW hi, NEW z, NEW y,
         Succeeds(m, t, lo, hi, z, y), NEW x, x = t.right[y],
         NEW t1, Freed(t, t1, z, y, x), NEW u, Placed(t1, u, z, y, t.left[z], t.parent[z])
  PROVE  \E d, e : TakesOver(t, u, m, z, y, x, d, e)
<1>0. /\ Sound(t, m) /\ t \in Trees /\ m \subseteq Pointers /\ Sentinel \in Pointers
      /\ Sentinel \notin m /\ "left" \in Sides /\ "right" \in Sides
      /\ \A s \in Sides : s = "left" \/ s = "right"
  BY Basis DEF Sides
<1>1. PICK a, b, p, py : a = t.left[z] /\ b = t.right[z] /\ p = t.parent[z] /\ py = t.parent[y]
  OBVIOUS
<1>2. /\ y # z /\ x # z /\ x # y /\ p # y /\ p # z /\ py \in m /\ py # y
      /\ y # b => t.left[py] = y /\ py # z /\ x # b
      /\ z \in Pointers /\ y \in Pointers
  <2>1. /\ y # z /\ t.right[y] # z /\ t.right[y] # y /\ t.parent[z] # y /\ t.parent[z] # z
        /\ t.parent[y] \in m /\ t.parent[y] # y
        /\ y # t.right[z] => t.left[t.parent[y]] = y /\ t.parent[y] # z /\ t.right[y] # t.right[z]
        /\ z \in Pointers /\ y \in Pointers
    BY Dealt
  <2> QED BY <1>1, <2>1
<1>3. z \in m /\ y \in m
  BY DEF Succeeds
<1>4. /\ CutsInner(m, t.root, t.left, t.right, t.parent, lo, z, y, x, u.root, u.left, u.right, u.parent)
      /\ HangsBelow(t, u, z, y, x)
  BY DealtLinks
<1>5. /\ u.root = IF p = Sentinel THEN y ELSE t.root
      /\ \A q \in m : u.left[q] = IF q = y THEN a ELSE IF q = p /\ t.left[q] = z THEN y
                                  ELSE IF q = py /\ y # b THEN x ELSE t.left[q]
      /\ \A q \in m : u.right[q] = IF q = y THEN (IF y = b THEN x ELSE b)
                                   ELSE IF q = p /\ t.left[q] # z THEN y ELSE t.right[q]
      /\ u.parent[x] = IF y = b THEN y ELSE py
  BY <1>1, <1>4 DEF CutsInner, HangsBelow
<1>6. Good(u, m \ {z}) /\ Reaches(u, m \ {z}, x)
  BY SuccessorTakesOver
<1>7. \A q \in Pointers : Shade(u, q) = IF q = y THEN Shade(t, z) ELSE Shade(t, q)
  <2>1. u.red = [t.red EXCEPT ![y] = t.red[z]] /\ t.red \in [Pointers -> BOOLEAN]
    BY <1>0 DEF Placed, Freed, SameColours, Trees
  <2>2. \A q \in Pointers : u.red[q] = IF q = y THEN t.red[z] ELSE t.red[q]
    BY <2>1
  <2> QED BY <2>2 DEF Shade
<1>8. t.root = z <=> p = Sentinel
  <2>1. z = t.root => p = Sentinel
    BY <1>0, <1>1, <1>3, ChildrenOf
  <2>2. z # t.root => p \in m
    BY <1>0, <1>1, <1>3, ChildrenOf
  <2> QED BY <1>0, <2>1, <2>2
<1>9. ASSUME NEW q \in m
      PROVE  /\ t.left[q] = z => p = q
             /\ t.right[q] = z => p = q /\ t.left[q] # z
             /\ q = p /\ t.left[q] # z => t.right[q] = z
  <2>1. /\ t.left[q] \in m => t.parent[t.left[q]] = q
        /\ t.right[q] \in m => t.parent[t.right[q]] = q
        /\ t.left[q] = t.right[q] => t.left[q] = Sentinel
    BY <1>0, ChildrenOf
  <2>2. q = p => z \in {t.left[q], t.right[q]}
    BY <1>0, <1>1, <1>3, <1>8, ChildrenOf
  <2> QED BY <1>0, <1>1, <1>3, <2>1, <2>2
<1>10. Near(t, y, "right") = x
  BY DEF Near
<1>11. ASSUME NEW d, NEW e, d = (IF y = b THEN y ELSE py), e = (IF y = b THEN "right" ELSE "left")
       PROVE  TakesOver(t, u, m, z, y, x, d, e)
  <2>1. d \in m \ {z} /\ e \in Sides /\ u.parent[x] = d
    BY <1>0, <1>2, <1>3, <1>5, <1>11
  <2>2. Near(u, d, e) = x
    <3>1. CASE y = b
      BY <1>3, <1>5, <1>11, <3>1 DEF Near
    <3>2. CASE y # b
      BY <1>2, <1>5, <1>11, <3>2 DEF Near
    <3> QED BY <3>1, <3>2
  <2>3. (IF d = y THEN Near(t, z, e) ELSE Near(t, d, e)) = y
    <3>1. CASE y = b
      BY <1>1, <1>11, <3>1 DEF Near
    <3>2. CASE y # b
      BY <1>2, <1>11, <3>2 DEF Near
    <3> QED BY <3>1, <3>2
  <2>4. ASSUME NEW q \in m \ {z}, NEW s \in Sides, ~(q = d /\ s = e)
        PROVE  Near(u, q, s) = IF q = y THEN Near(t, z, s) ELSE IF Near(t, q, s) = z THEN y ELSE Near(t, q, s)
    <3>1. CASE s = "left"
      <4>1. Near(u, q, s) = u.left[q] /\ Near(t, q, s) = t.left[q] /\ Near(t, z, s) = a
        BY <1>1, <3>1 DEF Near
      <4>2. q = py => y = b
        BY <1>11, <2>4, <3>1
      <4> QED BY <1>5, <1>9, <4>1, <4>2
    <3>2. CASE s = "right"
      <4>1. Near(u, q, s) = u.right[q] /\ Near(t, q, s) = t.right[q] /\ Near(t, z, s) = b
        BY <1>1, <3>2 DEF Near
      <4>2. q = y => y # b
        BY <1>11, <2>4, <3>2
      <4> QED BY <1>5, <1>9, <4>1, <4>2
    <3> QED BY <1>0, <3>1, <3>2
  <2>5. u.root = IF t.root = z THEN y ELSE t.root
    BY <1>5, <1>8
  <2> QED BY <1>2, <1>3, <1>6, <1>7, <1>10, <2>1, <2>2, <2>3, <2>4, <2>5 DEF TakesOver
<1> QED BY <1>11

(* The search for the successor ends.                                      *)
LEMMA MinimumEnds ==
  ASSUME NEW m \in SUBSET Nodes, NEW t, Good(t, m), NEW z \in m, t.right[z] \in m
  PROVE  TreeMinimum(t, t.right[z]) # Null
<1>0. /\ t \in Trees /\ Sound(t, m) /\ m \subseteq Pointers /\ Sentinel \notin m /\ Null \notin m
      /\ Sentinel \in Pointers /\ Sentinel # Null /\ N \in Nat /\ LoopBound = N + 2
  BY Basis, Basics DEF LoopBound
<1>1. PICK lo, hi : Layout(m, t.root, t.left, t.right, t.parent, lo, hi)
  BY <1>0 DEF Sound, Shape
<1> DEFINE body == [q \in Pointers |-> IF t.left[q] = Sentinel THEN q ELSE t.left[q]]
           P == [k \in 0 .. LoopBound |->
                   {q \in m : t.left[q] = Sentinel \/ hi[q] - lo[q] <= N + 1 - k}]
<1>2. \A q \in m : /\ lo[q] \in Nat /\ hi[q] \in Nat /\ q \in Nat /\ lo[q] < q /\ q < hi[q]
                   /\ lo[q] >= 0 /\ hi[q] <= N + 1
  <2> TAKE q \in m
  <2>1. lo \in [Nodes -> Pointers] /\ hi \in [Nodes -> Pointers] /\ Intervals(m, lo, hi)
    BY <1>1 DEF Layout
  <2>2. lo[q] \in 0 .. N + 1 /\ hi[q] \in 0 .. N + 1 /\ q \in Nat
    BY <2>1, Basics DEF Pointers
  <2> QED BY <1>0, <2>1, <2>2 DEF Intervals
<1>3. ASSUME NEW k \in 1 .. LoopBound, NEW q \in P[k - 1] PROVE body[q] \in P[k]
  <2>1. k - 1 \in 0 .. LoopBound /\ k \in 0 .. LoopBound /\ k \in Nat
    BY <1>0
  <2>2. q \in m /\ (t.left[q] = Sentinel \/ hi[q] - lo[q] <= N + 1 - (k - 1))
    BY <2>1
  <2>3. body[q] = IF t.left[q] = Sentinel THEN q ELSE t.left[q]
    BY <1>0, <2>2
  <2>4. CASE t.left[q] = Sentinel
    BY <2>1, <2>2, <2>3, <2>4
  <2>5. CASE t.left[q] # Sentinel
    <3>1. ChildOn(t.left[q], q, lo[q], q, t.parent, m, lo, hi)
      BY <1>1, <2>2 DEF Layout, Linked
    <3>2. PICK x : x = t.left[q]
      OBVIOUS
    <3>3. x \in m /\ lo[x] = lo[q] /\ hi[x] = q
      BY <2>5, <3>1, <3>2 DEF ChildOn
    <3>4. hi[x] - lo[x] <= N + 1 - k
      BY <1>0, <1>2, <2>1, <2>2, <2>5, <3>3
    <3>5. x \in P[k]
      BY <2>1, <3>3, <3>4
    <3> QED BY <2>3, <2>5, <3>2, <3>5
  <2> QED BY <2>4, <2>5
<1>4. t.right[z] \in P[0]
  <2>1. 0 \in 0 .. LoopBound
    BY <1>0
  <2>2. hi[t.right[z]] - lo[t.right[z]] <= N + 1 - 0
    BY <1>0, <1>2
  <2> QED BY <2>1, <2>2
<1>5. PICK y : y = Iterated(body, t.right[z], LoopBound)
  OBVIOUS
<1>6. y \in P[LoopBound]
  <2>1. LoopBound \in Nat
    BY <1>0
  <2> HIDE DEF P, body
  <2> QED BY <1>3, <1>4, <1>5, <2>1, IteratedGoes
<1>7. y \in m /\ (t.left[y] = Sentinel \/ hi[y] - lo[y] <= N + 1 - LoopBound)
  <2>1. LoopBound \in 0 .. LoopBound
    BY <1>0
  <2> QED BY <1>6, <2>1
<1>8. t.left[y] = Sentinel
  BY <1>0, <1>2, <1>7
<1>9. TreeMinimum(t, t.right[z]) = IF t.left[y] = Sentinel THEN y ELSE Null
  BY <1>5 DEF TreeMinimum
<1> QED BY <1>0, <1>7, <1>8, <1>9

(* A deletion keeps the tree red-black, unless the last case of            *)
(* DeleteFixup has run on the right.                                       *)
Upheld(v, m) == v \in Skews \/ (Good(v, m) /\ \E c : Level(v, m, c))

LEMMA FixLevels ==
  ASSUME NEW k \in SUBSET Nodes, NEW u, NEW x, NEW col,
         col = "red" => Good(u, k) /\ \E c : Level(u, k, c),
         col # "red" => Sinking(u, k, x)
  PROVE  Upheld(IF col = "red" THEN u ELSE DeleteFixup(u, x), k)
BY DeleteFixupLevels DEF Upheld

LEMMA DeleteLevels ==
  ASSUME NEW m \in SUBSET Nodes, NEW t, Good(t, m), NEW c, Level(t, m, c), NEW z \in m
  PROVE  Upheld(rb_tree_delete(t, z), m \ {z})
<1> DEFINE k == m \ {z}
<1>0. /\ t \in Trees /\ ~Broken(t) /\ Sound(t, m) /\ k \in SUBSET Nodes
      /\ z \in Pointers /\ Sentinel \notin m /\ Null \notin m /\ m \subseteq Pointers
      /\ t.left[z] \in m \cup {Sentinel} /\ t.right[z] \in m \cup {Sentinel}
  BY Basis, ChildrenOf
<1>1. \A q \in Pointers : t.red[q] <=> Shade(t, q) = "red"
  BY Basis
<1>2. ASSUME NEW x, NEW u, Spliced(t, u, m, z, x)
      PROVE  Upheld(IF Shade(t, z) = "red" THEN u ELSE DeleteFixup(u, x), k)
  <2>1. PICK col : col = Shade(t, z)
    OBVIOUS
  <2>2. /\ col = "red" => Level(u, k, c)
        /\ col # "red" => Sinking(u, k, x)
    BY <1>2, <2>1, SplicedOut
  <2>3. Good(u, k)
    BY <1>2 DEF Spliced
  <2> HIDE DEF k
  <2>4. Upheld(IF col = "red" THEN u ELSE DeleteFixup(u, x), k)
    BY <1>0, <2>2, <2>3, FixLevels
  <2> QED BY <2>1, <2>4
<1>3. CASE t.left[z] = Sentinel
  <2>1. PICK x, u : x = t.right[z] /\ u = RBTransplant(t, z, x)
    OBVIOUS
  <2>2. Spliced(t, u, m, z, x)
    BY <1>3, <2>1, CutSplices
  <2>3. Upheld(IF Shade(t, z) = "red" THEN u ELSE DeleteFixup(u, x), k)
    BY <1>2, <2>2
  <2>4. rb_tree_delete(t, z) = IF t.red[z] THEN u ELSE DeleteFixup(u, x)
    BY <1>0, <1>3, <2>1 DEF rb_tree_delete
  <2> QED BY <1>0, <1>1, <2>3, <2>4
<1>4. CASE t.left[z] # Sentinel /\ t.right[z] = Sentinel
  <2>1. PICK x, u : x = t.left[z] /\ u = RBTransplant(t, z, x)
    OBVIOUS
  <2>2. Spliced(t, u, m, z, x)
    BY <1>4, <2>1, CutSplices
  <2>3. Upheld(IF Shade(t, z) = "red" THEN u ELSE DeleteFixup(u, x), k)
    BY <1>2, <2>2
  <2>4. rb_tree_delete(t, z) = IF t.red[z] THEN u ELSE DeleteFixup(u, x)
    BY <1>0, <1>4, <2>1 DEF rb_tree_delete
  <2> QED BY <1>0, <1>1, <2>3, <2>4
<1>5. CASE t.left[z] # Sentinel /\ t.right[z] # Sentinel
  <2>1. PICK y : y = TreeMinimum(t, t.right[z])
    OBVIOUS
  <2>2. PICK x, u : x = t.right[y] /\ u = PlaceSuccessor(FreeSuccessor(t, z, y, x), z, y)
    OBVIOUS
  <2>3. rb_tree_delete(t, z) = IF t.red[y] THEN u ELSE DeleteFixup(u, x)
    <3> DEFINE e == PlaceSuccessor(FreeSuccessor(t, z, TreeMinimum(t, t.right[z]),
                                                 t.right[TreeMinimum(t, t.right[z])]),
                                   z, TreeMinimum(t, t.right[z]))
    <3>1. rb_tree_delete(t, z) = IF t.red[TreeMinimum(t, t.right[z])] THEN e
                                 ELSE DeleteFixup(e, t.right[TreeMinimum(t, t.right[z])])
      BY <1>0, <1>5 DEF rb_tree_delete
    <3> QED BY <2>1, <2>2, <3>1
  <2>4. PICK lo, hi : Layout(m, t.root, t.left, t.right, t.parent, lo, hi)
    BY <1>0 DEF Sound, Shape
  <2>5. t.left[z] \in m /\ t.right[z] \in m
    BY <1>0, <1>5
  <2>6. y # Null
    BY <2>1, <2>5, MinimumEnds
  <2>7. TreeMinimum(t, t.right[z]) = Null \/ Succeeds(m, t, lo, hi, z, TreeMinimum(t, t.right[z]))
    BY <1>0, <2>4, <2>5, MinimumFound
  <2>8. Succeeds(m, t, lo, hi, z, y)
    BY <2>1, <2>6, <2>7
  <2>9. PICK t1 : t1 = FreeSuccessor(t, z, y, t.right[y])
    OBVIOUS
  <2>10. Freed(t, t1, z, y, t.right[y])
    BY <2>8, <2>9, SuccessorIsFreed
  <2>11. Placed(t1, PlaceSuccessor(t1, z, y), z, y, t.left[z], t.parent[z])
    BY <2>8, <2>10, SuccessorIsPlaced
  <2>12. u = PlaceSuccessor(t1, z, y)
    BY <2>2, <2>9
  <2>13. Placed(t1, u, z, y, t.left[z], t.parent[z]) /\ Freed(t, t1, z, y, x)
    BY <2>2, <2>10, <2>11, <2>12
  <2>14. PICK d, e : TakesOver(t, u, m, z, y, x, d, e)
    BY <2>2, <2>8, <2>13, PlacedTakesOver
  <2>15. PICK col : col = Shade(t, y)
    OBVIOUS
  <2>16. /\ col = "red" => \E c2 : Level(u, k, c2)
         /\ col # "red" => Sinking(u, k, x)
    BY <2>14, <2>15, TakenOver
  <2>17. Good(u, k) /\ y \in m
    BY <2>14 DEF TakesOver
  <2>18. y \in Pointers
    BY <1>0, <2>17
  <2> HIDE DEF k
  <2>19. Upheld(IF col = "red" THEN u ELSE DeleteFixup(u, x), k)
    BY <1>0, <2>16, <2>17, FixLevels
  <2>20. Upheld(rb_tree_delete(t, z), k)
    BY <1>1, <2>3, <2>15, <2>18, <2>19
  <2> QED BY <2>20 DEF k
<1> QED BY <1>0, <1>3, <1>4, <1>5

-----------------------------------------------------------------------------
(* BlackHeights, which counts along every path, by way of the counts.      *)

(* One link further down from what f says of a node's children.            *)
Counted(f) ==
  [x \in Pointers |->
     IF x \in {Sentinel, Null} THEN {0}
     ELSE {h + (IF tree.red[x] THEN 0 ELSE 1) : h \in f[tree.left[x]] \cup f[tree.right[x]]}]

LEMMA BlackHeightsUnfold ==
  ASSUME tree \in Trees
  PROVE  /\ BlackHeights[0] = [x \in Pointers |-> {0}]
         /\ \A d \in 1 .. N + 1 : BlackHeights[d] = Counted(BlackHeights[d - 1])
<1>0. N + 1 \in Nat /\ 0 \in 0 .. N + 1
  BY Basics
<1> DEFINE Counts == [Pointers -> SUBSET Nat]
           zero == [x \in Pointers |-> {0}]
           body == [f \in Counts |-> Counted(f)]
<1>1. zero \in Counts
  OBVIOUS
<1>2. ASSUME NEW f \in Counts PROVE Counted(f) \in Counts
  <2>1. ASSUME NEW x \in Pointers
        PROVE  {h + (IF tree.red[x] THEN 0 ELSE 1) : h \in f[tree.left[x]] \cup f[tree.right[x]]} \in SUBSET Nat
    <3>1. f[tree.left[x]] \subseteq Nat /\ f[tree.right[x]] \subseteq Nat
      BY FieldTypes
    <3> QED BY <3>1
  <2> QED BY <2>1 DEF Counted
<1>3. PICK g : Unfolds(g, body, zero, N + 1)
  BY <1>0, UnfoldingExists
<1> HIDE DEF Counts, zero
<1>4. \A d \in 0 .. N + 1 : g[d] \in Counts
  <2> DEFINE Bad == {d \in 0 .. N + 1 : g[d] \notin Counts}
  <2> SUFFICES ASSUME Bad # {} PROVE FALSE
    OBVIOUS
  <2>1. PICK d \in Bad : \A j \in Bad : d <= j
    <3>1. Bad \subseteq Nat
      OBVIOUS
    <3> HIDE DEF Bad
    <3> QED BY <3>1, Least
  <2>2. d # 0
    BY <1>1, <1>3, <2>1 DEF Unfolds
  <2>3. d \in 1 .. N + 1 /\ d - 1 \in 0 .. N + 1 /\ d - 1 \notin Bad
    BY <1>0, <2>1, <2>2
  <2>4. g[d - 1] \in Counts /\ g[d] = body[g[d - 1]]
    BY <1>3, <2>3 DEF Unfolds
  <2>5. g[d] = Counted(g[d - 1])
    BY <2>4
  <2> QED BY <1>2, <2>1, <2>4, <2>5
<1>5. ASSUME NEW d \in 1 .. N + 1 PROVE g[d] = Counted(g[d - 1])
  <2>1. d - 1 \in 0 .. N + 1
    BY <1>0
  <2>2. g[d] = body[g[d - 1]]
    BY <1>3 DEF Unfolds
  <2> QED BY <1>4, <2>1, <2>2
<1>6. g[0] = zero
  BY <1>3 DEF Unfolds
<1> DEFINE again(f) == [d \in 0 .. N + 1 |->
                          [x \in Pointers |->
                             IF d = 0 \/ x \in {Sentinel, Null} THEN {0}
                             ELSE {h + (IF tree.red[x] THEN 0 ELSE 1) :
                                     h \in f[d - 1][tree.left[x]] \cup f[d - 1][tree.right[x]]}]]
           b == [d \in 0 .. N + 1 |-> g[d]]
<1>7. \A f : /\ again(f)[0] = zero
             /\ \A d \in 1 .. N + 1 : again(f)[d] = Counted(f[d - 1])
  <2> TAKE f
  <2>1. again(f)[0] = zero
    BY <1>0 DEF zero
  <2>2. ASSUME NEW d \in 1 .. N + 1 PROVE again(f)[d] = Counted(f[d - 1])
    <3>1. d \in 0 .. N + 1 /\ d # 0
      BY <1>0
    <3> QED BY <3>1 DEF Counted
  <2> QED BY <2>1, <2>2
<1>8. \A f : again(f) = [d \in 0 .. N + 1 |-> again(f)[d]]
  OBVIOUS
<1> HIDE DEF body
<1>9. b = again(b)
  <2>1. ASSUME NEW d \in 0 .. N + 1 PROVE b[d] = again(b)[d]
    <3>0. b[d] = g[d]
      OBVIOUS
    <3>1. CASE d = 0
      BY <1>6, <1>7, <3>0, <3>1
    <3>2. CASE d # 0
      <4>1. d \in 1 .. N + 1 /\ d - 1 \in 0 .. N + 1
        BY <1>0, <3>2
      <4>2. b[d - 1] = g[d - 1]
        BY <4>1
      <4> HIDE DEF b, again
      <4> QED BY <1>5, <1>7, <3>0, <4>1, <4>2
    <3> QED BY <3>1, <3>2
  <2>2. b = [d \in 0 .. N + 1 |-> b[d]]
    OBVIOUS
  <2> HIDE DEF b, again
  <2> QED BY <1>8, <2>1, <2>2
<1> HIDE DEF b
<1> DEFINE c == CHOOSE f : f = again(f)
<1>10. c = again(c)
  BY <1>9
<1>11. BlackHeights = c
  BY DEF BlackHeights
<1> HIDE DEF c, again
<1>12. BlackHeights[0] = zero /\ \A d \in 1 .. N + 1 : BlackHeights[d] = Counted(BlackHeights[d - 1])
  BY <1>7, <1>10, <1>11
<1> QED BY <1>12 DEF zero

(* All paths from a node to the sentinel have as many black nodes, and no  *)
(* more links than the interval of the node has room for.                  *)
LEMMA BlackHeightsAgree ==
  ASSUME NEW m \in SUBSET Nodes, Good(tree, m), NEW c, Even(tree, m, c, Sentinel, "left"),
         NEW lo, NEW hi, Layout(m, tree.root, tree.left, tree.right, tree.parent, lo, hi),
         NEW d \in 0 .. N + 1
  PROVE  /\ BlackHeights[d][Sentinel] = {0}
         /\ \A q \in m : hi[q] - lo[q] <= d => BlackHeights[d][q] = {Tall(tree, c, q)}
<1>0. /\ tree \in Trees /\ Sound(tree, m) /\ m \subseteq Pointers /\ Sentinel \notin m /\ Null \notin m
      /\ Sentinel \in Pointers /\ N + 1 \in Nat /\ c \in [Nodes -> Nat] /\ "left" \in Sides /\ "right" \in Sides
  BY Basis, Basics DEF Even, Sides
<1>1. \A q \in m : lo[q] \in Nat /\ hi[q] \in Nat /\ q \in Nat /\ lo[q] < q /\ q < hi[q]
  <2> TAKE q \in m
  <2>1. lo \in [Nodes -> Pointers] /\ hi \in [Nodes -> Pointers] /\ Intervals(m, lo, hi)
    BY DEF Layout
  <2>2. lo[q] \in 0 .. N + 1 /\ hi[q] \in 0 .. N + 1 /\ q \in Nat
    BY <2>1, Basics DEF Pointers
  <2> QED BY <1>0, <2>1, <2>2 DEF Intervals
<1>2. /\ BlackHeights[0] = [x \in Pointers |-> {0}]
      /\ \A k \in 1 .. N + 1 : BlackHeights[k] = Counted(BlackHeights[k - 1])
  BY <1>0, BlackHeightsUnfold
<1>3. ASSUME NEW k \in 0 .. N + 1 PROVE BlackHeights[k][Sentinel] = {0}
  <2>1. CASE k = 0
    BY <1>0, <1>2, <2>1
  <2>2. CASE k # 0
    <3>1. k \in 1 .. N + 1
      BY <1>0, <2>2
    <3> QED BY <1>0, <1>2, <3>1 DEF Counted
  <2> QED BY <2>1, <2>2
<1> DEFINE Right(k) == \A q \in m : hi[q] - lo[q] <= k => BlackHeights[k][q] = {Tall(tree, c, q)}
           Bad == {k \in 0 .. N + 1 : ~Right(k)}
<1>4. Right(0)
  BY <1>1
<1>5. ASSUME NEW k \in 1 .. N + 1, Right(k - 1) PROVE Right(k)
  <2> SUFFICES ASSUME NEW q \in m, hi[q] - lo[q] <= k PROVE BlackHeights[k][q] = {Tall(tree, c, q)}
    OBVIOUS
  <2>0. k \in Nat /\ k - 1 \in 0 .. N + 1 /\ q \in Pointers /\ q # Sentinel /\ q # Null
    BY <1>0
  <2>1. PICK f : f = BlackHeights[k - 1]
    OBVIOUS
  <2>2. BlackHeights[k][q] = {h + (IF tree.red[q] THEN 0 ELSE 1) : h \in f[tree.left[q]] \cup f[tree.right[q]]}
    <3>1. BlackHeights[k] = Counted(f)
      BY <1>2, <2>1
    <3>2. Counted(f)[q] = {h + (IF tree.red[q] THEN 0 ELSE 1) : h \in f[tree.left[q]] \cup f[tree.right[q]]}
      BY <2>0 DEF Counted
    <3> QED BY <3>1, <3>2
  <2>3. /\ ChildOn(tree.left[q], q, lo[q], q, tree.parent, m, lo, hi)
        /\ ChildOn(tree.right[q], q, q, hi[q], tree.parent, m, lo, hi)
    BY DEF Layout, Linked
  <2>4. ASSUME NEW x, x = Sentinel \/ (x \in m /\ hi[x] - lo[x] <= k - 1) PROVE f[x] = {Tall(tree, c, x)}
    <3>1. CASE x = Sentinel
      BY <1>3, <2>0, <2>1, <3>1 DEF Tall
    <3>2. CASE x # Sentinel
      <4>1. x \in m /\ hi[x] - lo[x] <= k - 1
        BY <2>4, <3>2
      <4> QED BY <1>5, <2>1, <4>1
    <3> QED BY <3>1, <3>2
  <2>5. tree.left[q] = Sentinel \/ (tree.left[q] \in m /\ hi[tree.left[q]] - lo[tree.left[q]] <= k - 1)
    <3>1. PICK x : x = tree.left[q]
      OBVIOUS
    <3>2. x = Sentinel \/ (x \in m /\ lo[x] = lo[q] /\ hi[x] = q)
      BY <2>3, <3>1 DEF ChildOn
    <3>3. x \in m /\ lo[x] = lo[q] /\ hi[x] = q => hi[x] - lo[x] <= k - 1
      BY <1>1, <2>0
    <3> QED BY <3>1, <3>2, <3>3
  <2>6. tree.right[q] = Sentinel \/ (tree.right[q] \in m /\ hi[tree.right[q]] - lo[tree.right[q]] <= k - 1)
    <3>1. PICK x : x = tree.right[q]
      OBVIOUS
    <3>2. x = Sentinel \/ (x \in m /\ lo[x] = q /\ hi[x] = hi[q])
      BY <2>3, <3>1 DEF ChildOn
    <3>3. x \in m /\ lo[x] = q /\ hi[x] = hi[q] => hi[x] - lo[x] <= k - 1
      BY <1>1, <2>0
    <3> QED BY <3>1, <3>2, <3>3
  <2>7. f[tree.left[q]] = {Tall(tree, c, tree.left[q])} /\ f[tree.right[q]] = {Tall(tree, c, tree.right[q])}
    BY <2>4, <2>5, <2>6
  <2>8. Tall(tree, c, tree.left[q]) = c[q] /\ Tall(tree, c, tree.right[q]) = c[q]
    <3>1. ASSUME NEW s \in Sides PROVE Tall(tree, c, Near(tree, q, s)) = c[q]
      <4>1. Tall(tree, c, Near(tree, q, s)) + (IF q = Sentinel /\ s = "left" THEN 1 ELSE 0) = c[q]
        BY EvenAt
      <4>2. Near(tree, q, s) \in m \cup {Sentinel}
        BY <1>0, Kids
      <4>3. Tall(tree, c, Near(tree, q, s)) \in Nat
        BY <1>0, <4>2, TallTypes
      <4> QED BY <2>0, <4>1, <4>3
    <3>2. Near(tree, q, "left") = tree.left[q] /\ Near(tree, q, "right") = tree.right[q]
      BY DEF Near
    <3> QED BY <1>0, <3>1, <3>2
  <2>9. Tall(tree, c, q) = c[q] + (IF tree.red[q] THEN 0 ELSE 1)
    BY <2>0 DEF Tall, Shade
  <2>10. PICK n, w : n = c[q] /\ w = (IF tree.red[q] THEN 0 ELSE 1)
    OBVIOUS
  <2>11. BlackHeights[k][q] = {h + w : h \in {n} \cup {n}}
    BY <2>2, <2>7, <2>8, <2>10
  <2>12. {h + w : h \in {n} \cup {n}} = {n + w}
    OBVIOUS
  <2> QED BY <2>9, <2>10, <2>11, <2>12
<1>6. Bad = {}
  <2> SUFFICES ASSUME Bad # {} PROVE FALSE
    OBVIOUS
  <2>1. PICK k \in Bad : \A j \in Bad : k <= j
    <3>1. Bad \subseteq Nat
      OBVIOUS
    <3> HIDE DEF Bad
    <3> QED BY <3>1, Least
  <2>2. k \in 0 .. N + 1 /\ ~Right(k)
    OBVIOUS
  <2> HIDE DEF Right
  <2>3. k # 0
    BY <1>4, <2>2
  <2>4. k \in 1 .. N + 1 /\ k - 1 \in 0 .. N + 1 /\ k - 1 \notin Bad
    BY <1>0, <2>1, <2>2, <2>3
  <2>5. Right(k - 1)
    BY <2>4
  <2> QED BY <1>5, <2>2, <2>4, <2>5
<1>7. Right(d)
  <2> HIDE DEF Right
  <2> QED BY <1>6
<1> QED BY <1>3, <1>7

LEMMA LevelIsBalanced ==
  ASSUME NEW c, members \in SUBSET Nodes, Good(tree, members), Level(tree, members, c)
  PROVE  Balanced
<1>0. /\ tree \in Trees /\ Sound(tree, members) /\ members \subseteq Pointers /\ Sentinel \notin members
      /\ Sentinel \in Pointers /\ N + 1 \in 0 .. N + 1 /\ "left" \in Sides /\ "right" \in Sides
      /\ \A q \in Pointers : tree.red[q] <=> Shade(tree, q) = "red"
      /\ Shade(tree, Sentinel) # "red"
  BY Basis, Basics DEF Sides
<1>1. PICK m : m = members
  OBVIOUS
<1>2. /\ m \in SUBSET Nodes /\ Good(tree, m) /\ Even(tree, m, c, Sentinel, "left")
      /\ Reds(tree, m, Sentinel, Sentinel) /\ Shade(tree, tree.root) # "red"
  BY <1>1 DEF Level
<1>3. PICK lo, hi : Layout(m, tree.root, tree.left, tree.right, tree.parent, lo, hi)
  BY <1>0, <1>1 DEF Sound, Shape
<1>4. tree.root \in Pointers
  BY <1>3 DEF Layout
<1>5. ~tree.red[tree.root] /\ ~tree.red[Sentinel]
  BY <1>0, <1>2, <1>4
<1>6. ASSUME NEW x \in members, tree.red[x] PROVE ~tree.red[tree.left[x]] /\ ~tree.red[tree.right[x]]
  <2>1. ASSUME NEW s \in Sides PROVE ~tree.red[Near(tree, x, s)]
    <3>1. Near(tree, x, s) \in members \cup {Sentinel}
      BY <1>0, Kids
    <3>2. Shade(tree, x) = "red" /\ (tree.red[Near(tree, x, s)] <=> Shade(tree, Near(tree, x, s)) = "red")
      BY <1>0, <1>6, <3>1
    <3>3. Shade(tree, Near(tree, x, s)) = "red" => x = Sentinel \/ Near(tree, x, s) = Sentinel
      BY <1>1, <1>2, <3>2 DEF Reds
    <3> QED BY <1>0, <3>2, <3>3
  <2>2. Near(tree, x, "left") = tree.left[x] /\ Near(tree, x, "right") = tree.right[x]
    BY DEF Near
  <2> QED BY <1>0, <2>1, <2>2
<1>7. \E h : BlackHeights[N + 1][tree.root] = {h}
  <2>1. /\ BlackHeights[N + 1][Sentinel] = {0}
        /\ \A q \in m : hi[q] - lo[q] <= N + 1 => BlackHeights[N + 1][q] = {Tall(tree, c, q)}
    BY <1>0, <1>2, <1>3, BlackHeightsAgree
  <2>2. ChildOn(tree.root, Sentinel, 0, N + 1, tree.parent, m, lo, hi)
    BY <1>3 DEF Layout, Linked
  <2>3. CASE tree.root = Sentinel
    BY <2>1, <2>3
  <2>4. CASE tree.root # Sentinel
    <3>1. tree.root \in m /\ lo[tree.root] = 0 /\ hi[tree.root] = N + 1
      BY <2>2, <2>4 DEF ChildOn
    <3>2. hi[tree.root] - lo[tree.root] <= N + 1
      BY <3>1, Basics
    <3> QED BY <2>1, <3>1, <3>2
  <2> QED BY <2>3, <2>4
<1>8. Cardinality(BlackHeights[N + 1][tree.root]) = 1
  BY <1>7, FS_Singleton
<1> QED BY <1>5, <1>6, <1>8 DEF Balanced

-----------------------------------------------------------------------------
(* The invariant: that of WaitTreeProofs, and an even count of black nodes *)
(* until the last case of DeleteFixup runs on the right.  RedBlack alone   *)
(* is not inductive: it says nothing of a tree's shape, its order, or the  *)
(* counts below any item but the root.                                     *)
BInv == IInv /\ (tree.skewed \/ (Intact /\ \E c : Level(tree, members, c)))

LEMMA InitBInv == Init => BInv
<1> SUFFICES ASSUME Init PROVE BInv
  OBVIOUS
<1>1. tree = EmptyTree /\ members = {}
  BY DEF Init
<1>2. Good(tree, members) /\ IInv
  BY <1>1, EmptyIsGood, InitIInv
<1>3. Intact
  BY <1>2, Basis, <1>1 DEF Intact, Good
<1>4. tree.root = Sentinel
  BY <1>1 DEF EmptyTree, Zeroed
<1> DEFINE c == [q \in Nodes |-> 0]
<1>5. Level(tree, members, c)
  <2>1. Even(tree, members, c, Sentinel, "left") /\ Reds(tree, members, Sentinel, Sentinel)
    BY <1>1 DEF Even, Reds
  <2>2. Shade(tree, tree.root) # "red"
    BY <1>2, <1>4 DEF Good, Shade
  <2> QED BY <2>1, <2>2 DEF Level
<1> QED BY <1>2, <1>3, <1>5 DEF BInv

LEMMA NextBInv == BInv /\ [Next]_vars => BInv'
<1> SUFFICES ASSUME BInv, [Next]_vars PROVE BInv'
  OBVIOUS
<1>1. /\ IInv /\ members \in SUBSET Nodes /\ tree \in Trees
      /\ tree.skewed \/ (Intact /\ \E c : Level(tree, members, c))
  BY DEF BInv, IInv, TypeOK
<1>2. IInv'
  BY <1>1, NextIInv
<1>3. CASE tree \in Skews
  <2>1. ASSUME NEW z \in Nodes, Insert(z) PROVE tree' \in Skews
    BY <1>3, <2>1, SkewInserted DEF Insert
  <2>2. ASSUME NEW z \in Nodes, Delete(z) PROVE tree' \in Skews
    <3>1. z \in Pointers
      BY Basics
    <3> QED BY <1>3, <2>2, <3>1, SkewDeleted DEF Delete
  <2>3. UNCHANGED vars => tree' \in Skews
    BY <1>3 DEF vars
  <2>4. tree' \in Skews
    BY <2>1, <2>2, <2>3 DEF Next
  <2> QED BY <1>2, <2>4 DEF BInv, Skews
<1>4. CASE tree \notin Skews
  <2>1. Intact /\ Good(tree, members) /\ \E c : Level(tree, members, c)
    BY <1>1, <1>4 DEF Skews, IInv
  <2>2. PICK c : Level(tree, members, c)
    BY <2>1
  <2>3. ASSUME NEW z \in Nodes, Insert(z) PROVE Upheld(tree', members')
    <3>1. /\ z \in Nodes \ members /\ tree' = rb_tree_insert(tree, z) /\ members' = members \cup {z}
      BY <2>3 DEF Insert
    <3>2. /\ Good(rb_tree_insert(tree, z), members \cup {z})
          /\ \E c2 : Level(rb_tree_insert(tree, z), members \cup {z}, c2)
      BY <1>1, <2>1, <2>2, <3>1, InsertLevels
    <3> QED BY <3>1, <3>2 DEF Upheld
  <2>4. ASSUME NEW z \in Nodes, Delete(z) PROVE Upheld(tree', members')
    <3>1. /\ z \in members /\ tree' = rb_tree_delete(tree, z) /\ members' = members \ {z}
      BY <2>4 DEF Delete
    <3>2. Upheld(rb_tree_delete(tree, z), members \ {z})
      BY <1>1, <2>1, <2>2, <3>1, DeleteLevels
    <3> QED BY <3>1, <3>2
  <2>5. UNCHANGED vars => Upheld(tree', members')
    BY <2>1 DEF vars, Upheld
  <2>6. Upheld(tree', members')
    BY <2>3, <2>4, <2>5 DEF Next
  <2>7. tree' \in Skews => tree'.skewed
    BY DEF Skews
  <2>8. Good(tree', members') => Intact'
    BY DEF Good, Intact
  <2> QED BY <1>2, <2>6, <2>7, <2>8 DEF BInv, Upheld
<1> QED BY <1>3, <1>4

LEMMA AlwaysBInv == Spec => []BInv
<1> QED BY InitBInv, NextBInv, PTL DEF Spec

(* Whatever the number of items and the order of inserts and deletes, the  *)
(* wait tree follows no null pointer, every loop of it ends, and it stays  *)
(* red-black, until the last case of DeleteFixup runs on the right, where  *)
(* rb_tree.c blackens the wrong node.                                      *)
THEOREM WaitTreeRedBlack == Spec => []RedBlack
<1>1. BInv => RedBlack
  <2> SUFFICES ASSUME BInv, ~tree.skewed PROVE Intact /\ Balanced
    BY DEF RedBlack
  <2>1. PICK c : Level(tree, members, c)
    BY DEF BInv
  <2>2. Intact /\ Good(tree, members) /\ members \in SUBSET Nodes
    BY DEF BInv, IInv, TypeOK
  <2>3. Balanced
    BY <2>1, <2>2, LevelIsBalanced
  <2> QED BY <2>2, <2>3
<1> QED BY <1>1, AlwaysBInv, PTL
=============================================================================
