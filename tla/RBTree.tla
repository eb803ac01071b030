------------------------------- MODULE RBTree -------------------------------
(***************************************************************************)
(* The red-black tree of rb_tree.c, pointer by pointer, as the operators   *)
(* on a tree that ec_wait is used through: rb_tree_insert, rb_tree_delete, *)
(* rb_tree_is_empty and rb_tree_inorder_traversal.                         *)
(*                                                                         *)
(* A node is its position in the order of the hash values.  The children   *)
(* of the sentinel are null and its parent is whatever was written last; a *)
(* deleted node keeps its pointers.  The fields of Null are null, so that  *)
(* an expression can read through it; the tree's fate is a null            *)
(* dereference where the code reads or writes through it, a read being     *)
(* left out where a write through the same pointer follows at once.  A     *)
(* loop that runs longer than any tree of N items allows does not end.     *)
(***************************************************************************)
EXTENDS Naturals, FiniteSets

CONSTANT N                 \* the number of items that are ever in the tree
ASSUME NAssumption == N \in Nat \ {0}

Nodes    == 1 .. N
Sentinel == 0
Null     == N + 1
Pointers == 0 .. N + 1

Trees == [root   : Pointers,
          left   : [Pointers -> Pointers],
          right  : [Pointers -> Pointers],
          parent : [Pointers -> Pointers],
          red    : [Pointers -> BOOLEAN],
          fate   : {"ok", "null_deref", "endless"},
          skewed : BOOLEAN]

(* An empty tree over items that were never inserted.                      *)
Zeroed(root) ==
  [root   |-> root,
   left   |-> [p \in Pointers |-> Null],
   right  |-> [p \in Pointers |-> Null],
   parent |-> [p \in Pointers |-> Null],
   red    |-> [p \in Pointers |-> p \in Nodes],
   fate   |-> "ok",
   skewed |-> FALSE]    \* history: the last case of DeleteFixup ran on the right

(* rb_tree_create.                                                         *)
EmptyTree == Zeroed(Sentinel)

Broken(t)   == t.fate # "ok"
Fail(t, f)  == [t EXCEPT !.fate = f]
LoopBound   == N + 2         \* bound: iterations of a loop

(* What n runs of a loop's body make of x, where the body changes nothing  *)
(* once the loop has ended.                                                *)
Iterated(body, x, n) ==
  LET after[k \in 0 .. n] == IF k = 0 THEN x ELSE body[after[k - 1]]
  IN after[n]

(* p->left = q and the like.                                               *)
SetLeft(t, p, q)   == IF p = Null THEN Fail(t, "null_deref") ELSE [t EXCEPT !.left[p] = q]
SetRight(t, p, q)  == IF p = Null THEN Fail(t, "null_deref") ELSE [t EXCEPT !.right[p] = q]
SetParent(t, p, q) == IF p = Null THEN Fail(t, "null_deref") ELSE [t EXCEPT !.parent[p] = q]
SetRed(t, p, r)    == IF p = Null THEN Fail(t, "null_deref") ELSE [t EXCEPT !.red[p] = r]

(* Node u's place below its parent is taken by v.                          *)
Replace(t, u, v) ==
  LET p == t.parent[u]
  IN IF p = Sentinel THEN [t EXCEPT !.root = v]
     ELSE IF u = t.left[p] THEN SetLeft(t, p, v) ELSE SetRight(t, p, v)

(* Mutant: the child keeps its parent pointer.                             *)
RBTransplantOneWay(t, u, v) == Replace(t, u, v)

RBTransplant(t, u, v) == SetParent(Replace(t, u, v), v, t.parent[u])

(* Mutant: the middle subtree is lost.                                     *)
LeftRotateLosing(t, x) ==
  LET y  == t.right[x]
      t1 == SetRight(t, x, Sentinel)
      t3 == Replace(SetParent(t1, y, t1.parent[x]), x, y)
  IN SetParent(SetLeft(t3, y, x), x, y)

LeftRotate(t, x) ==
  LET y  == t.right[x]
      t1 == SetRight(t, x, t.left[y])
      t2 == IF t.left[y] # Sentinel THEN SetParent(t1, t.left[y], x) ELSE t1
      t3 == Replace(SetParent(t2, y, t2.parent[x]), x, y)
  IN SetParent(SetLeft(t3, y, x), x, y)

RightRotate(t, x) ==
  LET y  == t.left[x]
      t1 == SetLeft(t, x, t.right[y])
      t2 == IF t.right[y] # Sentinel THEN SetParent(t1, t.right[y], x) ELSE t1
      t3 == Replace(SetParent(t2, y, t2.parent[x]), x, y)
  IN SetParent(SetRight(t3, y, x), x, y)

(* The two halves of the fixups are mirror images: on side "left" a child, *)
(* a rotation and its opposite are these.                                  *)
Near(t, p, side)   == IF side = "left" THEN t.left[p] ELSE t.right[p]
Far(t, p, side)    == IF side = "left" THEN t.right[p] ELSE t.left[p]
RotateTo(t, p, side)   == IF side = "left" THEN LeftRotate(t, p) ELSE RightRotate(t, p)
RotateFrom(t, p, side) == IF side = "left" THEN RightRotate(t, p) ELSE LeftRotate(t, p)
SideOf(t, x) == IF x = t.left[t.parent[x]] THEN "left" ELSE "right"

(* A tree and where a fixup has got to in it.                              *)
Fixups == [tree : Trees, at : Pointers]
Fixup(t, x) == [tree |-> t, at |-> x]

(* The last case of InsertFixup: z's parent goes where its own parent is.  *)
RaiseParent(t, z, side) ==
  LET p  == t.parent[z]
      t1 == SetRed(SetRed(t, p, FALSE), t.parent[p], TRUE)
  IN RotateFrom(t1, t1.parent[p], side)

(* The body of InsertFixup's loop.                                         *)
InsertPass(t, z) ==
  LET p == t.parent[z]
      g == t.parent[p]
      side == SideOf(t, p)
      y == Far(t, g, side)
  IN IF Broken(t) \/ (p # Null /\ ~t.red[p]) THEN Fixup(t, z)
     ELSE IF y = Null THEN Fixup(Fail(t, "null_deref"), z)
     ELSE IF t.red[y]
       THEN Fixup(SetRed(SetRed(SetRed(t, p, FALSE), y, FALSE), g, TRUE), g)
     ELSE LET inner == z = Far(t, p, side)
              z1 == IF inner THEN p ELSE z
          IN Fixup(RaiseParent(IF inner THEN RotateTo(t, p, side) ELSE t, z1, side), z1)

(* What InsertFixup does when its loop is over, t at z, or has not ended.  *)
InsertEnd(t, z) ==
  IF Broken(t) THEN t
  ELSE IF t.red[t.parent[z]] THEN Fail(t, "endless")
  ELSE SetRed(t, t.root, FALSE)

InsertFixup(t, z) ==
  LET e == Iterated([c \in Fixups |-> InsertPass(c.tree, c.at)], Fixup(t, z), LoopBound)
  IN InsertEnd(e.tree, e.at)

(* Mutant: the comparison of the descent is reversed.                      *)
Larger(t, z, y) == IF z > y THEN t.left[y] ELSE t.right[y]

(* Where z belongs below y: rt->cmp(z, y) ? y->left : y->right.            *)
ChildFor(t, z, y) == IF z < y THEN t.left[y] ELSE t.right[y]

(* The descent of rb_tree_insert for z: x and y at the end.                *)
Descent(t, z) ==
  Iterated([c \in Pointers \X Pointers |->
              IF c[1] \in {Sentinel, Null} THEN c ELSE <<ChildFor(t, z, c[1]), c[1]>>],
           <<t.root, Sentinel>>, LoopBound)

rb_tree_insert(t, z) ==
  LET x  == Descent(t, z)[1]
      y  == Descent(t, z)[2]
      t1 == [t EXCEPT !.parent[z] = y]
      t2 == IF y = Sentinel THEN [t1 EXCEPT !.root = z]
            ELSE IF z < y THEN [t1 EXCEPT !.left[y] = z] ELSE [t1 EXCEPT !.right[y] = z]
  IN IF x = Null THEN Fail(t, "null_deref")
     ELSE IF x # Sentinel THEN Fail(t, "endless")
     ELSE InsertFixup([t2 EXCEPT !.left[z] = Sentinel, !.right[z] = Sentinel, !.red[z] = TRUE], z)

(* Mutant: the recoloured sibling's subtree is not rotated up.             *)
LiftSiblingForgotten(t, x, w, side) ==
  SetRed(SetRed(t, w, t.red[t.parent[x]]), t.parent[x], FALSE)

(* The last case of DeleteFixup.  On the right the code blackens x->left   *)
(* where the mirror image would blacken w->left: a null pointer if x is    *)
(* the sentinel, else a node of the wrong subtree.                         *)
LiftSibling(t, x, w, side) ==
  LET p  == t.parent[x]
      t1 == SetRed(SetRed(t, w, t.red[p]), p, FALSE)
      t2 == SetRed(t1, IF side = "left" THEN t1.right[w] ELSE t1.left[x], FALSE)
  IN RotateTo([t2 EXCEPT !.skewed = @ \/ side = "right"], p, side)

(* The case of a red sibling w, below p: it is rotated up.                 *)
RaiseSibling(t, p, w, side) ==
  IF t.red[w] THEN RotateTo(SetRed(SetRed(t, w, FALSE), p, TRUE), p, side) ELSE t

(* The case of a sibling whose far child is black: the near one is red and *)
(* is rotated up.                                                          *)
RaiseNephew(t, w, side) ==
  IF t.red[Far(t, w, side)] THEN t
  ELSE RotateFrom(SetRed(SetRed(t, Near(t, w, side), FALSE), w, TRUE), w, side)

(* The other cases, w being x's black sibling.  The code looks at both     *)
(* children of w, so the sentinel must not be x's sibling.                 *)
PassExtraBlack(t, x, w, side) ==
  LET t1 == RaiseNephew(t, w, side)
      w1 == IF t.red[Far(t, w, side)] THEN w ELSE Far(t1, t1.parent[x], side)
      AtRoot(u) == Fixup(u, u.root)
  IN IF Broken(t) \/ Null \in {t.left[w], t.right[w]}
       THEN Fixup(Fail(t, "null_deref"), x)
     ELSE IF ~t.red[t.left[w]] /\ ~t.red[t.right[w]]
       THEN Fixup(SetRed(t, w, TRUE), t.parent[x])
     ELSE AtRoot(LiftSibling(t1, x, w1, side))

(* The body of DeleteFixup's loop.                                         *)
DeletePass(t, x) ==
  LET p == t.parent[x]
      side == SideOf(t, x)
      w == Far(t, p, side)
      t1 == RaiseSibling(t, p, w, side)
  IN IF Broken(t) \/ x = t.root \/ t.red[x] THEN Fixup(t, x)
     ELSE PassExtraBlack(t1, x, IF t.red[w] THEN Far(t1, t1.parent[x], side) ELSE w, side)

(* What DeleteFixup does when its loop is over, t at x, or has not ended.  *)
DeleteEnd(t, x) ==
  IF Broken(t) THEN t
  ELSE IF x # t.root /\ ~t.red[x] THEN Fail(t, "endless")
  ELSE SetRed(t, x, FALSE)

DeleteFixup(t, x) ==
  LET e == Iterated([c \in Fixups |-> DeletePass(c.tree, c.at)], Fixup(t, x), LoopBound)
  IN DeleteEnd(e.tree, e.at)

(* Null when it does not end at a node.                                    *)
TreeMinimum(t, x) ==
  LET y == Iterated([q \in Pointers |-> IF t.left[q] = Sentinel THEN q ELSE t.left[q]], x, LoopBound)
  IN IF t.left[y] = Sentinel THEN y ELSE Null

(* z's successor y leaves its place to its right child x.                  *)
FreeSuccessor(t, z, y, x) ==
  IF y = t.right[z] THEN SetParent(t, x, y)
  ELSE LET u == RBTransplant(t, y, x)
           v == SetRight(u, y, u.right[z])
       IN SetParent(v, v.right[y], y)

(* It takes the place of z, and its colour.                                *)
PlaceSuccessor(t, z, y) ==
  LET t2 == RBTransplant(t, z, y)
      t3 == SetLeft(t2, y, t2.left[z])
  IN SetRed(SetParent(t3, t3.left[y], y), y, t3.red[z])

rb_tree_delete(t, z) ==
  LET y == TreeMinimum(t, t.right[z])
      x == t.right[y]
      Fix(u, node, wasRed) == IF wasRed THEN u ELSE DeleteFixup(u, node)
  IN IF Broken(t) THEN t
     ELSE IF t.left[z] = Sentinel
       THEN Fix(RBTransplant(t, z, t.right[z]), t.right[z], t.red[z])
     ELSE IF t.right[z] = Sentinel
       THEN Fix(RBTransplant(t, z, t.left[z]), t.left[z], t.red[z])
     ELSE Fix(PlaceSuccessor(FreeSuccessor(t, z, y, x), z, y), x, t.red[y])

rb_tree_is_empty(t) == t.root = Sentinel

(* The items at x and below it: what a traversal visits.                   *)
Below(t, x) ==
  Iterated([S \in SUBSET Nodes |-> S \cup (({t.left[q] : q \in S} \cup {t.right[q] : q \in S}) \cap Nodes)],
           {x} \cap Nodes, N)

rb_tree_inorder_traversal(t) == Below(t, t.root)

(* The traversal is recursive: it follows a child that is null, and never  *)
(* returns from an item that is below itself.                              *)
TraversalEnds(t) == \A q \in rb_tree_inorder_traversal(t) :
  /\ Null \notin {t.left[q], t.right[q]}
  /\ q \notin Below(t, t.left[q]) \cup Below(t, t.right[q])
=============================================================================
