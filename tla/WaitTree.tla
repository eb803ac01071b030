------------------------------ MODULE WaitTree ------------------------------
(***************************************************************************)
(* The eviction wait tree on its own: OptimCache and the test thread       *)
(* insert items, in any order of their hash values, and replies delete     *)
(* them in any order.  Each item is deleted once for every time it is      *)
(* inserted; EvictionExchange is about replies that come twice.            *)
(***************************************************************************)
EXTENDS RBTree

VARIABLES tree,      \* ec_wait
          members    \* the items inserted and not deleted since

vars == <<tree, members>>

Init == tree = EmptyTree /\ members = {}

Insert(z) == /\ ~Broken(tree)
             /\ z \notin members
             /\ tree' = rb_tree_insert(tree, z)
             /\ members' = members \cup {z}

Delete(z) == /\ ~Broken(tree)
             /\ z \in members
             /\ tree' = rb_tree_delete(tree, z)
             /\ members' = members \ {z}

Next == \E z \in Nodes : Insert(z) \/ Delete(z)

Spec == Init /\ [][Next]_vars

-----------------------------------------------------------------------------
(* Links are items, the sentinel or null, and the root is never null: the  *)
(* state rb_tree_create leaves and every operation that ends returns to.   *)
TypeOK ==
  /\ tree \in Trees
  /\ Broken(tree) \/ tree.root # Null
  /\ members \subseteq Nodes

(* What the future of the tree depends on: an insert overwrites every      *)
(* field of an item that is not in the tree, so the links it kept since    *)
(* its deletion distinguish no two states.                                 *)
Live == LET kept(f) == [x \in members \cup {Sentinel} |-> f[x]]
        IN <<members, tree.root, tree.fate, tree.skewed, kept(tree.left), kept(tree.right),
             kept(tree.parent), kept(tree.red)>>

Intact == ~Broken(tree)

(* A traversal, which sends the evictions, ends, having visited exactly    *)
(* the items that wait, whatever the order of inserts and replies; and the *)
(* tree is empty, which ends net_send_eviction_message, when none does.    *)
HoldsMembers == Intact => /\ rb_tree_inorder_traversal(tree) = members
                          /\ TraversalEnds(tree)
                          /\ rb_tree_is_empty(tree) <=> members = {}

(* The left subtree of an item has smaller hash values, the right one      *)
(* greater: a traversal is in order.                                       *)
SearchTree == Intact => \A x \in members :
  /\ \A y \in Below(tree, tree.left[x]) : y < x
  /\ \A y \in Below(tree, tree.right[x]) : y > x

(* Parent pointers, which the fixups climb, mirror the child pointers.     *)
ParentsMirror == Intact => \A x \in members :
  IF tree.root = x THEN tree.parent[x] = Sentinel
  ELSE x \in {tree.left[tree.parent[x]], tree.right[tree.parent[x]]}

(* The numbers of black nodes on the paths of at most d links from x.      *)
BlackHeights[d \in 0 .. N + 1] ==
  [x \in Pointers |->
     IF d = 0 \/ x \in {Sentinel, Null} THEN {0}
     ELSE {h + (IF tree.red[x] THEN 0 ELSE 1) :
             h \in BlackHeights[d - 1][tree.left[x]] \cup BlackHeights[d - 1][tree.right[x]]}]

(* The red-black conditions: the root and the sentinel are black, a red    *)
(* node has black children, and all paths have as many black nodes.        *)
Balanced ==
  /\ ~tree.red[tree.root] /\ ~tree.red[Sentinel]
  /\ \A x \in members : tree.red[x] => ~tree.red[tree.left[x]] /\ ~tree.red[tree.right[x]]
  /\ Cardinality(BlackHeights[N + 1][tree.root]) = 1

(* Everything but the last case of DeleteFixup on the right, where the two *)
(* halves differ, keeps the tree red-black and follows no null pointer.    *)
RedBlack == ~tree.skewed => Intact /\ Balanced

(* What "Use RB Tree" says without that reservation, as long as no pointer *)
(* is null: ten items are enough for a tree that is out of balance.        *)
StaysBalanced == Intact => Balanced

(* net.c, on the eviction exchange: "Use RB Tree".  Deleting from a        *)
(* red-black tree follows no null pointer.                                 *)
DeleteSafe == Intact
=============================================================================
