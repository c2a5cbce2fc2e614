------------------------------- MODULE AvlTree -------------------------------
(***************************************************************************)
(* The AVL trees of src/hvr_avl_tree.cpp as values.  A tree is nnil, whose *)
(* height is 0, or a record with a key, a value, a height and two kids; a  *)
(* function of the source that gets a pointer to a root and changes it is  *)
(* here an operator that returns the new root.  Rows of the edge matrix    *)
(* and of the sparse arrays are such trees, with one pool of nodes each.   *)
(***************************************************************************)
EXTENDS Integers, Sequences, FiniteSets

nnil == [height |-> 0]

new_node(k, v) == [key |-> k, value |-> v, height |-> 1, kid |-> [dir \in 0 .. 1 |-> nnil]]

\* kid[key > root->key]
Side(k, root) == IF k > root.key THEN 1 ELSE 0

set_height(n) ==
  [n EXCEPT !.height = 1 + (IF n.kid[0].height > n.kid[1].height
                            THEN n.kid[0].height ELSE n.kid[1].height)]

balance(n) == n.kid[0].height - n.kid[1].height

\* balance(root)/2, which C rounds towards zero
Half(b) == IF b >= 0 THEN b \div 2 ELSE -((-b) \div 2)

\* The kid on side dir becomes the root; without such a kid the root is freed.
rotate(old_r, dir) ==
  IF old_r.kid[dir] = nnil THEN nnil
  ELSE [old_r.kid[dir] EXCEPT !.kid[1 - dir] =
          set_height([old_r EXCEPT !.kid[dir] = old_r.kid[dir].kid[1 - dir]])]

\* Side dir is the higher one: if its kid leans the other way, by lean, that
\* kid is rotated first.
RotateBack(root, dir, lean) ==
  rotate(IF balance(root.kid[dir]) = lean
         THEN [root EXCEPT !.kid[dir] = rotate(@, 1 - dir)] ELSE root,
         dir)

adjust_balance(root) ==
  set_height(CASE Half(balance(root)) = 1  -> RotateBack(root, 0, -1)
               [] Half(balance(root)) = -1 -> RotateBack(root, 1, 1)
               [] OTHER -> root)

RECURSIVE hvr_avl_insert(_, _, _)
hvr_avl_insert(root, k, v) ==
  IF root = nnil THEN new_node(k, v)
  ELSE IF root.key = k THEN root
  ELSE adjust_balance([root EXCEPT !.kid[Side(k, root)] = hvr_avl_insert(@, k, v)])

\* The node to delete is rotated down until it has no kids and drops out.
RECURSIVE hvr_avl_delete(_, _), DeleteBelow(_, _)
hvr_avl_delete(root, k) ==
  IF root = nnil THEN nnil
  ELSE DeleteBelow(IF root.key # k THEN root
                   ELSE rotate(root, IF balance(root) < 0 THEN 1 ELSE 0), k)

DeleteBelow(root, k) ==
  IF root = nnil THEN nnil
  ELSE adjust_balance([root EXCEPT !.kid[Side(k, root)] = hvr_avl_delete(@, k)])

RECURSIVE hvr_avl_find(_, _)
hvr_avl_find(root, k) ==
  IF root = nnil \/ root.key = k THEN root ELSE hvr_avl_find(root.kid[Side(k, root)], k)

\* found->value = v, for a key that is in the tree
RECURSIVE Overwrite(_, _, _)
Overwrite(root, k, v) ==
  IF root.key = k THEN [root EXCEPT !.value = v]
  ELSE [root EXCEPT !.kid[Side(k, root)] = Overwrite(@, k, v)]

\* The values in the order of the tree: the root before its kids.
RECURSIVE hvr_avl_serialize(_)
hvr_avl_serialize(root) ==
  IF root = nnil THEN <<>>
  ELSE <<root.value>> \o hvr_avl_serialize(root.kid[0]) \o hvr_avl_serialize(root.kid[1])

hvr_avl_size(root) == Len(hvr_avl_serialize(root))

(* What a tree has to be *)

RECURSIVE KeysOf(_)
KeysOf(root) ==
  IF root = nnil THEN {} ELSE {root.key} \cup KeysOf(root.kid[0]) \cup KeysOf(root.kid[1])

\* A search tree without duplicates.
RECURSIVE Ordered(_)
Ordered(root) ==
  root # nnil =>
    /\ \A k \in KeysOf(root.kid[0]) : k < root.key
    /\ \A k \in KeysOf(root.kid[1]) : k > root.key
    /\ Ordered(root.kid[0]) /\ Ordered(root.kid[1])

\* Heights are those of the subtrees, which differ by at most one.
RECURSIVE Balanced(_)
Balanced(root) ==
  root # nnil =>
    /\ root = set_height(root)
    /\ balance(root) \in -1 .. 1
    /\ Balanced(root.kid[0]) /\ Balanced(root.kid[1])
=============================================================================
