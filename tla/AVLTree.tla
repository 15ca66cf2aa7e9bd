------------------------------ MODULE AVLTree ------------------------------
(***************************************************************************)
(* The balanced trees of datastructures.c, as operators on records.  One   *)
(* implementation serves the allocator's free blocks, where a node is the  *)
(* block itself and is ordered by its address (avl_mem_cmp), and every     *)
(* set, where nodes are allocated and ordered by their data                *)
(* (avl_basic_cmp).  A tree is                                             *)
(*                                                                         *)
(*     [root |-> address, cmp |-> "mem" or "basic", node |-> nodes]        *)
(*                                                                         *)
(* where nodes maps the address of every linked node to                    *)
(*                                                                         *)
(*     [prev |-> parent, kid |-> [side |-> child], data |-> .., bf |-> ..] *)
(*                                                                         *)
(* Sides are -1 (left) and 1 (right), as in the code's balance factors;    *)
(* the mirrored halves of the code are one operator with the side as its   *)
(* parameter.  bf is the balance factor that the code packs into the two   *)
(* low bits of prev.  Address 0 is null.                                   *)
(***************************************************************************)
EXTENDS Integers

Null == 0

Left == -1
Right == 1
Sides == {Left, Right}

EmptyTree(cmp) == [root |-> Null, cmp |-> cmp, node |-> [x \in {} |-> 0]]

Nodes(t) == DOMAIN t.node

Key(t, x) == IF t.cmp = "mem" THEN x ELSE t.node[x].data

balance_factor(t, x) == IF x = Null THEN 0 ELSE t.node[x].bf

set_balance_factor(t, x, bf) == [t EXCEPT !.node[x].bf = bf]

(* Which child of x is y. *)
SideOf(t, x, y) == IF t.node[x].kid[Left] = y THEN Left ELSE Right

(* y becomes the child of x on a side, or the root; null has no parent.    *)
SetKid(t, x, side, y) ==
  LET down == IF x = Null THEN [t EXCEPT !.root = y]
                          ELSE [t EXCEPT !.node[x].kid[side] = y]
  IN  IF y = Null THEN down ELSE [down EXCEPT !.node[y].prev = x]

(* y takes the place of x under x's parent. *)
Replace(t, x, y) ==
  LET p == t.node[x].prev
  IN  SetKid(t, p, IF p = Null THEN Left ELSE SideOf(t, p, x), y)

Unlink(t, x) == [t EXCEPT !.node = [y \in Nodes(t) \ {x} |-> t.node[y]]]
-----------------------------------------------------------------------------
(* A mistake: both subtrees are taken to be balanced after any rotation. *)
RotatedFactors_zero(side, even) == [x |-> 0, root |-> 0]

(* The balance factors of x and of the child on a side that is raised to   *)
(* its place, when the child's was 0 and otherwise.                        *)
RotatedFactors(side, even) ==
  [x |-> IF even THEN side ELSE 0, root |-> IF even THEN -side ELSE 0]

(* avl_rotate_left (side = Right) and avl_rotate_right (side = Left): the  *)
(* child of x on a side is raised to its place.                            *)
Rotate(t, x, side) ==
  LET root == t.node[x].kid[side]
      bf   == RotatedFactors(side, balance_factor(t, root) = 0)
      up   == Replace(t, x, root)
      move == SetKid(up, x, side, up.node[root].kid[-side])
      down == SetKid(move, root, -side, x)
  IN  set_balance_factor(set_balance_factor(down, x, bf.x), root, bf.root)

(* avl_rotate_lr (side = Left) and avl_rotate_rl (side = Right). *)
RotateTwice(t, x, side) ==
  LET child == t.node[x].kid[side]
      bf    == balance_factor(t, t.node[child].kid[-side])
      done  == Rotate(Rotate(t, child, -side), x, side)
  IN  set_balance_factor(
        set_balance_factor(
          set_balance_factor(done, child, IF bf = -side THEN side ELSE 0),
          x, IF bf = side THEN -side ELSE 0),
        done.node[x].prev, 0)
-----------------------------------------------------------------------------
(* _avl_insert.                                                            *)

Compare(k1, k2) == IF k1 < k2 THEN Right ELSE IF k1 = k2 THEN 0 ELSE Left

(* The node under which a key belongs, or the one that has it already.     *)
RECURSIVE Descend(_, _, _)
Descend(t, x, key) ==
  LET b == Compare(Key(t, x), key)
  IN  IF b = 0 \/ t.node[x].kid[b] = Null THEN x
      ELSE Descend(t, t.node[x].kid[b], key)

(* From child upwards, whose subtree has grown by one level. *)
RECURSIVE Grown(_, _)
Grown(t, child) ==
  LET x    == t.node[child].prev
      side == SideOf(t, x, child)
      bf   == balance_factor(t, x) + side
  IN  IF x = Null THEN t
      ELSE IF bf = 2 * side
      THEN IF balance_factor(t, t.node[x].kid[side]) = side
           THEN Rotate(t, x, side)
           ELSE RotateTwice(t, x, side)
      ELSE IF bf = 0 THEN set_balance_factor(t, x, 0)
      ELSE Grown(set_balance_factor(t, x, bf), x)

(* Whether the key of a new node is in the tree: the insertion is refused. *)
Holds(t, key) == t.root # Null /\ Key(t, Descend(t, t.root, key)) = key

_avl_insert(t, new, data) ==
  LET key    == IF t.cmp = "mem" THEN new ELSE data
      parent == Descend(t, t.root, key)
      side   == Compare(Key(t, parent), key)
      fresh  == [prev |-> Null, kid |-> [s \in Sides |-> Null], data |-> data, bf |-> 0]
      with   == [t EXCEPT !.node = [y \in Nodes(t) \cup {new} |->
                                      IF y = new THEN fresh ELSE t.node[y]]]
      linked == SetKid(with, parent, side, new)
  IN  IF t.root = Null THEN SetKid(with, Null, Left, new)
      ELSE IF side = 0 THEN t
      ELSE IF linked.node[parent].kid[-side] # Null
      THEN set_balance_factor(linked, parent, 0)
      ELSE Grown(linked, new)
-----------------------------------------------------------------------------
(* _avl_delete.                                                            *)

RECURSIVE Leftmost(_, _)
Leftmost(t, x) ==
  IF t.node[x].kid[Left] = Null THEN x ELSE Leftmost(t, t.node[x].kid[Left])

(* Without a right child, the left one (a leaf) stands in. *)
Successor(t, x) ==
  IF t.node[x].kid[Right] # Null THEN Leftmost(t, t.node[x].kid[Right])
                                 ELSE t.node[x].kid[Left]

(* From x upwards, whose subtree on a side has lost one level. *)
RECURSIVE Shrunk(_, _, _)
Shrunk(t, x, side) ==
  LET bf    == balance_factor(t, x) - side
      p     == t.node[x].prev
      heavy == -side
      kid   == t.node[x].kid[heavy]
      kbf   == balance_factor(t, kid)
      fixed == IF bf # 2 * heavy THEN set_balance_factor(t, x, bf)
               ELSE IF kbf = side THEN RotateTwice(t, x, heavy)
                                  ELSE Rotate(t, x, heavy)
  IN  IF x = Null THEN t
      ELSE IF bf = heavy \/ (bf = 2 * heavy /\ kbf = 0) \/ p = Null THEN fixed
      ELSE Shrunk(fixed, p, SideOf(t, p, x))

(* The node whose memory is no longer part of the tree when x is deleted:  *)
(* its successor, whose data x has then, or x itself.                      *)
Deleted(t, x) == IF Successor(t, x) = Null THEN x ELSE Successor(t, x)

(* A mistake: the successor goes and its data with it. *)
CopyData_not(t, x, gone) == t

CopyData(t, x, gone) == [t EXCEPT !.node[x].data = t.node[gone].data]

(* In a tree ordered by addresses x then has the wrong key, until avl_move *)
(* has moved it to the address of its successor.                           *)
_avl_delete(t, x) ==
  LET gone   == Deleted(t, x)
      p      == t.node[gone].prev
      kid    == t.node[gone].kid[Right]
      cut    == Unlink(Replace(CopyData(t, x, gone), gone, kid), gone)
  IN  IF p = Null THEN Unlink([t EXCEPT !.root = Null], x)
      ELSE Shrunk(cut, p, SideOf(t, p, gone))
-----------------------------------------------------------------------------
(* avl_move: the node at src is moved to the memory at dest.               *)
avl_move(t, dest, src) ==
  LET moved == [t EXCEPT !.node = [y \in Nodes(t) \cup {dest} |->
                                     IF y = dest THEN t.node[src] ELSE t.node[y]]]
      l     == SetKid(Replace(moved, src, dest), dest, Left, t.node[src].kid[Left])
      r     == SetKid(l, dest, Right, t.node[src].kid[Right])
  IN  IF dest = src THEN t ELSE Unlink(r, src)

(* A mistake: the node is not moved out of the block that is taken. *)
Take_unmoved(t, x) == _avl_delete(t, x)

(* How alloc and avl_merge take the block at x out of the tree. *)
Take(t, x) ==
  IF Deleted(t, x) = x THEN _avl_delete(t, x)
                       ELSE avl_move(_avl_delete(t, x), Deleted(t, x), x)

RECURSIVE avl_find(_, _, _)
avl_find(t, x, key) ==
  LET b == Compare(Key(t, x), key)
  IN  IF x = Null THEN Null
      ELSE IF b = 0 THEN x
      ELSE avl_find(t, t.node[x].kid[b], key)

(* A mistake: a block that fits exactly is passed over. *)
LargeEnough_strict(size, n) == size > n

LargeEnough(size, n) == size >= n

(* Some node with data at least n: the left subtree first, then the right  *)
(* one, then the node itself.                                              *)
RECURSIVE avl_min_ge(_, _, _)
avl_min_ge(t, x, n) ==
  IF x = Null THEN Null
  ELSE LET l == avl_min_ge(t, t.node[x].kid[Left], n)
           r == avl_min_ge(t, t.node[x].kid[Right], n)
       IN  IF l # Null THEN l
           ELSE IF r # Null THEN r
           ELSE IF LargeEnough(t.node[x].data, n) THEN x
           ELSE Null

NoneFound == [below |-> Null, above |-> Null]

(* A mistake: the walk ends at the first neighbour. *)
BothFound_either(found) == found.below # Null \/ found.above # Null

BothFound(found) == found.below # Null /\ found.above # Null

(* The walk down the tree that looks for the free blocks on both sides of  *)
(* the words from lo up to hi, the first part of avl_merge.                *)
RECURSIVE Neighbours(_, _, _, _, _)
Neighbours(t, x, lo, hi, found) ==
  LET end(y) == y + t.node[y].data
      isAbove == x = hi
      isBelow == ~isAbove /\ end(x) = lo
      seen == IF isAbove THEN [found EXCEPT !.above = x]
              ELSE IF isBelow THEN [found EXCEPT !.below = x] ELSE found
      y == IF isAbove THEN t.node[x].kid[Left]
           ELSE IF isBelow THEN t.node[x].kid[Right] ELSE x
      z == IF y = Null THEN Null
           ELSE IF y > hi THEN t.node[y].kid[Left]
           ELSE IF end(y) < lo THEN t.node[y].kid[Right] ELSE y
  IN  IF x = Null \/ BothFound(found) THEN found
      ELSE Neighbours(t, z, lo, hi, seen)
-----------------------------------------------------------------------------
(* What every call must leave behind.                                      *)

RECURSIVE Height(_, _)
Height(t, x) ==
  IF x = Null THEN -1
  ELSE LET l == Height(t, t.node[x].kid[Left])
           r == Height(t, t.node[x].kid[Right])
       IN  1 + (IF l > r THEN l ELSE r)

RECURSIVE Below(_, _)
Below(t, x) ==
  IF x = Null THEN {}
  ELSE {x} \cup Below(t, t.node[x].kid[Left]) \cup Below(t, t.node[x].kid[Right])

(* Exactly the linked nodes are reached from the root, and every link down *)
(* has its link up.                                                        *)
Linked(t) ==
  /\ t.root # Null => t.node[t.root].prev = Null
  /\ \A x \in Nodes(t), s \in Sides :
       t.node[x].kid[s] # Null => t.node[t.node[x].kid[s]].prev = x
  /\ Below(t, t.root) = Nodes(t)

(* What is below a node on a side is on that side of its key. *)
Ordered(t) ==
  \A x \in Nodes(t), s \in Sides : \A y \in Below(t, t.node[x].kid[s]) :
    Compare(Key(t, x), Key(t, y)) = s

(* Sibling subtrees differ in height by one level at most, and the balance *)
(* factors say by how much, which is what check_balance_factors tests.     *)
Balanced(t) ==
  \A x \in Nodes(t) :
    LET diff == Height(t, t.node[x].kid[Right]) - Height(t, t.node[x].kid[Left])
    IN  diff \in {-1, 0, 1} /\ t.node[x].bf = diff
=============================================================================
