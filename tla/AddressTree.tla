----------------------------- MODULE AddressTree -----------------------------
(***************************************************************************)
(* The tree of free blocks on its own: a tree ordered by the addresses of  *)
(* its nodes (avl_mem_cmp), whose data are the blocks' sizes.  A node is   *)
(* the block it stands for, so a deletion that copies data between nodes   *)
(* has to be followed by avl_move.  Any block may be put in or taken out;  *)
(* which ones the allocator does take is for module FreeTree.  Between two *)
(* of the blocks there are words in use, so that none is ever merged.      *)
(***************************************************************************)
EXTENDS AVLTree

CONSTANTS Addresses,  \* where blocks can start
          SizeAt      \* the size of the block at each of them

VARIABLE t

Init == t = EmptyTree("mem")

insert(a) ==
  /\ a \notin Nodes(t)
  /\ t' = _avl_insert(t, a, SizeAt[a])

take(a) ==
  /\ a \in Nodes(t)
  /\ t' = Take(t, a)

Next == \E a \in Addresses : insert(a) \/ take(a)

Spec == Init /\ [][Next]_t
-----------------------------------------------------------------------------
(* After any insertions and removals the tree is a search tree by address, *)
(* with consistent links and balance factors: a removal may rotate at      *)
(* several levels, with the moved node among those rotated.                *)
Sound == Linked(t) /\ Ordered(t) /\ Balanced(t)

(* Taking a block out, as alloc or avl_merge would, removes it and no      *)
(* other, whichever node is unlinked and moved for it.                     *)
TakesTheRightBlock ==
  \A a \in Nodes(t) : Nodes(Take(t, a)) = Nodes(t) \ {a}

(* No block takes over another's size with the data that _avl_delete       *)
(* copies.                                                                 *)
SizesStay == \A a \in Nodes(t) : t.node[a].data = SizeAt[a]

(* avl_min_ge, which searches the whole tree because it is not ordered by  *)
(* size, finds a block that is large enough whenever there is one.         *)
FindsLargeEnough ==
  \A n \in {SizeAt[a] : a \in Addresses} :
    LET x == avl_min_ge(t, t.root, n)
    IN  IF \E a \in Nodes(t) : SizeAt[a] >= n
        THEN x \in Nodes(t) /\ SizeAt[x] >= n
        ELSE x = Null

InUse(lo, hi) ==
  lo < hi /\ \A b \in Nodes(t) : hi <= b \/ b + SizeAt[b] <= lo

(* The walk of avl_merge, which leaves the path to one neighbour to look   *)
(* for the other, finds the free blocks that end and start where the freed *)
(* one starts and ends, if there are any, in a tree of any shape.  Where   *)
(* a block ends and where one starts are tried with the blocks free or not. *)
FindsNeighbours ==
  \A a \in Addresses : \A hi \in {b \in Addresses : a < b} :
    LET lo == a + SizeAt[a]
    IN  InUse(lo, hi) =>
      LET found == Neighbours(t, t.root, lo, hi, NoneFound)
      IN  /\ found.above = IF hi \in Nodes(t) THEN hi ELSE Null
          /\ IF \E b \in Nodes(t) : b + SizeAt[b] = lo
             THEN found.below \in Nodes(t) /\ found.below + SizeAt[found.below] = lo
             ELSE found.below = Null
=============================================================================
