------------------------------ MODULE FreeTree ------------------------------
(***************************************************************************)
(* alloc, free and realloc on the tree they really keep: free blocks are   *)
(* nodes of a balanced tree ordered by address, found by avl_min_ge,       *)
(* taken out by _avl_delete and avl_move, and merged with their neighbours *)
(* by the walk of avl_merge.  Module Heap, where free blocks are a plain   *)
(* function, is the abstraction this one implements.                       *)
(***************************************************************************)
EXTENDS AVLTree, FiniteSets

CONSTANTS HeapSize, Requests

VARIABLES tree, used, true_num_alloced, words_used, last

vars == <<tree, used, true_num_alloced, words_used, last>>

FreeBlocks(t) == [x \in Nodes(t) |-> t.node[x].data]

H == INSTANCE Heap WITH
       heap <- [free |-> FreeBlocks(tree), used |-> used,
                true_num_alloced |-> true_num_alloced,
                words_used |-> words_used],
       gc_set <- {}, gc_nodes <- {}, gc_num_alloced <- 0

Init ==
  /\ tree = _avl_insert(EmptyTree("mem"), H!hds_sz, HeapSize - H!hds_sz)
  /\ used = [b \in {} |-> 0]
  /\ true_num_alloced = 0
  /\ words_used = 0
  /\ last = [op |-> "init_heap", ret |-> H!hds_sz]
-----------------------------------------------------------------------------
avl_merge(t, addr, size) ==
  LET n     == Neighbours(t, t.root, addr, addr + size, NoneFound)
      upper == IF n.above = Null THEN size ELSE size + t.node[n.above].data
      t1    == IF n.above = Null THEN t ELSE Take(t, n.above)
      lower == IF n.below = Null THEN 0 ELSE t.node[n.below].data
      t2    == IF n.below = Null THEN t1 ELSE Take(t1, n.below)
  IN  _avl_insert(t2, addr - lower, upper + lower)
-----------------------------------------------------------------------------
(* One alloc or free, on a record of the four variables.                   *)

Memory == [tree |-> tree, used |-> used, true_num_alloced |-> true_num_alloced,
           words_used |-> words_used]

Chosen(m, n) == avl_min_ge(m.tree, m.tree.root, H!BlockSize(n))

AllocIn(m, n) ==
  LET b    == Chosen(m, n)
      old  == m.tree.node[b].data
      size == H!BlockSize(n)
      rest == Take(m.tree, b)
      cut  == old >= size + H!min_alloc_sz
      got  == IF cut THEN size ELSE old
  IN  [tree |-> IF cut THEN _avl_insert(rest, b + size, old - size) ELSE rest,
       used |-> [c \in DOMAIN m.used \cup {b} |-> IF c = b THEN got ELSE m.used[c]],
       true_num_alloced |-> m.true_num_alloced + 1,
       words_used |-> m.words_used + got]

FreeIn(m, b) ==
  [tree |-> avl_merge(m.tree, b, m.used[b]),
   used |-> [c \in DOMAIN m.used \ {b} |-> m.used[c]],
   true_num_alloced |-> m.true_num_alloced - 1,
   words_used |-> m.words_used - m.used[b]]

Become(m) ==
  /\ tree' = m.tree
  /\ used' = m.used
  /\ true_num_alloced' = m.true_num_alloced
  /\ words_used' = m.words_used

Returns(op, ret) == last' = [op |-> op, ret |-> ret]

Fails(op) == /\ Returns(op, Null)
             /\ UNCHANGED <<tree, used, true_num_alloced, words_used>>

alloc(n) ==
  \/ /\ Chosen(Memory, n) # Null
     /\ Become(AllocIn(Memory, n))
     /\ Returns("alloc", H!Addr(Chosen(Memory, n)))
  \/ Chosen(Memory, n) = Null /\ Fails("alloc")

free(b) ==
  /\ Become(FreeIn(Memory, b))
  /\ Returns("free", H!Addr(b))

realloc(b, n) ==
  \/ /\ Chosen(Memory, n) # Null
     /\ Become(FreeIn(AllocIn(Memory, n), b))
     /\ Returns("realloc", H!Addr(Chosen(Memory, n)))
  \/ Chosen(Memory, n) = Null /\ Fails("realloc")

Next ==
  \/ \E n \in Requests : alloc(n)
  \/ \E b \in DOMAIN used : free(b)
  \/ \E b \in DOMAIN used, n \in Requests : realloc(b, n)

Spec == Init /\ [][Next]_vars
-----------------------------------------------------------------------------
(* The tree stays a search tree with consistent links and balance factors  *)
(* although blocks are split, merged and moved under it.                   *)
Sound == Linked(tree) /\ Ordered(tree) /\ Balanced(tree)

(* What the calls do to the tree is what Heap says they do to the free     *)
(* blocks: in particular the walk of avl_merge, which leaves the path to   *)
(* one neighbour to look for the other, always finds both, and alloc fails *)
(* only when no free block is large enough.                                *)
ImplementsHeap == H!Spec
=============================================================================
