-------------------------------- MODULE Heap --------------------------------
(***************************************************************************)
(* The memory allocator of alloc.c: alloc, free, realloc, and the calls    *)
(* that also register a block with the garbage collector (gc_alloc,        *)
(* gc_add, gc_free, gc_realloc).                                           *)
(*                                                                         *)
(* The heap is the words 0..(HeapSize - 1); its descriptor takes the first *)
(* hds_sz of them.  A block is named by its first word, which holds its    *)
(* size (umds.mem_sz) while it is in use; the pointer a caller gets is one *)
(* word further.  A free block holds its own node of the tree of free      *)
(* blocks, and the size is the node's data.  The tree is modelled by the   *)
(* dictionary it stands for, a function from free blocks to sizes; which   *)
(* of the blocks that are large enough avl_min_ge finds depends on the     *)
(* tree's shape and is left open here.  In the same way gc_set is the set  *)
(* of blocks it holds, and gc_nodes the blocks its tree nodes live in.     *)
(* What callers store in their blocks is left out.                         *)
(***************************************************************************)
EXTENDS Integers, FiniteSets

CONSTANTS HeapSize,   \* heap_sz of init_heap, in words
          Requests    \* the sizes callers ask for, in words

umds_sz == 1
hds_sz == 8
min_alloc_sz == 4     \* a free block must hold an AVL_Node

ASSUME HeapAssumption == /\ HeapSize \in Nat
                         /\ HeapSize >= min_alloc_sz + hds_sz
ASSUME RequestsAssumption == Requests \subseteq Nat

VARIABLES heap,            \* blocks and counters, see below
          gc_set,          \* blocks registered with the collector
          gc_nodes,        \* blocks that hold gc_set's tree nodes
          gc_num_alloced,
          last             \* the last call and what it returned (0 is null)

vars == <<heap, gc_set, gc_nodes, gc_num_alloced, last>>

Init ==
  /\ heap = [free |-> [b \in {hds_sz} |-> HeapSize - hds_sz],
             used |-> [b \in {} |-> 0],
             true_num_alloced |-> 0,
             words_used |-> 0]
  /\ gc_set = {}
  /\ gc_nodes = {}
  /\ gc_num_alloced = 0
  /\ last = [op |-> "init_heap", ret |-> hds_sz]
-----------------------------------------------------------------------------
(* The heap before and after one alloc or one free.                        *)

BlockSize(n) == IF n + umds_sz < min_alloc_sz THEN min_alloc_sz ELSE n + umds_sz

(* Faulty variant: a block of exactly the size wanted is passed over. *)
Fits_larger(h, n) == {b \in DOMAIN h.free : h.free[b] > BlockSize(n)}

Fits(h, n) == {b \in DOMAIN h.free : h.free[b] >= BlockSize(n)}

(* Faulty variant: any remainder is split off. *)
Granted_exact(h, b, n) == BlockSize(n)

(* A remainder too small for a tree node stays with the block. *)
Granted(h, b, n) ==
  IF h.free[b] >= BlockSize(n) + min_alloc_sz THEN BlockSize(n) ELSE h.free[b]

Remainder(h, b, n) ==
  IF Granted(h, b, n) = h.free[b] THEN {} ELSE {b + Granted(h, b, n)}

(* Faulty variant: what was asked for is counted, not what was granted. *)
AllocAt_asked(h, b, n) ==
  LET got == Granted(h, b, n)
  IN  [free |-> [c \in (DOMAIN h.free \ {b}) \cup Remainder(h, b, n) |->
                   IF c \in Remainder(h, b, n) THEN h.free[b] - got
                                               ELSE h.free[c]],
       used |-> [c \in DOMAIN h.used \cup {b} |->
                   IF c = b THEN got ELSE h.used[c]],
       true_num_alloced |-> h.true_num_alloced + 1,
       words_used |-> h.words_used + BlockSize(n)]

AllocAt(h, b, n) ==
  LET got == Granted(h, b, n)
  IN  [free |-> [c \in (DOMAIN h.free \ {b}) \cup Remainder(h, b, n) |->
                   IF c \in Remainder(h, b, n) THEN h.free[b] - got
                                               ELSE h.free[c]],
       used |-> [c \in DOMAIN h.used \cup {b} |->
                   IF c = b THEN got ELSE h.used[c]],
       true_num_alloced |-> h.true_num_alloced + 1,
       words_used |-> h.words_used + got]

(* avl_merge: a freed block absorbs the free blocks on both sides of it.   *)
MergedStart(h, b) ==
  IF \E c \in DOMAIN h.free : c + h.free[c] = b
  THEN CHOOSE c \in DOMAIN h.free : c + h.free[c] = b
  ELSE b

MergedEnd(h, b) ==
  LET end == b + h.used[b]
  IN  IF end \in DOMAIN h.free THEN end + h.free[end] ELSE end

FreeBlock(h, b) ==
  LET start == MergedStart(h, b)
  IN  [free |-> [c \in (DOMAIN h.free \ {b + h.used[b]}) \cup {start} |->
                   IF c = start THEN MergedEnd(h, b) - start ELSE h.free[c]],
       used |-> [c \in DOMAIN h.used \ {b} |-> h.used[c]],
       true_num_alloced |-> h.true_num_alloced - 1,
       words_used |-> h.words_used - h.used[b]]
-----------------------------------------------------------------------------
(* The calls.                                                              *)

Addr(b) == b + umds_sz

Null == 0

Returns(op, ret) == last' = [op |-> op, ret |-> ret]

gc == <<gc_set, gc_nodes, gc_num_alloced>>

alloc(n) ==
  /\ \/ \E b \in Fits(heap, n) : /\ heap' = AllocAt(heap, b, n)
                                 /\ Returns("alloc", Addr(b))
     \/ /\ Fits(heap, n) = {}
        /\ UNCHANGED heap
        /\ Returns("alloc", Null)
  /\ UNCHANGED gc

(* Callers give free a block they own.  Its test of the bounds lets every  *)
(* block of the heap through: the upper bound it computes adds heap_end,   *)
(* an address already, to the address of the heap.                         *)
Owned == DOMAIN heap.used \ (gc_set \cup gc_nodes)

free(b) ==
  /\ heap' = FreeBlock(heap, b)
  /\ Returns("free", Addr(b))
  /\ UNCHANGED gc

(* The old block goes only once the new one is there. *)
realloc(b, n) ==
  /\ \/ \E c \in Fits(heap, n) :
          /\ heap' = FreeBlock(AllocAt(heap, c, n), b)
          /\ Returns("realloc", Addr(c))
     \/ /\ Fits(heap, n) = {}
        /\ UNCHANGED heap
        /\ Returns("realloc", Null)
  /\ UNCHANGED gc

NodeWords == 4

(* avl_insert of block b into gc_set in heap h, where it is not yet.       *)
Register(op, h, b) ==
  \E c \in Fits(h, NodeWords) :
    /\ heap' = AllocAt(h, c, NodeWords)
    /\ gc_set' = gc_set \cup {b}
    /\ gc_nodes' = gc_nodes \cup {c}
    /\ gc_num_alloced' = gc_num_alloced + 1
    /\ Returns(op, Addr(b))

(* Faulty variant: the block stays allocated when it cannot be registered. *)
gc_alloc_leaks(n) ==
  \/ \E b \in Fits(heap, n) :
       LET h == AllocAt(heap, b, n)
       IN  \/ Register("gc_alloc", h, b)
           \/ /\ Fits(h, NodeWords) = {}
              /\ heap' = h
              /\ Returns("gc_alloc", Null)
              /\ UNCHANGED gc
  \/ /\ Fits(heap, n) = {}
     /\ Returns("gc_alloc", Null)
     /\ UNCHANGED <<heap, gc>>

gc_alloc(n) ==
  \/ \E b \in Fits(heap, n) :
       LET h == AllocAt(heap, b, n)
       IN  \/ Register("gc_alloc", h, b)
           \/ /\ Fits(h, NodeWords) = {}
              /\ heap' = FreeBlock(h, b)
              /\ Returns("gc_alloc", Null)
              /\ UNCHANGED gc
  \/ /\ Fits(heap, n) = {}
     /\ Returns("gc_alloc", Null)
     /\ UNCHANGED <<heap, gc>>

(* Of a block that is registered already: the node avl_insert allocates is *)
(* given back.                                                             *)
gc_add(b) ==
  \/ b \notin gc_set /\ Register("gc_add", heap, b)
  \/ /\ b \in gc_set
     /\ \E c \in Fits(heap, NodeWords) :
          heap' = FreeBlock(AllocAt(heap, c, NodeWords), c)
     /\ Returns("gc_add", Null)
     /\ UNCHANGED gc
  \/ /\ Fits(heap, NodeWords) = {}
     /\ Returns("gc_add", Null)
     /\ UNCHANGED <<heap, gc>>

(* Faulty variant: the block is freed but stays registered. *)
gc_free_keepsEntry(b) ==
  /\ heap' = FreeBlock(heap, b)
  /\ Returns("gc_free", Addr(b))
  /\ UNCHANGED gc

(* set_remove frees the node _avl_delete unlinks, which need not be the    *)
(* one that held the block: the tree moves data between nodes.  gc_free is *)
(* called with registered blocks.                                          *)
gc_free(b) ==
  /\ \E x \in gc_nodes :
       /\ heap' = FreeBlock(FreeBlock(heap, x), b)
       /\ gc_nodes' = gc_nodes \ {x}
  /\ gc_set' = gc_set \ {b}
  /\ gc_num_alloced' = gc_num_alloced - 1
  /\ Returns("gc_free", Addr(b))

(* The old block goes even when no new one could be had: the result of     *)
(* gc_alloc is not tested (and the old content is then copied to address   *)
(* 0, outside the heap).                                                   *)
gc_realloc(b, n) ==
  \/ \E c \in Fits(heap, n) :
       LET h == AllocAt(heap, c, n)
       IN  \/ \E d \in Fits(h, NodeWords) : \E x \in gc_nodes \cup {d} :
                /\ heap' = FreeBlock(FreeBlock(AllocAt(h, d, NodeWords), x), b)
                /\ gc_nodes' = (gc_nodes \cup {d}) \ {x}
                /\ gc_set' = (gc_set \cup {c}) \ {b}
                /\ UNCHANGED gc_num_alloced
                /\ Returns("gc_realloc", Addr(c))
           \/ /\ Fits(h, NodeWords) = {}
              /\ \E x \in gc_nodes :
                   /\ heap' = FreeBlock(FreeBlock(FreeBlock(h, c), x), b)
                   /\ gc_nodes' = gc_nodes \ {x}
              /\ gc_set' = gc_set \ {b}
              /\ gc_num_alloced' = gc_num_alloced - 1
              /\ Returns("gc_realloc", Null)
  \/ /\ Fits(heap, n) = {}
     /\ \E x \in gc_nodes :
          /\ heap' = FreeBlock(FreeBlock(heap, x), b)
          /\ gc_nodes' = gc_nodes \ {x}
     /\ gc_set' = gc_set \ {b}
     /\ gc_num_alloced' = gc_num_alloced - 1
     /\ Returns("gc_realloc", Null)
-----------------------------------------------------------------------------
Next ==
  \/ \E n \in Requests : alloc(n) \/ gc_alloc(n)
  \/ \E b \in Owned : free(b)
  \/ \E b \in Owned, n \in Requests : realloc(b, n)
  \/ \E b \in Owned \cup gc_set : gc_add(b)
  \/ \E b \in gc_set : gc_free(b)
  \/ \E b \in gc_set, n \in Requests : gc_realloc(b, n)

Spec == Init /\ [][Next]_vars
-----------------------------------------------------------------------------
Words == hds_sz..(HeapSize - 1)

(* The two dictionaries map words of the heap to sizes, and the collector  *)
(* holds words of the heap.                                                *)
Typed(h) ==
  /\ h.free \in [DOMAIN h.free -> Nat]
  /\ h.used \in [DOMAIN h.used -> Nat]
  /\ DOMAIN h.free \cup DOMAIN h.used \subseteq Words

TypeOK ==
  /\ Typed(heap)
  /\ heap.true_num_alloced \in Int
  /\ heap.words_used \in Int
  /\ gc_set \subseteq Words
  /\ gc_nodes \subseteq Words
  /\ gc_num_alloced \in Int

Blocks(h) == DOMAIN h.free \cup DOMAIN h.used

SizeOf(h, b) == IF b \in DOMAIN h.free THEN h.free[b] ELSE h.used[b]

End(h, b) == b + SizeOf(h, b)

(* Blocks lie one after the other without overlap, each large enough for a *)
(* tree node, and no word of the heap is outside of them: whatever the     *)
(* order of splits and merges, nothing is handed out twice or lost.        *)
Tiled(h) ==
  /\ DOMAIN h.free \cap DOMAIN h.used = {}
  /\ \A b \in Blocks(h) : SizeOf(h, b) >= min_alloc_sz /\ End(h, b) <= HeapSize
  /\ \A b, c \in Blocks(h) : b < c => End(h, b) <= c
  /\ \A w \in Words : \E b \in Blocks(h) : b <= w /\ w < End(h, b)

Tiling == Tiled(heap)

(* No two free blocks touch. *)
Merged(h) == \A b, c \in DOMAIN h.free : End(h, b) # c

Coalesced == Merged(heap)

(* The collector's bookkeeping points into live blocks: what it holds is   *)
(* in use, its nodes are blocks of their own, one for each.                *)
Registered ==
  /\ gc_set \subseteq DOMAIN heap.used
  /\ gc_nodes \subseteq DOMAIN heap.used
  /\ gc_set \cap gc_nodes = {}
  /\ Cardinality(gc_nodes) = Cardinality(gc_set)

(* The counts that main reports and the collector goes by are those of the *)
(* blocks there are, however the calls were nested.                        *)
Counters ==
  /\ heap.true_num_alloced = Cardinality(DOMAIN heap.used)
  /\ gc_num_alloced = Cardinality(gc_set)

InUse(h) == {w \in Words : \E b \in DOMAIN h.used : b <= w /\ w < b + h.used[b]}

(* words_used, from which check_heap_capacity decides when to collect, is  *)
(* the number of words that lie in blocks in use: a free gives back        *)
(* exactly what its alloc took, slack included.                            *)
WordsCounted == heap.words_used = Cardinality(InUse(heap))

IInv == TypeOK /\ Tiling /\ Coalesced /\ Registered /\ Counters /\ WordsCounted

(* A request is refused only if no run of unused words could hold it: free *)
(* memory is never unreachable because of the way it was freed.            *)
Unused(w) == \A b \in DOMAIN heap.used : w < b \/ End(heap, b) <= w

RefusedOnlyIfNoRun ==
  \A n \in Requests :
    Fits(heap, n) = {} =>
      \A w \in Words :
        w + BlockSize(n) <= HeapSize =>
          \E v \in w..(w + BlockSize(n) - 1) : ~Unused(v)

(* A call that fails changes neither the free nor the used blocks, and in  *)
(* particular leaks nothing of what it had allocated before it failed.     *)
FailureLeavesHeap ==
  [][(last'.ret = Null /\ last'.op # "gc_realloc") =>
       heap'.free = heap.free /\ heap'.used = heap.used /\ UNCHANGED gc]_vars
=============================================================================
