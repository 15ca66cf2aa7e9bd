------------------------------- MODULE MCTrees -------------------------------
(***************************************************************************)
(* The three uses of the balanced trees, of which a behaviour is about one *)
(* and leaves the others as they begin: a set with its keys in nodes of    *)
(* its own (DataTree), a tree whose nodes are the blocks (AddressTree),    *)
(* and the allocator on top of such a tree (FreeTree).                     *)
(***************************************************************************)
EXTENDS Integers, FiniteSets

CONSTANTS NodeAddresses, Keys, BlockAddresses, HeapSize, Requests

ASSUME NodesAssumption == 0 \notin NodeAddresses /\ IsFiniteSet(NodeAddresses)
ASSUME KeysAssumption == Keys \subseteq Nat

VARIABLES use,                 \* "set", "blocks" or "heap"
          set, set_last,
          blocks,
          tree, used, true_num_alloced, words_used, last

heap == <<tree, used, true_num_alloced, words_used, last>>

(* Blocks of three sizes, with words in use between them.                  *)
SizeAt == [a \in BlockAddresses |-> IF a % 48 = 0 THEN 7 ELSE IF a % 80 = 0 THEN 5 ELSE 8]

ASSUME BlocksAssumption ==
  \A a, b \in BlockAddresses : 0 < a /\ (a < b => a + SizeAt[a] < b)

D == INSTANCE DataTree WITH t <- set, last <- set_last, Addresses <- NodeAddresses
B == INSTANCE AddressTree WITH t <- blocks, Addresses <- BlockAddresses
F == INSTANCE FreeTree

Init ==
  /\ use \in {"set", "blocks", "heap"}
  /\ D!Init
  /\ B!Init
  /\ F!Init

Next ==
  /\ UNCHANGED use
  /\ \/ use = "set" /\ D!Next /\ UNCHANGED <<blocks, heap>>
     \/ use = "blocks" /\ B!Next /\ UNCHANGED <<set, set_last, heap>>
     \/ use = "heap" /\ F!Next /\ UNCHANGED <<set, set_last, blocks>>

Spec == Init /\ [][Next]_<<use, set, set_last, blocks, heap>>

(* A set orders its nodes by their data and never by where they are, so    *)
(* states that differ only in that are one.                                *)
Shape ==
  LET key(x) == IF x = 0 THEN 0 ELSE set.node[x].data
  IN  {<<key(x), key(set.node[x].prev), [s \in {-1, 1} |-> key(set.node[x].kid[s])],
         set.node[x].bf>> : x \in DOMAIN set.node}

UpToPlacement == <<use, Shape, set_last, blocks, heap>>
-----------------------------------------------------------------------------
(* After any calls each tree is a search tree with consistent links and    *)
(* balance factors: a deletion may rotate at several levels, with a node   *)
(* that has been moved among those rotated (_avl_delete, avl_move).        *)
TreesSound == D!TypeOK /\ D!Sound /\ B!Sound /\ F!Sound

(* The set is a dictionary: rebalancing, and the copying of data between   *)
(* nodes, never lose, repeat or hide a key, nor keep or free the wrong     *)
(* node's memory (avl_insert, avl_delete).                                 *)
IsDictionary == D!IsDictionary

(* A block that is taken out is gone, no other is, and none takes over     *)
(* another's size (_avl_delete followed by avl_move).                      *)
TakesTheRightBlock == B!SizesStay /\ B!TakesTheRightBlock

(* The two searches that the order of the tree does not direct find what   *)
(* there is, in a tree of any shape (avl_min_ge, avl_merge).               *)
SearchesComplete == B!FindsLargeEnough /\ B!FindsNeighbours

(* alloc, free and realloc on the tree do what Heap says of free blocks    *)
(* that are a plain function.                                              *)
ImplementsHeap == F!ImplementsHeap
=============================================================================
