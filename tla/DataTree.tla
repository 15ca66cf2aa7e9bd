------------------------------ MODULE DataTree ------------------------------
(***************************************************************************)
(* A tree ordered by its nodes' data, as sets and the collector's gc_set   *)
(* use it: avl_insert allocates the node, avl_delete frees the memory that *)
(* _avl_delete unlinked, which may be another node's than the one that     *)
(* held the key.                                                           *)
(***************************************************************************)
EXTENDS AVLTree, FiniteSets

CONSTANTS Addresses,   \* where the allocator can put nodes
          Keys         \* the data

VARIABLES t,     \* the tree
          last   \* the last call, its key and what it returned

vars == <<t, last>>

Init == t = EmptyTree("basic") /\ last = <<"none", 0, 0>>

(* A node that could not be linked is freed again. *)
avl_insert(k) ==
  \/ \E x \in Addresses \ Nodes(t) :
       /\ t' = _avl_insert(t, x, k)
       /\ last' = <<"insert", k, IF Holds(t, k) THEN 1 ELSE 0>>
  \/ /\ Addresses \subseteq Nodes(t)
     /\ last' = <<"insert", k, 1>>
     /\ UNCHANGED t

avl_delete(k) ==
  LET x == avl_find(t, t.root, k)
  IN  IF x = Null THEN last' = <<"delete", k, 1>> /\ UNCHANGED t
                  ELSE last' = <<"delete", k, 0>> /\ t' = _avl_delete(t, x)

Next == \E k \in Keys : avl_insert(k) \/ avl_delete(k)

Spec == Init /\ [][Next]_vars
-----------------------------------------------------------------------------
TypeOK ==
  /\ last \in {"none", "insert", "delete"} \X (Keys \cup {0}) \X {0, 1}
  /\ t.root \in Nodes(t) \cup {Null}
  /\ t.node \in [Nodes(t) -> [prev : Nodes(t) \cup {Null},
                              kid  : [Sides -> Nodes(t) \cup {Null}],
                              data : Keys,
                              bf   : {-1, 0, 1}]]
  /\ Nodes(t) \subseteq Addresses

(* After any sequence of insertions and deletions the tree is a search     *)
(* tree with consistent links and balance factors.                         *)
Sound == Linked(t) /\ Ordered(t) /\ Balanced(t)

(* The tree is a dictionary: rebalancing, and the copying of data between  *)
(* nodes, never lose, repeat or hide a key, nor keep or free the wrong     *)
(* node's memory.                                                          *)
Dict == INSTANCE Dictionary WITH keys <- {t.node[x].data : x \in Nodes(t)},
                                 Capacity <- Cardinality(Addresses)

IsDictionary == Dict!Spec
=============================================================================
