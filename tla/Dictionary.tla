----------------------------- MODULE Dictionary -----------------------------
(***************************************************************************)
(* What the callers of avl_insert and avl_delete are promised, whatever    *)
(* the shape of the tree: a set of keys of which each is there once, and a *)
(* refusal (1) only when the key is there already, or not there to   *)
(* delete, or when there is no memory for another node.                    *)
(***************************************************************************)
EXTENDS Naturals, FiniteSets

CONSTANTS Keys, Capacity

VARIABLES keys,
          last   \* the last call, its key and what it returned

dvars == <<keys, last>>

Init == keys = {} /\ last = <<"none", 0, 0>>

Insert(k) ==
  \/ /\ k \notin keys
     /\ Cardinality(keys) < Capacity
     /\ keys' = keys \cup {k}
     /\ last' = <<"insert", k, 0>>
  \/ /\ k \in keys \/ Cardinality(keys) = Capacity
     /\ last' = <<"insert", k, 1>>
     /\ UNCHANGED keys

Delete(k) ==
  \/ /\ k \in keys
     /\ keys' = keys \ {k}
     /\ last' = <<"delete", k, 0>>
  \/ /\ k \notin keys
     /\ last' = <<"delete", k, 1>>
     /\ UNCHANGED keys

Next == \E k \in Keys : Insert(k) \/ Delete(k)

Spec == Init /\ [][Next]_dvars
=============================================================================
