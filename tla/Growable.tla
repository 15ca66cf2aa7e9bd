------------------------------ MODULE Growable -------------------------------
(***************************************************************************)
(* What an array, or an object that is appended to, promises its user,     *)
(* wherever its block has to move: it is a list that only grows at its     *)
(* end, until it is deleted, cut or lost.                                  *)
(***************************************************************************)
EXTENDS Integers, Sequences

CONSTANTS Handles,  \* the variables of the program that refer to a list
          Items,    \* what is appended in one call
          Gone      \* no list

VARIABLE lists

New(h, s) == lists[h] = Gone /\ lists' = [lists EXCEPT ![h] = s]

Append_(h, s) == lists[h] # Gone /\ lists' = [lists EXCEPT ![h] = @ \o s]

Cut(h, n) == /\ lists[h] # Gone
             /\ n < Len(lists[h])
             /\ lists' = [lists EXCEPT ![h] = SubSeq(@, 1, n)]

Drop(h) == lists' = [lists EXCEPT ![h] = Gone]

Init == lists = [h \in Handles |-> Gone]

Next ==
  \E h \in Handles :
    \/ New(h, <<>>)
    \/ \E s \in Items : New(h, s) \/ Append_(h, s)
    \/ lists[h] # Gone /\ \E n \in 0 .. Len(lists[h]) : Cut(h, n)
    \/ Drop(h)

Spec == Init /\ [][Next]_lists
=============================================================================
