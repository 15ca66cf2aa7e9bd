-------------------------------- MODULE Queue --------------------------------
(***************************************************************************)
(* The queue of datastructures.c: links in a list with both directions,    *)
(* each an allocation of its own.  queue_push adds at first, queue_pop     *)
(* takes from there and queue_last from the other end.                     *)
(*                                                                         *)
(* The allocator hands over any address that is free, or none.             *)
(***************************************************************************)
EXTENDS Integers, Sequences

CONSTANTS Addr,   \* of links
          Data,
          Null    \* the null pointer

ASSUME NullAssumption == Null \notin Addr /\ Null \notin Data

VARIABLES first, last,
          link,   \* the links that are allocated
          ret,    \* what the last call returned; for a push, its data
          order   \* history: the links as they were pushed, the newest first

vars == <<first, last, link, ret, order>>

Link == [data : Data, next : Addr \cup {Null}, prev : Addr \cup {Null}]

Init ==
  /\ first = Null
  /\ last = Null
  /\ link = [a \in {} |-> Null]
  /\ ret = Null
  /\ order = <<>>
-----------------------------------------------------------------------------
(* A mistake: the link that was first has no way back to the new one.      *)
Pushed_oneway(a, d) ==
  [b \in DOMAIN link \cup {a} |->
     IF b = a THEN [data |-> d, next |-> first, prev |-> Null] ELSE link[b]]

(* A mistake: the new link points to the wrong end.                        *)
Pushed_last(a, d) ==
  [b \in DOMAIN link \cup {a} |->
     IF b = a THEN [data |-> d, next |-> last, prev |-> Null]
     ELSE IF b = first THEN [link[b] EXCEPT !.prev = a] ELSE link[b]]

Pushed(a, d) ==
  [b \in DOMAIN link \cup {a} |->
     IF b = a THEN [data |-> d, next |-> first, prev |-> Null]
     ELSE IF b = first THEN [link[b] EXCEPT !.prev = a] ELSE link[b]]

queue_push(d) ==
  \/ \E a \in Addr \ DOMAIN link :
       /\ link' = Pushed(a, d)
       /\ last' = IF first = Null THEN a ELSE last
       /\ first' = a
       /\ ret' = d
       /\ order' = <<a>> \o order
  \/ /\ ret' = Null
     /\ UNCHANGED <<first, last, link, order>>

Empty ==
  /\ ret' = Null
  /\ UNCHANGED <<first, last, link, order>>

(* The links without a; b, which was its neighbour, is an end now. *)
Unlinked(a, b) ==
  [c \in DOMAIN link \ {a} |->
     IF c # b THEN link[c]
     ELSE IF a = first THEN [link[c] EXCEPT !.prev = Null]
     ELSE [link[c] EXCEPT !.next = Null]]

queue_pop ==
  IF first = Null THEN Empty
  ELSE /\ link' = Unlinked(first, link[first].next)
       /\ first' = link[first].next
       /\ last' = IF link[first].next = Null THEN Null ELSE last
       /\ ret' = link[first].data
       /\ order' = Tail(order)

queue_last ==
  IF last = Null THEN Empty
  ELSE /\ link' = Unlinked(last, link[last].prev)
       /\ last' = link[last].prev
       /\ first' = IF link[last].prev = Null THEN Null ELSE first
       /\ ret' = link[last].data
       /\ order' = SubSeq(order, 1, Len(order) - 1)

Next == (\E d \in Data : queue_push(d)) \/ queue_pop \/ queue_last

Spec == Init /\ [][Next]_vars
-----------------------------------------------------------------------------
TypeOK ==
  /\ first \in Addr \cup {Null}
  /\ last \in Addr \cup {Null}
  /\ DOMAIN link \subseteq Addr
  /\ link \in [DOMAIN link -> Link]
  /\ ret \in Data \cup {Null}
  /\ order \in Seq(Addr)

At(i) == IF i \in DOMAIN order THEN order[i] ELSE Null

(* The list holds together in both directions, each end knows its link, and *)
(* what is allocated is in the list, once: whatever was pushed and taken    *)
(* from either end, and however many pushes found no memory.                *)
ListSound ==
  /\ first = At(1)
  /\ last = At(Len(order))
  /\ \A i, j \in DOMAIN order : order[i] = order[j] => i = j
  /\ DOMAIN link = {order[i] : i \in DOMAIN order}
  /\ \A i \in DOMAIN order :
       /\ link[order[i]].next = At(i + 1)
       /\ link[order[i]].prev = At(i - 1)

Item(a) == IF a \in DOMAIN link THEN link[a].data ELSE Null

Items == [i \in DOMAIN order |-> Item(order[i])]

(* The queue gives back what was pushed, each item once and in order, as     *)
(* module Deque promises.                                                   *)
Promise == INSTANCE Deque WITH items <- Items

KeepsPromise == Promise!Spec
=============================================================================
