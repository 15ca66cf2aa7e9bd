-------------------------------- MODULE Deque --------------------------------
(***************************************************************************)
(* What a queue promises: items that are pushed come back, each once, the  *)
(* newest first from queue_pop, the oldest first from queue_last.  A push  *)
(* that finds no memory changes nothing.                                   *)
(***************************************************************************)
EXTENDS Integers, Sequences

CONSTANTS Data,   \* what is pushed
          Null    \* the answer of an empty queue, and of a failed push

VARIABLES items,  \* the newest first
          ret     \* what the last call returned

Init == items = <<>> /\ ret = Null

Push(d) == items' = <<d>> \o items /\ ret' = d

Refuse == UNCHANGED items /\ ret' = Null

Pop ==
  IF items = <<>> THEN UNCHANGED items /\ ret' = Null
  ELSE items' = Tail(items) /\ ret' = Head(items)

TakeLast ==
  IF items = <<>> THEN UNCHANGED items /\ ret' = Null
  ELSE /\ items' = SubSeq(items, 1, Len(items) - 1)
       /\ ret' = items[Len(items)]

Next == (\E d \in Data : Push(d)) \/ Refuse \/ Pop \/ TakeLast

Spec == Init /\ [][Next]_<<items, ret>>
=============================================================================
