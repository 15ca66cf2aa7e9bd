------------------------------ MODULE RingBuf ------------------------------
(***************************************************************************)
(* The ring buffer of datastructures.c (ring_buf, ring_buf_add,            *)
(* ring_buf_pop, ...), as operators on records.  A record                  *)
(*                                                                         *)
(*     [sz |-> capacity, buf |-> slots, head |-> .., tail |-> ..]          *)
(*                                                                         *)
(* is the RingBuf struct with the array it points to; sz is what           *)
(* array_capacity computes from the array's header, and is whatever the    *)
(* allocator granted, so at least what the creator asked for.  A slot      *)
(* holds one tagged item.  head is the next slot to fill, tail the oldest  *)
(* filled one, and one slot is always left unused so that a full ring is   *)
(* told from an empty one.                                                 *)
(*                                                                         *)
(* ring_buf_pop moves tail in two stores (increment, then wrap to 0), and  *)
(* an interrupt can fall between them: the two are separate operators.     *)
(***************************************************************************)
EXTENDS Integers

(* A slot of a new ring holds whatever its memory held before. *)
ring_buf(size, leftover) ==
  [sz |-> size, buf |-> [i \in 0..(size - 1) |-> leftover],
   head |-> 0, tail |-> 0]

ring_buf_isempty(rb) == rb.head = rb.tail

(* Faulty variant: a full ring is taken for one with room. *)
ring_buf_isfull_never(rb) == FALSE

ring_buf_isfull(rb) == (rb.tail + (rb.sz - 1)) % rb.sz = rb.head

(* The new item goes to the slot at head, which then advances and wraps.   *)
(* Only the interrupt handler adds, and nothing interrupts it.             *)
ring_buf_add(rb, item) ==
  [rb EXCEPT !.buf = [@ EXCEPT ![rb.head] = item],
             !.head = IF rb.head + 1 >= rb.sz THEN 0 ELSE rb.head + 1]

(* The three steps of ring_buf_pop: copy the oldest item out, advance the  *)
(* tail, wrap the tail.                                                    *)
Oldest(rb) == rb.buf[rb.tail]

TailAdvanced(rb) == [rb EXCEPT !.tail = rb.tail + 1]

TailWrapped(rb) == [rb EXCEPT !.tail = IF rb.tail >= rb.sz THEN 0 ELSE rb.tail]
=============================================================================
