--------------------------- MODULE ConcurrentFIFO ---------------------------
(***************************************************************************)
(* The queue that carries exceptions from the processor's vectors to the   *)
(* bytecode interpreter (struct c_fifo, concurrent_fifo_add/_pop), with    *)
(* its two users on the one core that runs:                                *)
(*                                                                         *)
(*   - exc_handler, entered from boot.S with further interrupts masked, so *)
(*     it runs to completion: one atomic action, Interrupt;                *)
(*   - the loop of run, which calls concurrent_fifo_pop before each        *)
(*     instruction and can be interrupted between any two of the memory    *)
(*     accesses pop makes: one action per access the handler can observe   *)
(*     or disturb.                                                         *)
(*                                                                         *)
(* Two rings, each with a lock that the popping side sets around its       *)
(* critical section, let the handler always find a ring it may touch; the  *)
(* tags put the items of the two rings back in one order.  tag is 64 bits  *)
(* wide and counts exceptions, so its wrap-around is not modelled.         *)
(***************************************************************************)
EXTENDS Integers, Sequences, RingBuf

CONSTANTS Exc,            \* exception numbers
          NoExc,          \* what uninitialised memory holds: no exception
          SizeA, SizeB,   \* capacities of the primary and secondary ring
          MaxExceptions   \* TLC bound: how many exceptions are raised

ASSUME SizesAssumption == /\ SizeA \in Nat \ {0, 1}
                          /\ SizeB \in Nat \ {0, 1}
ASSUME ExcAssumption == NoExc \notin Exc
ASSUME BoundAssumption == MaxExceptions \in Nat

VARIABLES ring,        \* cf->A and cf->B
          lck,         \* cf->a_lck and cf->b_lck
          tag,         \* cf->tag, the tag of the next exception
          curr_tag,    \* cf->curr_tag, the tag pop looks for
          pc,          \* where the interpreter is in concurrent_fifo_pop
          side,        \* the ring pop is looking at
          c_tag,       \* pop's copy of curr_tag
          tagged_item, \* pop's local copy of the item
          accepted, delivered, dropped  \* history, see ExceptionQueue

fifo    == <<ring, lck, tag, curr_tag>>
locals  == <<pc, side, c_tag, tagged_item>>
history == <<accepted, delivered, dropped>>
vars    == <<fifo, locals, history>>

Side == {"A", "B"}

Size(s) == IF s = "A" THEN SizeA ELSE SizeB

Item == [tag : Nat, exc : Exc \cup {NoExc}]

Leftover == [tag |-> 0, exc |-> NoExc]
-----------------------------------------------------------------------------
(* concurrent_fifo; nothing runs with the queue before it returns.         *)
Init ==
  /\ ring = [s \in Side |-> ring_buf(Size(s), Leftover)]
  /\ lck = [s \in Side |-> FALSE]
  /\ tag = 0
  /\ curr_tag = 0
  /\ pc = "run"
  /\ side = "A"
  /\ c_tag = 0
  /\ tagged_item = Leftover
  /\ accepted = <<>>
  /\ delivered = <<>>
  /\ dropped = 0
-----------------------------------------------------------------------------
(* exc_handler and concurrent_fifo_add.                                    *)

Available(s) == ~lck[s] /\ ~ring_buf_isfull(ring[s])

(* The primary ring is tried first. *)
Chosen(s) == /\ Available(s)
             /\ s = "B" => ~Available("A")

Raised == Len(accepted) + dropped

Accept(s, e) ==
  /\ Chosen(s)
  /\ ring' = [ring EXCEPT ![s] = ring_buf_add(@, [tag |-> tag, exc |-> e])]
  /\ tag' = tag + 1
  /\ accepted' = Append(accepted, e)
  /\ UNCHANGED <<lck, curr_tag, delivered, dropped>>

(* Faulty variants: the tag of a refused exception is not given back; an   *)
(* exception is refused although the secondary ring has room.              *)
Refuse_keepsTag ==
  /\ \A s \in Side : ~Available(s)
  /\ tag' = tag + 1
  /\ dropped' = dropped + 1
  /\ UNCHANGED <<ring, lck, curr_tag, accepted, delivered>>

Refuse_primaryOnly ==
  /\ ~Available("A")
  /\ dropped' = dropped + 1
  /\ UNCHANGED <<fifo, accepted, delivered>>

(* The tag taken for the exception is given back. *)
Refuse ==
  /\ \A s \in Side : ~Available(s)
  /\ dropped' = dropped + 1
  /\ UNCHANGED <<fifo, accepted, delivered>>

Interrupt ==
  /\ Raised < MaxExceptions
  /\ \/ \E s \in Side, e \in Exc : Accept(s, e)
     \/ Refuse
  /\ UNCHANGED locals
-----------------------------------------------------------------------------
(* run's call of concurrent_fifo_pop, between two instructions.            *)

BeginPop ==
  /\ pc = "run"
  /\ pc' = "test"
  /\ side' = "A"
  /\ c_tag' = curr_tag
  /\ UNCHANGED <<fifo, tagged_item, history>>

HasNext(rb) == ~ring_buf_isempty(rb) /\ c_tag = Oldest(rb).tag

Found ==
  /\ pc = "test"
  /\ HasNext(ring[side])
  /\ pc' = "lock"
  /\ UNCHANGED <<fifo, side, c_tag, tagged_item, history>>

TrySecondary ==
  /\ pc = "test"
  /\ side = "A"
  /\ ~HasNext(ring["A"])
  /\ side' = "B"
  /\ UNCHANGED <<fifo, pc, c_tag, tagged_item, history>>

NothingFound ==
  /\ pc = "test"
  /\ side = "B"
  /\ ~HasNext(ring["B"])
  /\ pc' = "run"
  /\ UNCHANGED <<fifo, side, c_tag, tagged_item, history>>

Lock ==
  /\ pc = "lock"
  /\ lck' = [lck EXCEPT ![side] = TRUE]
  /\ pc' = "copy"
  /\ UNCHANGED <<ring, tag, curr_tag, side, c_tag, tagged_item, history>>

Copy ==
  /\ pc = "copy"
  /\ tagged_item' = Oldest(ring[side])
  /\ pc' = "advance"
  /\ UNCHANGED <<fifo, side, c_tag, history>>

Advance ==
  /\ pc = "advance"
  /\ ring' = [ring EXCEPT ![side] = TailAdvanced(@)]
  /\ pc' = "wrap"
  /\ UNCHANGED <<lck, tag, curr_tag, side, c_tag, tagged_item, history>>

Wrap ==
  /\ pc = "wrap"
  /\ ring' = [ring EXCEPT ![side] = TailWrapped(@)]
  /\ pc' = "unlock"
  /\ UNCHANGED <<lck, tag, curr_tag, side, c_tag, tagged_item, history>>

Unlock ==
  /\ pc = "unlock"
  /\ lck' = [lck EXCEPT ![side] = FALSE]
  /\ pc' = "deliver"
  /\ UNCHANGED <<ring, tag, curr_tag, side, c_tag, tagged_item, history>>

(* The item is copied to the caller and curr_tag moves on; run then enters *)
(* the program's exception routine.                                        *)
Deliver ==
  /\ pc = "deliver"
  /\ delivered' = Append(delivered, tagged_item.exc)
  /\ curr_tag' = curr_tag + 1
  /\ pc' = "run"
  /\ UNCHANGED <<ring, lck, tag, side, c_tag, tagged_item, accepted, dropped>>

Interpreter ==
  \/ BeginPop \/ Found \/ TrySecondary \/ NothingFound
  \/ Lock \/ Copy \/ Advance \/ Wrap \/ Unlock \/ Deliver
-----------------------------------------------------------------------------
Next == Interrupt \/ Interpreter

Safety == Init /\ [][Next]_vars

(* The handler returns, so the interpreter keeps running, and it asks for  *)
(* the next exception before every instruction.                            *)
Spec == Safety /\ WF_vars(Interpreter)
-----------------------------------------------------------------------------
(* Types.                                                                  *)

RingType(s) == [sz : {Size(s)},
                buf : [0..(Size(s) - 1) -> Item],
                head : 0..(Size(s) - 1),
                tail : 0..Size(s)]

(* Every field of the queue and every local of pop stays in its range; the *)
(* tail of a ring may equal its capacity, between its increment and its    *)
(* wrap in ring_buf_pop.                                                   *)
TypeOK ==
  /\ DOMAIN ring = Side
  /\ \A s \in Side : ring[s] \in RingType(s)
  /\ lck \in [Side -> BOOLEAN]
  /\ tag \in Nat
  /\ curr_tag \in Nat
  /\ pc \in {"run", "test", "lock", "copy", "advance", "wrap", "unlock",
             "deliver"}
  /\ side \in Side
  /\ c_tag \in Nat
  /\ tagged_item \in Item
  /\ accepted \in Seq(Exc)
  /\ delivered \in Seq(Exc)
  /\ dropped \in Nat
-----------------------------------------------------------------------------
(* The content of a ring, counted from its tail.                           *)

Start(rb) == IF rb.tail = rb.sz THEN 0 ELSE rb.tail

Pos(rb, i) == IF i >= Start(rb) THEN i - Start(rb) ELSE i + rb.sz - Start(rb)

Filled(rb) == {i \in 0..(rb.sz - 1) : Pos(rb, i) < Pos(rb, rb.head)}

(* The popped item has left its ring but is not handed over yet. *)
InFlight == pc \in {"wrap", "unlock", "deliver"}

(* The smallest tag a ring may still hold. *)
First == IF InFlight THEN curr_tag + 1 ELSE curr_tag

Stamped(t) == [tag |-> t, exc |-> accepted[t + 1]]

(* What pop knows at each of its steps, and what its lock says about it.   *)
PopInv ==
  /\ pc # "run" => c_tag = curr_tag
  /\ pc \in {"lock", "copy", "advance"} => HasNext(ring[side])
  /\ pc = "advance" => tagged_item = Oldest(ring[side])
  /\ InFlight => curr_tag < tag /\ tagged_item = Stamped(curr_tag)
  /\ \A s \in Side :
       /\ lck[s] <=> side = s /\ pc \in {"copy", "advance", "wrap", "unlock"}
       /\ ring[s].tail = Size(s) => side = s /\ pc = "wrap"

(* The history agrees with the counters, and what was delivered is what    *)
(* was accepted, in the same order.                                        *)
CountInv ==
  /\ tag = Len(accepted)
  /\ curr_tag = Len(delivered)
  /\ curr_tag <= tag
  /\ \A n \in 1..Len(delivered) : delivered[n] = accepted[n]

(* Every filled slot holds an exception accepted and not delivered.        *)
TagsSound ==
  \A s \in Side : \A i \in Filled(ring[s]) :
    /\ ring[s].buf[i].tag \in First..(tag - 1)
    /\ ring[s].buf[i] = Stamped(ring[s].buf[i].tag)

(* In a ring, tags grow from the tail to the head at least as fast as      *)
(* positions.                                                              *)
TagsSpread ==
  \A s \in Side : \A i, j \in Filled(ring[s]) :
    Pos(ring[s], i) < Pos(ring[s], j) =>
      ring[s].buf[j].tag - ring[s].buf[i].tag
        >= Pos(ring[s], j) - Pos(ring[s], i)

(* No tag is in both rings. *)
TagsDistinct ==
  \A i \in Filled(ring["A"]), j \in Filled(ring["B"]) :
    ring["A"].buf[i].tag # ring["B"].buf[j].tag

(* Every accepted and undelivered exception is in a ring. *)
TagsComplete ==
  \A t \in First..(tag - 1) : \E s \in Side : \E i \in Filled(ring[s]) :
    ring[s].buf[i].tag = t

(* The two rings together hold exactly the accepted and undelivered        *)
(* exceptions, each once, oldest first in each ring: concurrent_fifo_add   *)
(* may interrupt concurrent_fifo_pop at any point without either losing,   *)
(* duplicating or misordering an entry.  This is the inductive invariant   *)
(* the proofs use.                                                         *)
IInv == /\ TypeOK /\ PopInv /\ CountInv
        /\ TagsSound /\ TagsSpread /\ TagsDistinct /\ TagsComplete
-----------------------------------------------------------------------------
(* Properties.                                                             *)

(* What the interpreter has received is a prefix of what the handler       *)
(* accepted: nothing is lost, repeated or overtaken between the two rings. *)
DeliveredInOrder ==
  /\ Len(delivered) <= Len(accepted)
  /\ \A n \in 1..Len(delivered) : delivered[n] = accepted[n]

(* From the moment pop finds its item until it has copied it, the handler  *)
(* never overwrites the slot, although it may run at each step in between  *)
(* and pop sets its lock only after its test.                              *)
FoundItemStays ==
  [][(pc \in {"lock", "copy"}) => Oldest(ring'[side]) = Oldest(ring[side])]_vars

(* The queue implements the abstract one: in particular an exception is    *)
(* refused only while the smaller ring's worth of exceptions is waiting,   *)
(* which is what "only fail if all the buffers are full/inaccessible at    *)
(* the same time" (concurrent_fifo_add) amounts to for the interpreter.    *)
Threshold == (IF SizeA <= SizeB THEN SizeA ELSE SizeB) - 1

Queue == INSTANCE ExceptionQueue

QueueSafety == Queue!Safety

(* Every accepted exception reaches the interpreter: no state of the tags  *)
(* makes pop search forever for one that is in neither ring.               *)
AcceptedIsDelivered ==
  \A n \in 1..MaxExceptions : Len(accepted) >= n ~> Len(delivered) >= n
=============================================================================
