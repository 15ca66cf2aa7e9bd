------------------------ MODULE ConcurrentFIFO_proofs ------------------------
(* Proofs about ConcurrentFIFO, for rings of any capacity, any exceptions  *)
(* and any number of them: IInv is inductive, and with it every safety     *)
(* property of the module, and the refinement of ExceptionQueue.           *)
EXTENDS ConcurrentFIFO, TLAPS

(* Both rings have at least two slots, as ring_buf requires. *)
LEMMA SizeType == \A s \in Side : Size(s) \in Nat /\ Size(s) >= 2
BY SizesAssumption DEF Side, Size

(* The modular sum of ring_buf_isfull is the slot just before the tail. *)
LEMMA SlotBeforeTail ==
  ASSUME NEW sz \in Nat, sz >= 2, NEW t \in 0..(sz - 1)
  PROVE  (t + (sz - 1)) % sz = IF t = 0 THEN sz - 1 ELSE t - 1
<1>1. CASE t = 0
  BY <1>1
<1>2. CASE t # 0
  BY <1>2
<1> QED BY <1>1, <1>2

(* Positions number the slots from the tail, each slot once. *)
LEMMA Positions ==
  ASSUME NEW s \in Side, NEW rb \in RingType(s)
  PROVE  /\ \A i \in 0..(Size(s) - 1) : Pos(rb, i) \in 0..(Size(s) - 1)
         /\ \A i, j \in 0..(Size(s) - 1) : Pos(rb, i) = Pos(rb, j) => i = j
         /\ \A i \in 0..(Size(s) - 1) : Pos(rb, i) > 0 =>
              \E k \in 0..(Size(s) - 1) : Pos(rb, k) = Pos(rb, i) - 1
<1> DEFINE n == Size(s)
           st == Start(rb)
<1>1. n \in Nat /\ n >= 2 /\ rb.sz = n /\ st \in 0..(n - 1)
  BY SizeType DEF RingType, Start
<1>2. \A i : Pos(rb, i) = IF i >= st THEN i - st ELSE i + n - st
  BY <1>1 DEF Pos
<1> HIDE DEF n, st
<1>3. \A i \in 0..(n - 1) : Pos(rb, i) \in 0..(n - 1)
  BY <1>1, <1>2
<1>4. \A i, j \in 0..(n - 1) : Pos(rb, i) = Pos(rb, j) => i = j
  BY <1>1, <1>2
<1>5. ASSUME NEW i \in 0..(n - 1), Pos(rb, i) > 0
      PROVE  \E k \in 0..(n - 1) : Pos(rb, k) = Pos(rb, i) - 1
  <2>1. CASE i = 0
    <3>1. n - 1 \in 0..(n - 1) /\ Pos(rb, n - 1) = Pos(rb, i) - 1
      BY <1>1, <1>2, <1>5, <2>1
    <3> QED BY <3>1
  <2>2. CASE i # 0
    <3>1. i - 1 \in 0..(n - 1) /\ Pos(rb, i - 1) = Pos(rb, i) - 1
      BY <1>1, <1>2, <1>5, <2>2
    <3> QED BY <3>1
  <2> QED BY <2>1, <2>2
<1> QED BY <1>3, <1>4, <1>5 DEF n

(* ring_buf_isfull holds when the head is as far from the tail as it can be. *)
LEMMA FullRing ==
  ASSUME NEW s \in Side, NEW rb \in RingType(s), rb.tail # Size(s)
  PROVE  ring_buf_isfull(rb) <=> Pos(rb, rb.head) = Size(s) - 1
<1>1. rb.sz = Size(s) /\ rb.head \in 0..(Size(s) - 1) /\ rb.tail \in 0..(Size(s) - 1)
  BY SizeType DEF RingType
<1>2. (rb.tail + (rb.sz - 1)) % rb.sz = IF rb.tail = 0 THEN rb.sz - 1 ELSE rb.tail - 1
  BY <1>1, SizeType, SlotBeforeTail
<1> QED
  BY <1>1, <1>2, SizeType DEF ring_buf_isfull, Pos, Start

(* ring_buf_add on a ring that is not full fills one empty slot, at the
   head, and moves no other position. *)
LEMMA AddToRing ==
  ASSUME NEW s \in Side, NEW rb \in RingType(s), rb.tail # Size(s),
         ~ring_buf_isfull(rb), NEW item \in Item
  PROVE  LET new == ring_buf_add(rb, item)
         IN  /\ new \in RingType(s)
             /\ new.tail = rb.tail
             /\ new.buf[rb.head] = item
             /\ rb.head \notin Filled(rb)
             /\ Filled(new) = Filled(rb) \cup {rb.head}
             /\ \A i \in 0..(Size(s) - 1) : Pos(new, i) = Pos(rb, i)
             /\ \A i \in Filled(rb) : /\ new.buf[i] = rb.buf[i]
                                      /\ Pos(rb, i) < Pos(rb, rb.head)
<1> DEFINE new == ring_buf_add(rb, item)
<1>0. Size(s) \in Nat /\ Size(s) >= 2
  BY SizeType
<1>1. rb.sz = Size(s) /\ rb.head \in 0..(Size(s) - 1) /\ rb.tail \in 0..(Size(s) - 1)
      /\ rb.buf \in [0..(Size(s) - 1) -> Item]
  BY <1>0 DEF RingType
<1>2. Pos(rb, rb.head) < Size(s) - 1
  BY <1>0, <1>1, FullRing DEF Pos, Start
<1>3. /\ new.sz = rb.sz /\ new.tail = rb.tail
      /\ new.buf = [rb.buf EXCEPT ![rb.head] = item]
      /\ new.head = IF rb.head + 1 >= rb.sz THEN 0 ELSE rb.head + 1
  BY DEF ring_buf_add, RingType
<1>4. new \in RingType(s)
  <2>1. [rb.buf EXCEPT ![rb.head] = item] \in [0..(Size(s) - 1) -> Item]
    BY <1>1
  <2>2. (IF rb.head + 1 >= rb.sz THEN 0 ELSE rb.head + 1) \in 0..(Size(s) - 1)
    BY <1>0, <1>1
  <2>3. [rb EXCEPT !.buf = [rb.buf EXCEPT ![rb.head] = item]] \in RingType(s)
    BY <1>1, <2>1 DEF RingType
  <2> QED BY <2>2, <2>3 DEF ring_buf_add, RingType
<1>5. \A i \in 0..(Size(s) - 1) : Pos(new, i) = Pos(rb, i)
  BY <1>0, <1>1, <1>3 DEF Pos, Start
<1>6. Pos(new, new.head) = Pos(rb, rb.head) + 1
  BY <1>0, <1>1, <1>2, <1>3 DEF Pos, Start
<1>7. \A i \in 0..(Size(s) - 1) : Pos(rb, i) = Pos(rb, rb.head) => i = rb.head
  BY <1>0, <1>1 DEF Pos, Start
<1>8. \A i \in 0..(Size(s) - 1) : Pos(rb, i) \in Int
  BY <1>0, <1>1 DEF Pos, Start
<1>9. Filled(new) = Filled(rb) \cup {rb.head}
  BY <1>0, <1>1, <1>3, <1>5, <1>6, <1>7, <1>8 DEF Filled
<1>10. rb.head \notin Filled(rb)
  BY <1>1, <1>8 DEF Filled
<1>11. new.buf[rb.head] = item
  BY <1>1, <1>3
<1>12. \A i \in Filled(rb) : new.buf[i] = rb.buf[i] /\ Pos(rb, i) < Pos(rb, rb.head)
  BY <1>1, <1>3, <1>10 DEF Filled
<1> HIDE DEF new
<1>13. new.tail = rb.tail
  BY <1>3
<1> QED
  BY <1>4, <1>13, <1>11, <1>10, <1>9, <1>5, <1>12 DEF new

(* Advancing the tail of a ring that is not empty empties the slot at the
   tail and lowers every other position by one. *)
LEMMA TailOfRing ==
  ASSUME NEW s \in Side, NEW rb \in RingType(s), rb.tail # Size(s),
         ~ring_buf_isempty(rb)
  PROVE  LET new == TailAdvanced(rb)
         IN  /\ new \in RingType(s)
             /\ new.buf = rb.buf
             /\ rb.tail \in Filled(rb)
             /\ Pos(rb, rb.tail) = 0
             /\ Filled(new) = Filled(rb) \ {rb.tail}
             /\ \A i \in Filled(new) : /\ Pos(new, i) = Pos(rb, i) - 1
                                       /\ Pos(rb, i) > 0
<1> DEFINE new == TailAdvanced(rb)
<1>0. Size(s) \in Nat /\ Size(s) >= 2
  BY SizeType
<1>1. rb.sz = Size(s) /\ rb.head \in 0..(Size(s) - 1) /\ rb.tail \in 0..(Size(s) - 1)
      /\ rb.buf \in [0..(Size(s) - 1) -> Item]
  BY <1>0 DEF RingType
<1>2. rb.head # rb.tail
  BY DEF ring_buf_isempty
<1>3. new \in RingType(s)
  BY <1>0, <1>1 DEF TailAdvanced, RingType
<1>4. new.sz = rb.sz /\ new.head = rb.head /\ new.buf = rb.buf /\ new.tail = rb.tail + 1
  BY DEF TailAdvanced, RingType
<1>5. rb.tail \in Filled(rb) /\ Pos(rb, rb.tail) = 0
  BY <1>0, <1>1, <1>2 DEF Filled, Pos, Start
<1>6. \A i \in 0..(Size(s) - 1) : i # rb.tail => Pos(new, i) = Pos(rb, i) - 1 /\ Pos(rb, i) \in Int /\ Pos(rb, i) > 0
  <2> HIDE DEF new
  <2>1. CASE rb.tail + 1 = rb.sz
    <3>1. Start(new) = 0 /\ Start(rb) = rb.tail
      BY <1>0, <1>1, <1>4, <2>1 DEF Start
    <3>2. ASSUME NEW i \in 0..(Size(s) - 1), i # rb.tail
          PROVE  i < rb.tail
      BY <1>0, <1>1, <2>1, <3>2
    <3> QED BY <1>0, <1>1, <1>4, <2>1, <3>1, <3>2 DEF Pos
  <2>2. CASE rb.tail + 1 # rb.sz
    BY <1>0, <1>1, <1>4, <2>2 DEF Pos, Start
  <2> QED BY <2>1, <2>2
<1>7. Pos(new, rb.tail) = Size(s) - 1
  BY <1>0, <1>1, <1>4 DEF Pos, Start
<1>8. Pos(new, rb.head) < Size(s) /\ Pos(new, rb.head) \in Int
  BY <1>0, <1>1, <1>4 DEF Pos, Start
<1> HIDE DEF new
<1>9. rb.tail \notin Filled(new)
  BY <1>0, <1>1, <1>4, <1>7, <1>8 DEF Filled
<1>10. Filled(new) = Filled(rb) \ {rb.tail}
  BY <1>0, <1>1, <1>2, <1>4, <1>6, <1>9 DEF Filled
<1>11. \A i \in Filled(new) : Pos(new, i) = Pos(rb, i) - 1 /\ Pos(rb, i) > 0
  BY <1>1, <1>4, <1>6, <1>9 DEF Filled
<1> QED
  BY <1>3, <1>4, <1>5, <1>10, <1>11 DEF new

(* The wrap of the tail to 0 changes no position. *)
LEMMA WrapRing ==
  ASSUME NEW s \in Side, NEW rb \in RingType(s)
  PROVE  LET new == TailWrapped(rb)
         IN  /\ new \in RingType(s)
             /\ new.buf = rb.buf
             /\ new.tail # Size(s)
             /\ Filled(new) = Filled(rb)
             /\ \A i \in 0..(Size(s) - 1) : Pos(new, i) = Pos(rb, i)
<1> DEFINE new == TailWrapped(rb)
<1>0. Size(s) \in Nat /\ Size(s) >= 2
  BY SizeType
<1>1. rb.sz = Size(s) /\ rb.head \in 0..(Size(s) - 1) /\ rb.tail \in 0..Size(s)
      /\ rb.buf \in [0..(Size(s) - 1) -> Item]
  BY <1>0 DEF RingType
<1>2. new \in RingType(s)
  BY <1>0, <1>1 DEF TailWrapped, RingType
<1>3. new.sz = rb.sz /\ new.head = rb.head /\ new.buf = rb.buf
      /\ new.tail = IF rb.tail >= rb.sz THEN 0 ELSE rb.tail
  BY DEF TailWrapped, RingType
<1>4. Start(new) = Start(rb) /\ new.tail # Size(s)
  BY <1>0, <1>1, <1>3 DEF Start
<1>5. \A i \in 0..(Size(s) - 1) : Pos(new, i) = Pos(rb, i)
  BY <1>3, <1>4 DEF Pos
<1>6. Filled(new) = Filled(rb)
  BY <1>1, <1>3, <1>5 DEF Filled
<1> HIDE DEF new
<1> QED
  BY <1>2, <1>3, <1>4, <1>5, <1>6 DEF new
-----------------------------------------------------------------------------

(* concurrent_fifo returns empty rings and equal counters. *)
LEMMA Initially == Init => IInv
<1> SUFFICES ASSUME Init PROVE IInv
  OBVIOUS
<1> USE DEF Init
<1>1. \A s \in Side : /\ ring[s] = ring_buf(Size(s), Leftover)
                      /\ ring[s] \in RingType(s)
                      /\ ring[s].tail = 0
                      /\ Filled(ring[s]) = {}
  <2> SUFFICES ASSUME NEW s \in Side
               PROVE /\ ring[s] = ring_buf(Size(s), Leftover)
                     /\ ring[s] \in RingType(s)
                     /\ ring[s].tail = 0
                     /\ Filled(ring[s]) = {}
    OBVIOUS
  <2>1. ring[s] = ring_buf(Size(s), Leftover)
    OBVIOUS
  <2>2. ring[s] \in RingType(s)
    BY <2>1, SizeType DEF ring_buf, RingType, Leftover, Item
  <2>3. ring[s].tail = 0 /\ ring[s].head = 0 /\ ring[s].sz = Size(s)
    BY <2>1 DEF ring_buf
  <2>4. Filled(ring[s]) = {}
    BY <2>3, SizeType DEF Filled, Pos, Start
  <2> QED BY <2>1, <2>2, <2>3, <2>4
<1>2. TypeOK
  BY <1>1 DEF TypeOK, Side, Leftover, Item
<1>3. PopInv
  BY <1>1, SizeType DEF PopInv, InFlight
<1>4. CountInv
  BY DEF CountInv
<1>5. TagsSound /\ TagsSpread
  BY <1>1 DEF TagsSound, TagsSpread
<1>6. TagsDistinct
  BY <1>1 DEF TagsDistinct, Side
<1>7. TagsComplete
  BY DEF TagsComplete, First, InFlight
<1> QED BY <1>2, <1>3, <1>4, <1>5, <1>6, <1>7 DEF IInv

(* A step that moves neither the rings nor the counters' meaning. *)
LEMMA TagsUntouched ==
  ASSUME TagsSound, TagsSpread, TagsDistinct, TagsComplete,
         UNCHANGED <<ring, tag, accepted>>, First' = First
  PROVE  TagsSound' /\ TagsSpread' /\ TagsDistinct' /\ TagsComplete'
<1>1. TagsSound'
  BY DEF TagsSound, Stamped
<1>2. TagsSpread'
  BY DEF TagsSpread
<1>3. TagsDistinct'
  BY DEF TagsDistinct
<1>4. TagsComplete'
  BY DEF TagsComplete
<1> QED BY <1>1, <1>2, <1>3, <1>4

(* concurrent_fifo_add, wherever it interrupts pop. *)
LEMMA AcceptKeeps ==
  ASSUME IInv, NEW s \in Side, NEW e \in Exc, Accept(s, e), UNCHANGED locals
  PROVE  IInv'
<1> USE DEF IInv
<1> DEFINE item == [tag |-> tag, exc |-> e]
           rb == ring[s]
           new == ring_buf_add(rb, item)
<1>1. item \in Item /\ rb \in RingType(s) /\ rb.tail # Size(s)
  <2>1. ~lck[s]
    BY DEF Accept, Chosen, Available
  <2>2. rb.tail # Size(s)
    BY <2>1 DEF PopInv
  <2> QED BY <2>2 DEF TypeOK, Item
<1>2. ~ring_buf_isfull(rb)
  BY DEF Accept, Chosen, Available
<1>3. /\ new \in RingType(s)
      /\ new.tail = rb.tail
      /\ new.buf[rb.head] = item
      /\ rb.head \notin Filled(rb)
      /\ Filled(new) = Filled(rb) \cup {rb.head}
      /\ \A i \in 0..(Size(s) - 1) : Pos(new, i) = Pos(rb, i)
      /\ \A i \in Filled(rb) : /\ new.buf[i] = rb.buf[i]
                               /\ Pos(rb, i) < Pos(rb, rb.head)
  BY <1>1, <1>2, AddToRing
<1>4. /\ ring' = [ring EXCEPT ![s] = new]
      /\ tag' = tag + 1 /\ accepted' = Append(accepted, e)
      /\ UNCHANGED <<lck, curr_tag, delivered, dropped, pc, side, c_tag, tagged_item>>
  BY DEF Accept, locals
<1>5. ring'[s] = new /\ \A r \in Side : r # s => ring'[r] = ring[r]
  BY <1>4 DEF TypeOK
<1>6. /\ First' = First /\ InFlight' = InFlight
      /\ First \in Nat /\ tag \in Nat /\ First <= tag
  BY <1>4 DEF First, InFlight, TypeOK, CountInv, PopInv
<1>7. \A t \in 0..(tag - 1) : accepted'[t + 1] = accepted[t + 1]
  BY <1>4 DEF TypeOK, CountInv
<1>8. accepted'[tag + 1] = e
  BY <1>4 DEF TypeOK, CountInv
<1>9. \A r \in Side : ring[r].head \in 0..(Size(r) - 1) /\ ring[r].sz = Size(r)
  BY SizeType DEF TypeOK, RingType
<1> HIDE DEF new, item, rb
<1>10. TypeOK'
  BY <1>3, <1>4, <1>5 DEF TypeOK
<1>11. CountInv'
  BY <1>4 DEF CountInv, TypeOK
<1>12. PopInv'
  <2>1. pc \in {"lock", "copy", "advance"} =>
          HasNext(ring[side])' /\ Oldest(ring[side])' = Oldest(ring[side])
    <3> SUFFICES ASSUME pc \in {"lock", "copy", "advance"}
                 PROVE  HasNext(ring[side])' /\ Oldest(ring[side])' = Oldest(ring[side])
      OBVIOUS
    <3>1. HasNext(ring[side])
      BY DEF PopInv
    <3>2. CASE side # s
      BY <1>4, <1>5, <3>1, <3>2 DEF HasNext, Oldest, TypeOK
    <3>3. CASE side = s
      <4>1. ~ring_buf_isempty(rb)
        BY <3>1, <3>3 DEF HasNext, rb
      <4>2. rb.tail \in Filled(rb)
        BY <4>1, <1>1, TailOfRing
      <4>3. new.buf[rb.tail] = rb.buf[rb.tail] /\ rb.tail # rb.head
        BY <4>2, <1>3
      <4>4. ~ring_buf_isempty(new)
        <5>1. new.tail \in Filled(new)
          BY <1>3, <4>2
        <5>2. Pos(new, new.tail) < Pos(new, new.head)
          BY <5>1 DEF Filled
        <5>3. Pos(new, new.head) \in Int
          BY <1>3, SizeType DEF Pos, Start, RingType
        <5> QED BY <5>2, <5>3 DEF ring_buf_isempty
      <4> QED BY <1>3, <1>4, <1>5, <3>1, <3>3, <4>3, <4>4 DEF HasNext, Oldest, rb
    <3> QED BY <3>2, <3>3
  <2>2. InFlight => accepted'[curr_tag + 1] = accepted[curr_tag + 1]
    BY <1>7 DEF PopInv, TypeOK
  <2>3. \A r \in Side : ring'[r].tail = ring[r].tail
    BY <1>3, <1>5 DEF rb
  <2>4. (InFlight => curr_tag < tag /\ tagged_item = Stamped(curr_tag))'
    <3>1. InFlight => curr_tag < tag /\ tagged_item = Stamped(curr_tag)
      BY DEF PopInv
    <3>2. curr_tag \in Nat
      BY DEF TypeOK
    <3> HIDE DEF IInv
    <3>3. CASE InFlight
      <4>1. curr_tag' < tag'
        BY <1>4, <1>6, <3>1, <3>2, <3>3
      <4>2. tagged_item = [tag |-> curr_tag, exc |-> accepted[curr_tag + 1]]
        BY <3>1, <3>3 DEF Stamped
      <4>3. tagged_item' = Stamped(curr_tag)'
        BY <1>4, <2>2, <3>3, <4>2 DEF Stamped
      <4> QED BY <4>1, <4>3
    <3>4. CASE ~InFlight
      BY <1>4, <3>4 DEF InFlight
    <3> QED BY <3>3, <3>4
  <2>5. (/\ pc # "run" => c_tag = curr_tag
         /\ pc \in {"lock", "copy", "advance"} => HasNext(ring[side])
         /\ pc = "advance" => tagged_item = Oldest(ring[side]))'
    BY <1>4, <2>1 DEF PopInv
  <2>6. (\A r \in Side :
           /\ lck[r] <=> side = r /\ pc \in {"copy", "advance", "wrap", "unlock"}
           /\ ring[r].tail = Size(r) => side = r /\ pc = "wrap")'
    BY <1>4, <2>3 DEF PopInv
  <2> QED BY <2>4, <2>5, <2>6 DEF PopInv
<1>13. TagsSound'
  <2> SUFFICES ASSUME NEW r \in Side, NEW i \in Filled(ring'[r])
               PROVE  /\ ring'[r].buf[i].tag \in First..tag
                      /\ ring'[r].buf[i]
                           = [tag |-> ring'[r].buf[i].tag,
                              exc |-> accepted'[ring'[r].buf[i].tag + 1]]
    <3>1. tag' - 1 = tag
      BY <1>4, <1>6
    <3> QED BY <3>1, <1>6 DEF TagsSound, Stamped
  <2>1. CASE r = s /\ i = rb.head
    <3>1. ring'[r].buf[i] = item
      BY <2>1, <1>3, <1>5
    <3> QED BY <3>1, <1>6, <1>8 DEF item
  <2>2. CASE ~(r = s /\ i = rb.head)
    <3>1. i \in Filled(ring[r]) /\ ring'[r].buf[i] = ring[r].buf[i]
      BY <2>2, <1>3, <1>5 DEF rb
    <3>2. ring[r].buf[i].tag \in First..(tag - 1) /\ ring[r].buf[i] = Stamped(ring[r].buf[i].tag)
      BY <3>1 DEF TagsSound
    <3>3. accepted'[ring[r].buf[i].tag + 1] = accepted[ring[r].buf[i].tag + 1]
      BY <3>2, <1>6, <1>7
    <3> QED BY <3>1, <3>2, <3>3, <1>6 DEF Stamped
  <2> QED BY <2>1, <2>2
<1>14. TagsSpread'
  <2> SUFFICES ASSUME NEW r \in Side, NEW i \in Filled(ring'[r]), NEW j \in Filled(ring'[r]),
                      Pos(ring'[r], i) < Pos(ring'[r], j)
               PROVE  ring'[r].buf[j].tag - ring'[r].buf[i].tag
                        >= Pos(ring'[r], j) - Pos(ring'[r], i)
    BY DEF TagsSpread
  <2>1. CASE r # s
    BY <2>1, <1>5 DEF TagsSpread
  <2>2. CASE r = s
    <3>1. /\ \A k \in Filled(ring[s]) : k \in 0..(Size(s) - 1) /\ Pos(rb, k) \in Int
          /\ rb.head \in 0..(Size(s) - 1) /\ Pos(rb, rb.head) \in Int
      BY <1>9, <1>1, SizeType DEF Filled, Pos, Start, rb, RingType
    <3>2. CASE j # rb.head
      <4>1. j \in Filled(rb) /\ i # rb.head /\ i \in Filled(rb)
        BY <2>2, <3>1, <3>2, <1>3, <1>5 DEF rb
      <4> QED BY <4>1, <2>2, <3>1, <1>3, <1>5 DEF TagsSpread, rb
    <3>3. CASE j = rb.head
      <4>1. i \in Filled(rb) /\ ring'[s].buf[i] = rb.buf[i] /\ ring'[s].buf[j].tag = tag
        BY <2>2, <3>1, <3>3, <1>3, <1>5 DEF rb, item
      <4>2. PICK k \in 0..(Size(s) - 1) : Pos(rb, k) = Pos(rb, rb.head) - 1
        <5>1. Pos(rb, rb.head) > 0
          BY <4>1, <3>1, <1>1, <1>3, Positions DEF rb
        <5> QED BY <5>1, <3>1, <1>1, Positions
      <4>3. k \in Filled(rb)
        BY <4>2, <3>1, <1>9 DEF Filled, rb
      <4>4. rb.buf[k].tag \in First..(tag - 1) /\ rb.buf[i].tag \in First..(tag - 1)
        BY <4>1, <4>3 DEF TagsSound, rb
      <4>5. rb.buf[k].tag - rb.buf[i].tag >= Pos(rb, k) - Pos(rb, i)
        <5>1. CASE Pos(rb, i) < Pos(rb, k)
          BY <5>1, <4>1, <4>3 DEF TagsSpread, rb
        <5>2. CASE ~(Pos(rb, i) < Pos(rb, k))
          <6>1. Pos(rb, i) = Pos(rb, k)
            BY <5>2, <3>1, <4>1, <4>2, <1>3 DEF rb
          <6>2. i = k
            BY <6>1, <4>1, <3>1, <1>1, Positions DEF rb
          <6> QED BY <6>1, <6>2, <4>4, <3>1, <4>1, <1>6 DEF rb
        <5> QED BY <5>1, <5>2
      <4>6. Pos(ring'[s], j) = Pos(rb, rb.head) /\ Pos(ring'[s], i) = Pos(rb, i)
        BY <3>1, <3>3, <4>1, <1>3, <1>5 DEF rb
      <4>7. rb.buf[i].tag \in Int /\ rb.buf[k].tag \in Int /\ rb.buf[k].tag <= tag - 1
        BY <4>4, <1>6
      <4>8. Pos(rb, i) \in Int /\ Pos(rb, k) \in Int /\ Pos(rb, rb.head) \in Int
        BY <3>1, <4>1, <4>3 DEF rb
      <4>9. tag - rb.buf[i].tag >= Pos(rb, rb.head) - Pos(rb, i)
        BY <4>2, <4>5, <4>7, <4>8, <1>6
      <4> QED BY <2>2, <4>1, <4>6, <4>9
    <3> QED BY <3>2, <3>3
  <2> QED BY <2>1, <2>2
<1>15. TagsDistinct'
  <2> SUFFICES ASSUME NEW i \in Filled(ring'["A"]), NEW j \in Filled(ring'["B"])
               PROVE  ring'["A"].buf[i].tag # ring'["B"].buf[j].tag
    BY DEF TagsDistinct
  <2>1. ASSUME NEW r \in Side, NEW k \in Filled(ring'[r]), ~(r = s /\ k = rb.head)
        PROVE  /\ k \in Filled(ring[r]) /\ ring'[r].buf[k] = ring[r].buf[k]
               /\ ring[r].buf[k].tag \in First..(tag - 1)
    BY <2>1, <1>3, <1>5 DEF TagsSound, rb
  <2>2. s = "A" \/ s = "B"
    BY DEF Side
  <2>3. CASE s = "A" /\ i = rb.head
    <3>1. ring'["A"].buf[i].tag = tag
      BY <2>3, <1>3, <1>5 DEF item
    <3>2. ring'["B"].buf[j].tag \in First..(tag - 1)
      BY <2>1, <2>3 DEF Side
    <3> QED BY <3>1, <3>2, <1>6
  <2>4. CASE s = "B" /\ j = rb.head
    <3>1. ring'["B"].buf[j].tag = tag
      BY <2>4, <1>3, <1>5 DEF item
    <3>2. ring'["A"].buf[i].tag \in First..(tag - 1)
      BY <2>1, <2>4 DEF Side
    <3> QED BY <3>1, <3>2, <1>6
  <2>5. CASE ~(s = "A" /\ i = rb.head) /\ ~(s = "B" /\ j = rb.head)
    <3>1. i \in Filled(ring["A"]) /\ ring'["A"].buf[i] = ring["A"].buf[i]
      BY <2>1, <2>5 DEF Side
    <3>2. j \in Filled(ring["B"]) /\ ring'["B"].buf[j] = ring["B"].buf[j]
      BY <2>1, <2>5 DEF Side
    <3> QED BY <3>1, <3>2 DEF TagsDistinct
  <2> QED BY <2>2, <2>3, <2>4, <2>5
<1>16. TagsComplete'
  <2> SUFFICES ASSUME NEW t \in First..tag
               PROVE  \E r \in Side : \E i \in Filled(ring'[r]) : ring'[r].buf[i].tag = t
    BY <1>4, <1>6 DEF TagsComplete
  <2>1. CASE t = tag
    <3>1. rb.head \in Filled(ring'[s]) /\ ring'[s].buf[rb.head].tag = tag
      BY <1>3, <1>5 DEF item
    <3> QED BY <2>1, <3>1
  <2>2. CASE t # tag
    <3>1. t \in First..(tag - 1)
      BY <2>2, <1>6
    <3>2. PICK r \in Side : \E i \in Filled(ring[r]) : ring[r].buf[i].tag = t
      BY <3>1 DEF TagsComplete
    <3>3. PICK i \in Filled(ring[r]) : ring[r].buf[i].tag = t
      BY <3>2
    <3>4. i \in Filled(ring'[r]) /\ ring'[r].buf[i] = ring[r].buf[i]
      BY <1>3, <1>5 DEF rb
    <3> QED BY <3>3, <3>4
  <2> QED BY <2>1, <2>2
<1> QED BY <1>10, <1>11, <1>12, <1>13, <1>14, <1>15, <1>16

(* The interpreter's steps that leave the rings alone. *)
LEMMA QuietStepKeeps ==
  ASSUME IInv,
         \/ BeginPop \/ Found \/ TrySecondary \/ NothingFound
         \/ Lock \/ Copy \/ Unlock \/ Deliver
  PROVE  IInv'
<1> USE DEF IInv, fifo, history
<1>1. UNCHANGED <<ring, tag, accepted>> /\ First' = First
  BY DEF BeginPop, Found, TrySecondary, NothingFound, Lock, Copy, Unlock,
         Deliver, First, InFlight, TypeOK
<1>2. TagsSound' /\ TagsSpread' /\ TagsDistinct' /\ TagsComplete'
  BY <1>1, TagsUntouched
<1>3. TypeOK' /\ CountInv' /\ PopInv'
  <2>1. CASE BeginPop
    BY <2>1 DEF BeginPop, TypeOK, CountInv, PopInv, InFlight, Side
  <2>2. CASE Found
    BY <2>2 DEF Found, TypeOK, CountInv, PopInv, InFlight, HasNext
  <2>3. CASE TrySecondary
    BY <2>3 DEF TrySecondary, TypeOK, CountInv, PopInv, InFlight, Side
  <2>4. CASE NothingFound
    BY <2>4 DEF NothingFound, TypeOK, CountInv, PopInv, InFlight
  <2>5. CASE Lock
    BY <2>5 DEF Lock, TypeOK, CountInv, PopInv, InFlight, HasNext
  <2>6. CASE Copy
    <3>1. HasNext(ring[side]) /\ Oldest(ring[side]) \in Item
      <4>1. HasNext(ring[side]) /\ side \in Side
        BY <2>6 DEF Copy, PopInv, TypeOK
      <4>2. ring[side] \in RingType(side) /\ ring[side].tail # Size(side)
        BY <2>6, <4>1 DEF Copy, PopInv, TypeOK
      <4>3. ring[side].tail \in 0..(Size(side) - 1)
        BY <4>1, <4>2, SizeType DEF RingType
      <4> QED BY <4>1, <4>2, <4>3 DEF Oldest, RingType
    <3> QED BY <2>6, <3>1 DEF Copy, TypeOK, CountInv, PopInv, InFlight, HasNext
  <2>7. CASE Unlock
    <3>1. TypeOK' /\ CountInv'
      BY <2>7 DEF Unlock, TypeOK, CountInv
    <3>2. PopInv'
      BY <2>7 DEF Unlock, TypeOK, PopInv, InFlight, Stamped
    <3> QED BY <3>1, <3>2
  <2>8. CASE Deliver
    <3>1. curr_tag < tag /\ tagged_item = Stamped(curr_tag)
      BY <2>8 DEF Deliver, PopInv, InFlight
    <3>2. tagged_item.exc = accepted[Len(delivered) + 1]
          /\ Len(delivered) < Len(accepted)
      BY <3>1 DEF Stamped, CountInv
    <3>3. tagged_item.exc \in Exc
      BY <3>2 DEF TypeOK
    <3>4. TypeOK'
      BY <2>8, <3>3 DEF Deliver, TypeOK
    <3>5. CountInv'
      BY <2>8, <3>2, <3>3 DEF Deliver, TypeOK, CountInv
    <3>6. PopInv'
      BY <2>8 DEF Deliver, PopInv, InFlight
    <3> QED BY <3>4, <3>5, <3>6
  <2> QED BY <2>1, <2>2, <2>3, <2>4, <2>5, <2>6, <2>7, <2>8
<1> QED BY <1>2, <1>3

(* The second store ring_buf_pop makes to the tail. *)
LEMMA WrapKeeps == ASSUME IInv, Wrap PROVE IInv'
<1> USE DEF IInv
<1> DEFINE new == TailWrapped(ring[side])
<1>1. side \in Side /\ ring[side] \in RingType(side)
  BY DEF TypeOK
<1>2. /\ new \in RingType(side)
      /\ new.buf = ring[side].buf
      /\ new.tail # Size(side)
      /\ Filled(new) = Filled(ring[side])
      /\ \A i \in 0..(Size(side) - 1) : Pos(new, i) = Pos(ring[side], i)
  BY <1>1, WrapRing
<1>3. /\ pc = "wrap" /\ ring' = [ring EXCEPT ![side] = new] /\ pc' = "unlock"
      /\ UNCHANGED <<lck, tag, curr_tag, side, c_tag, tagged_item,
                     accepted, delivered, dropped>>
  BY DEF Wrap, history
<1>4. \A r \in Side : /\ ring'[r] \in RingType(r)
                      /\ ring'[r].buf = ring[r].buf
                      /\ ring'[r].tail # Size(r)
                      /\ Filled(ring'[r]) = Filled(ring[r])
                      /\ \A i \in Filled(ring[r]) : Pos(ring'[r], i) = Pos(ring[r], i)
  <2> SUFFICES ASSUME NEW r \in Side
               PROVE  /\ ring'[r] \in RingType(r)
                      /\ ring'[r].buf = ring[r].buf
                      /\ ring'[r].tail # Size(r)
                      /\ Filled(ring'[r]) = Filled(ring[r])
                      /\ \A i \in Filled(ring[r]) : Pos(ring'[r], i) = Pos(ring[r], i)
    OBVIOUS
  <2> HIDE DEF new
  <2>1. CASE r = side
    <3>1. ring'[r] = new
      BY <2>1, <1>3 DEF TypeOK
    <3>2. \A i \in Filled(ring[r]) : i \in 0..(Size(r) - 1)
      BY DEF Filled, TypeOK, RingType
    <3> QED BY <2>1, <3>1, <3>2, <1>2
  <2>2. CASE r # side
    <3>1. ring'[r] = ring[r]
      BY <2>2, <1>3 DEF TypeOK
    <3> QED BY <2>2, <3>1, <1>3 DEF TypeOK, PopInv
  <2> QED BY <2>1, <2>2
<1> HIDE DEF new
<1>5. First' = First
  BY <1>3 DEF First, InFlight
<1>6. TypeOK' /\ CountInv'
  BY <1>3, <1>4 DEF TypeOK, CountInv
<1>7. PopInv'
  BY <1>3, <1>4 DEF PopInv, InFlight, Stamped
<1>8. TagsSound'
  BY <1>3, <1>4, <1>5 DEF TagsSound, Stamped
<1>9. TagsSpread'
  BY <1>4 DEF TagsSpread
<1>10. TagsDistinct'
  BY <1>4 DEF TagsDistinct, Side
<1>11. TagsComplete'
  BY <1>3, <1>4, <1>5 DEF TagsComplete
<1> QED BY <1>6, <1>7, <1>8, <1>9, <1>10, <1>11

(* The first store ring_buf_pop makes to the tail: the item with tag
   curr_tag leaves its ring. *)
LEMMA AdvanceKeeps == ASSUME IInv, Advance PROVE IInv'
<1> USE DEF IInv
<1> DEFINE rb == ring[side]
           new == TailAdvanced(rb)
<1>1. side \in Side /\ rb \in RingType(side) /\ rb.tail # Size(side)
      /\ ~ring_buf_isempty(rb) /\ Oldest(rb).tag = curr_tag
      /\ tagged_item = Oldest(rb)
  BY DEF TypeOK, PopInv, Advance, HasNext
<1>2. /\ new \in RingType(side)
      /\ new.buf = rb.buf
      /\ rb.tail \in Filled(rb)
      /\ Pos(rb, rb.tail) = 0
      /\ Filled(new) = Filled(rb) \ {rb.tail}
      /\ \A i \in Filled(new) : /\ Pos(new, i) = Pos(rb, i) - 1
                                /\ Pos(rb, i) > 0
  BY <1>1, TailOfRing
<1>3. /\ pc = "advance" /\ ring' = [ring EXCEPT ![side] = new] /\ pc' = "wrap"
      /\ UNCHANGED <<lck, tag, curr_tag, side, c_tag, tagged_item,
                     accepted, delivered, dropped>>
  BY DEF Advance, history
<1>4. ring'[side] = new /\ \A r \in Side : r # side => ring'[r] = ring[r]
  BY <1>3 DEF TypeOK
<1>5. First = curr_tag /\ First' = curr_tag + 1 /\ tag \in Nat /\ curr_tag \in Nat
      /\ tag' = tag /\ accepted' = accepted
  BY <1>3 DEF First, InFlight, TypeOK
<1>6. \A r \in Side : \A i \in Filled(ring[r]) : Pos(ring[r], i) \in Int
  BY SizeType DEF TypeOK, RingType, Filled, Pos, Start
<1> HIDE DEF new, rb
(* What is left in the rings, and that curr_tag is not there any more. *)
<1>7. \A r \in Side : \A i \in Filled(ring'[r]) :
        /\ i \in Filled(ring[r])
        /\ ring'[r].buf[i] = ring[r].buf[i]
        /\ ring[r].buf[i].tag # curr_tag
  <2> SUFFICES ASSUME NEW r \in Side, NEW i \in Filled(ring'[r])
               PROVE  /\ i \in Filled(ring[r])
                      /\ ring'[r].buf[i] = ring[r].buf[i]
                      /\ ring[r].buf[i].tag # curr_tag
    OBVIOUS
  <2>1. CASE r = side
    <3>1. i \in Filled(rb) /\ rb.buf[i] = new.buf[i] /\ Pos(rb, i) > Pos(rb, rb.tail)
      BY <2>1, <1>2, <1>4
    <3>2. rb.buf[i].tag - rb.buf[rb.tail].tag >= Pos(rb, i) - Pos(rb, rb.tail)
      BY <3>1, <1>1, <1>2, <1>6 DEF TagsSpread, rb
    <3>3. rb.buf[rb.tail].tag = curr_tag
      BY <1>1 DEF Oldest
    <3>4. rb.buf[i].tag \in Int /\ Pos(rb, i) \in Int
      BY <3>1, <1>1, <1>5, <1>6 DEF TagsSound, rb
    <3>5. rb.buf[i].tag # curr_tag
      BY <3>1, <3>2, <3>3, <3>4, <1>2, <1>5
    <3> QED BY <2>1, <3>1, <3>5, <1>4 DEF rb
  <2>2. CASE r # side
    <3>1. ring'[r] = ring[r]
      BY <2>2, <1>4
    <3>2. rb.buf[rb.tail].tag = curr_tag /\ rb.tail \in Filled(rb)
      BY <1>1, <1>2 DEF Oldest
    <3>3. ring[r].buf[i].tag # curr_tag
      <4>1. CASE r = "A"
        <5>1. side = "B"
          BY <4>1, <2>2, <1>1 DEF Side
        <5> QED BY <4>1, <5>1, <3>1, <3>2 DEF TagsDistinct, rb
      <4>2. CASE r = "B"
        <5>1. side = "A"
          BY <4>2, <2>2, <1>1 DEF Side
        <5> QED BY <4>2, <5>1, <3>1, <3>2 DEF TagsDistinct, rb
      <4> QED BY <4>1, <4>2 DEF Side
    <3> QED BY <3>1, <3>3
  <2> QED BY <2>1, <2>2
<1>8. TypeOK' /\ CountInv'
  BY <1>2, <1>3, <1>4 DEF TypeOK, CountInv
<1>9. PopInv'
  <2>1. tagged_item = Stamped(curr_tag) /\ curr_tag < tag
    <3>1. rb.buf[rb.tail].tag \in First..(tag - 1)
          /\ rb.buf[rb.tail] = Stamped(rb.buf[rb.tail].tag)
      BY <1>1, <1>2 DEF TagsSound, rb
    <3> QED BY <3>1, <1>1, <1>5 DEF Oldest
  <2>2. tagged_item' = Stamped(curr_tag)' /\ (curr_tag < tag)'
    BY <2>1, <1>3 DEF Stamped
  <2>3. \A r \in Side : r # side => ring'[r].tail = ring[r].tail
    BY <1>4
  <2> QED BY <1>3, <2>2, <2>3 DEF PopInv, InFlight
<1>10. TagsSound'
  <2> SUFFICES ASSUME NEW r \in Side, NEW i \in Filled(ring'[r])
               PROVE  /\ ring[r].buf[i].tag \in (curr_tag + 1)..(tag - 1)
                      /\ ring[r].buf[i] = Stamped(ring[r].buf[i].tag)
    BY <1>5, <1>7 DEF TagsSound, Stamped
  <2>1. i \in Filled(ring[r]) /\ ring[r].buf[i].tag # curr_tag
    BY <1>7
  <2> QED BY <2>1, <1>5 DEF TagsSound
<1>11. TagsSpread'
  <2> SUFFICES ASSUME NEW r \in Side, NEW i \in Filled(ring'[r]), NEW j \in Filled(ring'[r]),
                      Pos(ring'[r], i) < Pos(ring'[r], j)
               PROVE  ring[r].buf[j].tag - ring[r].buf[i].tag
                        >= Pos(ring'[r], j) - Pos(ring'[r], i)
    BY <1>7 DEF TagsSpread
  <2>1. i \in Filled(ring[r]) /\ j \in Filled(ring[r])
    BY <1>7
  <2>2. CASE r # side
    BY <2>1, <2>2, <1>4 DEF TagsSpread
  <2>3. CASE r = side
    <3>1. Pos(ring'[r], i) = Pos(ring[r], i) - 1 /\ Pos(ring'[r], j) = Pos(ring[r], j) - 1
      BY <2>3, <1>2, <1>4 DEF rb
    <3>2. Pos(ring[r], i) \in Int /\ Pos(ring[r], j) \in Int
      BY <2>1, <1>6
    <3>3. Pos(ring[r], i) < Pos(ring[r], j)
      BY <3>1, <3>2
    <3>4. ring[r].buf[j].tag - ring[r].buf[i].tag >= Pos(ring[r], j) - Pos(ring[r], i)
      BY <2>1, <3>3 DEF TagsSpread
    <3>5. Pos(ring'[r], j) - Pos(ring'[r], i) = Pos(ring[r], j) - Pos(ring[r], i)
      BY <3>1, <3>2
    <3> QED BY <3>4, <3>5
  <2> QED BY <2>2, <2>3
<1>12. TagsDistinct'
  BY <1>7 DEF TagsDistinct, Side
<1>13. TagsComplete'
  <2> SUFFICES ASSUME NEW t \in (curr_tag + 1)..(tag - 1)
               PROVE  \E r \in Side : \E i \in Filled(ring'[r]) : ring'[r].buf[i].tag = t
    BY <1>5 DEF TagsComplete
  <2>1. t \in First..(tag - 1) /\ t # curr_tag
    BY <1>5
  <2>2. PICK r \in Side : \E i \in Filled(ring[r]) : ring[r].buf[i].tag = t
    BY <2>1 DEF TagsComplete
  <2>3. PICK i \in Filled(ring[r]) : ring[r].buf[i].tag = t
    BY <2>2
  <2>4. i \in Filled(ring'[r]) /\ ring'[r].buf[i].tag = t
    <3>1. CASE r # side
      BY <3>1, <2>3, <1>4
    <3>2. CASE r = side
      <4>1. i # rb.tail
        BY <3>2, <2>1, <2>3, <1>1 DEF Oldest, rb
      <4> QED BY <3>2, <4>1, <2>3, <1>2, <1>4 DEF rb
    <3> QED BY <3>1, <3>2
  <2> QED BY <2>4
<1> QED BY <1>8, <1>9, <1>10, <1>11, <1>12, <1>13
-----------------------------------------------------------------------------

(* The inductive step: one case per action of the handler and of pop. *)
LEMMA Inductive == IInv /\ [Next]_vars => IInv'
<1> SUFFICES ASSUME IInv, [Next]_vars PROVE IInv'
  OBVIOUS
<1>1. ASSUME NEW s \in Side, NEW e \in Exc, Accept(s, e), UNCHANGED locals
      PROVE  IInv'
  BY <1>1, AcceptKeeps
<1>2. CASE UNCHANGED <<fifo, locals, accepted, delivered>> /\ dropped' \in Nat
  <2>1. TypeOK' /\ CountInv'
    BY <1>2 DEF IInv, TypeOK, CountInv, fifo, locals
  <2>2. PopInv'
    BY <1>2 DEF IInv, PopInv, fifo, locals, HasNext, InFlight, Stamped
  <2>3. First' = First
    BY <1>2 DEF First, InFlight, fifo, locals
  <2> QED BY <1>2, <2>1, <2>2, <2>3, TagsUntouched DEF IInv, fifo
<1>3. CASE Interrupt
  BY <1>1, <1>2, <1>3 DEF Interrupt, Refuse, IInv, TypeOK
<1>4. CASE Interpreter
  BY <1>4, QuietStepKeeps, WrapKeeps, AdvanceKeeps DEF Interpreter
<1>5. CASE UNCHANGED vars
  BY <1>2, <1>5 DEF vars, history, IInv, TypeOK
<1> QED BY <1>3, <1>4, <1>5 DEF Next

(* concurrent_fifo_add may interrupt concurrent_fifo_pop between any two   *)
(* of its memory accesses, for rings of any two capacities: the rings hold *)
(* exactly the accepted and undelivered exceptions, each once, oldest      *)
(* first.                                                                  *)
THEOREM InvariantHolds == Safety => []IInv
<1> QED BY Initially, Inductive, PTL DEF Safety

(* Types, whatever the capacities: in particular no index of ring_buf_add  *)
(* or ring_buf_pop leaves its buffer.                                      *)
THEOREM TypesHold == Safety => []TypeOK
<1>1. IInv => TypeOK
  BY DEF IInv
<1> QED BY <1>1, InvariantHolds, PTL

(* Exceptions reach the interpreter in the order they were accepted, none  *)
(* lost and none twice.                                                    *)
THEOREM DeliveryInOrder == Safety => []DeliveredInOrder
<1>1. IInv => DeliveredInOrder
  BY DEF IInv, CountInv, DeliveredInOrder
<1> QED BY <1>1, InvariantHolds, PTL

(* The slot pop has found is not overwritten before pop has copied it.     *)
THEOREM SlotStays == Safety => FoundItemStays
<1>1. IInv /\ [Next]_vars =>
        [(pc \in {"lock", "copy"}) => Oldest(ring'[side]) = Oldest(ring[side])]_vars
  <2> SUFFICES ASSUME IInv, [Next]_vars, pc \in {"lock", "copy"}
               PROVE  Oldest(ring'[side]) = Oldest(ring[side])
    OBVIOUS
  <2>1. side \in Side /\ ring[side] \in RingType(side) /\ ring[side].tail # Size(side)
        /\ ~ring_buf_isempty(ring[side])
    BY DEF IInv, TypeOK, PopInv, HasNext
  <2>2. ring[side].tail \in Filled(ring[side])
    BY <2>1, TailOfRing
  <2>3. ASSUME NEW s \in Side, NEW e \in Exc, Accept(s, e)
        PROVE  Oldest(ring'[side]) = Oldest(ring[side])
    <3> DEFINE item == [tag |-> tag, exc |-> e]
               new == ring_buf_add(ring[s], item)
    <3>1. ring' = [ring EXCEPT ![s] = new]
      BY <2>3 DEF Accept
    <3>2. CASE s # side
      BY <2>1, <3>1, <3>2 DEF IInv, TypeOK
    <3>3. CASE s = side
      <4>1. item \in Item /\ ~ring_buf_isfull(ring[s])
        BY <2>3 DEF Accept, Chosen, Available, IInv, TypeOK, Item
      <4>2. /\ new.tail = ring[s].tail
            /\ \A i \in Filled(ring[s]) : new.buf[i] = ring[s].buf[i]
        BY <2>1, <3>3, <4>1, AddToRing
      <4> HIDE DEF new
      <4>3. ring'[side] = new
        BY <2>1, <3>1, <3>3 DEF IInv, TypeOK
      <4> QED BY <2>2, <3>3, <4>2, <4>3 DEF Oldest
    <3> QED BY <3>2, <3>3
  <2>4. CASE Interrupt
    BY <2>3, <2>4 DEF Interrupt, Refuse, fifo
  <2>5. CASE Interpreter
    BY <2>5 DEF Interpreter, BeginPop, Found, TrySecondary, NothingFound, Lock,
                Copy, Advance, Wrap, Unlock, Deliver, fifo
  <2>6. CASE UNCHANGED vars
    BY <2>6 DEF vars, fifo
  <2> QED BY <2>4, <2>5, <2>6 DEF Next
<1> QED BY <1>1, InvariantHolds, PTL DEF Safety, FoundItemStays
-----------------------------------------------------------------------------
(* Refinement.                                                             *)

(* A full ring means a backlog of at least its usable capacity.            *)
LEMMA FullMeansBacklog ==
  ASSUME IInv, NEW s \in Side, ring_buf_isfull(ring[s]), ring[s].tail # Size(s)
  PROVE  Len(accepted) - Len(delivered) >= Size(s) - 1
<1> DEFINE rb == ring[s]
<1>1. rb \in RingType(s) /\ tag \in Nat /\ curr_tag \in Nat /\ rb.head \in 0..(Size(s) - 1)
      /\ rb.sz = Size(s)
  BY SizeType DEF IInv, TypeOK, RingType
<1>2. Pos(rb, rb.head) = Size(s) - 1 /\ Size(s) \in Nat /\ Size(s) >= 2
  BY <1>1, FullRing, SizeType
<1>3. ~ring_buf_isempty(rb)
  BY <1>1, <1>2 DEF ring_buf_isempty, Pos, Start
<1>4. rb.tail \in Filled(rb) /\ Pos(rb, rb.tail) = 0
  BY <1>1, <1>3, TailOfRing
<1>5. PICK k \in 0..(Size(s) - 1) : Pos(rb, k) = Size(s) - 2
  BY <1>1, <1>2, Positions
<1>6. k \in Filled(rb)
  BY <1>1, <1>2, <1>5 DEF Filled
<1>7. /\ rb.buf[k].tag \in First..(tag - 1) /\ rb.buf[rb.tail].tag \in First..(tag - 1)
      /\ First \in {curr_tag, curr_tag + 1}
  BY <1>4, <1>6 DEF IInv, TagsSound, First
<1>8. rb.buf[k].tag - rb.buf[rb.tail].tag >= Size(s) - 2
  <2>1. CASE Size(s) = 2
    <3>1. k = rb.tail
      BY <2>1, <1>1, <1>4, <1>5, Positions DEF Filled
    <3> QED BY <2>1, <3>1, <1>1, <1>7
  <2>2. CASE Size(s) # 2
    <3>1. Pos(rb, rb.tail) < Pos(rb, k)
      BY <2>2, <1>2, <1>4, <1>5
    <3>2. rb.buf[k].tag - rb.buf[rb.tail].tag >= Pos(rb, k) - Pos(rb, rb.tail)
      BY <3>1, <1>4, <1>6 DEF IInv, TagsSpread
    <3> QED BY <3>2, <1>2, <1>4, <1>5
  <2> QED BY <2>1, <2>2
<1>9. tag - curr_tag >= Size(s) - 1
  BY <1>1, <1>2, <1>7, <1>8
<1> QED BY <1>9 DEF IInv, CountInv

(* The queue implements ExceptionQueue's safety part: every step of the    *)
(* handler or of pop accepts, refuses or delivers an exception as          *)
(* ExceptionQueue allows, or changes nothing it can see.  A refusal never  *)
(* happens below the abstract threshold.                                   *)
THEOREM ImplementsQueue == Safety => QueueSafety
<1>1. Init => Queue!Init
  BY DEF Init, Queue!Init
<1>2. IInv /\ [Next]_vars => [Queue!Next]_Queue!qvars
  <2> SUFFICES ASSUME IInv, [Next]_vars PROVE [Queue!Next]_Queue!qvars
    OBVIOUS
  <2>1. ASSUME NEW s \in Side, NEW e \in Exc, Accept(s, e)
        PROVE  Queue!Next
    BY <2>1 DEF Accept, Queue!Next, Queue!Accept
  <2>2. CASE Refuse
    <3>1. \A s \in Side : lck[s] \/ ring_buf_isfull(ring[s])
      BY <2>2 DEF Refuse, Available
    <3>2. PICK s \in Side : ~lck[s]
      <4>1. "A" \in Side /\ "B" \in Side
        BY DEF Side
      <4>2. lck["A"] => side = "A"
        BY <4>1 DEF IInv, PopInv
      <4>3. lck["B"] => side = "B"
        BY <4>1 DEF IInv, PopInv
      <4> QED BY <4>1, <4>2, <4>3
    <3>3. ring[s].tail # Size(s)
      BY <3>2 DEF IInv, PopInv
    <3>4. Len(accepted) - Len(delivered) >= Size(s) - 1
      BY <3>1, <3>2, <3>3, FullMeansBacklog
    <3>5. Size(s) - 1 >= Threshold
      BY SizesAssumption DEF Threshold, Size, Side
    <3>6. Len(accepted) - Len(delivered) >= Threshold
      BY <3>4, <3>5, SizesAssumption, SizeType DEF Threshold, IInv, TypeOK
    <3> QED BY <2>2, <3>6 DEF Refuse, Queue!Next, Queue!Refuse, Queue!Backlog
  <2>3. CASE Deliver
    <3>1. curr_tag < tag /\ tagged_item = Stamped(curr_tag)
      BY <2>3 DEF Deliver, IInv, PopInv, InFlight
    <3>2. tagged_item.exc = accepted[Len(delivered) + 1]
          /\ Len(delivered) < Len(accepted)
      BY <3>1 DEF Stamped, IInv, CountInv
    <3>3. Len(accepted) - Len(delivered) > 0
      BY <3>2 DEF IInv, TypeOK
    <3> QED BY <2>3, <3>2, <3>3 DEF Deliver, Queue!Next, Queue!Deliver, Queue!Backlog
  <2>4. CASE Interrupt
    BY <2>1, <2>2, <2>4 DEF Interrupt
  <2>5. CASE Interpreter
    BY <2>3, <2>5 DEF Interpreter, BeginPop, Found, TrySecondary, NothingFound,
                Lock, Copy, Advance, Wrap, Unlock, history, Queue!qvars
  <2>6. CASE UNCHANGED vars
    BY <2>6 DEF vars, history, Queue!qvars
  <2> QED BY <2>4, <2>5, <2>6 DEF Next
<1> QED BY <1>1, <1>2, InvariantHolds, PTL DEF Safety, QueueSafety, Queue!Safety
=============================================================================
