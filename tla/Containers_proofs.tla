--------------------------- MODULE Containers_proofs --------------------------
(***************************************************************************)
(* The containers, for any size and any failures.                          *)
(*                                                                         *)
(* The list of a queue is sound, and the queue implements Deque.  The      *)
(* invariant is inductive as it stands: history variable order says which  *)
(* links there are, and in which sequence.                                 *)
(*                                                                         *)
(* Of objects in arrays, however deep, every count is right, nothing       *)
(* refers to an object that was freed, and what the program can no longer  *)
(* reach was left behind by an append that failed.                         *)
(*                                                                         *)
(* Arrays and objects that grow write nothing outside of a block, only a   *)
(* null answer loses one, and they are the lists that Growable promises.   *)
(***************************************************************************)
EXTENDS Queue, Growing, ObjectArrays, SequenceTheorems, FiniteSetTheorems, FunctionTheorems, TLAPS

IInv == TypeOK /\ ListSound

(* Sequences with an element more in front, without the first, without the  *)
(* last.                                                                    *)
LEMMA Sequences_ ==
  ASSUME NEW S, NEW s \in Seq(S), NEW a \in S
  PROVE  /\ <<a>> \o s \in Seq(S)
         /\ Len(<<a>> \o s) = Len(s) + 1
         /\ \A i \in 1 .. Len(s) + 1 : (<<a>> \o s)[i] = IF i = 1 THEN a ELSE s[i - 1]
         /\ s # <<>> =>
              /\ Len(s) \in Nat \ {0}
              /\ Tail(s) \in Seq(S)
              /\ Len(Tail(s)) = Len(s) - 1
              /\ \A i \in 1 .. Len(s) - 1 : Tail(s)[i] = s[i + 1]
              /\ SubSeq(s, 1, Len(s) - 1) \in Seq(S)
              /\ Len(SubSeq(s, 1, Len(s) - 1)) = Len(s) - 1
              /\ \A i \in 1 .. Len(s) - 1 : SubSeq(s, 1, Len(s) - 1)[i] = s[i]
<1>1. <<a>> \in Seq(S) /\ Len(<<a>>) = 1 /\ <<a>>[1] = a
  OBVIOUS
<1>2. /\ <<a>> \o s \in Seq(S)
      /\ Len(<<a>> \o s) = Len(s) + 1
      /\ \A i \in 1 .. Len(s) + 1 : (<<a>> \o s)[i] = IF i = 1 THEN a ELSE s[i - 1]
  BY <1>1, ConcatProperties
<1>3. ASSUME s # <<>>
      PROVE  /\ Len(s) \in Nat \ {0}
             /\ Tail(s) \in Seq(S)
             /\ Len(Tail(s)) = Len(s) - 1
             /\ \A i \in 1 .. Len(s) - 1 : Tail(s)[i] = s[i + 1]
  BY <1>3, HeadTailProperties, EmptySeq, LenProperties
<1>4. ASSUME s # <<>>
      PROVE  /\ SubSeq(s, 1, Len(s) - 1) \in Seq(S)
             /\ Len(SubSeq(s, 1, Len(s) - 1)) = Len(s) - 1
             /\ \A i \in 1 .. Len(s) - 1 : SubSeq(s, 1, Len(s) - 1)[i] = s[i]
  <2> DEFINE n == Len(s) - 1
  <2>1. n \in Nat /\ \A i \in 1 .. n : s[i] \in S
    BY <1>3, <1>4, ElementOfSeq
  <2> HIDE DEF n
  <2>2. /\ SubSeq(s, 1, n) \in Seq(S)
        /\ Len(SubSeq(s, 1, n)) = n
        /\ \A i \in 1 .. n : SubSeq(s, 1, n)[i] = s[i]
    BY <2>1, SubSeqProperties
  <2> QED
    BY <2>2 DEF n
<1> QED
  BY <1>2, <1>3, <1>4

(* What the list looks like from its ends. *)
LEMMA Ends ==
  ASSUME IInv
  PROVE  /\ Len(order) \in Nat
         /\ DOMAIN order = 1 .. Len(order)
         /\ first = Null <=> order = <<>>
         /\ last = Null <=> order = <<>>
         /\ order # <<>> =>
              /\ Len(order) \in Nat \ {0}
              /\ first = order[1] /\ first \in DOMAIN link
              /\ last = order[Len(order)] /\ last \in DOMAIN link
              /\ link[first].next = At(2)
              /\ link[last].prev = At(Len(order) - 1)
<1>1. /\ order \in Seq(Addr) /\ Len(order) \in Nat /\ DOMAIN order = 1 .. Len(order)
      /\ \A i \in 1 .. Len(order) : order[i] \in Addr
  BY LenProperties, ElementOfSeq DEF IInv, TypeOK
<1>2. CASE order = <<>>
  <2>1. Len(order) = 0
    BY <1>2
  <2> QED
    BY <1>1, <1>2, <2>1 DEF IInv, ListSound, At
<1>3. CASE order # <<>>
  <2>1. Len(order) \in Nat \ {0}
    BY <1>1, <1>3, EmptySeq
  <2>2. 1 \in DOMAIN order /\ Len(order) \in DOMAIN order
    BY <1>1, <2>1
  <2>3. /\ first = order[1] /\ last = order[Len(order)]
        /\ first \in DOMAIN link /\ last \in DOMAIN link
    BY <2>2 DEF IInv, ListSound, At
  <2>4. first # Null /\ last # Null
    BY <1>1, <2>2, <2>3, NullAssumption
  <2>5. link[first].next = At(2) /\ link[last].prev = At(Len(order) - 1)
    BY <2>2, <2>3 DEF IInv, ListSound
  <2> QED
    BY <1>1, <1>3, <2>1, <2>3, <2>4, <2>5
<1> QED
  BY <1>2, <1>3

(* A new link in front: its address was free, so it is not in the list.    *)
LEMMA PushKeeps ==
  ASSUME IInv, NEW d \in Data, queue_push(d)
  PROVE  IInv'
<1>1. CASE UNCHANGED <<first, last, link, order>> /\ ret' = Null
  BY <1>1 DEF IInv, TypeOK, ListSound, At
<1>2. ASSUME NEW a \in Addr \ DOMAIN link,
             link' = Pushed(a, d),
             last' = IF first = Null THEN a ELSE last,
             first' = a,
             ret' = d,
             order' = <<a>> \o order
      PROVE  IInv'
  <2> DEFINE n == Len(order)
  <2>1. /\ order \in Seq(Addr) /\ n \in Nat /\ DOMAIN order = 1 .. n
        /\ \A i \in 1 .. n : order[i] \in DOMAIN link /\ order[i] \in Addr
    BY Ends DEF IInv, TypeOK, ListSound
  <2>2. /\ order' \in Seq(Addr) /\ Len(order') = n + 1 /\ DOMAIN order' = 1 .. n + 1
        /\ order'[1] = a
        /\ \A i \in 1 .. n : order'[i + 1] = order[i]
        /\ \A i \in 2 .. n + 1 : order'[i] = order[i - 1]
    BY <1>2, <2>1, Sequences_, LenProperties
  <2>3. /\ DOMAIN link' = DOMAIN link \cup {a}
        /\ link'[a] = [data |-> d, next |-> first, prev |-> Null]
        /\ \A b \in DOMAIN link :
             link'[b] = IF b = first THEN [link[b] EXCEPT !.prev = a] ELSE link[b]
    BY <1>2 DEF Pushed
  <2>4. TypeOK'
    <3>1. first \in Addr \cup {Null} /\ last \in Addr \cup {Null}
          /\ DOMAIN link \subseteq Addr /\ \A b \in DOMAIN link : link[b] \in Link
      BY DEF IInv, TypeOK
    <3>2. \A b \in DOMAIN link' : link'[b] \in Link
      <4>1. link'[a] \in Link
        BY <2>3, <3>1 DEF Link
      <4>2. ASSUME NEW b \in DOMAIN link PROVE link'[b] \in Link
        BY <2>3, <3>1, <4>2, <1>2 DEF Link
      <4> QED
        BY <2>3, <4>1, <4>2
    <3>3. link' \in [DOMAIN link' -> Link]
      BY <1>2, <3>2 DEF Pushed
    <3> QED
      BY <1>2, <2>2, <2>3, <3>1, <3>3 DEF TypeOK
  <2>5. ListSound'
    <3>1. first' = At(1)' /\ last' = At(Len(order))'
      <4>1. CASE order = <<>>
        BY <1>2, <2>1, <2>2, <4>1, Ends DEF At
      <4>2. CASE order # <<>>
        BY <1>2, <2>1, <2>2, <4>2, Ends DEF At
      <4> QED
        BY <4>1, <4>2
    <3>2. \A i, j \in DOMAIN order' : order'[i] = order'[j] => i = j
      <4> SUFFICES ASSUME NEW i \in 1 .. n + 1, NEW j \in 1 .. n + 1, order'[i] = order'[j]
                   PROVE  i = j
        BY <2>2
      <4>1. \A k, l \in 1 .. n : order[k] = order[l] => k = l
        BY <2>1 DEF IInv, ListSound
      <4>2. \A k \in 1 .. n : order[k] # a
        BY <1>2, <2>1
      <4>3. CASE i = 1 \/ j = 1
        BY <2>1, <2>2, <4>2, <4>3
      <4>4. CASE i # 1 /\ j # 1
        <5>1. i - 1 \in 1 .. n /\ j - 1 \in 1 .. n
          BY <2>1, <4>4
        <5>2. order[i - 1] = order[j - 1]
          BY <2>1, <2>2, <4>4
        <5> QED
          BY <4>1, <5>1, <5>2
      <4> QED
        BY <4>3, <4>4
    <3>3. DOMAIN link' = {order'[i] : i \in DOMAIN order'}
      <4>1. DOMAIN link = {order[i] : i \in 1 .. n}
        BY <2>1 DEF IInv, ListSound
      <4>2. {order'[i] : i \in 1 .. n + 1} = {order[i] : i \in 1 .. n} \cup {a}
        <5>1. ASSUME NEW i \in 1 .. n + 1
              PROVE  order'[i] \in {order[k] : k \in 1 .. n} \cup {a}
          <6>1. CASE i = 1
            BY <2>2, <6>1
          <6>2. CASE i # 1
            BY <2>1, <2>2, <6>2
          <6> QED
            BY <6>1, <6>2
        <5>2. ASSUME NEW k \in 1 .. n
              PROVE  order[k] \in {order'[i] : i \in 1 .. n + 1}
          BY <2>1, <2>2
        <5>3. a \in {order'[i] : i \in 1 .. n + 1}
          BY <2>1, <2>2
        <5> QED
          BY <5>1, <5>2, <5>3
      <4> QED
        BY <2>2, <2>3, <4>1, <4>2
    <3>4. ASSUME NEW i \in DOMAIN order'
          PROVE  /\ link'[order'[i]].next = At(i + 1)'
                 /\ link'[order'[i]].prev = At(i - 1)'
      <4>1. \A k \in 1 .. n : /\ link[order[k]].next = At(k + 1)
                              /\ link[order[k]].prev = At(k - 1)
                              /\ link[order[k]] \in Link
        BY <2>1 DEF IInv, ListSound, TypeOK
      <4>2. first = At(1)
        BY DEF IInv, ListSound
      <4>3. CASE i = 1
        BY <2>1, <2>2, <2>3, <4>2, <4>3 DEF At
      <4>4. CASE i # 1
        <5> DEFINE k == i - 1
        <5>1. k \in 1 .. n /\ order'[i] = order[k] /\ order[k] \in DOMAIN link
          BY <2>1, <2>2, <4>4
        <5>2. order[k] = first <=> k = 1
          <6>1. \A x, y \in 1 .. n : order[x] = order[y] => x = y
            BY <2>1 DEF IInv, ListSound
          <6>2. first = order[1] /\ 1 \in 1 .. n
            BY <2>1, <4>2, <5>1 DEF At
          <6> QED
            BY <5>1, <6>1, <6>2
        <5>3. link'[order[k]].next = link[order[k]].next
          BY <2>3, <4>1, <5>1 DEF Link
        <5>4. link'[order[k]].prev = IF k = 1 THEN a ELSE link[order[k]].prev
          BY <2>3, <4>1, <5>1, <5>2 DEF Link
        <5>5. At(i + 1)' = At(k + 1)
          BY <2>1, <2>2, <5>1 DEF At
        <5>6. At(i - 1)' = IF k = 1 THEN a ELSE At(k - 1)
          BY <2>1, <2>2, <5>1 DEF At
        <5> QED
          BY <4>1, <5>1, <5>3, <5>4, <5>5, <5>6
      <4> QED
        BY <4>3, <4>4
    <3> QED
      BY <3>1, <3>2, <3>3, <3>4 DEF ListSound
  <2> QED
    BY <2>4, <2>5 DEF IInv
<1> QED
  BY <1>1, <1>2 DEF queue_push

(* Taking the newest link away: its neighbour becomes the first.           *)
LEMMA PopKeeps ==
  ASSUME IInv, queue_pop
  PROVE  IInv'
<1>1. CASE order = <<>>
  <2>1. Empty
    BY <1>1, Ends DEF queue_pop
  <2> QED
    BY <2>1 DEF Empty, IInv, TypeOK, ListSound, At
<1>2. CASE order # <<>>
  <2> DEFINE n == Len(order)
  <2>1. /\ order \in Seq(Addr) /\ n \in Nat \ {0} /\ DOMAIN order = 1 .. n
        /\ \A i \in 1 .. n : order[i] \in DOMAIN link /\ order[i] \in Addr
        /\ first # Null /\ first = order[1] /\ first \in DOMAIN link
        /\ link[first].next = At(2)
    BY <1>2, Ends DEF IInv, TypeOK, ListSound
  <2>2. /\ order' \in Seq(Addr) /\ Len(order') = n - 1 /\ DOMAIN order' = 1 .. n - 1
        /\ \A i \in 1 .. n - 1 : order'[i] = order[i + 1]
    <3>1. order' = Tail(order)
      BY <2>1 DEF queue_pop
    <3>2. order \in Seq(Addr) /\ order[1] \in Addr
      BY <2>1
    <3> QED
      BY <1>2, <3>1, <3>2, Sequences_, LenProperties
  <2>3. /\ link' = Unlinked(first, At(2))
        /\ first' = At(2)
        /\ last' = IF At(2) = Null THEN Null ELSE last
        /\ ret' = link[first].data
    BY <2>1 DEF queue_pop
  <2>4. /\ DOMAIN link' = DOMAIN link \ {first}
        /\ \A c \in DOMAIN link' :
             link'[c] = IF c # At(2) THEN link[c] ELSE [link[c] EXCEPT !.prev = Null]
    BY <2>3 DEF Unlinked
  <2>5. \A i, j \in 1 .. n : order[i] = order[j] => i = j
    BY <2>1 DEF IInv, ListSound
  <2>6. TypeOK'
    <3>1. /\ last \in Addr \cup {Null} /\ DOMAIN link \subseteq Addr
          /\ \A b \in DOMAIN link : link[b] \in Link
      BY DEF IInv, TypeOK
    <3>2. \A b \in DOMAIN link' : link'[b] \in Link
      <4> SUFFICES ASSUME NEW b \in DOMAIN link' PROVE link'[b] \in Link
        OBVIOUS
      <4>1. link[b] \in Link
        BY <2>4, <3>1
      <4> QED
        BY <2>4, <4>1 DEF Link
    <3>3. link' \in [DOMAIN link' -> Link]
      BY <2>3, <3>2 DEF Unlinked
    <3>4. At(2) \in Addr \cup {Null}
      BY <2>1 DEF At
    <3>5. link[first].data \in Data
      BY <2>1, <3>1 DEF Link
    <3> QED
      BY <2>2, <2>3, <2>4, <3>1, <3>3, <3>4, <3>5 DEF TypeOK
  <2>7. ListSound'
    <3>1. first' = At(1)'
      BY <2>1, <2>2, <2>3 DEF At
    <3>2. last' = At(Len(order))'
      <4>1. last = order[n]
        BY <2>1 DEF IInv, ListSound, At
      <4>2. At(2) = Null <=> n = 1
        BY <2>1, NullAssumption DEF At
      <4>3. At(Len(order))' = IF n = 1 THEN Null ELSE order[n]
        BY <2>1, <2>2 DEF At
      <4> QED
        BY <2>3, <4>1, <4>2, <4>3
    <3>3. \A i, j \in DOMAIN order' : order'[i] = order'[j] => i = j
      <4> SUFFICES ASSUME NEW i \in 1 .. n - 1, NEW j \in 1 .. n - 1, order'[i] = order'[j]
                   PROVE  i = j
        BY <2>2
      <4>1. i + 1 \in 1 .. n /\ j + 1 \in 1 .. n /\ order[i + 1] = order[j + 1]
        BY <2>1, <2>2
      <4>2. i + 1 = j + 1
        BY <2>5, <4>1
      <4> QED
        BY <4>2
    <3>4. DOMAIN link' = {order'[i] : i \in DOMAIN order'}
      <4>1. DOMAIN link = {order[i] : i \in 1 .. n}
        BY <2>1 DEF IInv, ListSound
      <4>2. ASSUME NEW a \in DOMAIN link' PROVE a \in {order'[i] : i \in 1 .. n - 1}
        <5>1. PICK i \in 1 .. n : a = order[i]
          BY <2>4, <4>1
        <5>2. i # 1
          BY <2>1, <2>4, <5>1
        <5>3. i - 1 \in 1 .. n - 1 /\ a = order'[i - 1]
          BY <2>1, <2>2, <5>1, <5>2
        <5> QED
          BY <5>3
      <4>3. ASSUME NEW i \in 1 .. n - 1 PROVE order'[i] \in DOMAIN link'
        <5>1. i + 1 \in 1 .. n /\ 1 \in 1 .. n /\ i + 1 # 1 /\ order'[i] = order[i + 1]
          BY <2>1, <2>2
        <5>2. order[i + 1] # first
          BY <2>1, <2>5, <5>1
        <5> QED
          BY <2>1, <2>4, <5>1, <5>2
      <4> QED
        BY <2>2, <4>2, <4>3
    <3>5. ASSUME NEW i \in DOMAIN order'
          PROVE  /\ link'[order'[i]].next = At(i + 1)'
                 /\ link'[order'[i]].prev = At(i - 1)'
      <4> DEFINE k == i + 1
      <4>1. /\ i \in 1 .. n - 1 /\ k \in 1 .. n /\ order'[i] = order[k]
            /\ order[k] \in DOMAIN link'
        BY <2>1, <2>2, <3>4
      <4>2. /\ link[order[k]].next = At(k + 1)
            /\ link[order[k]].prev = At(k - 1)
            /\ link[order[k]] \in Link
        BY <2>1, <4>1 DEF IInv, ListSound, TypeOK
      <4>3. order[k] = At(2) <=> i = 1
        <5>1. 2 \in 1 .. n /\ At(2) = order[2]
          BY <2>1, <4>1 DEF At
        <5> QED
          BY <2>5, <4>1, <5>1
      <4>4. link'[order[k]].next = link[order[k]].next
        BY <2>4, <4>1, <4>2 DEF Link
      <4>5. link'[order[k]].prev = IF i = 1 THEN Null ELSE link[order[k]].prev
        BY <2>4, <4>1, <4>2, <4>3 DEF Link
      <4>6. At(i + 1)' = At(k + 1)
        BY <2>1, <2>2, <4>1 DEF At
      <4>7. At(i - 1)' = IF i = 1 THEN Null ELSE At(k - 1)
        BY <2>1, <2>2, <4>1 DEF At
      <4> QED
        BY <4>1, <4>2, <4>4, <4>5, <4>6, <4>7
    <3> QED
      BY <3>1, <3>2, <3>3, <3>4, <3>5 DEF ListSound
  <2> QED
    BY <2>6, <2>7 DEF IInv
<1> QED
  BY <1>1, <1>2

(* Taking the oldest link away: its neighbour becomes the last.            *)
LEMMA LastKeeps ==
  ASSUME IInv, queue_last
  PROVE  IInv'
<1>1. CASE order = <<>>
  <2>1. Empty
    BY <1>1, Ends DEF queue_last
  <2> QED
    BY <2>1 DEF Empty, IInv, TypeOK, ListSound, At
<1>2. CASE order # <<>>
  <2> DEFINE n == Len(order)
  <2>1. /\ order \in Seq(Addr) /\ n \in Nat \ {0} /\ DOMAIN order = 1 .. n
        /\ \A i \in 1 .. n : order[i] \in DOMAIN link /\ order[i] \in Addr
        /\ first = order[1]
        /\ last # Null /\ last = order[n] /\ last \in DOMAIN link
        /\ link[last].prev = At(n - 1)
    BY <1>2, Ends DEF IInv, TypeOK, ListSound
  <2>2. /\ order' \in Seq(Addr) /\ Len(order') = n - 1 /\ DOMAIN order' = 1 .. n - 1
        /\ \A i \in 1 .. n - 1 : order'[i] = order[i]
    <3>1. order' = SubSeq(order, 1, Len(order) - 1)
      BY <2>1 DEF queue_last
    <3>2. order \in Seq(Addr) /\ order[1] \in Addr
      BY <2>1
    <3>3. /\ SubSeq(order, 1, Len(order) - 1) \in Seq(Addr)
          /\ Len(SubSeq(order, 1, Len(order) - 1)) = Len(order) - 1
          /\ \A i \in 1 .. Len(order) - 1 : SubSeq(order, 1, Len(order) - 1)[i] = order[i]
      BY <1>2, <3>2, Sequences_
    <3>4. /\ order' \in Seq(Addr) /\ Len(order') = n - 1
          /\ \A i \in 1 .. n - 1 : order'[i] = order[i]
      BY <3>1, <3>3
    <3> QED
      BY <3>4, LenProperties
  <2>3. /\ link' = Unlinked(last, At(n - 1))
        /\ last' = At(n - 1)
        /\ first' = IF At(n - 1) = Null THEN Null ELSE first
        /\ ret' = link[last].data
    BY <2>1 DEF queue_last
  <2>8. n \in Nat \ {0}
    BY <2>1
  <2>5. \A i, j \in 1 .. n : order[i] = order[j] => i = j
    BY <2>1 DEF IInv, ListSound
  <2>4. /\ DOMAIN link' = DOMAIN link \ {last}
        /\ \A c \in DOMAIN link' :
             link'[c] = IF c # At(n - 1) THEN link[c] ELSE [link[c] EXCEPT !.next = Null]
    <3>1. DOMAIN link' = DOMAIN link \ {last}
      BY <2>3 DEF Unlinked
    <3>2. ASSUME NEW c \in DOMAIN link'
          PROVE  link'[c] = IF c # At(n - 1) THEN link[c] ELSE [link[c] EXCEPT !.next = Null]
      <4>1. CASE c # At(n - 1)
        BY <2>3, <3>1, <4>1 DEF Unlinked
      <4>2. CASE c = At(n - 1)
        <5>1. c # Null
          BY <3>1, NullAssumption DEF IInv, TypeOK
        <5>2. n # 1 /\ 1 \in 1 .. n /\ n \in 1 .. n
          BY <2>1, <4>2, <5>1 DEF At
        <5>3. last # first
          BY <2>1, <2>5, <5>2
        <5> QED
          BY <2>3, <3>1, <4>2, <5>3 DEF Unlinked
      <4> QED
        BY <4>1, <4>2
    <3> QED
      BY <3>1, <3>2
  <2>6. TypeOK'
    <3>1. /\ first \in Addr \cup {Null} /\ DOMAIN link \subseteq Addr
          /\ \A b \in DOMAIN link : link[b] \in Link
      BY DEF IInv, TypeOK
    <3>2. \A b \in DOMAIN link' : link'[b] \in Link
      <4> SUFFICES ASSUME NEW b \in DOMAIN link' PROVE link'[b] \in Link
        OBVIOUS
      <4>1. link[b] \in Link
        BY <2>4, <3>1
      <4> QED
        BY <2>4, <4>1 DEF Link
    <3>3. link' \in [DOMAIN link' -> Link]
      BY <2>3, <3>2 DEF Unlinked
    <3>4. At(n - 1) \in Addr \cup {Null}
      BY <2>1 DEF At
    <3>5. link[last].data \in Data
      BY <2>1, <3>1 DEF Link
    <3> QED
      BY <2>2, <2>3, <2>4, <3>1, <3>3, <3>4, <3>5 DEF TypeOK
  <2>7. ListSound'
    <3>1. last' = At(Len(order))'
      BY <2>1, <2>2, <2>3 DEF At
    <3>2. first' = At(1)'
      <4>1. At(n - 1) = Null <=> n = 1
        BY <2>1, NullAssumption DEF At
      <4>2. At(1)' = IF n = 1 THEN Null ELSE order[1]
        BY <2>1, <2>2 DEF At
      <4> QED
        BY <2>1, <2>3, <4>1, <4>2
    <3>3. \A i, j \in DOMAIN order' : order'[i] = order'[j] => i = j
      BY <2>1, <2>2, <2>5
    <3>4. DOMAIN link' = {order'[i] : i \in DOMAIN order'}
      <4>1. DOMAIN link = {order[i] : i \in 1 .. n}
        BY <2>1 DEF IInv, ListSound
      <4>2. ASSUME NEW a \in DOMAIN link' PROVE a \in {order'[i] : i \in 1 .. n - 1}
        <5>1. PICK i \in 1 .. n : a = order[i]
          BY <2>4, <4>1
        <5>2. i # n
          BY <2>1, <2>4, <5>1
        <5>3. i \in 1 .. n - 1
          BY <2>8, <5>1, <5>2
        <5>4. a = order'[i]
          BY <2>2, <5>1, <5>3
        <5> QED
          BY <5>3, <5>4
      <4>3. ASSUME NEW i \in 1 .. n - 1 PROVE order'[i] \in DOMAIN link'
        <5>1. i \in 1 .. n /\ n \in 1 .. n /\ i # n
          BY <2>8
        <5>2. order'[i] = order[i]
          BY <2>2
        <5>3. order[i] # last
          BY <2>1, <2>5, <5>1
        <5> QED
          BY <2>1, <2>4, <5>1, <5>2, <5>3
      <4> QED
        BY <2>2, <4>2, <4>3
    <3>5. ASSUME NEW i \in DOMAIN order'
          PROVE  /\ link'[order'[i]].next = At(i + 1)'
                 /\ link'[order'[i]].prev = At(i - 1)'
      <4>1. /\ i \in 1 .. n - 1 /\ i \in 1 .. n /\ order'[i] = order[i]
            /\ order[i] \in DOMAIN link'
        BY <2>1, <2>2, <3>4
      <4>2. /\ link[order[i]].next = At(i + 1)
            /\ link[order[i]].prev = At(i - 1)
            /\ link[order[i]] \in Link
        BY <2>1, <4>1 DEF IInv, ListSound, TypeOK
      <4>3. order[i] = At(n - 1) <=> i = n - 1
        <5>1. n - 1 \in 1 .. n /\ At(n - 1) = order[n - 1]
          BY <2>1, <4>1 DEF At
        <5> QED
          BY <2>5, <4>1, <5>1
      <4>4. link'[order[i]].prev = link[order[i]].prev
        BY <2>4, <4>1, <4>2 DEF Link
      <4>5. link'[order[i]].next = IF i = n - 1 THEN Null ELSE link[order[i]].next
        BY <2>4, <4>1, <4>2, <4>3 DEF Link
      <4>6. At(i - 1)' = At(i - 1)
        BY <2>1, <2>2, <4>1 DEF At
      <4>7. At(i + 1)' = IF i = n - 1 THEN Null ELSE At(i + 1)
        BY <2>1, <2>2, <4>1 DEF At
      <4> QED
        BY <4>1, <4>2, <4>4, <4>5, <4>6, <4>7
    <3> QED
      BY <3>1, <3>2, <3>3, <3>4, <3>5 DEF ListSound
  <2> QED
    BY <2>6, <2>7 DEF IInv
<1> QED
  BY <1>1, <1>2

(* The inductive invariant, for any number of links. *)
THEOREM InvariantHolds == Spec => []IInv
<1>1. Init => IInv
  <2> SUFFICES ASSUME Init PROVE IInv
    OBVIOUS
  <2>1. order = <<>> /\ Len(order) = 0 /\ DOMAIN order = {} /\ DOMAIN link = {}
    BY DEF Init
  <2>2. TypeOK
    <3>1. link \in [{} -> Link]
      BY DEF Init
    <3> QED
      BY <2>1, <3>1 DEF Init, TypeOK
  <2> QED
    BY <2>1, <2>2 DEF Init, IInv, ListSound, At
<1>2. IInv /\ [Next]_vars => IInv'
  <2> SUFFICES ASSUME IInv, [Next]_vars PROVE IInv'
    OBVIOUS
  <2>1. CASE UNCHANGED vars
    BY <2>1 DEF vars, IInv, TypeOK, ListSound, At
  <2> QED
    BY <2>1, PushKeeps, PopKeeps, LastKeeps DEF Next
<1> QED
  BY <1>1, <1>2, PTL DEF Spec

(* The list of queue_push, queue_pop and queue_last holds together in both  *)
(* directions and leaks no link, whatever the calls.                       *)
THEOREM ListStaysSound == Spec => []ListSound
<1>1. IInv => ListSound
  BY DEF IInv
<1> QED
  BY <1>1, InvariantHolds, PTL

ItemsOfLinks ==
  /\ Items \in Seq(Data)
  /\ Len(order) \in Nat
  /\ Len(Items) = Len(order)
  /\ Items = <<>> <=> order = <<>>
  /\ \A i \in 1 .. Len(order) :
       Items[i] = link[order[i]].data /\ order[i] \in DOMAIN link

(* The items are the data of the links, in their order. *)
LEMMA ItemsAre == IInv => ItemsOfLinks
<1> SUFFICES ASSUME IInv PROVE ItemsOfLinks
  OBVIOUS
<1>1. Len(order) \in Nat /\ DOMAIN order = 1 .. Len(order)
  BY Ends
<1>2. \A i \in 1 .. Len(order) :
        /\ order[i] \in DOMAIN link
        /\ Item(order[i]) = link[order[i]].data
        /\ Item(order[i]) \in Data
  BY <1>1 DEF IInv, TypeOK, ListSound, Item, Link
<1>3. Items = [i \in 1 .. Len(order) |-> Item(order[i])]
  BY <1>1 DEF Items
<1>4. Items \in Seq(Data) /\ Len(Items) = Len(order)
  BY <1>1, <1>2, <1>3
<1>5. Items = <<>> <=> order = <<>>
  BY <1>1, <1>4, EmptySeq DEF IInv, TypeOK
<1> QED
  BY <1>1, <1>2, <1>3, <1>4, <1>5 DEF ItemsOfLinks

LEMMA ItemsAreNext == IInv' => ItemsOfLinks'
  BY ItemsAre, PTL

(* Each call of the queue is a call of the abstract one, with the same      *)
(* answer.                                                                 *)
LEMMA PushImplements ==
  ASSUME IInv, IInv', NEW d \in Data, queue_push(d)
  PROVE  Promise!Push(d) \/ Promise!Refuse
<1>1. CASE UNCHANGED <<first, last, link, order>> /\ ret' = Null
  BY <1>1 DEF Promise!Refuse, Items, Item
<1>2. ASSUME NEW a \in Addr \ DOMAIN link, link' = Pushed(a, d), ret' = d, order' = <<a>> \o order
      PROVE  Promise!Push(d)
  <2>1. /\ Items \in Seq(Data) /\ Len(order) \in Nat /\ Len(Items) = Len(order)
        /\ \A i \in 1 .. Len(order) :
             Items[i] = link[order[i]].data /\ order[i] \in DOMAIN link
    BY ItemsAre DEF ItemsOfLinks
  <2>2. /\ Items' \in Seq(Data) /\ Len(Items') = Len(order')
        /\ \A i \in 1 .. Len(order') : Items'[i] = link'[order'[i]].data
    BY ItemsAreNext DEF ItemsOfLinks
  <2>3. /\ Len(order') = Len(order) + 1 /\ order'[1] = a
        /\ \A i \in 2 .. Len(order) + 1 : order'[i] = order[i - 1]
    BY <1>2, <2>1, Sequences_ DEF IInv, TypeOK
  <2>4. /\ <<d>> \o Items \in Seq(Data)
        /\ Len(<<d>> \o Items) = Len(order) + 1
        /\ \A i \in 1 .. Len(order) + 1 :
             (<<d>> \o Items)[i] = IF i = 1 THEN d ELSE Items[i - 1]
    BY <2>1, Sequences_
  <2>5. ASSUME NEW i \in 1 .. Len(order) + 1
        PROVE  Items'[i] = (<<d>> \o Items)[i]
    <3>1. CASE i = 1
      <4>1. link'[a].data = d
        BY <1>2 DEF Pushed
      <4> QED
        BY <2>1, <2>2, <2>3, <2>4, <3>1, <4>1
    <3>2. CASE i # 1
      <4>1. i - 1 \in 1 .. Len(order) /\ order'[i] = order[i - 1]
        BY <2>1, <2>3, <3>2
      <4>2. order[i - 1] \in DOMAIN link /\ link[order[i - 1]] \in Link
        BY <2>1, <4>1 DEF IInv, TypeOK
      <4>3. link'[order[i - 1]].data = link[order[i - 1]].data
        BY <1>2, <4>2 DEF Pushed, Link
      <4> QED
        BY <2>1, <2>2, <2>3, <2>4, <3>2, <4>1, <4>3
    <3> QED
      BY <3>1, <3>2
  <2>6. Items' = <<d>> \o Items
    BY <2>2, <2>3, <2>4, <2>5, SeqEqual
  <2> QED
    BY <1>2, <2>6 DEF Promise!Push
<1> QED
  BY <1>1, <1>2 DEF queue_push

LEMMA PopImplements ==
  ASSUME IInv, IInv', queue_pop
  PROVE  Promise!Pop
<1>1. CASE order = <<>>
  BY <1>1, Ends, ItemsAre DEF ItemsOfLinks, queue_pop, Empty, Promise!Pop, Items, Item
<1>2. CASE order # <<>>
  <2>1. /\ Items \in Seq(Data) /\ Len(order) \in Nat /\ Len(Items) = Len(order) /\ Items # <<>>
        /\ \A i \in 1 .. Len(order) :
             Items[i] = link[order[i]].data /\ order[i] \in DOMAIN link
    BY <1>2, ItemsAre DEF ItemsOfLinks
  <2>2. /\ Items' \in Seq(Data) /\ Len(Items') = Len(order')
        /\ \A i \in 1 .. Len(order') :
             Items'[i] = link'[order'[i]].data /\ order'[i] \in DOMAIN link'
    BY ItemsAreNext DEF ItemsOfLinks
  <2>3. /\ first # Null /\ first = order[1] /\ Len(order) # 0
        /\ link' = Unlinked(first, link[first].next)
        /\ ret' = link[first].data
        /\ order' = Tail(order)
    BY <1>2, Ends DEF queue_pop
  <2>4. order \in Seq(Addr) /\ order[1] \in Addr /\ Items[1] \in Data
    BY <2>1, <2>3, ElementOfSeq DEF IInv, TypeOK
  <2>5. /\ Len(order') = Len(order) - 1
        /\ \A i \in 1 .. Len(order) - 1 : order'[i] = order[i + 1]
    BY <1>2, <2>3, <2>4, Sequences_
  <2>6. /\ Tail(Items) \in Seq(Data) /\ Len(Tail(Items)) = Len(order) - 1
        /\ \A i \in 1 .. Len(order) - 1 : Tail(Items)[i] = Items[i + 1]
    BY <2>1, <2>4, Sequences_
  <2>7. ASSUME NEW i \in 1 .. Len(order) - 1
        PROVE  Items'[i] = Tail(Items)[i]
    <3>1. i + 1 \in 1 .. Len(order) /\ order'[i] = order[i + 1] /\ order'[i] \in DOMAIN link'
      BY <2>1, <2>2, <2>5
    <3>2. link[order[i + 1]] \in Link /\ order[i + 1] \in DOMAIN link'
      BY <2>1, <3>1 DEF IInv, TypeOK
    <3>3. link'[order[i + 1]].data = link[order[i + 1]].data
      BY <2>3, <3>2 DEF Unlinked, Link
    <3> QED
      BY <2>1, <2>2, <2>5, <2>6, <3>1, <3>3
  <2>8. Items' = Tail(Items)
    BY <2>2, <2>5, <2>6, <2>7, SeqEqual
  <2>9. ret' = Head(Items)
    BY <2>1, <2>3
  <2> QED
    BY <2>1, <2>8, <2>9 DEF Promise!Pop
<1> QED
  BY <1>1, <1>2

LEMMA LastImplements ==
  ASSUME IInv, IInv', queue_last
  PROVE  Promise!TakeLast
<1>1. CASE order = <<>>
  BY <1>1, Ends, ItemsAre DEF ItemsOfLinks, queue_last, Empty, Promise!TakeLast, Items, Item
<1>2. CASE order # <<>>
  <2> DEFINE n == Len(order)
  <2>1. /\ Items \in Seq(Data) /\ n \in Nat /\ Len(Items) = n /\ Items # <<>>
        /\ \A i \in 1 .. n : Items[i] = link[order[i]].data /\ order[i] \in DOMAIN link
    BY <1>2, ItemsAre DEF ItemsOfLinks
  <2>2. /\ Items' \in Seq(Data) /\ Len(Items') = Len(order')
        /\ \A i \in 1 .. Len(order') :
             Items'[i] = link'[order'[i]].data /\ order'[i] \in DOMAIN link'
    BY ItemsAreNext DEF ItemsOfLinks
  <2>3. /\ last # Null /\ last = order[n] /\ n # 0
        /\ link' = Unlinked(last, link[last].prev)
        /\ ret' = link[last].data
        /\ order' = SubSeq(order, 1, Len(order) - 1)
    BY <1>2, Ends DEF queue_last
  <2>4. order \in Seq(Addr) /\ order[1] \in Addr /\ Items[1] \in Data
    BY <2>1, <2>3, ElementOfSeq DEF IInv, TypeOK
  <2>5. /\ Len(order') = n - 1
        /\ \A i \in 1 .. n - 1 : order'[i] = order[i]
    <3>1. order \in Seq(Addr) /\ order[1] \in Addr
      BY <2>4
    <3>2. /\ Len(SubSeq(order, 1, Len(order) - 1)) = Len(order) - 1
          /\ \A i \in 1 .. Len(order) - 1 : SubSeq(order, 1, Len(order) - 1)[i] = order[i]
      BY <1>2, <3>1, Sequences_
    <3> QED
      BY <2>3, <3>2
  <2>6. /\ SubSeq(Items, 1, Len(Items) - 1) \in Seq(Data)
        /\ Len(SubSeq(Items, 1, Len(Items) - 1)) = n - 1
        /\ \A i \in 1 .. n - 1 : SubSeq(Items, 1, Len(Items) - 1)[i] = Items[i]
    BY <2>1, <2>4, Sequences_
  <2>7. ASSUME NEW i \in 1 .. n - 1
        PROVE  Items'[i] = SubSeq(Items, 1, Len(Items) - 1)[i]
    <3>1. i \in 1 .. n /\ order'[i] = order[i] /\ order'[i] \in DOMAIN link'
      BY <2>1, <2>2, <2>5
    <3>2. link[order[i]] \in Link /\ order[i] \in DOMAIN link'
      BY <2>1, <3>1 DEF IInv, TypeOK
    <3>3. link'[order[i]].data = link[order[i]].data
      BY <2>3, <3>2 DEF Unlinked, Link
    <3> QED
      BY <2>1, <2>2, <2>5, <2>6, <3>1, <3>3
  <2>8. Items' = SubSeq(Items, 1, Len(Items) - 1)
    BY <2>2, <2>5, <2>6, <2>7, SeqEqual
  <2>9. ret' = Items[Len(Items)]
    BY <2>1, <2>3
  <2> QED
    BY <2>1, <2>8, <2>9 DEF Promise!TakeLast
<1> QED
  BY <1>1, <1>2

(* The doubly linked list implements the abstract queue: every item comes   *)
(* back once, from the end it is asked for.                                *)
THEOREM ImplementsDeque == Spec => KeepsPromise
<1>1. Init => Promise!Init
  BY DEF Init, Promise!Init, Items
<1>2. IInv /\ IInv' /\ [Next]_vars => [Promise!Next]_<<Items, ret>>
  <2> SUFFICES ASSUME IInv, IInv', [Next]_vars
               PROVE  Promise!Next \/ UNCHANGED <<Items, ret>>
    OBVIOUS
  <2>1. CASE UNCHANGED vars
    BY <2>1 DEF vars, Items, Item
  <2>2. CASE Next
    BY <2>2, PushImplements, PopImplements, LastImplements DEF Next, Promise!Next
  <2> QED
    BY <2>1, <2>2
<1> QED
  BY <1>1, <1>2, InvariantHolds, PTL DEF Spec, KeepsPromise, Promise!Spec
-----------------------------------------------------------------------------
(* How often something occurs in a sequence: a number, *)
Where(x, s) == {i \in DOMAIN s : s[i] = x}

LEMMA PlacesAre ==
  ASSUME NEW S, NEW s \in Seq(S), NEW x
  PROVE  /\ IsFiniteSet(Where(x, s)) /\ Where(x, s) \subseteq 1 .. Len(s)
         /\ \A i \in 1 .. Len(s) : i \in Where(x, s) <=> s[i] = x
         /\ Places(x, s) = Cardinality(Where(x, s)) /\ Places(x, s) \in Nat
         /\ Places(x, s) = 0 <=> \A i \in 1 .. Len(s) : s[i] # x
<1>1. Len(s) \in Nat /\ DOMAIN s = 1 .. Len(s)
  OBVIOUS
<1>2. IsFiniteSet(1 .. Len(s))
  BY <1>1, FS_Interval
<1>3. Where(x, s) \in SUBSET (1 .. Len(s))
  BY <1>1 DEF Where
<1>4. IsFiniteSet(Where(x, s))
  BY <1>2, <1>3, FS_Subset
<1>5. Cardinality(Where(x, s)) \in Nat /\ (Cardinality(Where(x, s)) = 0 <=> Where(x, s) = {})
  BY <1>4, FS_CardinalityType, FS_EmptySet
<1> QED BY <1>1, <1>3, <1>4, <1>5 DEF Where, Places

(* none in an empty one, *)
LEMMA PlacesEmpty == \A x : Places(x, <<>>) = 0
<1> TAKE x
<1>1. Where(x, <<>>) = {}
  BY DEF Where
<1> QED BY <1>1, FS_EmptySet DEF Places, Where

(* and in two that are joined as often as in both. *)
LEMMA PlacesJoined ==
  ASSUME NEW S, NEW s \in Seq(S), NEW t \in Seq(S), NEW x
  PROVE  Places(x, s \o t) = Places(x, s) + Places(x, t)
<1> DEFINE n == Len(s)
           T == Where(x, t)
           B == {i \in n + 1 .. n + Len(t) : t[i - n] = x}
           f == [i \in T |-> n + i]
<1>1. n \in Nat /\ Len(t) \in Nat
  OBVIOUS
<1>2. /\ s \o t \in Seq(S) /\ Len(s \o t) = n + Len(t)
      /\ \A i \in 1 .. n + Len(t) : (s \o t)[i] = IF i <= n THEN s[i] ELSE t[i - n]
  BY ConcatProperties
<1>3. IsFiniteSet(T) /\ T \subseteq 1 .. Len(t) /\ \A i \in 1 .. Len(t) : i \in T <=> t[i] = x
  BY PlacesAre
<1> HIDE DEF T
<1>4. f \in Bijection(T, B)
  <2>1. \A i \in T : n + i \in B
    <3> TAKE i \in T
    <3>1. i \in 1 .. Len(t) /\ t[i] = x
      BY <1>3
    <3>2. n + i \in n + 1 .. n + Len(t) /\ (n + i) - n = i
      BY <1>1, <3>1
    <3> QED BY <3>1, <3>2
  <2>2. \A i, j \in T : n + i = n + j => i = j
    BY <1>1, <1>3
  <2>3. \A b \in B : \E i \in T : n + i = b
    <3> TAKE b \in B
    <3>1. b - n \in 1 .. Len(t) /\ n + (b - n) = b /\ t[b - n] = x
      BY <1>1
    <3> QED BY <3>1, <1>3
  <2> HIDE DEF B
  <2>4. f \in [T -> B] /\ \A i \in T : f[i] = n + i
    BY <2>1
  <2> HIDE DEF f
  <2>5. \A i, j \in T : f[i] = f[j] => i = j
    BY <2>2, <2>4
  <2>6. \A b \in B : \E i \in T : f[i] = b
    BY <2>3, <2>4
  <2> QED BY <2>4, <2>5, <2>6, Fun_IsBij
<1>5. IsFiniteSet(B) /\ Cardinality(B) = Cardinality(T)
  <2>1. ExistsBijection(T, B)
    BY <1>4 DEF ExistsBijection
  <2> QED BY <2>1, <1>3, FS_Bijection
<1>6. IsFiniteSet(Where(x, s)) /\ Where(x, s) \subseteq 1 .. n
      /\ \A i \in 1 .. n : i \in Where(x, s) <=> s[i] = x
  BY PlacesAre
<1>7. Where(x, s \o t) = Where(x, s) \cup B
  <2>1. \A i : i \in Where(x, s \o t) <=> i \in 1 .. n + Len(t) /\ (s \o t)[i] = x
    BY <1>2 DEF Where
  <2>2. \A i \in 1 .. n + Len(t) : i \in 1 .. n \/ i \in n + 1 .. n + Len(t)
    BY <1>1
  <2>3. \A i \in 1 .. n : i \in 1 .. n + Len(t) /\ i <= n
    BY <1>1
  <2>4. \A i \in n + 1 .. n + Len(t) : i \in 1 .. n + Len(t) /\ ~(i <= n)
    BY <1>1
  <2> QED BY <1>2, <1>6, <2>1, <2>2, <2>3, <2>4
<1>8. Where(x, s) \cap B = {}
  BY <1>1, <1>6
<1>9. Cardinality(Where(x, s \o t)) = Cardinality(Where(x, s)) + Cardinality(B)
  <2>1. Cardinality(Where(x, s) \cap B) = 0
    BY <1>8, FS_EmptySet
  <2>2. Cardinality(Where(x, s)) \in Nat /\ Cardinality(B) \in Nat
    BY <1>5, <1>6, FS_CardinalityType
  <2> DEFINE W == Where(x, s)
  <2>3. IsFiniteSet(W) /\ IsFiniteSet(B)
    BY <1>5, <1>6
  <2> HIDE DEF W, B
  <2>4. Cardinality(W \cup B) = Cardinality(W) + Cardinality(B) - Cardinality(W \cap B)
    BY <2>3, FS_Union
  <2> QED BY <1>7, <2>1, <2>2, <2>4 DEF W
<1> QED BY <1>5, <1>9 DEF Places, Where, T

(* One more, at the end or in front. *)
One(x, y) == IF x = y THEN 1 ELSE 0

LEMMA PlacesOne == \A x, y : Places(x, <<y>>) = One(x, y)
<1> TAKE x, y
<1>1. Where(x, <<y>>) = IF x = y THEN {1} ELSE {}
  BY DEF Where
<1> QED BY <1>1, FS_EmptySet, FS_Singleton DEF Places, Where, One

LEMMA PlacesAppended ==
  ASSUME NEW S, NEW s \in Seq(S), NEW y \in S, NEW x
  PROVE  Places(x, Append(s, y)) = Places(x, s) + One(x, y)
<1>1. Append(s, y) = s \o <<y>> /\ <<y>> \in Seq(S)
  BY AppendIsConcat
<1> QED BY <1>1, PlacesJoined, PlacesOne

LEMMA PlacesOfHead ==
  ASSUME NEW S, NEW s \in Seq(S), s # <<>>, NEW x
  PROVE  Places(x, s) = One(x, Head(s)) + Places(x, Tail(s))
<1>1. /\ Head(s) \in S /\ Tail(s) \in Seq(S) /\ Len(Tail(s)) = Len(s) - 1
      /\ \A i \in 1 .. Len(Tail(s)) : Tail(s)[i] = s[i + 1]
  BY HeadTailProperties
<1> DEFINE h == <<Head(s)>>
           t == Tail(s)
<1>2. h \in Seq(S) /\ Len(h) = 1 /\ h[1] = s[1]
  BY <1>1
<1>3. Len(s) \in Nat /\ Len(s) >= 1
  BY EmptySeq, LenProperties
<1> HIDE DEF h, t
<1>4. /\ h \o t \in Seq(S) /\ Len(h \o t) = 1 + Len(t)
      /\ \A i \in 1 .. 1 + Len(t) : (h \o t)[i] = IF i <= 1 THEN h[i] ELSE t[i - 1]
  <2>1. t \in Seq(S)
    BY <1>1 DEF t
  <2>2. /\ h \o t \in Seq(S) /\ Len(h \o t) = Len(h) + Len(t)
        /\ \A i \in 1 .. Len(h) + Len(t) : (h \o t)[i] = IF i <= Len(h) THEN h[i] ELSE t[i - Len(h)]
    BY ONLY <1>2, <2>1, ConcatProperties
  <2> QED BY <1>2, <2>2
<1>5. Len(h \o t) = Len(s) /\ \A i \in 1 .. Len(s) : (h \o t)[i] = s[i]
  <2>1. 1 + Len(t) = Len(s)
    BY <1>1, <1>3 DEF t
  <2>2. ASSUME NEW i \in 1 .. Len(s)
        PROVE  (h \o t)[i] = s[i]
    <3>1. CASE i = 1
      BY <3>1, <2>1, <1>2, <1>3, <1>4
    <3>2. CASE i # 1
      <4>1. i - 1 \in 1 .. Len(t) /\ (i - 1) + 1 = i /\ ~(i <= 1)
        BY <3>2, <2>1, <1>3
      <4> QED BY <4>1, <2>1, <1>1, <1>4 DEF t
    <3> QED BY <3>1, <3>2
  <2> QED BY <2>1, <2>2, <1>4
<1>6. s = h \o t
  BY <1>4, <1>5, SeqEqual
<1>7. Places(x, h \o t) = Places(x, h) + Places(x, t)
  BY <1>1, <1>2, PlacesJoined DEF t
<1> QED BY <1>6, <1>7, PlacesOne DEF h, t
-----------------------------------------------------------------------------
(* The places of x in the array a, and those elsewhere.                    *)
ItemsAt(O, a) == IF a \in DOMAIN O THEN O[a].items ELSE <<>>
Within(O, S) == \A b \in DOMAIN O : O[b].items \in Seq(S)
There(O, a, x) == {a} \X Where(x, ItemsAt(O, a))
Elsewhere(O, a, x) == {p \in PlacesOf(O, x) : p[1] # a}

LEMMA SlotsAre ==
  ASSUME NEW O
  PROVE  /\ \A p \in Slots(O) : p[1] \in DOMAIN O /\ p[2] \in DOMAIN O[p[1]].items
                                /\ p = <<p[1], p[2]>>
         /\ \A a \in DOMAIN O : \A i \in DOMAIN O[a].items : <<a, i>> \in Slots(O)
BY DEF Slots

LEMMA PlacesSplit ==
  ASSUME NEW S, NEW O, NEW a, NEW x, IsFiniteSet(Slots(O)), ItemsAt(O, a) \in Seq(S)
  PROVE  /\ IsFiniteSet(Elsewhere(O, a, x)) /\ Cardinality(Elsewhere(O, a, x)) \in Nat
         /\ Cardinality(PlacesOf(O, x))
              = Cardinality(Elsewhere(O, a, x)) + Places(x, ItemsAt(O, a))
         /\ Places(x, ItemsAt(O, a)) \in Nat
<1> DEFINE E == Elsewhere(O, a, x)
           W == Where(x, ItemsAt(O, a))
           H == There(O, a, x)
           f == [i \in W |-> <<a, i>>]
<1>1. IsFiniteSet(E)
  <2>1. E \in SUBSET Slots(O)
    BY DEF Elsewhere, PlacesOf
  <2> QED BY <2>1, FS_Subset
<1>2. IsFiniteSet(W) /\ Places(x, ItemsAt(O, a)) = Cardinality(W) /\ Cardinality(W) \in Nat
  BY PlacesAre
<1>3. f \in Bijection(W, H)
  <2>1. f \in [W -> H]
    BY DEF There
  <2>2. \A i, j \in W : f[i] = f[j] => i = j
    OBVIOUS
  <2>3. \A h \in H : \E i \in W : f[i] = h
    BY DEF There
  <2> HIDE DEF f, W, H
  <2> QED BY <2>1, <2>2, <2>3, Fun_IsBij
<1> HIDE DEF f
<1>4. IsFiniteSet(H) /\ Cardinality(H) = Cardinality(W)
  <2>1. ExistsBijection(W, H)
    BY <1>3 DEF ExistsBijection
  <2> QED BY <2>1, <1>2, FS_Bijection
<1>5. PlacesOf(O, x) = E \cup H
  <2>1. ASSUME NEW p \in PlacesOf(O, x)
        PROVE  p \in E \cup H
    <3>1. p \in Slots(O) /\ O[p[1]].items[p[2]] = x
      BY DEF PlacesOf
    <3>2. CASE p[1] = a
      BY <3>1, <3>2, SlotsAre DEF There, Where, ItemsAt
    <3>3. CASE p[1] # a
      BY <3>3 DEF Elsewhere
    <3> QED BY <3>2, <3>3
  <2>2. ASSUME NEW i \in W
        PROVE  <<a, i>> \in PlacesOf(O, x)
    <3>1. a \in DOMAIN O /\ i \in DOMAIN O[a].items /\ O[a].items[i] = x
      BY DEF Where, ItemsAt
    <3> QED BY <3>1, SlotsAre DEF PlacesOf
  <2>3. H \subseteq PlacesOf(O, x)
    BY <2>2 DEF There
  <2>4. E \subseteq PlacesOf(O, x)
    BY DEF Elsewhere
  <2> QED BY <2>1, <2>3, <2>4
<1>6. E \cap H = {}
  BY DEF Elsewhere, There
<1>7. Cardinality(E \cap H) = 0 /\ Cardinality(E) \in Nat /\ Cardinality(H) \in Nat
  BY <1>1, <1>4, <1>6, FS_EmptySet, FS_CardinalityType
<1> HIDE DEF E, H, W
<1>8. Cardinality(E \cup H) = Cardinality(E) + Cardinality(H) - Cardinality(E \cap H)
  BY <1>1, <1>4, FS_Union
<1> QED BY <1>1, <1>2, <1>4, <1>5, <1>7, <1>8 DEF E

(* When only the items of a are others, the places of each object change   *)
(* by those.                                                               *)
OnlyAt(O, N, a) == \A b : b # a => ItemsAt(N, b) = ItemsAt(O, b)

LEMMA ElsewhereKept ==
  ASSUME NEW O, NEW N, NEW a, OnlyAt(O, N, a), NEW x
  PROVE  Elsewhere(N, a, x) \subseteq Elsewhere(O, a, x)
<1>1. ASSUME NEW p \in Elsewhere(N, a, x)
      PROVE  p \in Elsewhere(O, a, x)
  <2>1. p \in Slots(N) /\ N[p[1]].items[p[2]] = x /\ p[1] # a
    BY DEF Elsewhere, PlacesOf
  <2>2. p[1] \in DOMAIN N /\ p[2] \in DOMAIN N[p[1]].items /\ p = <<p[1], p[2]>>
    BY <2>1, SlotsAre
  <2>3. ItemsAt(O, p[1]) = N[p[1]].items
    BY <2>1, <2>2 DEF OnlyAt, ItemsAt
  <2>4. p[1] \in DOMAIN O
    BY <2>2, <2>3 DEF ItemsAt
  <2>5. O[p[1]].items = N[p[1]].items
    BY <2>3, <2>4 DEF ItemsAt
  <2>6. p \in Slots(O)
    BY <2>2, <2>4, <2>5, SlotsAre
  <2> QED BY <2>1, <2>5, <2>6 DEF Elsewhere, PlacesOf
<1> QED BY <1>1

LEMMA PlacesChange ==
  ASSUME NEW S, NEW O, NEW N, NEW a, IsFiniteSet(Slots(O)), OnlyAt(O, N, a),
         ItemsAt(O, a) \in Seq(S), ItemsAt(N, a) \in Seq(S)
  PROVE  /\ IsFiniteSet(Slots(N))
         /\ \A x : /\ Cardinality(PlacesOf(O, x)) \in Nat /\ Cardinality(PlacesOf(N, x)) \in Nat
                   /\ Cardinality(PlacesOf(N, x)) + Places(x, ItemsAt(O, a))
                        = Cardinality(PlacesOf(O, x)) + Places(x, ItemsAt(N, a))
<1> DEFINE D == DOMAIN ItemsAt(N, a)
<1>1. OnlyAt(N, O, a)
  BY DEF OnlyAt
<1>2. IsFiniteSet(Slots(N))
  <2>1. D = 1 .. Len(ItemsAt(N, a)) /\ Len(ItemsAt(N, a)) \in Nat
    OBVIOUS
  <2>2. IsFiniteSet(D)
    BY <2>1, FS_Interval
  <2>3. IsFiniteSet({a} \X D)
    BY <2>2, FS_Singleton, FS_Product
  <2>4. IsFiniteSet(Slots(O) \cup ({a} \X D))
    BY <2>3, FS_Union
  <2>5. ASSUME NEW p \in Slots(N)
        PROVE  p \in Slots(O) \cup ({a} \X D)
    <3>1. p[1] \in DOMAIN N /\ p[2] \in DOMAIN N[p[1]].items /\ p = <<p[1], p[2]>>
      BY SlotsAre
    <3>2. CASE p[1] = a
      BY <3>1, <3>2 DEF ItemsAt
    <3>3. CASE p[1] # a
      <4>1. p \in Elsewhere(N, a, N[p[1]].items[p[2]])
        BY <3>3 DEF Elsewhere, PlacesOf
      <4> QED BY <4>1, ElsewhereKept DEF Elsewhere, PlacesOf
    <3> QED BY <3>2, <3>3
  <2>6. Slots(N) \in SUBSET (Slots(O) \cup ({a} \X D))
    BY <2>5
  <2> QED BY <2>4, <2>6, FS_Subset
<1>3. ASSUME NEW x
      PROVE  /\ Cardinality(PlacesOf(O, x)) \in Nat /\ Cardinality(PlacesOf(N, x)) \in Nat
             /\ Cardinality(PlacesOf(N, x)) + Places(x, ItemsAt(O, a))
                  = Cardinality(PlacesOf(O, x)) + Places(x, ItemsAt(N, a))
  <2>1. Elsewhere(N, a, x) = Elsewhere(O, a, x)
    <3>1. Elsewhere(N, a, x) \subseteq Elsewhere(O, a, x)
      BY ElsewhereKept
    <3>2. Elsewhere(O, a, x) \subseteq Elsewhere(N, a, x)
      BY <1>1, ElsewhereKept
    <3> QED BY <3>1, <3>2
  <2>2. /\ Cardinality(Elsewhere(O, a, x)) \in Nat /\ Places(x, ItemsAt(O, a)) \in Nat
        /\ Cardinality(PlacesOf(O, x))
             = Cardinality(Elsewhere(O, a, x)) + Places(x, ItemsAt(O, a))
    BY PlacesSplit
  <2>3. /\ Places(x, ItemsAt(N, a)) \in Nat
        /\ Cardinality(PlacesOf(N, x))
             = Cardinality(Elsewhere(N, a, x)) + Places(x, ItemsAt(N, a))
    BY <1>2, PlacesSplit
  <2> QED BY <2>1, <2>2, <2>3
<1> QED BY <1>2, <1>3
-----------------------------------------------------------------------------
(* What can be reached from R: R, what its objects have, and no more.      *)
ItemsIn(O) == \A b \in DOMAIN O : ItemsOf(O, b) \subseteq DOMAIN O

LEMMA ReachLeast ==
  ASSUME NEW O, NEW R, NEW S \in Closed(O, R)
  PROVE  Reach(O, R) \subseteq S
BY DEF Reach

LEMMA ReachHas ==
  ASSUME NEW O, NEW R \in SUBSET DOMAIN O, ItemsIn(O)
  PROVE  /\ R \subseteq Reach(O, R) /\ Reach(O, R) \subseteq DOMAIN O
         /\ \A b \in Reach(O, R) : ItemsOf(O, b) \subseteq Reach(O, R)
         /\ Reach(O, R) \in Closed(O, R)
<1> DEFINE C == Closed(O, R)
<1>1. \A S \in C : S \subseteq DOMAIN O /\ R \subseteq S /\ \A b \in S : ItemsOf(O, b) \subseteq S
  BY DEF Closed
<1>2. \A y : y \in Reach(O, R) <=> y \in DOMAIN O /\ \A S \in C : y \in S
  BY DEF Reach
<1> HIDE DEF C
<1>3. R \subseteq Reach(O, R) /\ Reach(O, R) \subseteq DOMAIN O
  BY <1>1, <1>2
<1>4. ASSUME NEW b \in Reach(O, R), NEW y \in ItemsOf(O, b)
      PROVE  y \in Reach(O, R)
  <2>1. y \in DOMAIN O
    BY <1>3 DEF ItemsIn
  <2>2. \A S \in C : y \in S
    BY <1>1, <1>2
  <2> QED BY <2>1, <2>2, <1>2
<1>5. Reach(O, R) \in Closed(O, R)
  BY <1>3, <1>4 DEF Closed
<1> QED BY <1>3, <1>4, <1>5

LEMMA ReachNothing == \A O : Reach(O, {}) = {}
<1> TAKE O
<1>1. {} \in Closed(O, {})
  BY DEF Closed
<1> QED BY <1>1, ReachLeast

(* Fewer objects, with no more items each, reach no more. *)
Fewer(N, O) == /\ DOMAIN N \subseteq DOMAIN O
               /\ \A b \in DOMAIN N : ItemsOf(N, b) \subseteq ItemsOf(O, b)

LEMMA ReachLess ==
  ASSUME NEW O, NEW N, NEW R \in SUBSET DOMAIN O, NEW Q \in SUBSET DOMAIN N,
         ItemsIn(O), ItemsIn(N), Fewer(N, O), Q \subseteq Reach(O, R)
  PROVE  Reach(N, Q) \subseteq Reach(O, R)
<1> DEFINE S == Reach(O, R) \cap DOMAIN N
<1>1. \A b \in Reach(O, R) : ItemsOf(O, b) \subseteq Reach(O, R)
  BY ReachHas
<1>2. S \in SUBSET DOMAIN N /\ Q \subseteq S
  OBVIOUS
<1>3. \A b \in S : ItemsOf(N, b) \subseteq S
  BY <1>1 DEF Fewer, ItemsIn
<1>4. S \in Closed(N, Q)
  BY <1>2, <1>3 DEF Closed
<1> QED BY <1>4, ReachLeast

(* No array has itself among the objects that can be reached from it: in   *)
(* every set of objects there is one that no array of the set has.         *)
Acyclic(O) ==
  \A S \in SUBSET DOMAIN O : S # {} => \E x \in S : \A b \in S : x \notin ItemsOf(O, b)

LEMMA FewerAcyclic ==
  ASSUME NEW O, NEW N, Fewer(N, O), Acyclic(O)
  PROVE  Acyclic(N)
<1> SUFFICES ASSUME NEW S \in SUBSET DOMAIN N, S # {}
             PROVE  \E x \in S : \A b \in S : x \notin ItemsOf(N, b)
  BY DEF Acyclic
<1>1. S \in SUBSET DOMAIN O
  BY DEF Fewer
<1>2. PICK x \in S : \A b \in S : x \notin ItemsOf(O, b)
  BY <1>1 DEF Acyclic
<1> QED BY <1>2 DEF Fewer

(* A new object without items changes nothing, *)
LEMMA NewAcyclic ==
  ASSUME NEW O, NEW N, NEW z, ItemsIn(O), Acyclic(O), z \notin DOMAIN O,
         DOMAIN N = DOMAIN O \cup {z}, ItemsOf(N, z) = {},
         \A b \in DOMAIN O : ItemsOf(N, b) = ItemsOf(O, b)
  PROVE  Acyclic(N)
<1> SUFFICES ASSUME NEW S \in SUBSET DOMAIN N, S # {}
             PROVE  \E x \in S : \A b \in S : x \notin ItemsOf(N, b)
  BY DEF Acyclic
<1>1. CASE z \in S
  <2>1. \A b \in S : z \notin ItemsOf(N, b)
    BY DEF ItemsIn
  <2> QED BY <1>1, <2>1
<1>2. CASE z \notin S
  <2>1. S \in SUBSET DOMAIN O
    BY <1>2
  <2>2. PICK x \in S : \A b \in S : x \notin ItemsOf(O, b)
    BY <2>1 DEF Acyclic
  <2> QED BY <2>1, <2>2
<1> QED BY <1>1, <1>2

(* nor does x in an array that cannot be reached from it. *)
LEMMA ItemAcyclic ==
  ASSUME NEW O, NEW N, NEW a, NEW x \in DOMAIN O, ItemsIn(O), Acyclic(O),
         a \notin Reach(O, {x}), DOMAIN N = DOMAIN O,
         \A b \in DOMAIN O : ItemsOf(N, b) \subseteq ItemsOf(O, b) \cup (IF b = a THEN {x} ELSE {})
  PROVE  Acyclic(N)
<1> DEFINE R == Reach(O, {x})
<1>1. x \in R /\ \A b \in R : ItemsOf(O, b) \subseteq R
  BY ReachHas
<1> HIDE DEF R
<1> SUFFICES ASSUME NEW S \in SUBSET DOMAIN O, S # {}
             PROVE  \E y \in S : \A b \in S : y \notin ItemsOf(N, b)
  BY DEF Acyclic
<1>2. CASE S \subseteq R
  <2>1. PICK y \in S : \A b \in S : y \notin ItemsOf(O, b)
    BY DEF Acyclic
  <2>2. a \notin S
    BY <1>2 DEF R
  <2> QED BY <2>1, <2>2
<1>3. CASE ~ (S \subseteq R)
  <2>1. PICK y \in S \ R : \A b \in S \ R : y \notin ItemsOf(O, b)
    BY <1>3 DEF Acyclic
  <2>2. \A b \in S \cap R : y \notin ItemsOf(O, b)
    BY <2>1, <1>1
  <2>3. y # x
    BY <2>1, <1>1
  <2> QED BY <2>1, <2>2, <2>3
<1> QED BY <1>2, <1>3
-----------------------------------------------------------------------------
(* The invariant: the types,                                               *)
ObjectWith(L) == [kind : {"string", "array"}, count : Nat, room : Nat, items : Seq(L),
                  null : BOOLEAN]
Given == {dels[i] : i \in DOMAIN dels}

ObjectsTyped ==
  /\ obj \in [Live -> ObjectWith(Live)]
  /\ Live \subseteq Ids /\ own \subseteq Live
  /\ dels \in Seq(Live)
  /\ lost \in [Ids -> Nat]
  /\ IsFiniteSet(Slots(obj))

(* what is flattened, which leaves nothing for object_delete to do,        *)
FlatTyped == \/ flat = NoFlat
             \/ /\ flat \in [to : own \cap ObjArrays, rest : Seq(Live \ own)]
                /\ flat.rest # <<>> /\ dels = <<>>

(* the counts,                                                             *)
Counts == \A x \in Live :
            obj[x].count = lost[x] + Cardinality(PlacesOf(obj, x)) + Places(x, dels)
OwnUncounted == \A x \in own : obj[x].count = 0
LostLive == \A x \in Ids \ Live : lost[x] = 0

(* no cycles, and what is left where an append failed.                     *)
StringsEmpty == \A x \in Live : obj[x].kind = "string" => obj[x].items = <<>> /\ ~ obj[x].null
SomeNull(O) == \E a \in DOMAIN O : O[a].null
Excused == \A x \in Live \ own : obj[x].count = 0 => SomeNull(obj)
DelsUsable == \A y \in Reach(obj, Given) : ~ obj[y].null

Booked == Counts /\ OwnUncounted /\ LostLive
Shaped == StringsEmpty /\ Acyclic(obj) /\ Excused /\ DelsUsable
ObjectsSound == ObjectsTyped /\ FlatTyped /\ Booked /\ Shaped

LEMMA ItemsWithin ==
  ASSUME NEW L, NEW O \in [L -> ObjectWith(L)]
  PROVE  /\ ItemsIn(O)
         /\ \A a \in L : O[a].items \in Seq(L) /\ ItemsAt(O, a) = O[a].items
                         /\ ItemsOf(O, a) \subseteq L
<1>1. \A a \in L : O[a].items \in Seq(L)
  BY DEF ObjectWith
<1>2. \A s \in Seq(L) : \A i \in DOMAIN s : s[i] \in L
  OBVIOUS
<1> QED BY <1>1, <1>2 DEF ItemsIn, ItemsOf, ItemsAt

(* An object that an array has is counted, and the program does not own it.*)
LEMMA ItemsCounted ==
  ASSUME ObjectsTyped, Booked, NEW a \in Live, NEW y \in ItemsOf(obj, a)
  PROVE  y \in Live \ own /\ obj[y].count > 0
<1>1. y \in Live
  BY ItemsWithin DEF ObjectsTyped
<1>2. PICK i \in DOMAIN obj[a].items : y = obj[a].items[i]
  BY DEF ItemsOf
<1>3. <<a, i>> \in PlacesOf(obj, y)
  BY <1>2, SlotsAre DEF PlacesOf, Live
<1>4. IsFiniteSet(PlacesOf(obj, y))
  <2>1. PlacesOf(obj, y) \in SUBSET Slots(obj)
    BY DEF PlacesOf
  <2> QED BY <2>1, FS_Subset DEF ObjectsTyped
<1>5. Cardinality(PlacesOf(obj, y)) \in Nat /\ Cardinality(PlacesOf(obj, y)) # 0
  BY <1>3, <1>4, FS_EmptySet, FS_CardinalityType
<1>6. lost[y] \in Nat /\ Places(y, dels) \in Nat
  BY <1>1, PlacesAre DEF ObjectsTyped
<1>7. obj[y].count > 0
  BY <1>1, <1>5, <1>6 DEF Booked, Counts
<1> QED BY <1>1, <1>7 DEF Booked, OwnUncounted

LEMMA NoObjectsSound == NoObjects => ObjectsSound
<1> SUFFICES ASSUME NoObjects
             PROVE  ObjectsSound
  OBVIOUS
<1>1. Live = {} /\ own = {} /\ dels = <<>> /\ flat = NoFlat /\ \A x \in Ids : lost[x] = 0
  BY DEF NoObjects, Live
<1>2. Slots(obj) = {}
  BY <1>1 DEF Slots, Live
<1>3. ObjectsTyped
  <2>1. obj \in [Live -> ObjectWith(Live)]
    BY <1>1 DEF NoObjects
  <2>2. lost \in [Ids -> Nat]
    BY DEF NoObjects
  <2> QED BY <1>1, <1>2, <2>1, <2>2, FS_EmptySet DEF ObjectsTyped
<1>4. Booked
  BY <1>1 DEF Booked, Counts, OwnUncounted, LostLive
<1>5. Acyclic(obj)
  BY <1>1 DEF Acyclic, Live
<1>6. Given = {}
  BY <1>1 DEF Given
<1>7. Shaped
  BY <1>1, <1>5, <1>6, ReachNothing DEF Shaped, StringsEmpty, Excused, DelsUsable
<1> QED BY <1>1, <1>3, <1>4, <1>7 DEF ObjectsSound, FlatTyped
-----------------------------------------------------------------------------
(* A new object.                                                           *)
FlatFor(x, kind) == \/ flat' = NoFlat
                    \/ /\ kind = "array" /\ flat' \in [to : {x}, rest : Seq(Live \ own)]
                       /\ flat'.rest # <<>>

LEMMA CreatedSound ==
  ASSUME ObjectsSound, NEW x, NEW kind \in {"string", "array"}, NEW room \in Nat,
         Created(x, kind, room), FlatFor(x, kind)
  PROVE  ObjectsSound'
<1> DEFINE o == NewObject(kind, room)
           L == Live \cup {x}
<1>1. x \in Ids /\ x \notin Live /\ dels = <<>> /\ dels' = <<>> /\ lost' = lost
      /\ own' = own \cup {x}
  BY DEF Created, FreshIds, NoWork
<1>2. obj \in [Live -> ObjectWith(Live)]
  BY DEF ObjectsSound, ObjectsTyped
<1>3. /\ DOMAIN obj' = L /\ Live' = L /\ obj'[x] = o
      /\ \A y \in Live : obj'[y] = obj[y]
  <2>1. obj' = [y \in L |-> IF y = x THEN o ELSE obj[y]]
    BY DEF Created, Added
  <2> QED BY <1>1, <2>1 DEF Live
<1>4. o \in ObjectWith(L) /\ o.items = <<>> /\ o.count = 0 /\ o.kind = kind /\ ~ o.null
  <2>1. <<>> \in Seq(L)
    OBVIOUS
  <2> QED BY <2>1 DEF NewObject, ObjectWith
<1> HIDE DEF o
<1>5. obj' \in [L -> ObjectWith(L)]
  <2>1. obj' = [y \in L |-> obj'[y]]
    BY DEF Created, Added
  <2>2. ASSUME NEW y \in Live
        PROVE  obj'[y] \in ObjectWith(L)
    <3>1. obj[y] \in ObjectWith(Live)
      BY <1>2
    <3>2. \A s \in Seq(Live) : s \in Seq(L)
      BY SeqMonotonic
    <3>3. obj[y] \in ObjectWith(L)
      BY <3>1, <3>2 DEF ObjectWith
    <3> QED BY <3>3, <1>3
  <2>3. \A y \in L : obj'[y] \in ObjectWith(L)
    BY <2>2, <1>3, <1>4
  <2> QED BY <2>1, <2>3
<1>6. \A b : ItemsAt(obj', b) = ItemsAt(obj, b)
  BY <1>1, <1>3, <1>4 DEF ItemsAt, Live
<1>7. /\ IsFiniteSet(Slots(obj'))
      /\ \A y : Cardinality(PlacesOf(obj', y)) = Cardinality(PlacesOf(obj, y))
                /\ Cardinality(PlacesOf(obj, y)) \in Nat
  <2>2. ItemsAt(obj, x) = <<>> /\ ItemsAt(obj', x) = <<>> /\ <<>> \in Seq(Live)
    BY <1>1, <1>6 DEF ItemsAt, Live
  <2>3. IsFiniteSet(Slots(obj))
    BY DEF ObjectsSound, ObjectsTyped
  <2>4. ItemsAt(obj, x) \in Seq(Live) /\ ItemsAt(obj', x) \in Seq(Live)
    BY <2>2
  <2>5. OnlyAt(obj, obj', x)
    BY <1>6 DEF OnlyAt
  <2>6. /\ IsFiniteSet(Slots(obj'))
        /\ \A y : /\ Cardinality(PlacesOf(obj, y)) \in Nat /\ Cardinality(PlacesOf(obj', y)) \in Nat
                  /\ Cardinality(PlacesOf(obj', y)) + Places(y, ItemsAt(obj, x))
                       = Cardinality(PlacesOf(obj, y)) + Places(y, ItemsAt(obj', x))
    BY ONLY <2>3, <2>4, <2>5, PlacesChange
  <2>7. ASSUME NEW y
        PROVE  Cardinality(PlacesOf(obj', y)) = Cardinality(PlacesOf(obj, y))
    BY <2>2, <2>6, PlacesEmpty
  <2> QED BY <2>6, <2>7
<1>8. ObjectsTyped'
  <2>1. lost' \in [Ids -> Nat] /\ Live \subseteq Ids /\ own \subseteq Live
    BY <1>1 DEF ObjectsSound, ObjectsTyped
  <2>2. dels' \in Seq(L)
    BY <1>1
  <2> QED BY <1>1, <1>3, <1>5, <1>7, <2>1, <2>2 DEF ObjectsTyped
<1>9. FlatTyped'
  <2>1. CASE flat' = NoFlat
    BY <2>1 DEF FlatTyped
  <2>2. CASE kind = "array" /\ flat' \in [to : {x}, rest : Seq(Live \ own)] /\ flat'.rest # <<>>
    <3>1. x \in own' /\ x \in ObjArrays'
      BY <1>1, <1>3, <1>4, <2>2 DEF ObjArrays
    <3>2. Live \ own \subseteq Live' \ own'
      BY <1>1, <1>3
    <3>3. \A s \in Seq(Live \ own) : s \in Seq(Live' \ own')
      BY <3>2, SeqMonotonic
    <3> QED BY <1>1, <2>2, <3>1, <3>3 DEF FlatTyped
  <2> QED BY <2>1, <2>2 DEF FlatFor
<1>10. Booked'
  <2>1. Counts /\ OwnUncounted /\ LostLive
    BY DEF ObjectsSound, Booked
  <2>2. PlacesOf(obj, x) = {}
    <3>1. \A p \in Slots(obj) : obj[p[1]].items[p[2]] \in Live
      <4> TAKE p \in Slots(obj)
      <4>1. p[1] \in Live /\ p[2] \in DOMAIN obj[p[1]].items
        BY SlotsAre DEF Live
      <4>2. obj[p[1]].items[p[2]] \in ItemsOf(obj, p[1])
        BY <4>1 DEF ItemsOf
      <4> QED BY <4>1, <4>2, <1>2, ItemsWithin
    <3> QED BY <1>1, <3>1 DEF PlacesOf
  <2>3. Cardinality(PlacesOf(obj, x)) = 0
    BY <2>2, FS_EmptySet
  <2>4. lost[x] = 0
    BY <1>1, <2>1 DEF LostLive
  <2>5. Counts'
    <3> SUFFICES ASSUME NEW y \in L
                 PROVE  obj'[y].count = lost'[y] + Cardinality(PlacesOf(obj', y)) + Places(y, dels')
      BY <1>3 DEF Counts
    <3>1. CASE y = x
      BY <3>1, <1>1, <1>3, <1>4, <1>7, <2>3, <2>4, PlacesEmpty
    <3>2. CASE y \in Live
      BY <3>2, <1>1, <1>3, <1>7, <2>1 DEF Counts
    <3> QED BY <3>1, <3>2
  <2>6. OwnUncounted'
    <3>1. \A y \in own : y \in Live
      BY DEF ObjectsSound, ObjectsTyped
    <3> QED BY <1>1, <1>3, <1>4, <2>1, <3>1 DEF OwnUncounted
  <2>7. LostLive'
    BY <1>1, <1>3, <2>1 DEF LostLive
  <2> QED BY <2>5, <2>6, <2>7 DEF Booked
<1>11. Shaped'
  <2>1. StringsEmpty /\ Acyclic(obj) /\ Excused
    BY DEF ObjectsSound, Shaped
  <2>2. StringsEmpty'
    BY <1>3, <1>4, <2>1 DEF StringsEmpty
  <2>3. Acyclic(obj')
    <3>1. ItemsOf(obj', x) = {}
      BY <1>3, <1>4 DEF ItemsOf
    <3>2. \A b \in Live : ItemsOf(obj', b) = ItemsOf(obj, b)
      BY <1>3 DEF ItemsOf
    <3>3. ItemsIn(obj)
      BY <1>2, ItemsWithin
    <3>4. x \notin DOMAIN obj /\ DOMAIN obj' = DOMAIN obj \cup {x}
      BY <1>1, <1>3 DEF Live
    <3> QED BY <2>1, <3>1, <3>2, <3>3, <3>4, NewAcyclic DEF Live
  <2>4. Excused'
    <3>1. SomeNull(obj) => SomeNull(obj')
      BY <1>3 DEF SomeNull, Live
    <3> QED BY <1>1, <1>3, <2>1, <3>1 DEF Excused
  <2>5. DelsUsable'
    <3>1. Given' = {}
      BY <1>1 DEF Given
    <3> QED BY <3>1, ReachNothing DEF DelsUsable
  <2> QED BY <2>2, <2>3, <2>4, <2>5 DEF Shaped
<1> QED BY <1>8, <1>9, <1>10, <1>11 DEF ObjectsSound
-----------------------------------------------------------------------------
(* An append: taken, failed, or without a subarray to take the item.       *)
Taken(a, x) == obj' = WithItem(a, x) /\ lost' = lost
AppendFailed(a, x) == /\ obj' = Failing(a, x)
                /\ lost' = [y \in Ids |-> lost[y] + Places(y, Append(obj[a].items, x))]

LEMMA PutIs ==
  ASSUME NEW L, NEW R, NEW O \in [L -> R], NEW a \in L, NEW o \in R
  PROVE  LET N == [O EXCEPT ![a] = o]
         IN  N \in [L -> R] /\ N[a] = o /\ \A b \in L : b # a => N[b] = O[b]
OBVIOUS

LEMMA CountedIs ==
  ASSUME obj \in [Live -> ObjectWith(Live)], NEW a, NEW x \in Live
  PROVE  LET C == Counted(a, x)
         IN  /\ C \in [Live -> ObjectWith(Live)] /\ C[x].count = obj[x].count + 1
             /\ \A b \in Live : b # x => C[b] = obj[b]
             /\ C[x].kind = obj[x].kind /\ C[x].null = obj[x].null
             /\ C[x].items = obj[x].items
<1> DEFINE n == obj[x].count + 1
           o == [obj[x] EXCEPT !.count = n]
<1>1. obj[x] \in ObjectWith(Live) /\ n \in Nat
  BY DEF ObjectWith
<1> HIDE DEF n
<1>2. /\ o \in ObjectWith(Live) /\ o.count = n
      /\ o.kind = obj[x].kind /\ o.null = obj[x].null /\ o.items = obj[x].items
  BY <1>1 DEF ObjectWith
<1>3. Counted(a, x) = [obj EXCEPT ![x] = o]
  BY DEF Counted, n
<1> HIDE DEF o
<1> QED BY <1>2, <1>3, PutIs DEF n

LEMMA MoreRoomIs == \A n \in Nat : MoreRoom(n) \in Nat
<1> TAKE n \in Nat
<1>1. n \div 2 \in Nat
  OBVIOUS
<1> QED BY <1>1 DEF MoreRoom

LEMMA TakenIs ==
  ASSUME ObjectsTyped, NEW a \in Live, NEW x \in Live, a # x, obj' = WithItem(a, x)
  PROVE  /\ obj' \in [Live -> ObjectWith(Live)]
         /\ \A b \in Live : /\ obj'[b].kind = obj[b].kind /\ obj'[b].null = obj[b].null
                            /\ obj'[b].count = obj[b].count + One(b, x)
                            /\ b # a => obj'[b].items = obj[b].items
         /\ obj'[a].items = Append(obj[a].items, x)
<1> DEFINE C == Counted(a, x)
           r == IF NoRoom(a) THEN MoreRoom(Len(obj[a].items)) ELSE obj[a].room
<1>1. obj \in [Live -> ObjectWith(Live)]
  BY DEF ObjectsTyped
<1>2. /\ C \in [Live -> ObjectWith(Live)] /\ C[x].count = obj[x].count + 1
      /\ \A b \in Live : b # x => C[b] = obj[b]
      /\ C[x].kind = obj[x].kind /\ C[x].null = obj[x].null /\ C[x].items = obj[x].items
  BY <1>1, CountedIs
<1>3. r \in Nat
  <2>1. Len(obj[a].items) \in Nat /\ obj[a].room \in Nat
    BY <1>1 DEF ObjectWith
  <2>2. MoreRoom(Len(obj[a].items)) \in Nat
    BY <2>1, MoreRoomIs
  <2> QED BY <2>1, <2>2
<1>4. Append(obj[a].items, x) \in Seq(Live)
  BY <1>1 DEF ObjectWith
<1>5. C[a] = obj[a]
  BY <1>2
<1>6. obj' = [C EXCEPT ![a].items = Append(obj[a].items, x), ![a].room = r]
  BY <1>2, <1>5 DEF WithItem
<1>7. /\ obj' \in [Live -> ObjectWith(Live)] /\ \A b \in Live : b # a => obj'[b] = C[b]
      /\ obj'[a].kind = obj[a].kind /\ obj'[a].null = obj[a].null
      /\ obj'[a].count = obj[a].count /\ obj'[a].items = Append(obj[a].items, x)
  <2> DEFINE s == Append(obj[a].items, x)
             o == [obj[a] EXCEPT !.items = s, !.room = r]
  <2>1. obj[a] \in ObjectWith(Live)
    BY <1>1
  <2> HIDE DEF C, r, s
  <2>2. s \in Seq(Live)
    BY <1>4 DEF s
  <2>3. /\ o \in ObjectWith(Live) /\ o.items = s /\ o.kind = obj[a].kind
        /\ o.null = obj[a].null /\ o.count = obj[a].count
    BY <1>3, <2>1, <2>2 DEF ObjectWith
  <2>4. obj' = [C EXCEPT ![a] = o]
    BY <1>2, <1>5, <1>6 DEF s
  <2> HIDE DEF o
  <2> QED BY <1>2, <2>3, <2>4, PutIs DEF s
<1> HIDE DEF C, r
<1>8. \A b \in Live : obj[b].count \in Nat
  BY <1>1 DEF ObjectWith
<1> QED BY <1>2, <1>7, <1>8 DEF One

LEMMA FailedIs ==
  ASSUME ObjectsTyped, NEW a \in Live, NEW x \in Live, a # x, obj' = Failing(a, x)
  PROVE  /\ obj' \in [Live -> ObjectWith(Live)]
         /\ \A b \in Live : /\ obj'[b].kind = obj[b].kind
                            /\ obj'[b].count = obj[b].count + One(b, x)
                            /\ b # a => obj'[b].items = obj[b].items /\ obj'[b].null = obj[b].null
         /\ obj'[a].items = <<>> /\ obj'[a].null
<1> DEFINE C == Counted(a, x)
<1>1. obj \in [Live -> ObjectWith(Live)]
  BY DEF ObjectsTyped
<1>2. /\ C \in [Live -> ObjectWith(Live)] /\ C[x].count = obj[x].count + 1
      /\ \A b \in Live : b # x => C[b] = obj[b]
      /\ C[x].kind = obj[x].kind /\ C[x].null = obj[x].null /\ C[x].items = obj[x].items
  BY <1>1, CountedIs
<1>3. <<>> \in Seq(Live)
  OBVIOUS
<1>4. C[a] = obj[a]
  BY <1>2
<1>5. obj' = [C EXCEPT ![a].items = <<>>, ![a].null = TRUE]
  BY DEF Failing
<1>6. /\ obj' \in [Live -> ObjectWith(Live)] /\ \A b \in Live : b # a => obj'[b] = C[b]
      /\ obj'[a].kind = obj[a].kind /\ obj'[a].null
      /\ obj'[a].count = obj[a].count /\ obj'[a].items = <<>>
  <2> DEFINE o == [obj[a] EXCEPT !.items = <<>>, !.null = TRUE]
  <2>1. obj[a] \in ObjectWith(Live)
    BY <1>1
  <2> HIDE DEF C
  <2>2. /\ o \in ObjectWith(Live) /\ o.items = <<>> /\ o.kind = obj[a].kind
        /\ o.null /\ o.count = obj[a].count
    BY <1>3, <2>1 DEF ObjectWith
  <2>3. obj' = [C EXCEPT ![a] = o]
    BY <1>2, <1>4, <1>5
  <2> HIDE DEF o
  <2> QED BY <1>2, <2>2, <2>3, PutIs
<1> HIDE DEF C
<1>7. \A b \in Live : obj[b].count \in Nat
  BY <1>1 DEF ObjectWith
<1> QED BY <1>2, <1>6, <1>7 DEF One

LEMMA CountsBalance ==
  ASSUME NEW c \in Int, NEW d \in Int, NEW l \in Int, NEW m \in Int, NEW p \in Int,
         NEW q \in Int, NEW u \in Int, NEW v \in Int, NEW w \in Int,
         c = l + p + 0, d = c + w, m + v = l + u + w, q + u = p + v
  PROVE  d = m + q + 0
OBVIOUS

(* In both cases the object is counted once more, for a place that it has  *)
(* or that is lost.                                                        *)
LEMMA AppendedCounts ==
  ASSUME ObjectsSound, NEW a \in Live, NEW x \in Live, a # x, dels = <<>>, dels' = <<>>,
         Taken(a, x) \/ AppendFailed(a, x)
  PROVE  /\ obj' \in [Live -> ObjectWith(Live)]
         /\ lost' \in [Ids -> Nat]
         /\ IsFiniteSet(Slots(obj'))
         /\ Counts' /\ LostLive'
<1> DEFINE s == obj[a].items
           t == obj'[a].items
<1>1. ObjectsTyped /\ obj \in [Live -> ObjectWith(Live)] /\ Counts /\ LostLive /\ Live \subseteq Ids
  BY DEF ObjectsSound, ObjectsTyped, Booked
<1>2. /\ obj' \in [Live -> ObjectWith(Live)]
      /\ \A b \in Live : /\ obj'[b].count = obj[b].count + One(b, x)
                         /\ b # a => obj'[b].items = obj[b].items
  <2>1. CASE Taken(a, x)
    BY <1>1, <2>1, TakenIs DEF Taken
  <2>2. CASE AppendFailed(a, x)
    BY <1>1, <2>2, FailedIs DEF AppendFailed
  <2> QED BY <2>1, <2>2
<1>3. s \in Seq(Live) /\ t \in Seq(Live) /\ Append(s, x) \in Seq(Live)
  BY <1>1, <1>2 DEF ObjectWith
<1>4. Live' = Live
  BY <1>2 DEF Live
<1>5. /\ IsFiniteSet(Slots(obj'))
      /\ \A y : /\ Cardinality(PlacesOf(obj, y)) \in Nat /\ Cardinality(PlacesOf(obj', y)) \in Nat
                /\ Cardinality(PlacesOf(obj', y)) + Places(y, s)
                     = Cardinality(PlacesOf(obj, y)) + Places(y, t)
  <2>1. IsFiniteSet(Slots(obj))
    BY <1>1 DEF ObjectsTyped
  <2>2. OnlyAt(obj, obj', a)
    BY <1>1, <1>2 DEF OnlyAt, ItemsAt
  <2>3. ItemsAt(obj, a) = s /\ ItemsAt(obj', a) = t
    BY <1>1, <1>2 DEF ItemsAt
  <2>4. ItemsAt(obj, a) \in Seq(Live) /\ ItemsAt(obj', a) \in Seq(Live)
    BY <1>3, <2>3
  <2>5. /\ IsFiniteSet(Slots(obj'))
        /\ \A y : /\ Cardinality(PlacesOf(obj, y)) \in Nat /\ Cardinality(PlacesOf(obj', y)) \in Nat
                  /\ Cardinality(PlacesOf(obj', y)) + Places(y, ItemsAt(obj, a))
                       = Cardinality(PlacesOf(obj, y)) + Places(y, ItemsAt(obj', a))
    BY ONLY <2>1, <2>2, <2>4, PlacesChange
  <2> QED BY <2>3, <2>5
<1> HIDE DEF s, t
<1>6. \A y : /\ Places(y, s) \in Nat /\ Places(y, t) \in Nat
             /\ Places(y, Append(s, x)) = Places(y, s) + One(y, x)
  BY <1>3, PlacesAre, PlacesAppended
<1>7. lost' \in [Ids -> Nat]
      /\ \A y \in Ids : lost'[y] + Places(y, t) = lost[y] + Places(y, s) + One(y, x)
  <2>1. lost \in [Ids -> Nat] /\ \A y : One(y, x) \in Nat
    BY <1>1 DEF ObjectsTyped, One
  <2>2. CASE Taken(a, x)
    <3>1. t = Append(s, x) /\ lost' = lost
      BY <1>1, <2>2, TakenIs DEF Taken, s, t
    <3>2. \A y \in Ids : lost[y] \in Nat
      BY <2>1
    <3> QED BY <2>1, <3>1, <3>2, <1>6
  <2>3. CASE AppendFailed(a, x)
    <3>1. t = <<>> /\ lost' = [y \in Ids |-> lost[y] + Places(y, Append(s, x))]
      BY <1>1, <2>3, FailedIs DEF AppendFailed, s, t
    <3>2. ASSUME NEW y \in Ids
          PROVE  /\ lost'[y] = lost[y] + (Places(y, s) + One(y, x)) /\ lost'[y] \in Nat
                 /\ lost'[y] + Places(y, t) = lost[y] + Places(y, s) + One(y, x)
      <4>1. lost'[y] = lost[y] + (Places(y, s) + One(y, x))
        BY <3>1, <1>6
      <4>2. lost[y] \in Nat /\ Places(y, s) \in Nat /\ One(y, x) \in Nat /\ Places(y, t) = 0
        BY <2>1, <3>1, <1>6, PlacesEmpty
      <4> QED BY <4>1, <4>2
    <3>3. lost' \in [Ids -> Nat]
      BY <3>1, <3>2
    <3> QED BY <3>2, <3>3
  <2> QED BY <2>2, <2>3
<1>8. Counts'
  <2> SUFFICES ASSUME NEW y \in Live
               PROVE  obj'[y].count = lost'[y] + Cardinality(PlacesOf(obj', y)) + Places(y, dels')
    BY <1>4 DEF Counts
  <2>1. obj[y].count = lost[y] + Cardinality(PlacesOf(obj, y)) + Places(y, dels)
    BY <1>1 DEF Counts
  <2>2. Places(y, dels) = 0 /\ Places(y, dels') = 0
    BY PlacesEmpty
  <2>3. obj'[y].count = obj[y].count + One(y, x) /\ One(y, x) \in Nat
    BY <1>2 DEF One
  <2>4. lost[y] \in Nat /\ lost'[y] \in Nat
    BY <1>1, <1>7 DEF ObjectsTyped
  <2>5. lost'[y] + Places(y, t) = lost[y] + Places(y, s) + One(y, x)
    BY <1>1, <1>7
  <2>6. /\ Cardinality(PlacesOf(obj, y)) \in Nat /\ Cardinality(PlacesOf(obj', y)) \in Nat
        /\ Cardinality(PlacesOf(obj', y)) + Places(y, s)
             = Cardinality(PlacesOf(obj, y)) + Places(y, t)
    BY <1>5
  <2>7. Places(y, s) \in Nat /\ Places(y, t) \in Nat
    BY <1>6
  <2>8. obj[y].count \in Nat /\ obj'[y].count \in Nat
    BY <1>1, <1>2 DEF ObjectWith
  <2>9. obj[y].count = lost[y] + Cardinality(PlacesOf(obj, y)) + 0
    BY <2>1, <2>2
  <2>10. obj'[y].count = lost'[y] + Cardinality(PlacesOf(obj', y)) + 0
    BY ONLY <2>3, <2>4, <2>5, <2>6, <2>7, <2>8, <2>9, CountsBalance
  <2> QED BY <2>2, <2>10
<1>9. LostLive'
  <2> SUFFICES ASSUME NEW y \in Ids \ Live
               PROVE  lost'[y] = 0
    BY <1>4 DEF LostLive
  <2>1. Places(y, s) = 0 /\ Places(y, t) = 0 /\ One(y, x) = 0
    <3>1. \A q \in Seq(Live) : \A i \in 1 .. Len(q) : q[i] # y
      OBVIOUS
    <3> QED BY <1>3, <3>1, PlacesAre DEF One
  <2>2. lost[y] = 0 /\ lost'[y] \in Nat
    BY <1>1, <1>7 DEF LostLive
  <2> QED BY <2>1, <2>2, <1>7
<1> QED BY <1>2, <1>5, <1>7, <1>8, <1>9
LEMMA AppendedSound ==
  ASSUME ObjectsSound, NEW a \in ObjArrays, NEW x \in Live, a \notin Reach(obj, {x}),
         Appended(a, x), dels = <<>>, dels' = <<>>, own' = own \ {x}
  PROVE  ObjectsTyped' /\ Booked' /\ Shaped' /\ Live' = Live /\ ObjArrays' = ObjArrays
<1>1. /\ ObjectsTyped /\ Booked /\ Counts /\ OwnUncounted /\ LostLive
      /\ StringsEmpty /\ Acyclic(obj) /\ Excused
  BY DEF ObjectsSound, Booked, Shaped
<1>2. obj \in [Live -> ObjectWith(Live)] /\ own \subseteq Live /\ a \in Live /\ ItemsIn(obj)
  BY <1>1, ItemsWithin DEF ObjectsTyped, ObjArrays
<1>3. a # x
  <2>1. x \in Reach(obj, {x})
    BY <1>2, ReachHas DEF Live
  <2> QED BY <2>1
<1>4. DelsUsable'
  <2>1. Given' = {}
    BY DEF Given
  <2> QED BY <2>1, ReachNothing DEF DelsUsable
<1>5. CASE Taken(a, x) \/ AppendFailed(a, x)
  <2>1. /\ obj' \in [Live -> ObjectWith(Live)] /\ lost' \in [Ids -> Nat]
        /\ IsFiniteSet(Slots(obj')) /\ Counts' /\ LostLive'
    BY <1>2, <1>3, <1>5, AppendedCounts
  <2>2. Live' = Live
    BY <2>1 DEF Live
  <2>3. ObjectsTyped'
    <3>1. Live \subseteq Ids /\ dels' \in Seq(Live)
      BY <1>1 DEF ObjectsTyped
    <3> QED BY <1>2, <2>1, <2>2, <3>1 DEF ObjectsTyped
  <2>4. /\ \A b \in Live : /\ obj'[b].kind = obj[b].kind
                           /\ obj'[b].count = obj[b].count + One(b, x)
                           /\ b # a => obj'[b].items = obj[b].items /\ obj'[b].null = obj[b].null
        /\ \/ obj'[a].items = Append(obj[a].items, x) /\ obj'[a].null = obj[a].null
           \/ obj'[a].items = <<>> /\ obj'[a].null
    <3>1. CASE Taken(a, x)
      BY <1>1, <1>2, <1>3, <3>1, TakenIs DEF Taken
    <3>2. CASE AppendFailed(a, x)
      BY <1>1, <1>2, <1>3, <3>2, FailedIs DEF AppendFailed
    <3> QED BY <1>5, <3>1, <3>2
  <2>5. OwnUncounted'
    <3>1. \A y \in own \ {x} : One(y, x) = 0 /\ obj[y].count = 0 /\ y \in Live
      BY <1>1, <1>2 DEF OwnUncounted, One
    <3>2. \A y \in own \ {x} : obj'[y].count = 0
      BY <2>4, <3>1
    <3> QED BY <3>2 DEF OwnUncounted
  <2>6. StringsEmpty'
    <3>1. obj[a].kind # "string"
      BY DEF ObjArrays
    <3> QED BY <1>1, <2>2, <2>4, <3>1 DEF StringsEmpty
  <2>7. Acyclic(obj')
    <3>1. DOMAIN obj' = DOMAIN obj
      BY <2>2 DEF Live
    <3>2. ASSUME NEW b \in DOMAIN obj
          PROVE  ItemsOf(obj', b) \subseteq ItemsOf(obj, b) \cup (IF b = a THEN {x} ELSE {})
      <4>1. CASE b # a
        BY <2>4, <4>1 DEF ItemsOf, Live
      <4>2. CASE b = a
        <5> DEFINE s == obj[a].items
        <5>1. s \in Seq(Live)
          BY <1>2 DEF ObjectWith
        <5>2. \A i \in DOMAIN Append(s, x) :
                Append(s, x)[i] = x \/ (i \in DOMAIN s /\ Append(s, x)[i] = s[i])
          BY <5>1
        <5>3. \A i \in DOMAIN <<>> : FALSE
          OBVIOUS
        <5> HIDE DEF s
        <5>4. obj'[a].items = Append(s, x) \/ obj'[a].items = <<>>
          BY <2>4 DEF s
        <5>5. ASSUME NEW i \in DOMAIN obj'[a].items
              PROVE  obj'[a].items[i] = x \/ \E j \in DOMAIN s : obj'[a].items[i] = s[j]
          BY <5>2, <5>3, <5>4
        <5> QED BY <4>2, <5>5 DEF ItemsOf, s
      <4> QED BY <4>1, <4>2
    <3>3. x \in DOMAIN obj
      BY DEF Live
    <3> QED BY ONLY <1>1, <1>2, <3>1, <3>2, <3>3, a \notin Reach(obj, {x}), ItemAcyclic
  <2>8. Excused'
    <3>1. SomeNull(obj) => SomeNull(obj')
      <4> SUFFICES ASSUME NEW b \in Live, obj[b].null
                   PROVE  SomeNull(obj')
        BY DEF SomeNull, Live
      <4>1. obj'[b].null
        BY <2>4
      <4> QED BY <2>2, <4>1 DEF SomeNull, Live
    <3>2. ASSUME NEW y \in Live \ (own \ {x}), obj'[y].count = 0
          PROVE  SomeNull(obj)
      <4>1. obj[y].count \in Nat /\ obj'[y].count = obj[y].count + One(y, x) /\ One(y, x) \in Nat
        BY <1>2, <2>4 DEF ObjectWith, One
      <4>2. obj[y].count = 0 /\ One(y, x) = 0
        BY <3>2, <4>1
      <4>3. y # x
        BY <4>2 DEF One
      <4> QED BY <1>1, <4>2, <4>3 DEF Excused
    <3> QED BY <2>2, <3>1, <3>2 DEF Excused
  <2>9. ObjArrays' = ObjArrays
    BY <2>2, <2>4 DEF ObjArrays
  <2> QED BY <1>4, <2>1, <2>2, <2>3, <2>5, <2>6, <2>7, <2>8, <2>9 DEF Booked, Shaped
<1>6. CASE obj[a].null /\ UNCHANGED <<obj, lost>>
  <2>1. obj' = obj /\ lost' = lost /\ dels' = dels /\ Live' = Live
    BY <1>6 DEF Live
  <2>2. ObjectsTyped'
    BY <1>1, <1>2, <2>1 DEF ObjectsTyped
  <2>3. Booked'
    BY <1>1, <2>1 DEF Booked, Counts, OwnUncounted, LostLive
  <2>4. SomeNull(obj')
    BY <1>2, <1>6, <2>1 DEF SomeNull, Live
  <2>5. Shaped'
    BY <1>1, <1>4, <2>1, <2>4 DEF Shaped, StringsEmpty, Excused
  <2> QED BY <2>1, <2>2, <2>3, <2>5 DEF ObjArrays
<1> QED BY <1>5, <1>6 DEF Appended, Taken, AppendFailed
-----------------------------------------------------------------------------
(* Steps that leave every object its items: only counts change.            *)
SameItems(N) == \A b \in Live : /\ N[b].kind = obj[b].kind /\ N[b].items = obj[b].items
                                /\ N[b].null = obj[b].null

LEMMA SameItemsKeep ==
  ASSUME ObjectsTyped, NEW N \in [Live -> ObjectWith(Live)], SameItems(N)
  PROVE  /\ IsFiniteSet(Slots(N)) /\ Fewer(N, obj) /\ ItemsIn(N)
         /\ \A y : /\ Cardinality(PlacesOf(N, y)) = Cardinality(PlacesOf(obj, y))
                   /\ Cardinality(PlacesOf(N, y)) \in Nat
<1>1. obj \in [Live -> ObjectWith(Live)] /\ IsFiniteSet(Slots(obj))
  BY DEF ObjectsTyped
<1>2. \A b : ItemsAt(N, b) = ItemsAt(obj, b)
  BY <1>1 DEF ItemsAt, SameItems
<1>3. \A b \in Live : ItemsOf(N, b) = ItemsOf(obj, b)
  BY DEF ItemsOf, SameItems
<1>4. PICK a : a \notin Live
  <2>1. \E a : a \notin Live
    BY NoSetContainsEverything
  <2> QED BY <2>1
<1>5. ItemsAt(obj, a) \in Seq(Live) /\ ItemsAt(N, a) \in Seq(Live)
  BY <1>1, <1>4 DEF ItemsAt
<1>6. OnlyAt(obj, N, a)
  BY <1>2 DEF OnlyAt
<1>7. /\ IsFiniteSet(Slots(N))
      /\ \A y : /\ Cardinality(PlacesOf(obj, y)) \in Nat /\ Cardinality(PlacesOf(N, y)) \in Nat
                /\ Cardinality(PlacesOf(N, y)) + Places(y, ItemsAt(obj, a))
                     = Cardinality(PlacesOf(obj, y)) + Places(y, ItemsAt(N, a))
  BY ONLY <1>1, <1>5, <1>6, PlacesChange
<1>8. ASSUME NEW y
      PROVE  Cardinality(PlacesOf(N, y)) = Cardinality(PlacesOf(obj, y))
  <2>1. Places(y, ItemsAt(N, a)) = Places(y, ItemsAt(obj, a)) /\ Places(y, ItemsAt(obj, a)) \in Nat
    BY <1>2, <1>5, PlacesAre
  <2> QED BY <1>7, <2>1
<1>9. ItemsIn(N) /\ Fewer(N, obj)
  BY <1>1, <1>3, ItemsWithin DEF Fewer
<1> QED BY <1>7, <1>8, <1>9

LEMMA DelSound ==
  ASSUME ObjectsSound, NEW x \in Live, o_del(x)
  PROVE  ObjectsSound'
<1>1. /\ ObjectsTyped /\ Counts /\ OwnUncounted /\ LostLive
      /\ StringsEmpty /\ Acyclic(obj) /\ Excused
  BY DEF ObjectsSound, Booked, Shaped
<1>2. obj \in [Live -> ObjectWith(Live)] /\ ItemsIn(obj)
  BY <1>1, ItemsWithin DEF ObjectsTyped
<1>3. /\ x \in own /\ dels = <<>> /\ flat' = NoFlat /\ own' = own \ {x}
      /\ dels' = <<x>> /\ lost' = lost /\ Usable(x) /\ obj' = Counted(x, x)
  BY DEF o_del, NoWork, Counted
<1>4. /\ obj' \in [Live -> ObjectWith(Live)] /\ SameItems(obj')
      /\ \A b \in Live : obj'[b].count = obj[b].count + One(b, x)
  <2>1. \A b \in Live : obj[b].count \in Nat
    BY <1>2 DEF ObjectWith
  <2> QED BY <1>2, <1>3, <2>1, CountedIs DEF One, SameItems
<1>5. Live' = Live
  BY <1>4 DEF Live
<1>6. /\ IsFiniteSet(Slots(obj')) /\ Fewer(obj', obj) /\ ItemsIn(obj')
      /\ \A y : /\ Cardinality(PlacesOf(obj', y)) = Cardinality(PlacesOf(obj, y))
                /\ Cardinality(PlacesOf(obj', y)) \in Nat
  BY <1>1, <1>4, SameItemsKeep
<1>7. ObjectsTyped'
  <2>1. Live \subseteq Ids /\ own \subseteq Live /\ lost \in [Ids -> Nat] /\ dels' \in Seq(Live)
    BY <1>1, <1>3 DEF ObjectsTyped
  <2> QED BY <1>3, <1>4, <1>5, <1>6, <2>1 DEF ObjectsTyped
<1>8. FlatTyped'
  BY <1>3 DEF FlatTyped
<1>9. Booked'
  <2>1. ASSUME NEW y \in Live
        PROVE  obj'[y].count = lost'[y] + Cardinality(PlacesOf(obj', y)) + Places(y, dels')
    <3>1. Places(y, dels) = 0 /\ Places(y, dels') = One(y, x) /\ One(y, x) \in Nat
      BY <1>3, PlacesEmpty, PlacesOne DEF One
    <3>2. lost[y] \in Nat
      BY <1>1 DEF ObjectsTyped
    <3>3. obj[y].count = lost[y] + Cardinality(PlacesOf(obj, y)) + Places(y, dels)
      BY <1>1 DEF Counts
    <3>4. obj'[y].count = obj[y].count + One(y, x) /\ lost' = lost
      BY <1>3, <1>4
    <3>5. /\ Cardinality(PlacesOf(obj', y)) = Cardinality(PlacesOf(obj, y))
          /\ Cardinality(PlacesOf(obj', y)) \in Nat
      BY <1>6
    <3> QED BY <3>1, <3>2, <3>3, <3>4, <3>5
  <2>2. Counts'
    BY <1>5, <2>1 DEF Counts
  <2>3. OwnUncounted'
    <3>1. \A y \in own \ {x} : One(y, x) = 0 /\ obj[y].count = 0 /\ y \in Live
      BY <1>1 DEF OwnUncounted, One, ObjectsTyped
    <3>2. \A y \in own \ {x} : obj'[y].count = 0
      BY <1>4, <3>1
    <3> QED BY <1>3, <3>2 DEF OwnUncounted
  <2>4. LostLive'
    BY <1>1, <1>3, <1>5 DEF LostLive
  <2> QED BY <2>2, <2>3, <2>4 DEF Booked
<1>10. Shaped'
  <2>1. StringsEmpty'
    BY <1>1, <1>4, <1>5 DEF StringsEmpty, SameItems
  <2>2. Acyclic(obj')
    BY <1>1, <1>6, FewerAcyclic
  <2>3. Excused'
    <3>1. SomeNull(obj) => SomeNull(obj')
      BY <1>4, <1>5 DEF SomeNull, SameItems, Live
    <3>2. ASSUME NEW y \in Live \ (own \ {x}), obj'[y].count = 0
          PROVE  SomeNull(obj)
      <4>1. obj[y].count \in Nat /\ obj'[y].count = obj[y].count + One(y, x) /\ One(y, x) \in Nat
        BY <1>2, <1>4 DEF ObjectWith, One
      <4>2. obj[y].count = 0 /\ y # x
        BY <3>2, <4>1 DEF One
      <4> QED BY <1>1, <4>2 DEF Excused
    <3> QED BY <1>3, <1>5, <3>1, <3>2 DEF Excused
  <2>4. DelsUsable'
    <3>1. Given' = {x}
      BY <1>3 DEF Given
    <3>2. {x} \in SUBSET DOMAIN obj /\ {x} \in SUBSET DOMAIN obj'
      BY <1>5 DEF Live
    <3>3. {x} \subseteq Reach(obj, {x}) /\ Reach(obj, {x}) \subseteq Live
      BY <1>2, <3>2, ReachHas DEF Live
    <3>4. Reach(obj', {x}) \subseteq Reach(obj, {x})
      BY ONLY <1>2, <1>6, <3>2, <3>3, ReachLess
    <3>5. \A y \in Reach(obj, {x}) : ~ obj'[y].null
      BY <1>3, <1>4, <3>3 DEF Usable, SameItems
    <3> QED BY <3>1, <3>4, <3>5 DEF DelsUsable
  <2> QED BY <2>1, <2>2, <2>3, <2>4 DEF Shaped
<1> QED BY <1>7, <1>8, <1>9, <1>10 DEF ObjectsSound
-----------------------------------------------------------------------------
(* object_delete: a count goes down, or an object is freed.                *)
LEMMA HeadOfDels ==
  ASSUME ObjectsSound, dels # <<>>, NEW x, x = Head(dels)
  PROVE  /\ x \in Live /\ Tail(dels) \in Seq(Live) /\ flat = NoFlat
         /\ \A y : Places(y, dels) = One(y, x) + Places(y, Tail(dels))
                   /\ Places(y, Tail(dels)) \in Nat
         /\ x \in Given /\ Given \subseteq Live
         /\ \A i \in DOMAIN Tail(dels) : Tail(dels)[i] \in Given
<1>1. dels \in Seq(Live)
  BY DEF ObjectsSound, ObjectsTyped
<1>2. x \in Live /\ Tail(dels) \in Seq(Live)
  BY <1>1
<1>3. flat = NoFlat
  BY DEF ObjectsSound, FlatTyped
<1>4. \A y : Places(y, dels) = One(y, x) + Places(y, Tail(dels)) /\ Places(y, Tail(dels)) \in Nat
  BY <1>1, <1>2, PlacesOfHead, PlacesAre
<1>5. /\ DOMAIN dels = 1 .. Len(dels) /\ Len(dels) \in Nat /\ Len(dels) >= 1
      /\ x = dels[1] /\ DOMAIN Tail(dels) = 1 .. Len(dels) - 1
      /\ \A i \in 1 .. Len(dels) - 1 : Tail(dels)[i] = dels[i + 1]
  <2>1. Len(dels) \in Nat /\ Len(dels) >= 1
    BY <1>1, EmptySeq, LenProperties
  <2>2. /\ Len(Tail(dels)) = Len(dels) - 1 /\ x = dels[1]
        /\ \A i \in 1 .. Len(Tail(dels)) : Tail(dels)[i] = dels[i + 1]
    BY <1>1, HeadTailProperties
  <2>3. DOMAIN Tail(dels) = 1 .. Len(Tail(dels)) /\ DOMAIN dels = 1 .. Len(dels)
    BY <1>1, <1>2, LenProperties
  <2> QED BY <2>1, <2>2, <2>3
<1>6. x \in Given /\ \A i \in DOMAIN Tail(dels) : Tail(dels)[i] \in Given
  <2>1. 1 \in DOMAIN dels /\ \A i \in 1 .. Len(dels) - 1 : i + 1 \in DOMAIN dels
    BY <1>5
  <2> QED BY <1>5, <2>1 DEF Given
<1>7. Given \subseteq Live
  BY <1>1 DEF Given
<1> QED BY <1>2, <1>3, <1>4, <1>6, <1>7

LEMMA LessSound ==
  ASSUME ObjectsSound, dels # <<>>, NEW x, x = Head(dels), obj[x].count > 1,
         obj' = [obj EXCEPT ![x].count = @ - 1], dels' = Tail(dels),
         UNCHANGED <<own, flat, lost>>
  PROVE  ObjectsSound'
<1>1. /\ ObjectsTyped /\ FlatTyped /\ Counts /\ OwnUncounted /\ LostLive
      /\ StringsEmpty /\ Acyclic(obj) /\ Excused /\ DelsUsable
  BY DEF ObjectsSound, Booked, Shaped
<1>2. obj \in [Live -> ObjectWith(Live)] /\ ItemsIn(obj)
  BY <1>1, ItemsWithin DEF ObjectsTyped
<1>3. /\ x \in Live /\ Tail(dels) \in Seq(Live) /\ flat = NoFlat
      /\ \A y : Places(y, dels) = One(y, x) + Places(y, Tail(dels))
                /\ Places(y, Tail(dels)) \in Nat
      /\ x \in Given /\ Given \subseteq Live
      /\ \A i \in DOMAIN Tail(dels) : Tail(dels)[i] \in Given
  BY HeadOfDels
<1>4. /\ obj' \in [Live -> ObjectWith(Live)] /\ SameItems(obj')
      /\ \A b \in Live : obj'[b].count = obj[b].count - One(b, x)
  <2> DEFINE n == obj[x].count - 1
             o == [obj[x] EXCEPT !.count = n]
  <2>1. obj[x] \in ObjectWith(Live) /\ n \in Nat
    BY <1>2, <1>3 DEF ObjectWith
  <2> HIDE DEF n
  <2>2. /\ o \in ObjectWith(Live) /\ o.count = n /\ o.kind = obj[x].kind
        /\ o.null = obj[x].null /\ o.items = obj[x].items
    BY <2>1 DEF ObjectWith
  <2>3. obj' = [obj EXCEPT ![x] = o]
    BY DEF n
  <2> HIDE DEF o
  <2>4. obj' \in [Live -> ObjectWith(Live)] /\ obj'[x] = o /\ \A b \in Live : b # x => obj'[b] = obj[b]
    BY <1>2, <1>3, <2>2, <2>3, PutIs
  <2>5. \A b \in Live : obj[b].count \in Nat
    BY <1>2 DEF ObjectWith
  <2> QED BY <2>2, <2>4, <2>5 DEF One, SameItems, n
<1>5. Live' = Live
  BY <1>4 DEF Live
<1>6. /\ IsFiniteSet(Slots(obj')) /\ Fewer(obj', obj) /\ ItemsIn(obj')
      /\ \A y : /\ Cardinality(PlacesOf(obj', y)) = Cardinality(PlacesOf(obj, y))
                /\ Cardinality(PlacesOf(obj', y)) \in Nat
  BY <1>1, <1>4, SameItemsKeep
<1>7. ObjectsTyped'
  <2>1. Live \subseteq Ids /\ own \subseteq Live /\ lost \in [Ids -> Nat]
    BY <1>1 DEF ObjectsTyped
  <2> QED BY <1>3, <1>4, <1>5, <1>6, <2>1 DEF ObjectsTyped
<1>8. FlatTyped'
  BY <1>3 DEF FlatTyped
<1>9. \A y \in Live : obj[y].count \in Nat /\ obj'[y].count = obj[y].count - One(y, x)
  BY <1>2, <1>4 DEF ObjectWith
<1>10. Booked'
  <2>1. ASSUME NEW y \in Live
        PROVE  obj'[y].count = lost'[y] + Cardinality(PlacesOf(obj', y)) + Places(y, dels')
    <3>1. /\ Places(y, dels) = One(y, x) + Places(y, dels') /\ One(y, x) \in Nat
          /\ Places(y, dels') \in Nat
      BY <1>3 DEF One
    <3>2. lost[y] \in Nat /\ lost' = lost
      BY <1>1 DEF ObjectsTyped
    <3>3. obj[y].count = lost[y] + Cardinality(PlacesOf(obj, y)) + Places(y, dels)
      BY <1>1 DEF Counts
    <3>4. /\ Cardinality(PlacesOf(obj', y)) = Cardinality(PlacesOf(obj, y))
          /\ Cardinality(PlacesOf(obj', y)) \in Nat
      BY <1>6
    <3> QED BY <1>9, <3>1, <3>2, <3>3, <3>4
  <2>2. Counts'
    BY <1>5, <2>1 DEF Counts
  <2>3. OwnUncounted'
    <3>1. \A y \in own : y # x /\ obj[y].count = 0 /\ y \in Live
      BY <1>1 DEF OwnUncounted, ObjectsTyped
    <3>2. \A y \in own : obj'[y].count = 0
      BY <1>9, <3>1 DEF One
    <3> QED BY <3>2 DEF OwnUncounted
  <2>4. LostLive'
    BY <1>1, <1>5 DEF LostLive
  <2> QED BY <2>2, <2>3, <2>4 DEF Booked
<1>11. Shaped'
  <2>1. StringsEmpty'
    BY <1>1, <1>4, <1>5 DEF StringsEmpty, SameItems
  <2>2. Acyclic(obj')
    BY <1>1, <1>6, FewerAcyclic
  <2>3. Excused'
    <3>1. SomeNull(obj) => SomeNull(obj')
      BY <1>4, <1>5 DEF SomeNull, SameItems, Live
    <3>2. ASSUME NEW y \in Live \ own, obj'[y].count = 0
          PROVE  obj[y].count = 0
      <4>1. CASE y = x
        <5>1. obj'[y].count > 0
          BY <1>9, <4>1 DEF One
        <5> QED BY <3>2, <5>1
      <4>2. CASE y # x
        BY <1>9, <3>2, <4>2 DEF One
      <4> QED BY <4>1, <4>2
    <3> QED BY <1>1, <1>5, <3>1, <3>2 DEF Excused
  <2>4. DelsUsable'
    <3>1. Given' \subseteq Given
      BY <1>3 DEF Given
    <3>2. Given \in SUBSET DOMAIN obj /\ Given' \in SUBSET DOMAIN obj'
      BY <1>3, <1>5, <3>1 DEF Live
    <3>3. Given \subseteq Reach(obj, Given) /\ Reach(obj, Given) \subseteq Live
      BY <1>2, <3>2, ReachHas DEF Live
    <3>4. Given' \subseteq Reach(obj, Given)
      BY <3>1, <3>3
    <3>5. Reach(obj', Given') \subseteq Reach(obj, Given)
      BY ONLY <1>2, <1>6, <3>2, <3>4, ReachLess
    <3>6. \A y \in Reach(obj, Given) : ~ obj'[y].null
      BY <1>1, <1>4, <3>3 DEF DelsUsable, SameItems
    <3> QED BY <3>5, <3>6 DEF DelsUsable
  <2> QED BY <2>1, <2>2, <2>3, <2>4 DEF Shaped
<1> QED BY <1>7, <1>8, <1>10, <1>11 DEF ObjectsSound
LEMMA SeqWithin ==
  ASSUME NEW S, NEW T, NEW s \in Seq(S), \A i \in 1 .. Len(s) : s[i] \in T
  PROVE  s \in Seq(T)
OBVIOUS

LEMMA FreedSound ==
  ASSUME ObjectsSound, dels # <<>>, NEW x, x = Head(dels), obj[x].count <= 1,
         obj' = [y \in Live \ {x} |-> obj[y]], dels' = Left(x) \o Tail(dels),
         UNCHANGED <<own, flat, lost>>
  PROVE  ObjectsSound'
<1> DEFINE L == Live \ {x}
           s == obj[x].items
           t == Tail(dels)
<1>1. /\ ObjectsTyped /\ Booked /\ Counts /\ OwnUncounted /\ LostLive
      /\ StringsEmpty /\ Acyclic(obj) /\ Excused /\ DelsUsable
  BY DEF ObjectsSound, Booked, Shaped
<1>2. /\ obj \in [Live -> ObjectWith(Live)] /\ ItemsIn(obj)
      /\ \A b \in Live : obj[b].items \in Seq(Live) /\ ItemsOf(obj, b) \subseteq Live
  BY <1>1, ItemsWithin DEF ObjectsTyped
<1>3. /\ x \in Live /\ t \in Seq(Live) /\ flat = NoFlat
      /\ \A y : Places(y, dels) = One(y, x) + Places(y, t) /\ Places(y, t) \in Nat
      /\ x \in Given /\ Given \subseteq Live
      /\ \A i \in DOMAIN t : t[i] \in Given
  BY HeadOfDels
<1>4. Live' = L /\ DOMAIN obj' = L /\ \A y \in L : obj'[y] = obj[y]
  BY DEF Live
(* It was the last reference to x. *)
<1>5. /\ lost[x] = 0 /\ Cardinality(PlacesOf(obj, x)) = 0 /\ Places(x, t) = 0
      /\ obj[x].count = 1
  <2>1. lost[x] \in Nat /\ obj[x].count \in Nat
    BY <1>1, <1>2, <1>3 DEF ObjectsTyped, ObjectWith
  <2>2. Cardinality(PlacesOf(obj, x)) \in Nat
    BY <1>1, <1>2, SameItemsKeep DEF SameItems
  <2>3. obj[x].count = lost[x] + Cardinality(PlacesOf(obj, x)) + Places(x, dels)
    BY <1>1, <1>3 DEF Counts
  <2>4. Places(x, dels) = 1 + Places(x, t) /\ Places(x, t) \in Nat
    BY <1>3 DEF One
  <2> QED BY <2>1, <2>2, <2>3, <2>4
<1>6. \A b \in Live : x \notin ItemsOf(obj, b)
  <2> SUFFICES ASSUME NEW b \in Live, x \in ItemsOf(obj, b)
               PROVE  FALSE
    OBVIOUS
  <2>1. PICK i \in DOMAIN obj[b].items : x = obj[b].items[i]
    BY DEF ItemsOf
  <2>2. <<b, i>> \in PlacesOf(obj, x)
    BY <2>1, SlotsAre DEF PlacesOf, Live
  <2>3. PlacesOf(obj, x) \in SUBSET Slots(obj)
    BY DEF PlacesOf
  <2>4. IsFiniteSet(PlacesOf(obj, x))
    BY <1>1, <2>3, FS_Subset DEF ObjectsTyped
  <2> QED BY <1>5, <2>2, <2>4, FS_EmptySet
<1>7. \A b \in Live : obj[b].items \in Seq(L) /\ ItemsOf(obj, b) \subseteq L
  <2> TAKE b \in Live
  <2>1. \A i \in 1 .. Len(obj[b].items) : obj[b].items[i] \in L
    BY <1>2, <1>6 DEF ItemsOf
  <2> HIDE DEF L
  <2>2. obj[b].items \in Seq(L)
    BY <1>2, <2>1, SeqWithin
  <2> QED BY <1>2, <1>6, <2>2 DEF L
<1>8. t \in Seq(L)
  <2> HIDE DEF t
  <2>1. \A i \in 1 .. Len(t) : t[i] # x
    BY <1>3, <1>5, PlacesAre
  <2>2. \A i \in 1 .. Len(t) : t[i] \in L
    BY <1>3, <2>1
  <2> HIDE DEF L
  <2> QED BY <1>3, <2>2, SeqWithin
<1>9. s \in Seq(L) /\ dels' = s \o t
  BY <1>3, <1>7 DEF Left
<1>10. obj' \in [L -> ObjectWith(L)]
  <2>1. ASSUME NEW y \in L
        PROVE  obj[y] \in ObjectWith(L)
    <3>1. obj[y] \in ObjectWith(Live) /\ obj[y].items \in Seq(L)
      BY <1>2, <1>7
    <3> HIDE DEF L
    <3> QED BY <3>1 DEF ObjectWith
  <2> QED BY <2>1
<1>11. /\ IsFiniteSet(Slots(obj'))
       /\ \A y : /\ Cardinality(PlacesOf(obj, y)) \in Nat /\ Cardinality(PlacesOf(obj', y)) \in Nat
                 /\ Cardinality(PlacesOf(obj', y)) + Places(y, s)
                      = Cardinality(PlacesOf(obj, y)) + Places(y, <<>>)
  <2>1. OnlyAt(obj, obj', x)
    BY <1>4 DEF OnlyAt, ItemsAt, Live
  <2>2. ItemsAt(obj, x) = s /\ ItemsAt(obj', x) = <<>>
    BY <1>3, <1>4 DEF ItemsAt, Live
  <2>3. ItemsAt(obj, x) \in Seq(L) /\ ItemsAt(obj', x) \in Seq(L)
    <3>1. <<>> \in Seq(L) /\ s \in Seq(L)
      BY <1>9
    <3> HIDE DEF L, s
    <3> QED BY ONLY <3>1, <2>2
  <2>4. IsFiniteSet(Slots(obj))
    BY <1>1 DEF ObjectsTyped
  <2>5. /\ IsFiniteSet(Slots(obj'))
        /\ \A y : /\ Cardinality(PlacesOf(obj, y)) \in Nat /\ Cardinality(PlacesOf(obj', y)) \in Nat
                  /\ Cardinality(PlacesOf(obj', y)) + Places(y, ItemsAt(obj, x))
                       = Cardinality(PlacesOf(obj, y)) + Places(y, ItemsAt(obj', x))
    BY ONLY <2>1, <2>3, <2>4, PlacesChange
  <2> QED BY <2>2, <2>5
<1>12. \A y \in own : y # x
  BY <1>1, <1>5 DEF OwnUncounted
<1>13. ObjectsTyped'
  <2>1. Live \subseteq Ids /\ own \subseteq L /\ lost \in [Ids -> Nat]
    BY <1>1, <1>12 DEF ObjectsTyped
  <2>2. s \o t \in Seq(L)
    BY <1>8, <1>9
  <2> QED BY <1>4, <1>9, <1>10, <1>11, <2>1, <2>2 DEF ObjectsTyped
<1>14. FlatTyped'
  BY <1>3 DEF FlatTyped
<1>15. Booked'
  <2>1. ASSUME NEW y \in L
        PROVE  obj'[y].count = lost'[y] + Cardinality(PlacesOf(obj', y)) + Places(y, dels')
    <3>1. Places(y, dels') = Places(y, s) + Places(y, t) /\ Places(y, s) \in Nat
      BY <1>8, <1>9, PlacesJoined, PlacesAre
    <3>2. Places(y, dels) = Places(y, t) /\ Places(y, t) \in Nat
      BY <1>3 DEF One
    <3>3. lost[y] \in Nat /\ lost' = lost
      BY <1>1 DEF ObjectsTyped
    <3>4. obj[y].count = lost[y] + Cardinality(PlacesOf(obj, y)) + Places(y, dels)
      BY <1>1 DEF Counts
    <3>5. /\ Cardinality(PlacesOf(obj, y)) \in Nat /\ Cardinality(PlacesOf(obj', y)) \in Nat
          /\ Cardinality(PlacesOf(obj', y)) + Places(y, s) = Cardinality(PlacesOf(obj, y))
      <4>1. Places(y, <<>>) = 0
        BY PlacesEmpty
      <4>2. /\ Cardinality(PlacesOf(obj, y)) \in Nat /\ Cardinality(PlacesOf(obj', y)) \in Nat
            /\ Cardinality(PlacesOf(obj', y)) + Places(y, s)
                 = Cardinality(PlacesOf(obj, y)) + Places(y, <<>>)
        BY <1>11
      <4> HIDE DEF s
      <4> QED BY ONLY <4>1, <4>2
    <3>6. obj'[y].count = obj[y].count
      BY <1>4
    <3> QED BY <3>1, <3>2, <3>3, <3>4, <3>5, <3>6
  <2>2. Counts'
    BY <1>4, <2>1 DEF Counts
  <2>3. OwnUncounted'
    <3>1. \A y \in own : y \in L
      BY <1>1, <1>12 DEF ObjectsTyped
    <3> QED BY <1>1, <1>4, <3>1 DEF OwnUncounted
  <2>4. LostLive'
    BY <1>1, <1>4, <1>5 DEF LostLive
  <2> QED BY <2>2, <2>3, <2>4 DEF Booked
<1>16. Shaped'
  <2>1. StringsEmpty'
    BY <1>1, <1>4 DEF StringsEmpty
  <2>2. Fewer(obj', obj) /\ ItemsIn(obj')
    <3>1. \A b \in L : ItemsOf(obj', b) = ItemsOf(obj, b)
      BY <1>4 DEF ItemsOf
    <3> QED BY <1>4, <1>7, <3>1 DEF Fewer, ItemsIn, Live
  <2>3. Acyclic(obj')
    BY <1>1, <2>2, FewerAcyclic
  <2>4. Given \in SUBSET DOMAIN obj
    BY <1>3 DEF Live
  <2>5. /\ Given \subseteq Reach(obj, Given) /\ Reach(obj, Given) \subseteq Live
        /\ \A b \in Reach(obj, Given) : ItemsOf(obj, b) \subseteq Reach(obj, Given)
    BY <1>2, <2>4, ReachHas DEF Live
  <2>6. Excused'
    <3>1. ~ obj[x].null
      BY <1>1, <1>3, <2>5 DEF DelsUsable
    <3>2. SomeNull(obj) => SomeNull(obj')
      BY <1>4, <3>1 DEF SomeNull, Live
    <3> QED BY <1>1, <1>4, <3>2 DEF Excused
  <2>7. DelsUsable'
    <3>1. Given' \subseteq ItemsOf(obj, x) \cup Given
      <4>1. /\ Len(s) \in Nat /\ Len(t) \in Nat /\ DOMAIN s = 1 .. Len(s) /\ DOMAIN t = 1 .. Len(t)
            /\ DOMAIN (s \o t) = 1 .. Len(s) + Len(t)
            /\ \A i \in 1 .. Len(s) + Len(t) : (s \o t)[i] = IF i <= Len(s) THEN s[i] ELSE t[i - Len(s)]
        BY <1>8, <1>9
      <4> HIDE DEF s, t
      <4>2. ASSUME NEW i \in DOMAIN (s \o t)
            PROVE  (s \o t)[i] \in {s[j] : j \in DOMAIN s} \cup Given
        <5>1. CASE i <= Len(s)
          BY <4>1, <5>1
        <5>2. CASE ~ (i <= Len(s))
          <6>1. i - Len(s) \in DOMAIN t /\ (s \o t)[i] = t[i - Len(s)]
            BY <4>1, <5>2
          <6> QED BY <6>1, <1>3
        <5> QED BY <5>1, <5>2
      <4> QED BY <1>9, <4>2 DEF Given, ItemsOf, s
    <3>2. Given' \subseteq Reach(obj, Given)
      BY <1>3, <2>5, <3>1
    <3>3. Given' \in SUBSET DOMAIN obj'
      <4>1. dels' \in Seq(Live')
        BY <1>13 DEF ObjectsTyped
      <4> QED BY <4>1 DEF Given, Live
    <3>4. Reach(obj', Given') \subseteq Reach(obj, Given)
      BY ONLY <1>2, <2>2, <2>4, <3>2, <3>3, ReachLess
    <3>5. Reach(obj', Given') \subseteq L
      <4>1. Reach(obj', Given') \subseteq DOMAIN obj'
        BY DEF Reach
      <4> QED BY <4>1, <1>4
    <3>6. \A y \in Reach(obj', Given') : ~ obj'[y].null
      BY <1>1, <1>4, <3>4, <3>5 DEF DelsUsable
    <3> QED BY <3>6 DEF DelsUsable
  <2> QED BY <2>1, <2>3, <2>6, <2>7 DEF Shaped
<1> QED BY <1>13, <1>14, <1>15, <1>16 DEF ObjectsSound
-----------------------------------------------------------------------------
(* The other steps.                                                        *)
LEMMA FlattenSound ==
  ASSUME ObjectsSound, NEW a \in Live, obj_array_flatten(a)
  PROVE  ObjectsSound'
<1>1. PICK r \in FreshIds : Created(r, "array", 16) /\ flat' = Flattening(r, obj[a].items)
  BY DEF obj_array_flatten
<1>2. obj \in [Live -> ObjectWith(Live)] /\ ObjectsTyped /\ Booked
  BY DEF ObjectsSound, ObjectsTyped
<1>3. obj[a].items \in Seq(Live \ own)
  <2>1. obj[a].items \in Seq(Live)
    BY <1>2, ItemsWithin
  <2>2. \A i \in 1 .. Len(obj[a].items) : obj[a].items[i] \in ItemsOf(obj, a)
    BY <2>1 DEF ItemsOf
  <2>3. \A i \in 1 .. Len(obj[a].items) : obj[a].items[i] \in Live \ own
    BY <1>2, <2>2, ItemsCounted
  <2> QED BY <2>1, <2>3, SeqWithin
<1>4. FlatFor(r, "array")
  BY <1>1, <1>3 DEF FlatFor, Flattening
<1> QED BY <1>1, <1>4, CreatedSound

LEMMA FlattenNextSound ==
  ASSUME ObjectsSound, flatten_next
  PROVE  ObjectsSound'
<1> DEFINE x == Head(flat.rest)
           more == Tail(flat.rest)
<1>1. /\ flat \in [to : own \cap ObjArrays, rest : Seq(Live \ own)] /\ flat.rest # <<>>
      /\ dels = <<>> /\ dels' = <<>> /\ own' = own
  BY DEF flatten_next, ObjectsSound, FlatTyped
<1>2. x \in Live \ own /\ more \in Seq(Live \ own) /\ flat.to \in own \cap ObjArrays
  BY <1>1
<1>3. obj \in [Live -> ObjectWith(Live)] /\ ObjectsTyped /\ Booked /\ StringsEmpty
  BY DEF ObjectsSound, ObjectsTyped, Shaped
<1>4. \A s \in Seq(Live \ own) : Live' = Live /\ ObjArrays' = ObjArrays /\ flat' = Flattening(flat.to, s)
                                  => FlatTyped'
  BY <1>1, <1>2 DEF FlatTyped, Flattening
<1>5. CASE x \in ObjArrays
  <2>1. flat' = Flattening(flat.to, obj[x].items \o more) /\ UNCHANGED <<obj, lost>>
    BY <1>5 DEF flatten_next
  <2>2. obj[x].items \in Seq(Live \ own)
    <3>1. obj[x].items \in Seq(Live)
      BY <1>2, <1>3, ItemsWithin
    <3>2. \A i \in 1 .. Len(obj[x].items) : obj[x].items[i] \in ItemsOf(obj, x)
      BY <3>1 DEF ItemsOf
    <3> HIDE DEF x
    <3>3. \A i \in 1 .. Len(obj[x].items) : obj[x].items[i] \in Live \ own
      BY <1>2, <1>3, <3>2, ItemsCounted
    <3> QED BY <3>1, <3>3, SeqWithin
  <2>3. obj[x].items \o more \in Seq(Live \ own)
    BY <1>2, <2>2
  <2>4. obj' = obj /\ lost' = lost /\ dels' = dels /\ own' = own /\ Live' = Live
        /\ ObjArrays' = ObjArrays /\ Given' = Given
    BY <1>1, <2>1 DEF Live, ObjArrays, Given
  <2>5. FlatTyped'
    BY <1>4, <2>1, <2>3, <2>4
  <2> QED BY <2>4, <2>5
       DEF ObjectsSound, ObjectsTyped, Booked, Counts, OwnUncounted, LostLive,
           Shaped, StringsEmpty, Excused, DelsUsable
<1>6. CASE x \notin ObjArrays
  <2>1. flat' = Flattening(flat.to, more) /\ Appended(flat.to, x)
    BY <1>6 DEF flatten_next
  <2>2. obj[x].items = <<>>
    <3>1. obj[x].kind = "string"
      BY <1>2, <1>3, <1>6 DEF ObjArrays, ObjectWith
    <3> QED BY <1>2, <1>3, <3>1 DEF StringsEmpty
  <2>3. flat.to \notin Reach(obj, {x})
    <3>1. ItemsOf(obj, x) = {}
      BY <2>2 DEF ItemsOf
    <3> HIDE DEF x
    <3>2. {x} \in Closed(obj, {x})
      BY <1>2, <3>1 DEF Closed, Live
    <3>3. flat.to # x
      BY <1>2
    <3> QED BY <3>2, <3>3, ReachLeast
  <2>4. own' = own \ {x}
    BY <1>1, <1>2
  <2> HIDE DEF x, more
  <2>5. ObjectsTyped' /\ Booked' /\ Shaped' /\ Live' = Live /\ ObjArrays' = ObjArrays
    <3>1. flat.to \in ObjArrays /\ x \in Live
      BY <1>2
    <3> QED BY <1>1, <2>1, <2>3, <2>4, <3>1, AppendedSound
  <2>6. FlatTyped'
    BY <1>2, <1>4, <2>1, <2>5
  <2> QED BY <2>5, <2>6 DEF ObjectsSound
<1> QED BY <1>5, <1>6

LEMMA ObjectCallSound ==
  ASSUME ObjectsSound, [ObjectCall]_objects
  PROVE  ObjectsSound'
<1>1. CASE string
  <2>1. PICK x \in FreshIds : Created(x, "string", 0) /\ flat' = NoFlat
    BY <1>1 DEF string, Created, NoWork
  <2> QED BY <2>1, CreatedSound DEF FlatFor
<1>2. CASE obj_array
  <2>1. PICK x \in FreshIds, room \in Rooms : Created(x, "array", room) /\ flat' = NoFlat
    BY <1>2 DEF obj_array, Created, NoWork
  <2>2. room \in Nat
    BY SizesOfArrays
  <2> QED BY <2>1, <2>2, CreatedSound DEF FlatFor
<1>3. ASSUME NEW a \in Live, NEW x \in Live, obj_array_append(a, x)
      PROVE  ObjectsSound'
  <2>1. /\ a \in ObjArrays /\ a \notin Reach(obj, {x}) /\ Appended(a, x)
        /\ dels = <<>> /\ dels' = <<>> /\ flat' = NoFlat /\ own' = own \ {x}
    BY <1>3 DEF obj_array_append, NoWork
  <2> QED BY <2>1, AppendedSound DEF ObjectsSound, FlatTyped
<1>4. CASE \E a \in Live : obj_array_flatten(a)
  BY <1>4, FlattenSound
<1>5. CASE flatten_next
  BY <1>5, FlattenNextSound
<1>6. CASE \E x \in Live : o_del(x)
  BY <1>6, DelSound
<1>7. CASE object_delete
  <2> DEFINE x == Head(dels)
  <2>1. /\ dels # <<>> /\ UNCHANGED <<own, flat, lost>>
        /\ \/ /\ obj[x].count > 1
              /\ obj' = [obj EXCEPT ![x].count = @ - 1]
              /\ dels' = Tail(dels)
           \/ /\ obj[x].count <= 1
              /\ obj' = [y \in Live \ {x} |-> obj[y]]
              /\ dels' = Left(x) \o Tail(dels)
    BY <1>7 DEF object_delete
  <2>2. x = Head(dels)
    OBVIOUS
  <2> HIDE DEF x
  <2> QED BY <2>1, <2>2, LessSound, FreedSound
<1>8. CASE UNCHANGED objects
  <2>1. obj' = obj /\ lost' = lost /\ dels' = dels /\ own' = own /\ flat' = flat
        /\ Live' = Live /\ ObjArrays' = ObjArrays /\ Given' = Given
    BY <1>8 DEF objects, Live, ObjArrays, Given
  <2> QED BY <2>1
       DEF ObjectsSound, ObjectsTyped, FlatTyped, Booked, Counts, OwnUncounted, LostLive,
           Shaped, StringsEmpty, Excused, DelsUsable
<1> QED BY <1>1, <1>2, <1>3, <1>4, <1>5, <1>6, <1>7, <1>8 DEF ObjectCall

LEMMA ObjectsAlwaysSound == ObjectSpec => []ObjectsSound
<1>1. ObjectsSound /\ [ObjectCall]_objects => ObjectsSound'
  BY ObjectCallSound
<1> QED BY NoObjectsSound, <1>1, PTL DEF ObjectSpec

(* For any number of objects, arrays of any depth and any failures, the    *)
(* reference count of an object (o_ref of obj_array_append, o_del) is the  *)
(* number of places it has, and nothing refers to an object that was freed.*)
THEOREM CountsAreRight == ObjectSpec => []PlacesCounted
<1>1. ObjectsSound => PlacesCounted
  <2> SUFFICES ASSUME ObjectsSound
               PROVE  PlacesCounted
    OBVIOUS
  <2>1. ObjectsTyped /\ Counts
    BY DEF ObjectsSound, Booked
  <2>2. \A a \in Live : ItemsOf(obj, a) \subseteq Live
    BY <2>1, ItemsWithin DEF ObjectsTyped
  <2>3. \A i \in DOMAIN dels : dels[i] \in Live
    BY <2>1 DEF ObjectsTyped
  <2> QED BY <2>1, <2>2, <2>3 DEF PlacesCounted, Counts
<1> QED BY ObjectsAlwaysSound, <1>1, PTL

(* What the program can no longer reach and did not delete was left behind *)
(* by an append that failed: were there more, each of these objects would  *)
(* be an item of another, in a circle that appends never close.            *)
THEOREM OnlyFailuresLeak == ObjectSpec => []LeaksOnlyAfterFailure
<1>1. ObjectsSound => LeaksOnlyAfterFailure
  <2> SUFFICES ASSUME ObjectsSound
               PROVE  LeaksOnlyAfterFailure
    OBVIOUS
  <2> DEFINE nowhere == {x \in Live \ own : obj[x].count = 0}
             left == {x \in Live : lost[x] > 0}
                     \cup IF \E a \in ObjArrays : obj[a].null THEN nowhere ELSE {}
             R == own \cup left \cup Given
             U == Live \ Reach(obj, R)
  <2>1. /\ ObjectsTyped /\ Counts /\ StringsEmpty /\ Acyclic(obj) /\ Excused
        /\ obj \in [Live -> ObjectWith(Live)] /\ own \subseteq Live
    BY DEF ObjectsSound, Booked, Shaped, ObjectsTyped
  <2>2. Given \subseteq Live
    BY <2>1 DEF ObjectsTyped, Given
  <2>3. R \in SUBSET DOMAIN obj
    <3>1. left \subseteq Live
      OBVIOUS
    <3> QED BY <2>1, <2>2, <3>1 DEF Live
  <2>4. /\ R \subseteq Reach(obj, R) /\ Reach(obj, R) \subseteq Live
        /\ \A b \in Reach(obj, R) : ItemsOf(obj, b) \subseteq Reach(obj, R)
    <3> HIDE DEF R
    <3> QED BY <2>1, <2>3, ReachHas, ItemsWithin DEF Live
  <2>5. ASSUME NEW x \in U
        PROVE  \E b \in U : x \in ItemsOf(obj, b)
    <3>1. x \in Live /\ x \notin own /\ x \notin left /\ x \notin Given
      BY <2>4
    <3>2. lost[x] = 0
      <4>1. lost[x] \in Nat /\ ~ (lost[x] > 0)
        BY <2>1, <3>1 DEF ObjectsTyped
      <4> QED BY <4>1
    <3>3. Places(x, dels) = 0
      <4>1. dels \in Seq(Live) /\ \A i \in 1 .. Len(dels) : dels[i] # x
        BY <2>1, <3>1 DEF ObjectsTyped, Given
      <4> QED BY <4>1, PlacesAre
    <3>4. obj[x].count # 0
      <4>1. SUFFICES ASSUME obj[x].count = 0
                     PROVE  FALSE
        OBVIOUS
      <4>2. PICK a \in Live : obj[a].null
        BY <2>1, <3>1, <4>1 DEF Excused, SomeNull, Live
      <4>3. a \in ObjArrays
        BY <2>1, <4>2 DEF StringsEmpty, ObjArrays, ObjectWith
      <4> QED BY <3>1, <4>1, <4>2, <4>3
    <3>5. Cardinality(PlacesOf(obj, x)) # 0
      <4>1. obj[x].count = lost[x] + Cardinality(PlacesOf(obj, x)) + Places(x, dels)
        BY <2>1, <3>1 DEF Counts
      <4> QED BY <3>2, <3>3, <3>4, <4>1
    <3>6. PICK p \in PlacesOf(obj, x) : TRUE
      BY <3>5, FS_EmptySet
    <3>7. p[1] \in Live /\ x \in ItemsOf(obj, p[1])
      BY <3>6, SlotsAre DEF PlacesOf, ItemsOf, Live
    <3>8. p[1] \notin Reach(obj, R)
      <4> HIDE DEF R
      <4> QED BY <2>4, <3>7
    <3> QED BY <3>7, <3>8
  <2>6. U = {}
    <3>1. U \in SUBSET DOMAIN obj
      BY DEF Live
    <3> HIDE DEF U
    <3> QED BY <2>1, <2>5, <3>1 DEF Acyclic
  <2>7. Live = Reach(obj, R)
    BY <2>4, <2>6
  <2> QED BY <2>7 DEF LeaksOnlyAfterFailure, Given
<1> QED BY ObjectsAlwaysSound, <1>1, PTL
-----------------------------------------------------------------------------
(* Arrays and objects that grow.                                           *)

(* Functions on 1..n are sequences. *)
LEMMA IsSequence ==
  ASSUME NEW S, NEW n \in Nat, NEW f \in [1 .. n -> S]
  PROVE  f \in Seq(S) /\ Len(f) = n /\ DOMAIN f = 1 .. n
OBVIOUS

(* Words written into a block change nothing else, and its length neither. *)
LEMMA Writing ==
  ASSUME NEW S, NEW w \in Seq(S), NEW s \in Seq(S), NEW i \in Nat \ {0}
  PROVE  /\ Write(w, i, s) \in Seq(S)
         /\ Len(Write(w, i, s)) = Len(w)
         /\ \A k \in 1 .. Len(w) :
              Write(w, i, s)[k] = IF i <= k /\ k < i + Len(s) THEN s[k - i + 1] ELSE w[k]
<1>1. Len(w) \in Nat /\ Len(s) \in Nat
  OBVIOUS
<1>2. ASSUME NEW k \in 1 .. Len(w)
      PROVE  /\ k \in i .. i + Len(s) - 1 <=> i <= k /\ k < i + Len(s)
             /\ k \in i .. i + Len(s) - 1 => s[k - i + 1] \in S
             /\ w[k] \in S
  <2>1. k \in i .. i + Len(s) - 1 => k - i + 1 \in 1 .. Len(s)
    BY <1>1
  <2> QED BY <1>1, <2>1, ElementOfSeq
<1>3. Write(w, i, s) \in [1 .. Len(w) -> S]
  BY <1>2 DEF Write
<1>4. \A k \in 1 .. Len(w) :
        Write(w, i, s)[k] = IF i <= k /\ k < i + Len(s) THEN s[k - i + 1] ELSE w[k]
  BY <1>2 DEF Write
<1> QED BY <1>1, <1>3, <1>4, IsSequence

(* The k words of w that follow the first m. *)
Part(w, m, k) == SubSeq(w, m + 1, m + k)

LEMMA PartIs ==
  ASSUME NEW S, NEW w \in Seq(S), NEW m \in Nat, NEW k \in Nat, m + k <= Len(w)
  PROVE  /\ Part(w, m, k) \in Seq(S)
         /\ Len(Part(w, m, k)) = k
         /\ \A i \in 1 .. k : Part(w, m, k)[i] = w[m + i]
<1>1. m + 1 \in Int /\ m + k \in Int
  OBVIOUS
<1>2. \A i \in m + 1 .. m + k : w[i] \in S
  <2> TAKE i \in m + 1 .. m + k
  <2>1. i \in 1 .. Len(w)
    OBVIOUS
  <2> QED BY <2>1, ElementOfSeq
<1>3. /\ Part(w, m, k) \in Seq(S)
      /\ Len(Part(w, m, k)) = IF m + 1 <= m + k THEN (m + k) - (m + 1) + 1 ELSE 0
      /\ \A i \in 1 .. (m + k) - (m + 1) + 1 : Part(w, m, k)[i] = w[(m + 1) + i - 1]
  BY <1>1, <1>2, SubSeqProperties DEF Part
<1>4. (m + k) - (m + 1) + 1 = k /\ \A i \in 1 .. k : (m + 1) + i - 1 = m + i
  OBVIOUS
<1> QED BY <1>3, <1>4

(* These words are the same in v and w; the words of v from m on are s.    *)
Same(v, w, m, k) == \A i \in 1 .. k : v[m + i] = w[m + i]
Follows(v, m, s) == \A i \in 1 .. Len(s) : v[m + i] = s[i]

(* The same words make the same part, *)
LEMMA PartKept ==
  ASSUME NEW S, NEW w \in Seq(S), NEW v \in Seq(S), NEW m \in Nat, NEW k \in Nat,
         m + k <= Len(w), m + k <= Len(v),
         Same(v, w, m, k)
  PROVE  Part(v, m, k) = Part(w, m, k)
<1>1. /\ Part(w, m, k) \in Seq(S) /\ Len(Part(w, m, k)) = k
      /\ \A i \in 1 .. k : Part(w, m, k)[i] = w[m + i]
  BY PartIs
<1>2. /\ Part(v, m, k) \in Seq(S) /\ Len(Part(v, m, k)) = k
      /\ \A i \in 1 .. k : Part(v, m, k)[i] = v[m + i]
  BY PartIs
<1>3. \A i \in 1 .. k : Part(v, m, k)[i] = Part(w, m, k)[i]
  BY <1>1, <1>2 DEF Same
<1> QED BY <1>1, <1>2, <1>3, SeqEqual

(* more words behind them a longer one, *)
Extends(S, v, w, m, k, s, n) ==
  /\ w \in Seq(S) /\ v \in Seq(S) /\ s \in Seq(S)
  /\ m \in Nat /\ k \in Nat /\ n \in Nat /\ n = k + Len(s)
  /\ m + k <= Len(w) /\ m + n <= Len(v)
  /\ Same(v, w, m, k) /\ Follows(v, m + k, s)

LEMMA PartExtended ==
  ASSUME NEW S, NEW v, NEW w, NEW m, NEW k, NEW s, NEW n, Extends(S, v, w, m, k, s, n)
  PROVE  Part(v, m, n) = Part(w, m, k) \o s
<1> USE DEF Extends
<1> DEFINE p == Part(w, m, k)
<1>1. /\ Len(s) \in Nat /\ n \in Nat /\ m \in Nat /\ m + n <= Len(v)
      /\ v \in Seq(S) /\ s \in Seq(S)
  OBVIOUS
<1>2. p \in Seq(S) /\ Len(p) = k /\ \A i \in 1 .. k : p[i] = w[m + i]
  BY PartIs
<1> HIDE DEF p
<1>3. /\ Part(v, m, n) \in Seq(S) /\ Len(Part(v, m, n)) = n
      /\ \A i \in 1 .. n : Part(v, m, n)[i] = v[m + i]
  BY ONLY <1>1, PartIs
<1>4. /\ p \o s \in Seq(S) /\ Len(p \o s) = n
      /\ \A i \in 1 .. n : (p \o s)[i] = IF i <= k THEN p[i] ELSE s[i - k]
  <2>1. /\ p \o s \in Seq(S) /\ Len(p \o s) = Len(p) + Len(s)
        /\ \A i \in 1 .. Len(p) + Len(s) :
             (p \o s)[i] = IF i <= Len(p) THEN p[i] ELSE s[i - Len(p)]
    BY ONLY <1>1, <1>2, ConcatProperties
  <2> QED BY <1>2, <2>1
<1>5. ASSUME NEW i \in 1 .. n
      PROVE  Part(v, m, n)[i] = (p \o s)[i]
  <2>1. CASE i <= k
    <3>1. i \in 1 .. k
      BY <2>1
    <3> QED BY <3>1, <2>1, <1>2, <1>3, <1>4 DEF Same
  <2>2. CASE ~(i <= k)
    <3>1. i - k \in 1 .. Len(s) /\ m + k + (i - k) = m + i
      BY <2>2, <1>1
    <3>2. v[m + i] = s[i - k]
      BY <3>1 DEF Follows
    <3> QED BY <3>2, <2>2, <1>3, <1>4
  <2> QED BY <2>1, <2>2
<1>6. Part(v, m, n) = p \o s
  BY <1>3, <1>4, <1>5, SeqEqual
<1> QED BY <1>6 DEF p

(* and fewer a shorter one. *)
LEMMA PartCut ==
  ASSUME NEW S, NEW w \in Seq(S), NEW v \in Seq(S), NEW m \in Nat, NEW k \in Nat,
         NEW n \in Nat, n <= k, m + k <= Len(w), m + n <= Len(v),
         Same(v, w, m, n)
  PROVE  Part(v, m, n) = SubSeq(Part(w, m, k), 1, n)
<1> DEFINE p == Part(w, m, k)
<1>1. p \in Seq(S) /\ Len(p) = k /\ \A i \in 1 .. k : p[i] = w[m + i]
  BY PartIs
<1> HIDE DEF p
<1>2. /\ SubSeq(p, 1, n) \in Seq(S) /\ Len(SubSeq(p, 1, n)) = n
      /\ \A i \in 1 .. n : SubSeq(p, 1, n)[i] = p[i]
  <2>1. \A i \in 1 .. n : p[i] \in S
    BY <1>1, ElementOfSeq
  <2>2. /\ SubSeq(p, 1, n) \in Seq(S)
        /\ Len(SubSeq(p, 1, n)) = IF 1 <= n THEN n - 1 + 1 ELSE 0
        /\ \A i \in 1 .. n - 1 + 1 : SubSeq(p, 1, n)[i] = p[1 + i - 1]
    BY <2>1, SubSeqProperties
  <2>3. n - 1 + 1 = n /\ \A i \in 1 .. n : 1 + i - 1 = i
    OBVIOUS
  <2> QED BY <2>2, <2>3
<1>3. /\ Part(v, m, n) \in Seq(S) /\ Len(Part(v, m, n)) = n
      /\ \A i \in 1 .. n : Part(v, m, n)[i] = v[m + i]
  BY PartIs
<1>4. \A i \in 1 .. n : Part(v, m, n)[i] = SubSeq(p, 1, n)[i]
  <2> TAKE i \in 1 .. n
  <2>1. i \in 1 .. k
    OBVIOUS
  <2>2. v[m + i] = w[m + i] /\ p[i] = w[m + i]
    BY <2>1, <1>1 DEF Same
  <2> QED BY <2>2, <1>2, <1>3
<1>5. Part(v, m, n) = SubSeq(p, 1, n)
  BY <1>2, <1>3, <1>4, SeqEqual
<1> QED BY <1>5 DEF p

(* Whole items: what division leaves. *)
LEMMA Whole ==
  ASSUME NEW d \in Nat \ {0}, NEW u \in Nat
  PROVE  /\ u \div d \in Nat
         /\ u % d = 0 => (u + d) % d = 0 /\ u = d * (u \div d)
         /\ \A v \in Nat : u <= v => u \div d <= v \div d
<1>1. \A x \in Nat : /\ x \div d \in Nat /\ x % d \in Nat /\ x % d < d
                     /\ x = d * (x \div d) + (x % d)
  OBVIOUS
<1>2. ASSUME NEW v \in Nat, u <= v, ~(u \div d <= v \div d)
      PROVE  FALSE
  <2> DEFINE q == u \div d
             p == v \div d
  <2>1. q \in Nat /\ p \in Nat /\ d * q <= u /\ v < d * p + d /\ q >= p + 1
    BY <1>1, <1>2
  <2> HIDE DEF q, p
  <2>2. d * q >= d * (p + 1)
    BY <2>1
  <2>3. d * (p + 1) = d * p + d
    BY <2>1
  <2>4. d * q \in Nat /\ d * p \in Nat
    BY <2>1
  <2> QED BY <1>2, <2>1, <2>2, <2>3, <2>4
<1>3. ASSUME u % d = 0
      PROVE  (u + d) % d = 0
  <2> DEFINE q == u \div d
             p == (u + d) \div d
             r == (u + d) % d
  <2>1. q \in Nat /\ p \in Nat /\ r \in Nat /\ r < d /\ u = d * q /\ u + d = d * p + r
    BY <1>1, <1>3
  <2> HIDE DEF q, p, r
  <2>2. d * (q + 1) = d * q + d /\ d * q \in Nat /\ d * p \in Nat
    BY <2>1
  <2>3. CASE p = q + 1
    BY <2>1, <2>2, <2>3 DEF r
  <2>4. CASE p <= q
    <3>1. d * p <= d * q
      BY <2>1, <2>4
    <3> QED BY <2>1, <2>2, <3>1
  <2>5. CASE p >= q + 2
    <3>1. d * p >= d * (q + 2)
      BY <2>1, <2>5
    <3>2. d * (q + 2) = d * q + d + d
      BY <2>1
    <3> QED BY <2>1, <2>2, <3>1, <3>2
  <2> QED BY <2>1, <2>3, <2>4, <2>5
<1> QED BY <1>1, <1>2, <1>3
-----------------------------------------------------------------------------
(* Blocks of an array, and of an object. *)
GoodArray(w) ==
  /\ w \in Seq(Contents) /\ Len(w) >= Array_bsz
  /\ used_sz(w) \in Nat /\ item_sz(w) \in ItemSizes
  /\ used_sz(w) <= Len(w) - Array_bsz
  /\ used_sz(w) % item_sz(w) = 0

GoodObject(w) ==
  /\ w \in Seq(Contents) /\ Len(w) >= Object_bsz
  /\ size(w) \in Nat
  /\ size(w) <= Len(w) - Object_bsz

Good(kind, w) == IF kind = "array" THEN GoodArray(w) ELSE GoodObject(w)

(* An answer that is not null: in place of block a, if there was one, is a  *)
(* block at an address that was not in use; the others are as before.       *)
Moved(B, a, r) ==
  /\ r = [blocks |-> r.blocks, addr |-> r.addr]
  /\ r.blocks = [c \in DOMAIN r.blocks |-> r.blocks[c]]
  /\ r.addr \in BlockAddr /\ (r.addr = a \/ r.addr \notin DOMAIN B)
  /\ DOMAIN r.blocks = (DOMAIN B \ {a}) \cup {r.addr}
  /\ \A c \in DOMAIN B \ {a, r.addr} : r.blocks[c] = B[c]

(* New words, all of them Junk. *)
LEMMA Allocated ==
  ASSUME NEW B, DOMAIN B \subseteq BlockAddr, NEW n \in Nat,
         NEW r \in alloc(B, n), r # Failed(B)
  PROVE  /\ Moved(B, NoBlock, r)
         /\ r.addr # NoBlock /\ r.addr \notin DOMAIN B
         /\ LET v == r.blocks[r.addr]
            IN  v \in Seq(Contents) /\ Len(v) >= n /\ Len(v) >= least_words
<1>1. PICK a \in Fresh(B), m \in Sizes(n) : r = Placed(B, a, Blank(m))
  BY DEF alloc
<1>2. a \in BlockAddr /\ a \notin DOMAIN B /\ NoBlock \notin BlockAddr /\ a # NoBlock
  BY SizesAssumption DEF Fresh, NoBlock
<1>3. m \in Nat /\ m >= n /\ m >= least_words
  BY DEF Sizes, least_words, slack
<1>4. Blank(m) \in [1 .. m -> Contents]
  BY DEF Blank, Contents
<1>5. Blank(m) \in Seq(Contents) /\ Len(Blank(m)) = m
  BY <1>3, <1>4, IsSequence
<1>6. r.addr = a /\ r.blocks[a] = Blank(m) /\ DOMAIN r.blocks = DOMAIN B \cup {a}
      /\ \A c \in DOMAIN B : r.blocks[c] = B[c]
  BY <1>1, <1>2 DEF Placed, free
<1>7. r.blocks = [c \in DOMAIN r.blocks |-> r.blocks[c]] /\ r = [blocks |-> r.blocks, addr |-> r.addr]
  BY <1>1 DEF Placed
<1>8. DOMAIN r.blocks = (DOMAIN B \ {NoBlock}) \cup {r.addr}
  BY <1>2, <1>6
<1> QED BY <1>2, <1>3, <1>5, <1>6, <1>7, <1>8 DEF Moved

(* A new block with the words of the old one that both have.               *)
LEMMA Reallocated ==
  ASSUME NEW B, DOMAIN B \subseteq BlockAddr, NEW a \in DOMAIN B,
         B[a] \in Seq(Contents), NEW n \in Nat,
         NEW r \in realloc(B, a, n), r # Failed(B)
  PROVE  /\ Moved(B, a, r)
         /\ r.addr # NoBlock /\ r.addr \notin DOMAIN B
         /\ LET v == r.blocks[r.addr]
            IN  /\ v \in Seq(Contents) /\ Len(v) >= n /\ Len(v) >= least_words
                /\ \A i \in 1 .. Len(v) : i <= Len(B[a]) /\ i <= n => v[i] = B[a][i]
<1> DEFINE w == B[a]
<1>1. PICK b \in Fresh(B), m \in Sizes(n) : r = Placed(free(B, a), b, Copied(w, n, m))
  BY DEF realloc
<1>2. b \in BlockAddr /\ b \notin DOMAIN B /\ b # a /\ b # NoBlock
  BY SizesAssumption DEF Fresh, NoBlock
<1>3. m \in Nat /\ m >= n /\ m >= least_words
  BY DEF Sizes, least_words, slack
<1>4. \A i \in 1 .. m : i <= Len(w) /\ i <= n => w[i] \in Contents
  BY ElementOfSeq, LenProperties
<1>5. /\ Copied(w, n, m) \in [1 .. m -> Contents]
      /\ \A i \in 1 .. m : i <= Len(w) /\ i <= n => Copied(w, n, m)[i] = w[i]
  <2>1. Junk \in Contents
    BY DEF Contents
  <2> QED BY <1>4, <2>1 DEF Copied
<1>6. Copied(w, n, m) \in Seq(Contents) /\ Len(Copied(w, n, m)) = m
  BY <1>3, <1>5, IsSequence
<1>7. r.addr = b /\ r.blocks[b] = Copied(w, n, m) /\ DOMAIN r.blocks = (DOMAIN B \cup {b}) \ {a}
      /\ \A c \in DOMAIN B \ {a} : r.blocks[c] = B[c]
  BY <1>1, <1>2 DEF Placed, free
<1>8. r.blocks = [c \in DOMAIN r.blocks |-> r.blocks[c]] /\ r = [blocks |-> r.blocks, addr |-> r.addr]
  BY <1>1 DEF Placed
<1>9. DOMAIN r.blocks = (DOMAIN B \ {a}) \cup {r.addr}
  BY <1>2, <1>7
<1>10. Moved(B, a, r)
  BY <1>2, <1>7, <1>8, <1>9 DEF Moved
<1> HIDE DEF w
<1> QED BY <1>2, <1>3, <1>5, <1>6, <1>7, <1>10 DEF w

-----------------------------------------------------------------------------
(* What the calls write into a block.                                      *)

(* array_append: an item behind the others, and the size. *)
ItemAdded(v, item) ==
  Write(Write(v, Array_bsz + 1 + used_sz(v), item), 1, <<used_sz(v) + item_sz(v)>>)

LEMMA ItemIsAdded ==
  ASSUME NEW w, GoodArray(w), NEW v \in Seq(Contents),
         Len(v) >= Array_bsz + used_sz(w) + item_sz(w),
         \A i \in 1 .. Array_bsz + used_sz(w) : v[i] = w[i],
         NEW item \in Seq(Contents), Len(item) = item_sz(w)
  PROVE  /\ GoodArray(ItemAdded(v, item))
         /\ item_sz(ItemAdded(v, item)) = item_sz(w)
         /\ Array(ItemAdded(v, item)) = Array(w) \o item
<1> DEFINE u == used_sz(w)
           d == item_sz(w)
           y == Write(v, 2 + 1 + u, item)
           one == <<u + d>>
           x == Write(y, 1, one)
<1>1. u \in Nat /\ d \in Nat \ {0} /\ w \in Seq(Contents) /\ Len(w) \in Nat
      /\ u + 2 <= Len(w)
  BY SizesAssumption DEF GoodArray, Array_bsz
<1>2. Len(v) \in Nat /\ Len(v) >= 2 + u + d /\ \A i \in 1 .. 2 + u : v[i] = w[i]
  BY DEF Array_bsz
<1>3. used_sz(v) = u /\ item_sz(v) = d
  BY <1>1, <1>2 DEF used_sz, item_sz
<1>4. ItemAdded(v, item) = x
  BY <1>3 DEF ItemAdded, Array_bsz
<1>5. Len(item) = d /\ u + d \in Contents /\ one \in Seq(Contents)
      /\ Len(one) = 1 /\ one[1] = u + d /\ 2 + 1 + u \in Nat \ {0}
  BY <1>1 DEF Contents
<1> HIDE DEF u, d, x, y, one
<1>6. /\ y \in Seq(Contents) /\ Len(y) = Len(v)
      /\ \A k \in 1 .. Len(v) :
           y[k] = IF 3 + u <= k /\ k < 3 + u + d THEN item[k - (3 + u) + 1] ELSE v[k]
  <2>1. 2 + 1 + u = 3 + u
    BY <1>1
  <2> QED BY <2>1, <1>1, <1>5, Writing DEF y
<1>7. /\ x \in Seq(Contents) /\ Len(x) = Len(v)
      /\ \A k \in 1 .. Len(v) :
           x[k] = IF 1 <= k /\ k < 1 + Len(one) THEN one[k - 1 + 1] ELSE y[k]
  BY <1>5, <1>6, Writing DEF x
<1>8. x[1] = u + d /\ x[2] = d
  <2>1. 1 \in 1 .. Len(v) /\ 2 \in 1 .. Len(v) /\ 2 \in 1 .. 2 + u
    BY <1>1, <1>2
  <2>2. x[1] = u + d
    BY <2>1, <1>5, <1>7
  <2>3. x[2] = v[2]
    BY <2>1, <1>1, <1>5, <1>6, <1>7
  <2> QED BY <2>1, <2>2, <2>3, <1>2 DEF d, item_sz
<1>9. \A i \in 1 .. u : x[2 + i] = w[2 + i]
  <2> TAKE i \in 1 .. u
  <2>1. 2 + i \in 1 .. Len(v) /\ 2 + i \in 1 .. 2 + u
    BY <1>1, <1>2
  <2> QED BY <2>1, <1>1, <1>2, <1>5, <1>6, <1>7
<1>10. \A i \in 1 .. d : x[2 + u + i] = item[i]
  <2> TAKE i \in 1 .. d
  <2>1. 2 + u + i \in 1 .. Len(v) /\ (2 + u + i) - (3 + u) + 1 = i
    BY <1>1, <1>2
  <2> QED BY <2>1, <1>1, <1>5, <1>6, <1>7
<1>11. Part(x, 2, u + d) = Part(w, 2, u) \o item
  <2> DEFINE n == u + d
             m == 2
  <2>1. m + u <= Len(w) /\ m + n <= Len(x)
    BY <1>1, <1>2, <1>5, <1>7
  <2>2. /\ w \in Seq(Contents) /\ x \in Seq(Contents) /\ item \in Seq(Contents)
        /\ m \in Nat /\ u \in Nat /\ n \in Nat /\ n = u + Len(item)
        /\ Follows(x, m + u, item) /\ Same(x, w, m, u)
    BY <1>1, <1>5, <1>7, <1>9, <1>10 DEF Same, Follows
  <2> HIDE DEF n, m
  <2>3. Extends(Contents, x, w, m, u, item, n)
    BY ONLY <2>1, <2>2 DEF Extends
  <2>4. Part(x, m, n) = Part(w, m, u) \o item
    BY ONLY <2>3, PartExtended
  <2> QED BY <2>4 DEF n, m
<1>12. Array(x) = Array(w) \o item
  BY <1>5, <1>8, <1>11 DEF Array, Part, used_sz, Array_bsz, u
<1>13. (u + d) % d = 0
  <2>1. u % d = 0
    BY DEF u, d, GoodArray
  <2> QED BY <2>1, <1>1, Whole
<1>14. d \in ItemSizes
  BY DEF d, GoodArray
<1>15. GoodArray(x)
  BY <1>1, <1>2, <1>7, <1>8, <1>13, <1>14 DEF GoodArray, used_sz, item_sz, Array_bsz
<1> QED BY <1>4, <1>8, <1>12, <1>15 DEF item_sz, d

(* object_append_word: a word, and the size. *)
WordAdded(v, data) ==
  Write(Write(v, Object_bsz + 1 + size(v), <<data>>), Object_bsz, <<size(v) + 1>>)

LEMMA WordIsAdded ==
  ASSUME NEW w, GoodObject(w), NEW v \in Seq(Contents),
         Len(v) >= Object_bsz + size(w) + 1,
         \A i \in 1 .. Object_bsz + size(w) : v[i] = w[i],
         NEW data \in Contents
  PROVE  /\ GoodObject(WordAdded(v, data))
         /\ Object(WordAdded(v, data)) = Object(w) \o <<data>>
<1> DEFINE u == size(w)
           item == <<data>>
           one == <<u + 1>>
           y == Write(v, 3 + 1 + u, item)
           x == Write(y, 3, one)
<1>1. u \in Nat /\ w \in Seq(Contents) /\ Len(w) \in Nat /\ u + 3 <= Len(w)
  BY DEF GoodObject, Object_bsz
<1>2. Len(v) \in Nat /\ Len(v) >= 3 + u + 1 /\ \A i \in 1 .. 3 + u : v[i] = w[i]
  BY DEF Object_bsz
<1>3. size(v) = u
  BY <1>1, <1>2 DEF size
<1>4. WordAdded(v, data) = x
  BY <1>3 DEF WordAdded, Object_bsz
<1>5. /\ item \in Seq(Contents) /\ Len(item) = 1 /\ item[1] = data
      /\ one \in Seq(Contents) /\ Len(one) = 1 /\ one[1] = u + 1
      /\ 3 + 1 + u \in Nat \ {0}
  BY <1>1 DEF Contents
<1> HIDE DEF u, x, y, one, item
<1>6. /\ y \in Seq(Contents) /\ Len(y) = Len(v)
      /\ \A k \in 1 .. Len(v) :
           y[k] = IF 4 + u <= k /\ k < 4 + u + Len(item) THEN item[k - (4 + u) + 1] ELSE v[k]
  <2>1. 3 + 1 + u = 4 + u
    BY <1>1
  <2> QED BY <2>1, <1>5, Writing DEF y
<1>7. /\ x \in Seq(Contents) /\ Len(x) = Len(v)
      /\ \A k \in 1 .. Len(v) :
           x[k] = IF 3 <= k /\ k < 3 + Len(one) THEN one[k - 3 + 1] ELSE y[k]
  BY <1>5, <1>6, Writing DEF x
<1>8. x[3] = u + 1
  <2>1. 3 \in 1 .. Len(v) /\ 3 - 3 + 1 = 1
    BY <1>1, <1>2
  <2> QED BY <2>1, <1>5, <1>7
<1>9. \A i \in 1 .. u : x[3 + i] = w[3 + i]
  <2> TAKE i \in 1 .. u
  <2>1. 3 + i \in 1 .. Len(v) /\ 3 + i \in 1 .. 3 + u
    BY <1>1, <1>2
  <2> QED BY <2>1, <1>1, <1>2, <1>5, <1>6, <1>7
<1>10. \A i \in 1 .. 1 : x[3 + u + i] = item[i]
  <2> TAKE i \in 1 .. 1
  <2>1. i = 1 /\ 4 + u \in 1 .. Len(v) /\ (4 + u) - (4 + u) + 1 = 1 /\ 3 + u + i = 4 + u
    BY <1>1, <1>2, <1>5
  <2>2. x[4 + u] = y[4 + u]
    BY <2>1, <1>1, <1>5, <1>7
  <2>3. y[4 + u] = item[1]
    BY <2>1, <1>1, <1>5, <1>6
  <2> QED BY <2>1, <2>2, <2>3
<1>11. Part(x, 3, u + 1) = Part(w, 3, u) \o item
  <2> DEFINE n == u + 1
             m == 3
  <2>1. m + u <= Len(w) /\ m + n <= Len(x)
    BY <1>1, <1>2, <1>5, <1>7
  <2>2. /\ w \in Seq(Contents) /\ x \in Seq(Contents) /\ item \in Seq(Contents)
        /\ m \in Nat /\ u \in Nat /\ n \in Nat /\ n = u + Len(item)
        /\ Follows(x, m + u, item) /\ Same(x, w, m, u)
    BY <1>1, <1>5, <1>7, <1>9, <1>10 DEF Same, Follows
  <2> HIDE DEF n, m
  <2>3. Extends(Contents, x, w, m, u, item, n)
    BY ONLY <2>1, <2>2 DEF Extends
  <2>4. Part(x, m, n) = Part(w, m, u) \o item
    BY ONLY <2>3, PartExtended
  <2> QED BY <2>4 DEF n, m
<1>12. Object(x) = Object(w) \o item
  BY <1>5, <1>8, <1>11 DEF Object, Part, size, Object_bsz, u
<1>13. GoodObject(x)
  BY <1>1, <1>2, <1>7, <1>8 DEF GoodObject, size, Object_bsz
<1> QED BY <1>4, <1>12, <1>13 DEF item

(* A block that has the header and the contents of an array is that array. *)
LEMMA ArrayIsKept ==
  ASSUME NEW w, GoodArray(w), NEW v \in Seq(Contents),
         Len(v) >= Array_bsz + used_sz(w),
         \A i \in 1 .. Array_bsz + used_sz(w) : v[i] = w[i]
  PROVE  GoodArray(v) /\ item_sz(v) = item_sz(w) /\ Array(v) = Array(w)
<1> DEFINE u == used_sz(w)
<1>1. u \in Nat /\ w \in Seq(Contents) /\ 2 + u <= Len(w) /\ Len(w) \in Nat
      /\ Len(v) \in Nat /\ 2 + u <= Len(v)
  BY DEF GoodArray, Array_bsz
<1>2. \A i \in 1 .. 2 + u : v[i] = w[i]
  BY DEF Array_bsz
<1>3. used_sz(v) = u /\ item_sz(v) = item_sz(w)
  BY <1>1, <1>2 DEF used_sz, item_sz
<1>4. GoodArray(v)
  BY <1>1, <1>3 DEF GoodArray, Array_bsz
<1> HIDE DEF u
<1>5. Same(v, w, 2, u)
  BY <1>1, <1>2 DEF Same
<1>6. Part(v, 2, u) = Part(w, 2, u)
  BY <1>1, <1>5, PartKept
<1> QED BY <1>3, <1>4, <1>6 DEF Array, Part, Array_bsz, u

(* An object likewise, *)
LEMMA ObjectIsKept ==
  ASSUME NEW w, GoodObject(w), NEW v \in Seq(Contents),
         Len(v) >= Object_bsz + size(w),
         \A i \in 1 .. Object_bsz + size(w) : v[i] = w[i]
  PROVE  GoodObject(v) /\ Object(v) = Object(w)
<1> DEFINE u == size(w)
<1>1. u \in Nat /\ w \in Seq(Contents) /\ 3 + u <= Len(w) /\ Len(w) \in Nat
      /\ Len(v) \in Nat /\ 3 + u <= Len(v)
  BY DEF GoodObject, Object_bsz
<1>2. \A i \in 1 .. 3 + u : v[i] = w[i]
  BY DEF Object_bsz
<1>3. size(v) = u
  BY <1>1, <1>2 DEF size
<1>4. GoodObject(v)
  BY <1>1, <1>3 DEF GoodObject, Object_bsz
<1> HIDE DEF u
<1>5. Same(v, w, 3, u)
  BY <1>1, <1>2 DEF Same
<1>6. Part(v, 3, u) = Part(w, 3, u)
  BY <1>1, <1>5, PartKept
<1> QED BY <1>3, <1>4, <1>6 DEF Object, Part, Object_bsz, u

(* or, with a lower size and the words up to there, its beginning. *)
LEMMA ObjectIsCut ==
  ASSUME NEW w, GoodObject(w), NEW n \in Nat, n < size(w),
         NEW v \in Seq(Contents), Len(v) >= Object_bsz + n,
         \A i \in 1 .. Object_bsz + n : v[i] = w[i]
  PROVE  /\ GoodObject(Write(v, Object_bsz, <<n>>))
         /\ Object(Write(v, Object_bsz, <<n>>)) = SubSeq(Object(w), 1, n)
         /\ Object(w) \in Seq(Contents) /\ Len(Object(w)) = size(w)
<1> DEFINE u == size(w)
           one == <<n>>
           x == Write(v, 3, one)
<1>1. u \in Nat /\ w \in Seq(Contents) /\ 3 + u <= Len(w) /\ Len(w) \in Nat
      /\ Len(v) \in Nat /\ 3 + n <= Len(v) /\ n <= u
  BY DEF GoodObject, Object_bsz
<1>2. \A i \in 1 .. 3 + n : v[i] = w[i]
  BY DEF Object_bsz
<1>3. one \in Seq(Contents) /\ Len(one) = 1 /\ one[1] = n /\ 3 \in Nat \ {0}
  BY DEF Contents
<1> HIDE DEF u, one, x
<1>4. /\ x \in Seq(Contents) /\ Len(x) = Len(v)
      /\ \A k \in 1 .. Len(v) :
           x[k] = IF 3 <= k /\ k < 3 + Len(one) THEN one[k - 3 + 1] ELSE v[k]
  <2> DEFINE m == 3
  <2>1. m \in Nat \ {0} /\ one \in Seq(Contents) /\ v \in Seq(Contents)
    BY <1>3
  <2>2. x = Write(v, m, one)
    BY DEF x
  <2> HIDE DEF m
  <2>3. /\ x \in Seq(Contents) /\ Len(x) = Len(v)
        /\ \A k \in 1 .. Len(v) :
             x[k] = IF m <= k /\ k < m + Len(one) THEN one[k - m + 1] ELSE v[k]
    BY ONLY <2>1, <2>2, Writing
  <2> QED BY <2>3 DEF m
<1>5. x[3] = n
  <2>1. 3 \in 1 .. Len(v) /\ 3 <= 3 /\ 3 < 3 + Len(one) /\ 3 - 3 + 1 = 1
    BY <1>1, <1>3
  <2>2. x[3] = one[3 - 3 + 1]
    BY ONLY <2>1, <1>4
  <2> QED BY ONLY <2>1, <2>2, <1>3
<1>6. Same(x, w, 3, n)
  <2>1. \A i \in 1 .. n : 3 + i \in 1 .. Len(v) /\ 3 + i \in 1 .. 3 + n /\ ~(3 + i < 3 + 1)
    BY <1>1
  <2> QED BY <2>1, <1>2, <1>3, <1>4 DEF Same
<1>7. Part(x, 3, n) = SubSeq(Part(w, 3, u), 1, n)
  BY <1>1, <1>4, <1>6, PartCut
<1>8. GoodObject(x)
  BY <1>1, <1>4, <1>5 DEF GoodObject, size, Object_bsz
<1>9. Part(w, 3, u) \in Seq(Contents) /\ Len(Part(w, 3, u)) = u
  BY <1>1, PartIs
<1> QED BY <1>5, <1>7, <1>8, <1>9 DEF Object, Part, size, Object_bsz, u, x, one

(* array and object write the header of a new block, object its contents too. *)
LEMMA ArrayIsNew ==
  ASSUME NEW v \in Seq(Contents), Len(v) >= Array_bsz, NEW isz \in ItemSizes
  PROVE  LET x == Write(v, 1, <<0, isz>>)
         IN  GoodArray(x) /\ Array(x) = <<>> /\ item_sz(x) = isz
<1> DEFINE h == <<0, isz>>
           x == Write(v, 1, h)
<1>1. isz \in Nat \ {0} /\ Len(v) \in Nat /\ Len(v) >= 2
  BY SizesAssumption DEF Array_bsz
<1>2. h \in Seq(Contents) /\ Len(h) = 2 /\ h[1] = 0 /\ h[2] = isz
  BY <1>1 DEF Contents
<1> HIDE DEF h, x
<1>3. /\ x \in Seq(Contents) /\ Len(x) = Len(v)
      /\ \A k \in 1 .. Len(v) :
           x[k] = IF 1 <= k /\ k < 1 + Len(h) THEN h[k - 1 + 1] ELSE v[k]
  <2>1. 1 \in Nat \ {0} /\ h \in Seq(Contents) /\ v \in Seq(Contents)
    BY <1>2
  <2> QED BY ONLY <2>1, Writing DEF x
<1>4. x[1] = 0 /\ x[2] = isz
  <2>1. 1 \in 1 .. Len(v) /\ 2 \in 1 .. Len(v)
    BY <1>1
  <2> QED BY <2>1, <1>2, <1>3
<1>5. 0 % isz = 0
  BY <1>1
<1>6. GoodArray(x)
  BY <1>1, <1>3, <1>4, <1>5 DEF GoodArray, used_sz, item_sz, Array_bsz
<1>7. SubSeq(x, 3, 2) = <<>>
  BY SubSeqEmpty
<1>8. Array(x) = <<>>
  BY <1>4, <1>7 DEF Array, used_sz, Array_bsz
<1> QED BY <1>4, <1>6, <1>8 DEF item_sz, x, h

LEMMA ObjectIsNew ==
  ASSUME NEW v \in Seq(Contents), NEW s \in Seq(Contents), Len(v) >= Object_bsz + Len(s)
  PROVE  LET x == Write(v, 1, <<0, Junk, Len(s)>> \o s)
         IN  GoodObject(x) /\ Object(x) = s
<1> DEFINE h == <<0, Junk, Len(s)>>
           hs == h \o s
           x == Write(v, 1, hs)
<1>1. Len(s) \in Nat /\ Len(v) \in Nat /\ Len(v) >= 3 + Len(s)
  BY DEF Object_bsz
<1>2. h \in Seq(Contents) /\ Len(h) = 3 /\ h[3] = Len(s)
  BY <1>1 DEF Contents
<1> HIDE DEF h, hs, x
<1>3. /\ hs \in Seq(Contents) /\ Len(hs) = 3 + Len(s)
      /\ \A i \in 1 .. 3 + Len(s) : hs[i] = IF i <= 3 THEN h[i] ELSE s[i - 3]
  <2>1. /\ hs \in Seq(Contents) /\ Len(hs) = Len(h) + Len(s)
        /\ \A i \in 1 .. Len(h) + Len(s) :
             hs[i] = IF i <= Len(h) THEN h[i] ELSE s[i - Len(h)]
    <3>1. h \in Seq(Contents) /\ s \in Seq(Contents)
      BY <1>2
    <3> QED BY ONLY <3>1, ConcatProperties DEF hs
  <2> QED BY <1>2, <2>1
<1>4. /\ x \in Seq(Contents) /\ Len(x) = Len(v)
      /\ \A k \in 1 .. Len(v) :
           x[k] = IF 1 <= k /\ k < 1 + Len(hs) THEN hs[k - 1 + 1] ELSE v[k]
  BY <1>3, Writing DEF x
<1>5. \A k \in 1 .. 3 + Len(s) : x[k] = hs[k]
  <2>1. \A k \in 1 .. 3 + Len(s) : k \in 1 .. Len(v) /\ 1 <= k /\ k < 1 + (3 + Len(s))
                                   /\ k - 1 + 1 = k
    BY <1>1
  <2> QED BY <2>1, <1>3, <1>4
<1>6. x[3] = Len(s)
  BY <1>1, <1>2, <1>3, <1>5
<1>7. Follows(x, 3, s)
  <2>1. \A i \in 1 .. Len(s) : 3 + i \in 1 .. 3 + Len(s) /\ ~(3 + i <= 3) /\ (3 + i) - 3 = i
    BY <1>1
  <2> QED BY <2>1, <1>3, <1>5 DEF Follows
<1>8. /\ Part(x, 3, Len(s)) \in Seq(Contents) /\ Len(Part(x, 3, Len(s))) = Len(s)
      /\ \A i \in 1 .. Len(s) : Part(x, 3, Len(s))[i] = x[3 + i]
  <2>1. 3 \in Nat /\ Len(s) \in Nat /\ 3 + Len(s) <= Len(x) /\ x \in Seq(Contents)
    BY <1>1, <1>4
  <2> QED BY ONLY <2>1, PartIs
<1>9. Part(x, 3, Len(s)) = s
  <2>1. \A i \in 1 .. Len(s) : Part(x, 3, Len(s))[i] = s[i]
    BY <1>7, <1>8 DEF Follows
  <2> QED BY <2>1, <1>8, SeqEqual
<1>10. GoodObject(x)
  BY <1>1, <1>4, <1>6 DEF GoodObject, size, Object_bsz
<1> QED BY <1>6, <1>9, <1>10 DEF Object, Part, size, Object_bsz, x, hs, h
-----------------------------------------------------------------------------
(* What a call leaves: null and the blocks as they were, or a sound list.  *)
Words(kind, w) == IF kind = "array" THEN Array(w) ELSE Object(w)

Became(B, a, kind, list, r) ==
  /\ Moved(B, a, r)
  /\ r.addr # NoBlock
  /\ Good(kind, r.blocks[r.addr])
  /\ Words(kind, r.blocks[r.addr]) = list

BlocksUsable(B) == B = [c \in DOMAIN B |-> B[c]] /\ DOMAIN B \subseteq BlockAddr

(* A change inside the new block. *)
LEMMA Rewritten ==
  ASSUME NEW B, NEW a, NEW q, Moved(B, a, q), q.addr # NoBlock, NEW x
  PROVE  /\ Moved(B, a, Holding(q, x))
         /\ Holding(q, x).addr = q.addr
         /\ Holding(q, x).blocks[q.addr] = x
<1> DEFINE r == Holding(q, x)
<1>1. /\ q = [blocks |-> q.blocks, addr |-> q.addr]
      /\ q.blocks = [c \in DOMAIN q.blocks |-> q.blocks[c]]
      /\ q.addr \in DOMAIN q.blocks
  BY DEF Moved
<1>2. r = [blocks |-> [q.blocks EXCEPT ![q.addr] = x], addr |-> q.addr]
  BY <1>1 DEF Holding
<1>3. /\ DOMAIN r.blocks = DOMAIN q.blocks /\ r.addr = q.addr /\ r.blocks[q.addr] = x
      /\ \A c \in DOMAIN q.blocks : c # q.addr => r.blocks[c] = q.blocks[c]
      /\ r.blocks = [c \in DOMAIN r.blocks |-> r.blocks[c]]
  BY <1>1, <1>2
<1>4. \A c \in DOMAIN B \ {a, r.addr} : r.blocks[c] = B[c]
  BY <1>3 DEF Moved
<1> HIDE DEF r
<1>5. r = [blocks |-> r.blocks, addr |-> r.addr]
  BY <1>2
<1>6. Moved(B, a, r)
  BY <1>3, <1>4, <1>5 DEF Moved
<1> QED BY <1>3, <1>6 DEF r

(* Nothing moves where there is room. *)
LEMMA Stays ==
  ASSUME NEW B, BlocksUsable(B), NEW a \in DOMAIN B
  PROVE  Moved(B, a, [blocks |-> B, addr |-> a])
BY DEF BlocksUsable, Moved

LEMMA ArrayAnswers ==
  ASSUME BlocksUsable(blocks), NEW n \in Nat, NEW isz \in ItemSizes, NEW r \in array(n, isz)
  PROVE  r = Failed(blocks) \/ Became(blocks, NoBlock, "array", <<>>, r)
<1>1. PICK q \in alloc(blocks, n * isz + Array_bsz) :
        r = Holding(q, Write(q.blocks[q.addr], 1, <<0, isz>>))
  BY DEF array, Filled
<1>2. isz \in Nat /\ n * isz \in Nat
  BY SizesAssumption
<1>3. n * isz + Array_bsz \in Nat /\ n * isz + Array_bsz >= Array_bsz
  BY <1>2 DEF Array_bsz
<1>4. CASE q = Failed(blocks)
  BY <1>1, <1>4 DEF Failed, Holding
<1>5. CASE q # Failed(blocks)
  <2> DEFINE v == q.blocks[q.addr]
             x == Write(v, 1, <<0, isz>>)
  <2>1. /\ Moved(blocks, NoBlock, q) /\ q.addr # NoBlock
        /\ v \in Seq(Contents) /\ Len(v) >= n * isz + Array_bsz
    BY <1>3, <1>5, Allocated DEF BlocksUsable
  <2>2. Len(v) >= Array_bsz
    BY <1>2, <2>1, LenProperties DEF Array_bsz
  <2>3. GoodArray(x) /\ Array(x) = <<>>
    BY <2>1, <2>2, ArrayIsNew
  <2>4. r = Holding(q, x)
    BY <1>1, <2>1
  <2> HIDE DEF x
  <2> QED BY <2>1, <2>3, <2>4, Rewritten DEF Became, Good, Words
<1> QED BY <1>4, <1>5

LEMMA ObjectAnswers ==
  ASSUME BlocksUsable(blocks), NEW n \in Nat, NEW s \in Seq(Contents), NEW r \in object(n, s)
  PROVE  r = Failed(blocks) \/ Became(blocks, NoBlock, "object", s, r)
<1> DEFINE h == <<0, Junk, Len(s)>> \o s
<1>1. CASE n < Len(s)
  BY <1>1 DEF object
<1>2. CASE ~(n < Len(s))
  <2>1. PICK q \in alloc(blocks, n + Object_bsz) :
          r = Holding(q, Write(q.blocks[q.addr], 1, h))
    BY <1>2 DEF object, Filled
  <2>2. n + Object_bsz \in Nat /\ Len(s) \in Nat /\ n + Object_bsz >= Object_bsz + Len(s)
    BY <1>2 DEF Object_bsz
  <2>3. CASE q = Failed(blocks)
    BY <2>1, <2>3 DEF Failed, Holding
  <2>4. CASE q # Failed(blocks)
    <3> DEFINE v == q.blocks[q.addr]
               x == Write(v, 1, h)
    <3>1. /\ Moved(blocks, NoBlock, q) /\ q.addr # NoBlock
          /\ v \in Seq(Contents) /\ Len(v) >= n + Object_bsz
      BY <2>2, <2>4, Allocated DEF BlocksUsable
    <3>2. Len(v) >= Object_bsz + Len(s)
      BY <2>2, <3>1, LenProperties DEF Object_bsz
    <3>3. GoodObject(x) /\ Object(x) = s
      BY <3>1, <3>2, ObjectIsNew
    <3>4. r = Holding(q, x)
      BY <2>1, <3>1
    <3> HIDE DEF x
    <3> QED BY <3>1, <3>3, <3>4, Rewritten DEF Became, Good, Words
  <2> QED BY <2>3, <2>4
<1> QED BY <1>1, <1>2

LEMMA AppendAnswers ==
  ASSUME BlocksUsable(blocks), NEW a \in DOMAIN blocks, GoodArray(blocks[a]),
         NEW item \in Seq(Contents), Len(item) = item_sz(blocks[a]),
         NEW r \in array_append(a, item)
  PROVE  \/ r = Failed(blocks)
         \/ /\ Became(blocks, a, "array", Array(blocks[a]) \o item, r)
            /\ item_sz(r.blocks[r.addr]) = item_sz(blocks[a])
<1> DEFINE w == blocks[a]
           here == [blocks |-> blocks, addr |-> a]
<1>1. PICK q \in (IF Full(w) THEN realloc(blocks, a, Grown(w)) ELSE {here}) :
        r = Holding(q, ItemAdded(q.blocks[q.addr], item))
  BY DEF array_append, Filled, ItemAdded
<1>2. /\ used_sz(w) \in Nat /\ item_sz(w) \in Nat /\ Len(w) \in Nat /\ w \in Seq(Contents)
      /\ Array_bsz + used_sz(w) <= Len(w)
  BY SizesAssumption DEF GoodArray, Array_bsz
<1>3. CASE q = Failed(blocks)
  <2>1. r = q
    BY <1>1, <1>3 DEF Failed, Holding
  <2> QED BY <1>3, <2>1
<1>4. CASE q # Failed(blocks)
  <2> DEFINE v == q.blocks[q.addr]
             x == ItemAdded(v, item)
  <2>1. /\ Moved(blocks, a, q) /\ q.addr # NoBlock /\ v \in Seq(Contents)
        /\ Len(v) >= Array_bsz + used_sz(w) + item_sz(w)
        /\ \A i \in 1 .. Array_bsz + used_sz(w) : v[i] = w[i]
    <3>1. CASE Full(w)
      <4>1. q \in realloc(blocks, a, Grown(w))
        BY <3>1, <1>1
      <4>2. /\ Grown(w) \in Nat
            /\ Grown(w) >= Len(w) + item_sz(w)
        <5>1. Len(w) - Array_bsz \in Nat
          BY <1>2 DEF Array_bsz
        <5>2. (Len(w) - Array_bsz) \div 2 \in Nat
          BY <5>1
        <5> QED BY <5>2, <1>2 DEF Grown
      <4>3. /\ Moved(blocks, a, q) /\ q.addr # NoBlock
            /\ v \in Seq(Contents) /\ Len(v) >= Grown(w)
            /\ \A i \in 1 .. Len(v) : i <= Len(w) /\ i <= Grown(w) => v[i] = w[i]
        BY <1>2, <1>4, <4>1, <4>2, Reallocated DEF BlocksUsable
      <4>4. Len(v) \in Nat
        BY <4>3
      <4> HIDE DEF v, w
      <4>5. Len(v) >= Array_bsz + used_sz(w) + item_sz(w)
        BY <1>2, <4>2, <4>3, <4>4 DEF Array_bsz
      <4>6. \A i \in 1 .. Array_bsz + used_sz(w) :
              i \in 1 .. Len(v) /\ i <= Len(w) /\ i <= Grown(w)
        BY <1>2, <4>2, <4>3, <4>4 DEF Array_bsz
      <4> QED BY <4>3, <4>5, <4>6
    <3>2. CASE ~Full(w)
      <4>1. q = here
        BY <3>2, <1>1
      <4>2. q.blocks = blocks /\ q.addr = a /\ v = w
        BY <4>1
      <4>3. Len(w) >= Array_bsz + used_sz(w) + item_sz(w)
        BY <3>2, <1>2 DEF Full, Array_bsz
      <4>4. a # NoBlock
        BY SizesAssumption DEF BlocksUsable, NoBlock
      <4>5. Moved(blocks, a, q)
        BY <4>1, Stays
      <4> QED BY <4>2, <4>3, <4>4, <4>5, <1>2
    <3> QED BY <3>1, <3>2
  <2>2. GoodArray(x) /\ item_sz(x) = item_sz(w) /\ Array(x) = Array(w) \o item
    BY <2>1, ItemIsAdded
  <2>3. r = Holding(q, x)
    BY <1>1, <2>1
  <2> HIDE DEF x
  <2>4. Moved(blocks, a, r) /\ r.addr = q.addr /\ r.blocks[r.addr] = x
    BY <2>1, <2>3, Rewritten
  <2> QED BY <2>1, <2>2, <2>4 DEF Became, Good, Words
<1> QED BY <1>3, <1>4

LEMMA WordAnswers ==
  ASSUME BlocksUsable(blocks), NEW a \in DOMAIN blocks, GoodObject(blocks[a]),
         NEW data \in Contents, NEW r \in object_append_word(a, data)
  PROVE  \/ r = Failed(blocks)
         \/ Became(blocks, a, "object", Object(blocks[a]) \o <<data>>, r)
<1> DEFINE w == blocks[a]
           here == [blocks |-> blocks, addr |-> a]
           more == obj_sz + size(w) + size(w) \div 2 + 1
<1>1. PICK q \in (IF ObjectFull(w) THEN realloc(blocks, a, more) ELSE {here}) :
        r = Holding(q, WordAdded(q.blocks[q.addr], data))
  BY DEF object_append_word, Filled, WordAdded
<1>2. size(w) \in Nat /\ Len(w) \in Nat /\ w \in Seq(Contents) /\ Object_bsz + size(w) <= Len(w)
  BY DEF GoodObject, Object_bsz
<1>3. CASE q = Failed(blocks)
  <2>1. r = q
    BY <1>1, <1>3 DEF Failed, Holding
  <2> QED BY <1>3, <2>1
<1>4. CASE q # Failed(blocks)
  <2> DEFINE v == q.blocks[q.addr]
             x == WordAdded(v, data)
  <2>1. /\ Moved(blocks, a, q) /\ q.addr # NoBlock /\ v \in Seq(Contents)
        /\ Len(v) >= Object_bsz + size(w) + 1
        /\ \A i \in 1 .. Object_bsz + size(w) : v[i] = w[i]
    <3>1. CASE ObjectFull(w)
      <4>1. q \in realloc(blocks, a, more)
        BY <3>1, <1>1
      <4>2. more \in Nat /\ more >= Object_bsz + size(w) + 1
        BY <1>2 DEF obj_sz, Object_bsz
      <4> HIDE DEF more
      <4>3. /\ Moved(blocks, a, q) /\ q.addr # NoBlock
            /\ v \in Seq(Contents) /\ Len(v) >= more
            /\ \A i \in 1 .. Len(v) : i <= Len(w) /\ i <= more => v[i] = w[i]
        BY <1>2, <1>4, <4>1, <4>2, Reallocated DEF BlocksUsable
      <4>4. Len(v) \in Nat
        BY <4>3
      <4> HIDE DEF v, w
      <4>5. Len(v) >= Object_bsz + size(w) + 1
        BY <1>2, <4>2, <4>3, <4>4 DEF Object_bsz
      <4>6. \A i \in 1 .. Object_bsz + size(w) : i \in 1 .. Len(v) /\ i <= Len(w) /\ i <= more
        BY <1>2, <4>2, <4>3, <4>4 DEF Object_bsz
      <4> QED BY <4>3, <4>5, <4>6
    <3>2. CASE ~ObjectFull(w)
      <4>1. q = here
        BY <3>2, <1>1
      <4>2. q.blocks = blocks /\ q.addr = a /\ v = w
        BY <4>1
      <4>3. Len(w) >= Object_bsz + size(w) + 1
        BY <3>2, <1>2 DEF ObjectFull, Object_bsz
      <4>4. a # NoBlock
        BY SizesAssumption DEF BlocksUsable, NoBlock
      <4>5. Moved(blocks, a, q)
        BY <4>1, Stays
      <4> QED BY <4>2, <4>3, <4>4, <4>5, <1>2
    <3> QED BY <3>1, <3>2
  <2>2. GoodObject(x) /\ Object(x) = Object(w) \o <<data>>
    BY <2>1, WordIsAdded
  <2>3. r = Holding(q, x)
    BY <1>1, <2>1
  <2> HIDE DEF x
  <2>4. Moved(blocks, a, r) /\ r.addr = q.addr /\ r.blocks[r.addr] = x
    BY <2>1, <2>3, Rewritten
  <2> QED BY <2>1, <2>2, <2>4 DEF Became, Good, Words
<1> QED BY <1>3, <1>4

LEMMA ResizeAnswers ==
  ASSUME BlocksUsable(blocks), NEW a \in DOMAIN blocks, GoodArray(blocks[a]),
         NEW n \in Nat, n >= array_len(blocks[a]), NEW r \in array_resize(a, n)
  PROVE  \/ r = Failed(blocks)
         \/ Became(blocks, a, "array", Array(blocks[a]), r)
<1> SUFFICES ASSUME r # Failed(blocks)
             PROVE  Became(blocks, a, "array", Array(blocks[a]), r)
  OBVIOUS
<1> DEFINE w == blocks[a]
           u == used_sz(w)
           d == item_sz(w)
           more == Array_bsz + n * d
           v == r.blocks[r.addr]
<1>1. u \in Nat /\ d \in Nat \ {0} /\ Len(w) \in Nat /\ w \in Seq(Contents)
      /\ Array_bsz + u <= Len(w) /\ u % d = 0
  <2>1. u % d = 0
    BY DEF GoodArray
  <2>2. /\ u \in Nat /\ d \in ItemSizes /\ w \in Seq(Contents) /\ Array_bsz \in Nat
        /\ u <= Len(w) - Array_bsz
    BY DEF GoodArray, Array_bsz
  <2>3. d \in Nat \ {0}
    BY <2>2, SizesAssumption
  <2> HIDE DEF u, d, w
  <2> QED BY <2>1, <2>2, <2>3
<1>2. r \in realloc(blocks, a, more)
  BY DEF array_resize
<1>3. n >= u \div d
  BY DEF array_len
<1> HIDE DEF u, d
<1>4. n * d \in Nat /\ n * d >= u
  <2> DEFINE k == u \div d
  <2>1. k \in Nat /\ u = d * k
    BY <1>1, Whole
  <2>2. n >= k
    BY <1>3
  <2> HIDE DEF k
  <2> QED BY <1>1, <2>1, <2>2
<1>5. more \in Nat /\ more >= Array_bsz + u
  <2> DEFINE x == n * d
  <2>1. x \in Nat /\ x >= u /\ more = Array_bsz + x
    BY <1>4
  <2> HIDE DEF x
  <2> QED BY <1>1, <2>1 DEF Array_bsz
<1> HIDE DEF more
<1>6. /\ Moved(blocks, a, r) /\ r.addr # NoBlock
      /\ v \in Seq(Contents) /\ Len(v) >= more
      /\ \A i \in 1 .. Len(v) : i <= Len(w) /\ i <= more => v[i] = w[i]
  BY <1>1, <1>2, <1>5, Reallocated DEF BlocksUsable
<1>7. Len(v) >= Array_bsz + u /\ \A i \in 1 .. Array_bsz + u : v[i] = w[i]
  <2>1. Len(v) \in Nat
    BY <1>6
  <2>2. Len(v) >= Array_bsz + u
        /\ \A i \in 1 .. Array_bsz + u : i \in 1 .. Len(v) /\ i <= Len(w) /\ i <= more
    BY <2>1, <1>1, <1>5, <1>6 DEF Array_bsz
  <2> QED BY <2>2, <1>6
<1>8. GoodArray(v) /\ Array(v) = Array(w)
  BY <1>6, <1>7, ArrayIsKept DEF u
<1> QED BY <1>6, <1>8 DEF Became, Good, Words

LEMMA ExpandAnswers ==
  ASSUME BlocksUsable(blocks), NEW a \in DOMAIN blocks, GoodObject(blocks[a]),
         NEW n \in Nat, NEW r \in object_expand(a, n)
  PROVE  \/ r = Failed(blocks)
         \/ Became(blocks, a, "object", Object(blocks[a]), r)
         \/ /\ n < Len(Object(blocks[a]))
            /\ Became(blocks, a, "object", SubSeq(Object(blocks[a]), 1, n), r)
<1> DEFINE w == blocks[a]
           u == size(w)
           more == obj_sz + n
           Cut(v) == IF n < size(v) THEN Write(v, Object_bsz, <<n>>) ELSE v
<1>1. PICK q \in realloc(blocks, a, more) : r = Holding(q, Cut(q.blocks[q.addr]))
  BY DEF object_expand, Filled
<1>2. u \in Nat /\ Len(w) \in Nat /\ w \in Seq(Contents) /\ Object_bsz + u <= Len(w)
  BY DEF GoodObject, Object_bsz
<1>3. CASE q = Failed(blocks)
  <2>1. r = q
    BY <1>1, <1>3 DEF Failed, Holding
  <2> QED BY <1>3, <2>1
<1>4. CASE q # Failed(blocks)
  <2> DEFINE v == q.blocks[q.addr]
             x == Cut(v)
  <2>1. more \in Nat /\ more = Object_bsz + n + 1
    BY DEF obj_sz, Object_bsz
  <2> HIDE DEF more, u
  <2>2. /\ Moved(blocks, a, q) /\ q.addr # NoBlock
        /\ v \in Seq(Contents) /\ Len(v) >= more
        /\ \A i \in 1 .. Len(v) : i <= Len(w) /\ i <= more => v[i] = w[i]
    BY <1>1, <1>2, <1>4, <2>1, Reallocated DEF BlocksUsable
  <2>3. Len(v) \in Nat
    BY <2>2
  <2>4. size(v) = u
    <3>1. 3 \in 1 .. Len(v) /\ 3 <= Len(w) /\ 3 <= more
      BY <1>2, <2>1, <2>2, <2>3 DEF Object_bsz
    <3> QED BY <3>1, <2>2 DEF size, u
  <2>5. r = Holding(q, x)
    BY <1>1
  <2>6. CASE n < u
    <3>1. \A i \in 1 .. Object_bsz + n : i \in 1 .. Len(v) /\ i <= Len(w) /\ i <= more
      BY <2>6, <1>2, <2>1, <2>2, <2>3 DEF Object_bsz
    <3>2. Len(v) >= Object_bsz + n /\ \A i \in 1 .. Object_bsz + n : v[i] = w[i]
      BY <3>1, <2>1, <2>2, <2>3 DEF Object_bsz
    <3>3. x = Write(v, Object_bsz, <<n>>)
      BY <2>4, <2>6
    <3>4. /\ GoodObject(x) /\ Object(x) = SubSeq(Object(w), 1, n)
          /\ Len(Object(w)) = u
      BY <2>2, <2>6, <3>2, <3>3, ObjectIsCut DEF u
    <3> HIDE DEF x
    <3>5. Moved(blocks, a, r) /\ r.addr = q.addr /\ r.blocks[r.addr] = x
      BY <2>2, <2>5, Rewritten
    <3> QED BY <2>2, <2>6, <3>4, <3>5 DEF Became, Good, Words
  <2>7. CASE ~(n < u)
    <3>1. \A i \in 1 .. Object_bsz + u : i \in 1 .. Len(v) /\ i <= Len(w) /\ i <= more
      BY <2>7, <1>2, <2>1, <2>2, <2>3 DEF Object_bsz
    <3>2. Len(v) >= Object_bsz + u /\ \A i \in 1 .. Object_bsz + u : v[i] = w[i]
      BY <3>1, <1>2, <2>1, <2>2, <2>3, <2>7 DEF Object_bsz
    <3>3. x = v
      BY <2>4, <2>7
    <3>4. GoodObject(x) /\ Object(x) = Object(w)
      BY <2>2, <3>2, <3>3, ObjectIsKept DEF u
    <3> HIDE DEF x
    <3>5. Moved(blocks, a, r) /\ r.addr = q.addr /\ r.blocks[r.addr] = x
      BY <2>2, <2>5, Rewritten
    <3> QED BY <2>2, <3>4, <3>5 DEF Became, Good, Words
  <2> QED BY <2>6, <2>7
<1> QED BY <1>3, <1>4
-----------------------------------------------------------------------------
(* The invariant: a handle holds nothing or a sound list, and no two hold   *)
(* the same one; the rest of a string goes to a handle whose items, if it   *)
(* has an array, are single words.                                          *)
Kinds == {"array", "object"}

Holds(B, d) ==
  \/ d = Nothing
  \/ /\ d = [kind |-> d.kind, addr |-> d.addr] /\ d.kind \in Kinds
     /\ d.addr \in DOMAIN B /\ Good(d.kind, B[d.addr])

HandlesSound(B, H) ==
  /\ BlocksUsable(B)
  /\ H = [h \in Handles |-> H[h]]
  /\ \A h \in Handles : Holds(B, H[h])
  /\ \A g, h \in Handles :
       g # h /\ H[g] # Nothing /\ H[h] # Nothing => H[g].addr # H[h].addr

StringSound(B, H, s) ==
  \/ s = Idle
  \/ /\ s.h \in Handles /\ s.rest \in Seq(Characters) /\ s.rest # <<>>
     /\ H[s.h].kind = "array" => item_sz(B[H[s.h].addr]) = 1

ListsSound == HandlesSound(blocks, held) /\ StringSound(blocks, held, str)

(* The lists, and the lost blocks, as functions of the state. *)
ListsOf(B, H) == [h \in Handles |-> Content(B, H[h])]
LostOf(B, H) == DOMAIN B \ {H[h].addr : h \in Handles}

(* A function with one value changed. *)
With(f, x, y) == [f EXCEPT ![x] = y]

(* What a handle holds. *)
Held(kind, a) == [kind |-> kind, addr |-> a]

LEMMA NothingIs ==
  ASSUME NEW B, BlocksUsable(B)
  PROVE  /\ Nothing.addr = NoBlock /\ Nothing.kind = "none" /\ Nothing.kind \notin Kinds
         /\ NoBlock \notin DOMAIN B /\ NoBlock \notin BlockAddr
BY SizesAssumption DEF Nothing, NoBlock, Kinds, BlocksUsable

(* A handle takes the list that an answer brings. *)
LEMMA Taking ==
  ASSUME NEW B, NEW H, HandlesSound(B, H), NEW h \in Handles, NEW kind \in Kinds,
         NEW list, NEW a, a = H[h].addr, NEW r, Became(B, a, kind, list, r),
         NEW H2, H2 = With(H, h, Held(kind, r.addr))
  PROVE  /\ HandlesSound(r.blocks, H2)
         /\ ListsOf(r.blocks, H2) = With(ListsOf(B, H), h, list)
         /\ LostOf(r.blocks, H2) \subseteq LostOf(B, H)
         /\ H2[h] = Held(kind, r.addr)
<1> DEFINE C == r.blocks
           d == Held(kind, r.addr)
<1>1. /\ r.addr \in BlockAddr /\ (r.addr = a \/ r.addr \notin DOMAIN B) /\ r.addr # NoBlock
      /\ DOMAIN C = (DOMAIN B \ {a}) \cup {r.addr}
      /\ \A c \in DOMAIN B \ {a, r.addr} : C[c] = B[c]
      /\ C = [c \in DOMAIN C |-> C[c]]
      /\ Good(kind, C[r.addr]) /\ Words(kind, C[r.addr]) = list
  BY DEF Became, Moved
<1>2. /\ H2[h] = d /\ \A g \in Handles : g # h => H2[g] = H[g]
      /\ H2 = [g \in Handles |-> H2[g]]
      /\ d.kind = kind /\ d.addr = r.addr /\ d # Nothing
  BY DEF HandlesSound, Kinds, Nothing, With, Held
<1> HIDE DEF C, d
<1>3. BlocksUsable(C)
  BY <1>1 DEF HandlesSound, BlocksUsable
<1>4. ASSUME NEW g \in Handles, g # h, H[g] # Nothing
      PROVE  /\ H[g].addr \in DOMAIN B \ {a, r.addr}
             /\ H[g].addr \in DOMAIN C /\ C[H[g].addr] = B[H[g].addr]
  <2>1. H[g].addr \in DOMAIN B
    BY <1>4 DEF HandlesSound, Holds
  <2>2. H[g].addr # a
    <3>1. CASE H[h] = Nothing
      BY <2>1, <3>1, NothingIs DEF HandlesSound
    <3>2. CASE H[h] # Nothing
      BY <1>4, <3>2 DEF HandlesSound
    <3> QED BY <3>1, <3>2
  <2> QED BY <1>1, <2>1, <2>2
<1>5. \A g \in Handles : Holds(C, H2[g])
  <2> TAKE g \in Handles
  <2>1. CASE g = h
    BY <2>1, <1>1, <1>2 DEF Holds, Held, d
  <2>2. CASE g # h /\ H[g] # Nothing
    <3>1. Holds(B, H[g]) /\ H2[g] = H[g]
      BY <2>2, <1>2 DEF HandlesSound
    <3> QED BY <2>2, <3>1, <1>4 DEF Holds
  <2>3. CASE g # h /\ H[g] = Nothing
    BY <2>3, <1>2 DEF Holds
  <2> QED BY <2>1, <2>2, <2>3
<1>6. \A f, g \in Handles :
        f # g /\ H2[f] # Nothing /\ H2[g] # Nothing => H2[f].addr # H2[g].addr
  <2> TAKE f, g \in Handles
  <2>1. CASE f = h /\ g # h
    BY <2>1, <1>2, <1>4
  <2>2. CASE g = h /\ f # h
    BY <2>2, <1>2, <1>4
  <2>3. CASE f # h /\ g # h
    BY <2>3, <1>2 DEF HandlesSound
  <2> QED BY <2>1, <2>2, <2>3
<1>7. ListsOf(C, H2) = With(ListsOf(B, H), h, list)
  <2>1. ASSUME NEW g \in Handles
        PROVE  Content(C, H2[g]) = IF g = h THEN list ELSE Content(B, H[g])
    <3>1. CASE g = h
      BY <3>1, <1>1, <1>2 DEF Content, Words
    <3>2. CASE g # h /\ H[g] # Nothing
      BY <3>2, <1>2, <1>4 DEF Content
    <3>3. CASE g # h /\ H[g] = Nothing
      BY <3>3, <1>2 DEF Content
    <3> QED BY <3>1, <3>2, <3>3
  <2> QED BY <2>1 DEF ListsOf, With
<1>8. LostOf(C, H2) \subseteq LostOf(B, H)
  <2> SUFFICES ASSUME NEW c \in DOMAIN C, \A g \in Handles : c # H2[g].addr
               PROVE  c \in DOMAIN B /\ \A g \in Handles : c # H[g].addr
    BY DEF LostOf
  <2>1. c # r.addr
    BY <1>2
  <2>2. c \in DOMAIN B /\ c # a
    BY <2>1, <1>1
  <2> QED BY <2>2, <1>2
<1>9. HandlesSound(C, H2)
  BY <1>2, <1>3, <1>5, <1>6 DEF HandlesSound
<1> QED BY <1>2, <1>7, <1>8, <1>9 DEF C, d

(* A handle gives up its block, which nobody refers to any more, *)
LEMMA Losing ==
  ASSUME NEW B, NEW H, HandlesSound(B, H), NEW h \in Handles,
         NEW C, C = Forget(B, H[h].addr), NEW H2, H2 = With(H, h, Nothing)
  PROVE  /\ HandlesSound(C, H2)
         /\ ListsOf(C, H2) = With(ListsOf(B, H), h, None)
         /\ LostOf(C, H2) \subseteq LostOf(B, H) \cup {H[h].addr}
         /\ H2[h] = Nothing
<1>1. /\ H2[h] = Nothing /\ \A g \in Handles : g # h => H2[g] = H[g]
      /\ H2 = [g \in Handles |-> H2[g]]
  BY DEF HandlesSound, With
<1>2. /\ DOMAIN C = DOMAIN B /\ C = [c \in DOMAIN C |-> C[c]]
      /\ \A c \in DOMAIN B : c # H[h].addr => C[c] = B[c]
  BY DEF Forget
<1>3. BlocksUsable(C)
  BY <1>2 DEF HandlesSound, BlocksUsable
<1>4. ASSUME NEW g \in Handles, g # h, H[g] # Nothing
      PROVE  H[g].addr \in DOMAIN B /\ C[H[g].addr] = B[H[g].addr]
  <2>1. H[g].addr \in DOMAIN B
    BY <1>4 DEF HandlesSound, Holds
  <2>2. H[g].addr # H[h].addr
    <3>1. CASE H[h] = Nothing
      BY <2>1, <3>1, NothingIs DEF HandlesSound
    <3>2. CASE H[h] # Nothing
      BY <1>4, <3>2 DEF HandlesSound
    <3> QED BY <3>1, <3>2
  <2> QED BY <1>2, <2>1, <2>2
<1>5. \A g \in Handles : Holds(C, H2[g])
  <2> TAKE g \in Handles
  <2>1. CASE g # h /\ H[g] # Nothing
    <3>1. Holds(B, H[g]) /\ H2[g] = H[g]
      BY <2>1, <1>1 DEF HandlesSound
    <3> QED BY <2>1, <3>1, <1>2, <1>4 DEF Holds
  <2> QED BY <2>1, <1>1 DEF Holds
<1>6. \A f, g \in Handles :
        f # g /\ H2[f] # Nothing /\ H2[g] # Nothing => H2[f].addr # H2[g].addr
  BY <1>1 DEF HandlesSound
<1>7. ListsOf(C, H2) = With(ListsOf(B, H), h, None)
  <2>1. ASSUME NEW g \in Handles
        PROVE  Content(C, H2[g]) = IF g = h THEN None ELSE Content(B, H[g])
    <3>1. CASE g = h \/ H[g] = Nothing
      BY <3>1, <1>1 DEF Content
    <3>2. CASE g # h /\ H[g] # Nothing
      BY <3>2, <1>1, <1>4 DEF Content
    <3> QED BY <3>1, <3>2
  <2> QED BY <2>1 DEF ListsOf, With
<1>8. LostOf(C, H2) \subseteq LostOf(B, H) \cup {H[h].addr}
  BY <1>1, <1>2 DEF LostOf
<1> QED BY <1>1, <1>3, <1>5, <1>6, <1>7, <1>8 DEF HandlesSound

(* or frees it. *)
LEMMA Freeing ==
  ASSUME NEW B, NEW H, HandlesSound(B, H), NEW h \in Handles, H[h] # Nothing,
         NEW C, C = free(B, H[h].addr), NEW H2, H2 = With(H, h, Nothing)
  PROVE  /\ HandlesSound(C, H2)
         /\ ListsOf(C, H2) = With(ListsOf(B, H), h, None)
         /\ LostOf(C, H2) \subseteq LostOf(B, H)
<1>1. /\ H2[h] = Nothing /\ \A g \in Handles : g # h => H2[g] = H[g]
      /\ H2 = [g \in Handles |-> H2[g]]
  BY DEF HandlesSound, With
<1>2. /\ DOMAIN C = DOMAIN B \ {H[h].addr} /\ C = [c \in DOMAIN C |-> C[c]]
      /\ \A c \in DOMAIN C : C[c] = B[c]
  BY DEF free
<1>3. BlocksUsable(C)
  BY <1>2 DEF HandlesSound, BlocksUsable
<1>4. ASSUME NEW g \in Handles, g # h, H[g] # Nothing
      PROVE  H[g].addr \in DOMAIN C /\ C[H[g].addr] = B[H[g].addr]
  <2>1. H[g].addr \in DOMAIN B
    BY <1>4 DEF HandlesSound, Holds
  <2>2. H[g].addr # H[h].addr
    BY <1>4 DEF HandlesSound
  <2> QED BY <1>2, <2>1, <2>2
<1>5. \A g \in Handles : Holds(C, H2[g])
  <2> TAKE g \in Handles
  <2>1. CASE g # h /\ H[g] # Nothing
    <3>1. Holds(B, H[g]) /\ H2[g] = H[g]
      BY <2>1, <1>1 DEF HandlesSound
    <3> QED BY <2>1, <3>1, <1>2, <1>4 DEF Holds
  <2> QED BY <2>1, <1>1 DEF Holds
<1>6. \A f, g \in Handles :
        f # g /\ H2[f] # Nothing /\ H2[g] # Nothing => H2[f].addr # H2[g].addr
  BY <1>1 DEF HandlesSound
<1>7. ListsOf(C, H2) = With(ListsOf(B, H), h, None)
  <2>1. ASSUME NEW g \in Handles
        PROVE  Content(C, H2[g]) = IF g = h THEN None ELSE Content(B, H[g])
    <3>1. CASE g = h \/ H[g] = Nothing
      BY <3>1, <1>1 DEF Content
    <3>2. CASE g # h /\ H[g] # Nothing
      BY <3>2, <1>1, <1>4 DEF Content
    <3> QED BY <3>1, <3>2
  <2> QED BY <2>1 DEF ListsOf, With
<1>8. LostOf(C, H2) \subseteq LostOf(B, H)
  BY <1>1, <1>2 DEF LostOf
<1> QED BY <1>1, <1>3, <1>5, <1>6, <1>7, <1>8 DEF HandlesSound
-----------------------------------------------------------------------------
(* What a step may do to the lists, and to the blocks that nobody has. *)
Becomes(h, list) == Lists' = With(Lists, h, list)

LostStep ==
  \A a \in Lost' \ Lost : \E h \in Handles : held[h].addr = a /\ held'[h] = Nothing

LEMMA OfTheState ==
  Lists = ListsOf(blocks, held) /\ Lost = LostOf(blocks, held)
BY DEF Lists, ListsOf, Lost, LostOf

LEMMA TakesAnswer ==
  ASSUME HandlesSound(blocks, held), NEW h \in Handles, NEW kind \in Kinds,
         NEW list, NEW r, Takes(h, kind, r),
         r = Failed(blocks) \/ Became(blocks, held[h].addr, kind, list, r)
  PROVE  /\ HandlesSound(blocks', held') /\ LostStep
         /\ \/ Becomes(h, None) /\ held'[h] = Nothing
            \/ /\ Becomes(h, list) /\ r.addr # NoBlock
               /\ held'[h].kind = kind /\ held'[h].addr = r.addr /\ blocks' = r.blocks
<1>1. CASE r = Failed(blocks)
  <2>1. /\ blocks' = Forget(blocks, held[h].addr)
        /\ held' = With(held, h, Nothing)
    BY <1>1 DEF Takes, Failed, With
  <2>2. /\ HandlesSound(blocks', held')
        /\ ListsOf(blocks', held') = With(ListsOf(blocks, held), h, None)
        /\ LostOf(blocks', held') \subseteq LostOf(blocks, held) \cup {held[h].addr}
        /\ held'[h] = Nothing
    <3> DEFINE C == Forget(blocks, held[h].addr)
               H2 == With(held, h, Nothing)
    <3>1. /\ HandlesSound(C, H2)
          /\ ListsOf(C, H2) = With(ListsOf(blocks, held), h, None)
          /\ LostOf(C, H2) \subseteq LostOf(blocks, held) \cup {held[h].addr}
          /\ H2[h] = Nothing
      BY Losing
    <3> HIDE DEF C, H2
    <3>2. blocks' = C /\ held' = H2
      BY <2>1 DEF C, H2
    <3> QED BY <3>1, <3>2
  <2>3. Becomes(h, None) /\ LostStep
    BY <2>2 DEF Becomes, LostStep, Lists, ListsOf, Lost, LostOf
  <2> QED BY <2>2, <2>3
<1>2. CASE Became(blocks, held[h].addr, kind, list, r)
  <2>1. /\ blocks' = r.blocks /\ r.addr # NoBlock
        /\ held' = With(held, h, Held(kind, r.addr))
    BY <1>2 DEF Takes, Became, With, Held
  <2>2. /\ HandlesSound(blocks', held')
        /\ ListsOf(blocks', held') = With(ListsOf(blocks, held), h, list)
        /\ LostOf(blocks', held') \subseteq LostOf(blocks, held)
        /\ held'[h].kind = kind /\ held'[h].addr = r.addr
    <3> DEFINE H2 == With(held, h, Held(kind, r.addr))
    <3>1. /\ HandlesSound(r.blocks, H2)
          /\ ListsOf(r.blocks, H2) = With(ListsOf(blocks, held), h, list)
          /\ LostOf(r.blocks, H2) \subseteq LostOf(blocks, held)
          /\ H2[h] = Held(kind, r.addr)
      <4>1. /\ HandlesSound(blocks, held) /\ h \in Handles /\ kind \in Kinds
            /\ Became(blocks, held[h].addr, kind, list, r)
        BY <1>2
      <4> QED BY ONLY <4>1, Taking
    <3> HIDE DEF H2
    <3>2. held' = H2
      BY <2>1 DEF H2
    <3> QED BY <3>1, <3>2, <2>1 DEF Held
  <2>3. Becomes(h, list) /\ LostStep
    BY <2>2 DEF Becomes, LostStep, Lists, ListsOf, Lost, LostOf
  <2> QED BY <2>1, <2>2, <2>3
<1> QED BY <1>1, <1>2

LEMMA KeepsAnswer ==
  ASSUME HandlesSound(blocks, held), NEW h \in Handles, held[h] # Nothing,
         NEW list, NEW r, Keeps(h, r),
         r = Failed(blocks) \/ Became(blocks, held[h].addr, held[h].kind, list, r)
  PROVE  /\ HandlesSound(blocks', held') /\ LostStep
         /\ UNCHANGED Lists \/ Becomes(h, list)
<1>1. CASE r = Failed(blocks)
  <2>1. blocks' = blocks /\ held' = held
    BY <1>1 DEF Keeps, Failed
  <2>2. HandlesSound(blocks', held')
    BY <2>1
  <2>3. Lists' = Lists /\ Lost' = Lost
    BY <2>1 DEF Lists, Content, Lost
  <2> QED BY <2>2, <2>3 DEF LostStep
<1>2. CASE Became(blocks, held[h].addr, held[h].kind, list, r)
  <2>1. Holds(blocks, held[h]) /\ held[h].kind \in Kinds
    BY DEF HandlesSound, Holds
  <2>2. held' = With(held, h, Held(held[h].kind, r.addr))
    <3>1. held' = [held EXCEPT ![h] = [@ EXCEPT !.addr = r.addr]]
      BY <1>2 DEF Keeps, Became
    <3>2. [held[h] EXCEPT !.addr = r.addr] = [kind |-> held[h].kind, addr |-> r.addr]
      BY <2>1 DEF Holds
    <3>3. held = [g \in Handles |-> held[g]]
      BY DEF HandlesSound
    <3> QED BY <3>1, <3>2, <3>3 DEF With, Held
  <2>3. blocks' = r.blocks
    BY DEF Keeps
  <2>4. /\ HandlesSound(blocks', held')
        /\ ListsOf(blocks', held') = With(ListsOf(blocks, held), h, list)
        /\ LostOf(blocks', held') \subseteq LostOf(blocks, held)
    <3> DEFINE H2 == With(held, h, Held(held[h].kind, r.addr))
    <3>1. /\ HandlesSound(r.blocks, H2)
          /\ ListsOf(r.blocks, H2) = With(ListsOf(blocks, held), h, list)
          /\ LostOf(r.blocks, H2) \subseteq LostOf(blocks, held)
          /\ H2[h] = Held(held[h].kind, r.addr)
      <4>1. /\ HandlesSound(blocks, held) /\ h \in Handles /\ held[h].kind \in Kinds
            /\ Became(blocks, held[h].addr, held[h].kind, list, r)
        BY <1>2, <2>1
      <4> QED BY ONLY <4>1, Taking
    <3> HIDE DEF H2
    <3>2. held' = H2
      BY <2>2 DEF H2
    <3> QED BY <3>1, <3>2, <2>3 DEF Held
  <2>5. Becomes(h, list) /\ LostStep
    BY <2>4 DEF Becomes, LostStep, Lists, ListsOf, Lost, LostOf
  <2> QED BY <2>4, <2>5
<1> QED BY <1>1, <1>2

(* A list is never taken for none, nor none for a list. *)
LEMMA ListsAre ==
  ASSUME HandlesSound(blocks, held), NEW h \in Handles
  PROVE  /\ held[h] = Nothing => Lists[h] = None
         /\ held[h] # Nothing => /\ Lists[h] \in Seq(Contents) /\ Lists[h] # None
                                 /\ Lists[h] = Words(held[h].kind, blocks[held[h].addr])
<1>1. Lists[h] = Content(blocks, held[h])
  BY DEF Lists
<1>2. CASE held[h] = Nothing
  BY <1>1, <1>2 DEF Content
<1>3. CASE held[h] # Nothing
  <2> DEFINE w == blocks[held[h].addr]
  <2>1. held[h].kind \in Kinds /\ Good(held[h].kind, w)
    BY <1>3 DEF HandlesSound, Holds
  <2>2. Lists[h] = Words(held[h].kind, w)
    BY <1>1, <1>3 DEF Content, Words
  <2>3. CASE held[h].kind = "array"
    <3>1. w \in Seq(Contents) /\ used_sz(w) \in Nat /\ 2 \in Nat /\ Len(w) \in Nat
          /\ 2 + used_sz(w) <= Len(w)
      BY <2>1, <2>3 DEF Good, GoodArray, Array_bsz
    <3>2. Part(w, 2, used_sz(w)) \in Seq(Contents)
      BY ONLY <3>1, PartIs
    <3>3. Lists[h] = Part(w, 2, used_sz(w))
      BY <2>2, <2>3 DEF Words, Array, Part, Array_bsz
    <3> QED BY <1>3, <2>2, <3>2, <3>3, NoneAssumption
  <2>4. CASE held[h].kind # "array"
    <3>1. w \in Seq(Contents) /\ size(w) \in Nat /\ 3 \in Nat /\ Len(w) \in Nat
          /\ 3 + size(w) <= Len(w)
      BY <2>1, <2>4 DEF Good, GoodObject, Object_bsz
    <3>2. Part(w, 3, size(w)) \in Seq(Contents)
      BY ONLY <3>1, PartIs
    <3>3. Lists[h] = Part(w, 3, size(w))
      BY <2>2, <2>4 DEF Words, Object, Part, Object_bsz
    <3> QED BY <1>3, <2>2, <3>2, <3>3, NoneAssumption
  <2> QED BY <2>3, <2>4
<1> QED BY <1>2, <1>3

(* What the changes of the lists are in Growable. *)
ListStep == ListPromise!Next \/ UNCHANGED Lists

LEMMA StepsOfTheList ==
  ASSUME NEW h \in Handles, NEW s
  PROVE  /\ Becomes(h, None) => ListStep
         /\ Lists[h] = None /\ s \in Chunks \cup {<<>>} /\ Becomes(h, s) => ListStep
         /\ Lists[h] # None /\ s \in Chunks /\ Becomes(h, Lists[h] \o s) => ListStep
         /\ Becomes(h, Lists[h]) => ListStep
<1>1. Lists = [g \in Handles |-> Lists[g]]
  BY DEF Lists
<1>2. Becomes(h, None) => ListPromise!Drop(h)
  BY DEF Becomes, With, ListPromise!Drop
<1>3. Lists[h] = None /\ Becomes(h, s) => ListPromise!New(h, s)
  BY DEF Becomes, With, ListPromise!New
<1>4. Lists[h] # None /\ Becomes(h, Lists[h] \o s) => ListPromise!Append_(h, s)
  BY DEF Becomes, With, ListPromise!Append_
<1>5. Becomes(h, Lists[h]) => UNCHANGED Lists
  BY <1>1 DEF Becomes, With
<1> HIDE DEF Lists
<1>6. ListPromise!Drop(h) => ListStep
  BY DEF ListStep, ListPromise!Next
<1>7. s \in Chunks \cup {<<>>} /\ ListPromise!New(h, s) => ListStep
  BY DEF ListStep, ListPromise!Next
<1>8. s \in Chunks /\ ListPromise!Append_(h, s) => ListStep
  BY DEF ListStep, ListPromise!Next
<1> QED BY <1>2, <1>3, <1>4, <1>5, <1>6, <1>7, <1>8 DEF ListStep

LEMMA CutsOfTheList ==
  ASSUME NEW h \in Handles, Lists[h] # None, Len(Lists[h]) \in Nat,
         NEW n \in Nat, n < Len(Lists[h]),
         Becomes(h, SubSeq(Lists[h], 1, n))
  PROVE  ListStep
<1>1. ListPromise!Cut(h, n)
  BY DEF Becomes, With, ListPromise!Cut
<1>2. n \in 0 .. Len(Lists[h])
  OBVIOUS
<1> QED BY <1>1, <1>2 DEF ListStep, ListPromise!Next
-----------------------------------------------------------------------------
(* Strings are sequences of words that a block can hold. *)
LEMMA StringsAre ==
  ASSUME NEW s \in Strings
  PROVE  s \in Seq(Characters) /\ s \in Seq(Contents) /\ s \in Chunks
<1>1. s \in Seq(Contents) /\ Len(s) \in Nat
  BY StringsAssumption
<1>2. \A i \in 1 .. Len(s) : s[i] \in Characters
  BY <1>1 DEF Characters
<1>3. s \in [1 .. Len(s) -> Characters]
  BY <1>1, <1>2
<1> QED BY <1>1, <1>3, IsSequence DEF Chunks

LEMMA CharactersAre ==
  ASSUME NEW c \in Characters
  PROVE  c \in Contents /\ <<c>> \in Seq(Contents) /\ Len(<<c>>) = 1 /\ <<c>> \in Chunks
<1>1. c \in Contents
  BY DEF Contents
<1>2. <<c>> \in Chunks
  BY DEF Chunks
<1> QED BY <1>1, <1>2

(* A handle that holds a list. *)
LEMMA HandleIs ==
  ASSUME HandlesSound(blocks, held), NEW h \in Handles, held[h].kind \in Kinds
  PROVE  /\ held[h] # Nothing /\ held[h].addr \in DOMAIN blocks
         /\ held[h].addr \in BlockAddr /\ BlocksUsable(blocks)
         /\ held[h].kind = "array" => GoodArray(blocks[held[h].addr])
         /\ held[h].kind = "object" => GoodObject(blocks[held[h].addr])
         /\ Lists[h] # None /\ Lists[h] = Words(held[h].kind, blocks[held[h].addr])
<1>1. held[h] # Nothing
  BY NothingIs DEF HandlesSound
<1>2. Holds(blocks, held[h]) /\ BlocksUsable(blocks)
  BY DEF HandlesSound
<1> QED BY <1>1, <1>2, ListsAre DEF Holds, Good, BlocksUsable

Sound == HandlesSound(blocks', held') /\ LostStep /\ ListStep

LEMMA NewIsSound ==
  ASSUME HandlesSound(blocks, held), NEW h \in Handles, New(h)
  PROVE  Sound
<1>1. held[h] = Nothing /\ Lists[h] = None /\ held[h].addr = NoBlock /\ BlocksUsable(blocks)
  BY ListsAre DEF New, Nothing, HandlesSound
<1>2. CASE \E n \in Capacities, isz \in ItemSizes :
             \E r \in array(n, isz) : Takes(h, "array", r)
  <2>1. PICK n \in Capacities, isz \in ItemSizes : \E r \in array(n, isz) : Takes(h, "array", r)
    BY <1>2
  <2>2. PICK r \in array(n, isz) : Takes(h, "array", r)
    BY <2>1
  <2>3. n \in Nat
    BY SizesAssumption
  <2>4. r = Failed(blocks) \/ Became(blocks, held[h].addr, "array", <<>>, r)
    BY <1>1, <2>3, ArrayAnswers
  <2>5. /\ HandlesSound(blocks', held') /\ LostStep
        /\ Becomes(h, None) \/ Becomes(h, <<>>)
    BY <2>2, <2>4, TakesAnswer DEF Kinds
  <2> QED BY <1>1, <2>5, StepsOfTheList DEF Sound
<1>3. CASE \E n \in Capacities, s \in Strings :
             \E r \in object(n, s) : Takes(h, "object", r)
  <2>1. PICK n \in Capacities, s \in Strings : \E r \in object(n, s) : Takes(h, "object", r)
    BY <1>3
  <2>2. PICK r \in object(n, s) : Takes(h, "object", r)
    BY <2>1
  <2>3. n \in Nat /\ s \in Seq(Contents) /\ s \in Chunks
    BY SizesAssumption, StringsAre
  <2>4. r = Failed(blocks) \/ Became(blocks, held[h].addr, "object", s, r)
    BY <1>1, <2>3, ObjectAnswers
  <2>5. /\ HandlesSound(blocks', held') /\ LostStep
        /\ Becomes(h, None) \/ Becomes(h, s)
    BY <2>2, <2>4, TakesAnswer DEF Kinds
  <2> QED BY <1>1, <2>3, <2>5, StepsOfTheList DEF Sound
<1> QED BY <1>2, <1>3 DEF New

LEMMA Append1IsSound ==
  ASSUME HandlesSound(blocks, held), NEW h \in Handles, Append1(h)
  PROVE  Sound
<1> DEFINE a == held[h].addr
           w == blocks[a]
<1>1. held[h].kind = "array"
  BY DEF Append1
<1>2. /\ held[h] # Nothing /\ a \in DOMAIN blocks /\ BlocksUsable(blocks) /\ GoodArray(w)
      /\ Lists[h] # None /\ Lists[h] = Array(w)
  BY <1>1, HandleIs DEF Kinds, Words
<1>3. item_sz(w) \in ItemSizes /\ item_sz(w) \in Nat
  BY <1>2, SizesAssumption DEF GoodArray
<1>4. PICK item \in [1 .. item_sz(w) -> Values] : \E r \in array_append(a, item) : Keeps(h, r)
  BY DEF Append1
<1>5. PICK r \in array_append(a, item) : Keeps(h, r)
  BY <1>4
<1>6. item \in Seq(Contents) /\ Len(item) = item_sz(w) /\ item \in Chunks
  <2>1. item \in [1 .. item_sz(w) -> Contents]
    BY DEF Contents
  <2>2. item \in Chunks
    BY <1>3 DEF Chunks
  <2> QED BY <1>3, <2>1, <2>2, IsSequence
<1>7. r = Failed(blocks) \/ Became(blocks, held[h].addr, held[h].kind, Lists[h] \o item, r)
  BY <1>1, <1>2, <1>6, AppendAnswers
<1>8. HandlesSound(blocks', held') /\ LostStep /\ (UNCHANGED Lists \/ Becomes(h, Lists[h] \o item))
  BY <1>2, <1>5, <1>7, KeepsAnswer
<1>9. ListStep
  BY <1>2, <1>6, <1>8, StepsOfTheList DEF ListStep
<1> QED BY <1>8, <1>9 DEF Sound

LEMMA AppendWordIsSound ==
  ASSUME HandlesSound(blocks, held), NEW h \in Handles, AppendWord(h)
  PROVE  Sound
<1> DEFINE a == held[h].addr
           w == blocks[a]
<1>1. held[h].kind = "object"
  BY DEF AppendWord
<1>2. /\ a \in DOMAIN blocks /\ BlocksUsable(blocks) /\ GoodObject(w)
      /\ Lists[h] # None /\ Lists[h] = Object(w)
  BY <1>1, HandleIs DEF Kinds, Words
<1>3. PICK v \in Values : \E r \in object_append_word(a, v) : Takes(h, "object", r)
  BY DEF AppendWord
<1>4. PICK r \in object_append_word(a, v) : Takes(h, "object", r)
  BY <1>3
<1>5. v \in Contents /\ <<v>> \in Chunks
  BY DEF Contents, Chunks
<1>6. r = Failed(blocks) \/ Became(blocks, held[h].addr, "object", Lists[h] \o <<v>>, r)
  BY <1>2, <1>5, WordAnswers
<1>7. /\ HandlesSound(blocks', held') /\ LostStep
      /\ Becomes(h, None) \/ Becomes(h, Lists[h] \o <<v>>)
  BY <1>4, <1>6, TakesAnswer DEF Kinds
<1>8. ListStep
  BY <1>2, <1>5, <1>7, StepsOfTheList
<1> QED BY <1>7, <1>8 DEF Sound

LEMMA ResizeIsSound ==
  ASSUME HandlesSound(blocks, held), NEW h \in Handles, Resize(h)
  PROVE  Sound
<1> DEFINE a == held[h].addr
           w == blocks[a]
<1>1. held[h].kind = "array"
  BY DEF Resize
<1>2. /\ held[h] # Nothing /\ a \in DOMAIN blocks /\ BlocksUsable(blocks) /\ GoodArray(w)
      /\ Lists[h] = Array(w)
  BY <1>1, HandleIs DEF Kinds, Words
<1>3. PICK n \in Capacities : /\ n >= array_len(w)
                              /\ \E r \in array_resize(a, n) : Keeps(h, r)
  BY DEF Resize
<1>4. PICK r \in array_resize(a, n) : Keeps(h, r)
  BY <1>3
<1>5. n \in Nat
  BY SizesAssumption
<1>6. r = Failed(blocks) \/ Became(blocks, held[h].addr, held[h].kind, Lists[h], r)
  BY <1>1, <1>2, <1>3, <1>5, ResizeAnswers
<1>7. HandlesSound(blocks', held') /\ LostStep /\ (UNCHANGED Lists \/ Becomes(h, Lists[h]))
  BY <1>2, <1>4, <1>6, KeepsAnswer
<1>8. ListStep
  BY <1>7, StepsOfTheList DEF ListStep
<1> QED BY <1>7, <1>8 DEF Sound

LEMMA ExpandIsSound ==
  ASSUME HandlesSound(blocks, held), NEW h \in Handles, Expand(h)
  PROVE  Sound
<1> DEFINE a == held[h].addr
           w == blocks[a]
<1>1. held[h].kind = "object"
  BY DEF Expand
<1>2. /\ a \in DOMAIN blocks /\ BlocksUsable(blocks) /\ GoodObject(w)
      /\ Lists[h] # None /\ Lists[h] = Object(w) /\ Lists[h] \in Seq(Contents)
  BY <1>1, HandleIs, ListsAre DEF Kinds, Words
<1>3. PICK n \in Capacities : \E r \in object_expand(a, n) : Takes(h, "object", r)
  BY DEF Expand
<1>4. PICK r \in object_expand(a, n) : Takes(h, "object", r)
  BY <1>3
<1>5. n \in Nat /\ Len(Lists[h]) \in Nat
  BY <1>2, SizesAssumption
<1>6. \/ r = Failed(blocks) \/ Became(blocks, held[h].addr, "object", Lists[h], r)
      \/ /\ n < Len(Lists[h])
         /\ Became(blocks, held[h].addr, "object", SubSeq(Lists[h], 1, n), r)
  BY <1>2, <1>5, ExpandAnswers
<1>7. CASE r = Failed(blocks) \/ Became(blocks, held[h].addr, "object", Lists[h], r)
  <2>1. /\ HandlesSound(blocks', held') /\ LostStep
        /\ Becomes(h, None) \/ Becomes(h, Lists[h])
    BY <1>4, <1>7, TakesAnswer DEF Kinds
  <2> QED BY <2>1, StepsOfTheList DEF Sound
<1>8. CASE /\ n < Len(Lists[h])
           /\ Became(blocks, held[h].addr, "object", SubSeq(Lists[h], 1, n), r)
  <2>1. /\ HandlesSound(blocks', held') /\ LostStep
        /\ Becomes(h, None) \/ Becomes(h, SubSeq(Lists[h], 1, n))
    BY <1>4, <1>8, TakesAnswer DEF Kinds
  <2>2. ListStep
    BY <1>2, <1>5, <1>8, <2>1, StepsOfTheList, CutsOfTheList
  <2> QED BY <2>1, <2>2 DEF Sound
<1> QED BY <1>6, <1>7, <1>8

LEMMA DeleteIsSound ==
  ASSUME HandlesSound(blocks, held), NEW h \in Handles, Delete(h)
  PROVE  Sound
<1>1. held[h] # Nothing /\ blocks' = free(blocks, held[h].addr) /\ held' = With(held, h, Nothing)
  BY DEF Delete, With
<1>2. /\ HandlesSound(blocks', held')
      /\ ListsOf(blocks', held') = With(ListsOf(blocks, held), h, None)
      /\ LostOf(blocks', held') \subseteq LostOf(blocks, held)
  <2> DEFINE C == free(blocks, held[h].addr)
             H2 == With(held, h, Nothing)
  <2>1. /\ HandlesSound(C, H2)
        /\ ListsOf(C, H2) = With(ListsOf(blocks, held), h, None)
        /\ LostOf(C, H2) \subseteq LostOf(blocks, held)
    BY <1>1, Freeing
  <2> HIDE DEF C, H2
  <2>2. blocks' = C /\ held' = H2
    BY <1>1 DEF C, H2
  <2> QED BY <2>1, <2>2
<1>3. Becomes(h, None) /\ LostStep
  BY <1>2 DEF Becomes, LostStep, Lists, ListsOf, Lost, LostOf
<1> QED BY <1>2, <1>3, StepsOfTheList DEF Sound

(* What is left of a string after a step. *)
LEMMA Rests ==
  ASSUME NEW h \in Handles, NEW s \in Seq(Characters),
         held'[h].kind = "array" => item_sz(blocks'[held'[h].addr]) = 1,
         str' = Spelling(h, s)
  PROVE  StringSound(blocks', held', str')
BY DEF Spelling, StringSound

LEMMA StringBegins ==
  ASSUME HandlesSound(blocks, held), NEW h \in Handles, array_append_str(h)
  PROVE  Sound /\ StringSound(blocks', held', str')
<1>1. blocks' = blocks /\ held' = held /\ item_sz(blocks[held[h].addr]) = 1
  BY DEF array_append_str
<1>2. PICK s \in Strings : str' = Spelling(h, s)
  BY DEF array_append_str
<1>3. StringSound(blocks', held', str')
  BY <1>1, <1>2, StringsAre, Rests
<1>4. Lists' = Lists /\ Lost' = Lost
  BY <1>1 DEF Lists, Content, Lost
<1>5. Sound
  BY <1>1, <1>4 DEF Sound, LostStep, ListStep
<1> QED BY <1>3, <1>5

LEMMA StringIsMade ==
  ASSUME HandlesSound(blocks, held), NEW h \in Handles, cstr_to_string(h)
  PROVE  Sound /\ StringSound(blocks', held', str')
<1>1. held[h] = Nothing /\ Lists[h] = None /\ held[h].addr = NoBlock /\ BlocksUsable(blocks)
  BY ListsAre DEF cstr_to_string, Nothing, HandlesSound
<1>2. PICK r \in object(8, <<>>) : Takes(h, "object", r)
  BY DEF cstr_to_string
<1>3. PICK s \in Strings : str' = Spelling(h, s)
  BY DEF cstr_to_string
<1>4. <<>> \in Seq(Contents) /\ 8 \in Nat
  OBVIOUS
<1>5. r = Failed(blocks) \/ Became(blocks, held[h].addr, "object", <<>>, r)
  BY <1>1, <1>4, ObjectAnswers
<1>6. /\ HandlesSound(blocks', held') /\ LostStep
      /\ \/ Becomes(h, None) /\ held'[h] = Nothing
         \/ Becomes(h, <<>>) /\ held'[h].kind = "object"
  BY <1>2, <1>5, TakesAnswer DEF Kinds
<1>7. Sound
  BY <1>1, <1>6, StepsOfTheList DEF Sound
<1>8. held'[h].kind # "array"
  BY <1>6 DEF Nothing
<1> QED BY <1>3, <1>7, <1>8, StringsAre, Rests

LEMMA NextCharacterIsSound ==
  ASSUME ListsSound, NextCharacter
  PROVE  Sound /\ StringSound(blocks', held', str')
<1> DEFINE h == str.h
           a == held[h].addr
           c == Head(str.rest)
           rest == Tail(str.rest)
<1>1. /\ HandlesSound(blocks, held) /\ h \in Handles
      /\ str.rest \in Seq(Characters) /\ str.rest # <<>>
      /\ held[h].kind = "array" => item_sz(blocks[a]) = 1
  BY DEF ListsSound, StringSound, NextCharacter
<1>2. c \in Characters /\ rest \in Seq(Characters)
  BY <1>1, HeadTailProperties
<1>3. c \in Contents /\ <<c>> \in Seq(Contents) /\ Len(<<c>>) = 1 /\ <<c>> \in Chunks
  BY <1>2, CharactersAre
<1>4. PICK r \in CASE held[h].kind = "array" -> array_append(a, <<c>>)
                   [] held[h].kind = "object" -> object_append_word(a, c)
                   [] held[h].kind = "none" -> {Failed(blocks)} :
        /\ Takes(h, held[h].kind, r)
        /\ str' = IF r.addr = NoBlock /\ held[h].kind = "array" THEN Idle
                  ELSE Spelling(h, rest)
  BY DEF NextCharacter
<1> HIDE DEF c, rest, h
<1>5. StringSound(blocks', held', Idle)
  BY DEF StringSound
<1>6. CASE held[h].kind = "array"
  <2>1. r \in array_append(a, <<c>>) /\ Takes(h, "array", r)
    BY <1>4, <1>6
  <2>2. /\ a \in DOMAIN blocks /\ BlocksUsable(blocks) /\ GoodArray(blocks[a])
        /\ Lists[h] # None /\ Lists[h] = Array(blocks[a])
    BY <1>1, <1>6, HandleIs DEF Kinds, Words
  <2>3. \/ r = Failed(blocks)
        \/ /\ Became(blocks, a, "array", Lists[h] \o <<c>>, r)
           /\ item_sz(r.blocks[r.addr]) = 1
    BY <1>1, <1>3, <1>6, <2>1, <2>2, AppendAnswers
  <2>4. /\ HandlesSound(blocks', held') /\ LostStep
        /\ \/ Becomes(h, None) /\ held'[h] = Nothing
           \/ /\ Becomes(h, Lists[h] \o <<c>>) /\ r.addr # NoBlock
              /\ held'[h].addr = r.addr /\ blocks' = r.blocks
    BY <1>1, <2>1, <2>3, TakesAnswer DEF Kinds
  <2>5. ListStep
    BY <1>1, <1>3, <2>2, <2>4, StepsOfTheList
  <2>6. held'[h].kind = "array" => item_sz(blocks'[held'[h].addr]) = 1
    BY <2>3, <2>4 DEF Nothing, Failed
  <2>7. StringSound(blocks', held', str')
    BY <1>1, <1>2, <1>4, <1>5, <2>6, Rests
  <2> QED BY <2>4, <2>5, <2>7 DEF Sound
<1>7. CASE held[h].kind = "object"
  <2>1. r \in object_append_word(a, c) /\ Takes(h, "object", r)
    BY <1>4, <1>7
  <2>2. /\ a \in DOMAIN blocks /\ BlocksUsable(blocks) /\ GoodObject(blocks[a])
        /\ Lists[h] # None /\ Lists[h] = Object(blocks[a])
    BY <1>1, <1>7, HandleIs DEF Kinds, Words
  <2>3. r = Failed(blocks) \/ Became(blocks, a, "object", Lists[h] \o <<c>>, r)
    BY <1>3, <2>1, <2>2, WordAnswers
  <2>4. /\ HandlesSound(blocks', held') /\ LostStep
        /\ \/ Becomes(h, None) /\ held'[h] = Nothing
           \/ Becomes(h, Lists[h] \o <<c>>) /\ held'[h].kind = "object"
    BY <1>1, <2>1, <2>3, TakesAnswer DEF Kinds
  <2>5. ListStep
    BY <1>1, <1>3, <2>2, <2>4, StepsOfTheList
  <2>6. held'[h].kind # "array"
    BY <2>4 DEF Nothing
  <2>7. StringSound(blocks', held', str')
    BY <1>1, <1>2, <1>4, <1>5, <2>6, Rests
  <2> QED BY <2>4, <2>5, <2>7 DEF Sound
<1>8. CASE held[h].kind \notin Kinds
  <2>1. held[h] = Nothing
    BY <1>1, <1>8 DEF HandlesSound, Holds
  <2>2. r = Failed(blocks) /\ held[h].kind = "none" /\ Takes(h, "none", r)
    BY <1>4, <2>1 DEF Nothing
  <2>3. blocks' = Forget(blocks, a) /\ held' = With(held, h, Nothing)
    BY <2>2 DEF Takes, Failed, With
  <2>4. /\ HandlesSound(blocks', held')
        /\ ListsOf(blocks', held') = With(ListsOf(blocks, held), h, None)
        /\ LostOf(blocks', held') \subseteq LostOf(blocks, held) \cup {held[h].addr}
        /\ held'[h] = Nothing
    <3> DEFINE C == Forget(blocks, held[h].addr)
               H2 == With(held, h, Nothing)
    <3>1. /\ HandlesSound(C, H2)
          /\ ListsOf(C, H2) = With(ListsOf(blocks, held), h, None)
          /\ LostOf(C, H2) \subseteq LostOf(blocks, held) \cup {held[h].addr}
          /\ H2[h] = Nothing
      BY <1>1, Losing
    <3> HIDE DEF C, H2
    <3>2. blocks' = C /\ held' = H2
      BY <2>3 DEF C, H2
    <3> QED BY <3>1, <3>2
  <2>5. Becomes(h, None) /\ LostStep
    BY <1>1, <2>4 DEF Becomes, LostStep, Lists, ListsOf, Lost, LostOf
  <2>6. StringSound(blocks', held', str')
    BY <1>1, <1>2, <1>4, <1>5, <2>4, Rests DEF Nothing
  <2> QED BY <1>1, <2>4, <2>5, <2>6, StepsOfTheList DEF Sound
<1> QED BY <1>6, <1>7, <1>8 DEF Kinds
-----------------------------------------------------------------------------
LEMMA InitSound == NoLists => ListsSound
<1> SUFFICES ASSUME NoLists PROVE ListsSound
  OBVIOUS
<1>1. DOMAIN blocks = {} /\ blocks = [c \in DOMAIN blocks |-> blocks[c]]
  BY DEF NoLists
<1>2. held = [h \in Handles |-> held[h]] /\ \A h \in Handles : held[h] = Nothing
  BY DEF NoLists
<1>3. HandlesSound(blocks, held)
  BY <1>1, <1>2 DEF HandlesSound, BlocksUsable, Holds
<1> QED BY <1>3 DEF ListsSound, StringSound, NoLists

LEMMA CallsAreSound ==
  ASSUME ListsSound, ListCall
  PROVE  ListsSound' /\ LostStep /\ ListStep
<1>1. HandlesSound(blocks, held)
  BY DEF ListsSound
<1>2. ASSUME Sound, UNCHANGED str, str = Idle
      PROVE  ListsSound' /\ LostStep /\ ListStep
  BY <1>2 DEF Sound, ListsSound, StringSound
<1>3. ASSUME Sound, StringSound(blocks', held', str')
      PROVE  ListsSound' /\ LostStep /\ ListStep
  BY <1>3 DEF Sound, ListsSound
<1>4. ASSUME NEW h \in Handles, New(h)
      PROVE  ListsSound' /\ LostStep /\ ListStep
  BY <1>1, <1>2, <1>4, NewIsSound DEF New
<1>5. ASSUME NEW h \in Handles, Append1(h)
      PROVE  ListsSound' /\ LostStep /\ ListStep
  BY <1>1, <1>2, <1>5, Append1IsSound DEF Append1
<1>6. ASSUME NEW h \in Handles, AppendWord(h)
      PROVE  ListsSound' /\ LostStep /\ ListStep
  BY <1>1, <1>2, <1>6, AppendWordIsSound DEF AppendWord
<1>7. ASSUME NEW h \in Handles, Resize(h)
      PROVE  ListsSound' /\ LostStep /\ ListStep
  BY <1>1, <1>2, <1>7, ResizeIsSound DEF Resize
<1>8. ASSUME NEW h \in Handles, Expand(h)
      PROVE  ListsSound' /\ LostStep /\ ListStep
  BY <1>1, <1>2, <1>8, ExpandIsSound DEF Expand
<1>9. ASSUME NEW h \in Handles, array_append_str(h)
      PROVE  ListsSound' /\ LostStep /\ ListStep
  BY <1>1, <1>3, <1>9, StringBegins
<1>10. ASSUME NEW h \in Handles, cstr_to_string(h)
       PROVE  ListsSound' /\ LostStep /\ ListStep
  BY <1>1, <1>3, <1>10, StringIsMade
<1>11. ASSUME NEW h \in Handles, Delete(h)
       PROVE  ListsSound' /\ LostStep /\ ListStep
  BY <1>1, <1>2, <1>11, DeleteIsSound DEF Delete
<1>12. CASE NextCharacter
  BY <1>3, <1>12, NextCharacterIsSound
<1> QED BY <1>4, <1>5, <1>6, <1>7, <1>8, <1>9, <1>10, <1>11, <1>12 DEF ListCall

LEMMA StepsAreSound ==
  ASSUME ListsSound, [ListCall]_growing
  PROVE  ListsSound' /\ LostStep /\ ListStep
<1>1. CASE ListCall
  BY <1>1, CallsAreSound
<1>2. CASE UNCHANGED growing
  <2>1. blocks' = blocks /\ held' = held /\ str' = str
    BY <1>2 DEF growing
  <2>2. ListsSound'
    BY <2>1 DEF ListsSound
  <2>3. Lists' = Lists /\ Lost' = Lost
    BY <2>1 DEF Lists, Content, Lost
  <2> QED BY <2>2, <2>3 DEF LostStep, ListStep
<1> QED BY <1>1, <1>2

LEMMA ListsAlwaysSound == GrowingSpec => []ListsSound
<1>1. ListsSound /\ [ListCall]_growing => ListsSound'
  BY StepsAreSound
<1> QED BY <1>1, InitSound, PTL DEF GrowingSpec

(* Whatever the allocator answers, what is used of a block lies within it, *)
(* and an array holds whole items.                                         *)
THEOREM NothingBehindTheEnd == GrowingSpec => []WithinBlocks
<1>1. ListsSound => WithinBlocks
  <2> SUFFICES ASSUME ListsSound PROVE WithinBlocks
    OBVIOUS
  <2>1. HandlesSound(blocks, held)
    BY DEF ListsSound
  <2>2. ASSUME NEW h \in Arrays
        PROVE  LET w == blocks[held[h].addr]
               IN  /\ held[h].addr \in DOMAIN blocks
                   /\ used_sz(w) <= Len(w) - Array_bsz
                   /\ used_sz(w) % item_sz(w) = 0
                   /\ array_len(w) <= array_capacity(w)
    <3> DEFINE w == blocks[held[h].addr]
               u == used_sz(w)
               d == item_sz(w)
               room == Len(w) - Array_bsz
    <3>1. held[h].addr \in DOMAIN blocks /\ GoodArray(w)
      BY <2>1, <2>2, HandleIs DEF Arrays, Kinds
    <3>2. u <= room /\ u % d = 0
      BY <3>1 DEF GoodArray
    <3>3. u \in Nat /\ d \in ItemSizes /\ w \in Seq(Contents) /\ Len(w) >= Array_bsz
      BY <3>1 DEF GoodArray
    <3>4. d \in Nat \ {0} /\ room \in Nat
      <4>1. Len(w) \in Nat /\ Array_bsz \in Nat
        BY <3>3, LenProperties DEF Array_bsz
      <4>2. d \in Nat \ {0}
        BY <3>3, SizesAssumption
      <4> HIDE DEF w, d
      <4> QED BY <3>3, <4>1, <4>2
    <3> HIDE DEF u, d, room
    <3>5. u \div d <= room \div d
      BY <3>2, <3>3, <3>4, Whole
    <3> QED BY <3>1, <3>2, <3>5 DEF array_len, array_capacity, u, d, room
  <2>3. ASSUME NEW h \in Objects
        PROVE  LET w == blocks[held[h].addr]
               IN  held[h].addr \in DOMAIN blocks /\ size(w) <= Len(w) - Object_bsz
    BY <2>1, <2>3, HandleIs DEF Objects, Kinds, GoodObject
  <2> QED BY <2>2, <2>3 DEF WithinBlocks
<1> QED BY <1>1, ListsAlwaysSound, PTL

(* No call leaves a block behind, except with a null answer that replaces  *)
(* its address.                                                            *)
THEOREM OnlyNullLosesBlocks == GrowingSpec => LostOnlyWithNull
<1>1. ListsSound /\ [ListCall]_growing => LostStep
  BY StepsAreSound
<1>2. LostStep => [\A a \in Lost' \ Lost :
                     \E h \in Handles : held[h].addr = a /\ held'[h] = Nothing]_growing
  BY DEF LostStep
<1> QED BY <1>1, <1>2, ListsAlwaysSound, PTL DEF GrowingSpec, LostOnlyWithNull

(* An array or an object is a list that grows at its end: through every     *)
(* move to another block, and every failure, its contents are what          *)
(* Growable says.                                                          *)
THEOREM GrowingIsGrowable == GrowingSpec => ListsGrow
<1>1. NoLists => ListPromise!Init
  <2> SUFFICES ASSUME NoLists PROVE ListPromise!Init
    OBVIOUS
  <2>1. \A h \in Handles : held[h] = Nothing
    BY DEF NoLists
  <2> QED BY <2>1 DEF ListPromise!Init, Lists, Content
<1>2. ListsSound /\ [ListCall]_growing => [ListPromise!Next]_Lists
  BY StepsAreSound DEF ListStep
<1> QED BY <1>1, <1>2, ListsAlwaysSound, PTL DEF GrowingSpec, ListsGrow, ListPromise!Spec
=============================================================================
