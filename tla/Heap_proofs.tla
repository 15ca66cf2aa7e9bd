----------------------------- MODULE Heap_proofs -----------------------------
(* Proofs about Heap, for a heap of any size and requests of any sizes:    *)
(* what one alloc and one free do to a tiled heap, the inductive invariant *)
(* of all the calls, and the properties that follow from it.               *)
EXTENDS Heap, FiniteSetTheorems, TLAPS

(* A heap whose blocks are as they should be. *)
Well(h) == Typed(h) /\ Tiled(h) /\ Merged(h)

(* Words of the heap lie past its descriptor. *)
LEMMA WordsType == HeapSize \in Nat /\ \A w \in Words : w \in Nat /\ w >= 8
BY HeapAssumption DEF Words, hds_sz

(* What alloc leaves: one more block in use, cut from a free one. *)
LEMMA AllocKeeps ==
  ASSUME NEW h, Well(h), NEW n \in Nat, NEW b \in Fits(h, n)
  PROVE  /\ Well(AllocAt(h, b, n))
         /\ b \in Words /\ b \notin DOMAIN h.used
         /\ DOMAIN AllocAt(h, b, n).used = DOMAIN h.used \cup {b}
         /\ \A c \in DOMAIN h.used : AllocAt(h, b, n).used[c] = h.used[c]
<1> DEFINE new == AllocAt(h, b, n)
           S == h.free[b]
           g == Granted(h, b, n)
           R == Remainder(h, b, n)
<1> USE DEF min_alloc_sz, umds_sz
<1>1. b \in DOMAIN h.free /\ b \in Words /\ b \in Nat /\ S \in Nat /\ BlockSize(n) \in Nat
      /\ BlockSize(n) >= 4 /\ S >= BlockSize(n)
  BY WordsType DEF Fits, Well, Typed, BlockSize
<1>2. /\ g \in Nat /\ g >= 4 /\ g <= S
      /\ \/ g = S /\ R = {}
         \/ S - g >= 4 /\ R = {b + g}
  BY <1>1 DEF Granted, Remainder
<1>3. /\ new.free = [c \in (DOMAIN h.free \ {b}) \cup R |-> IF c \in R THEN S - g ELSE h.free[c]]
      /\ new.used = [c \in DOMAIN h.used \cup {b} |-> IF c = b THEN g ELSE h.used[c]]
  BY DEF AllocAt
<1>4. b \notin DOMAIN h.used
  BY <1>1 DEF Well, Tiled
<1>5. \A c \in Blocks(h) : c \in Nat /\ c \in Words /\ SizeOf(h, c) \in Nat /\ End(h, c) = c + SizeOf(h, c)
  BY WordsType DEF Well, Typed, Blocks, SizeOf, End
<1>6. b \in Blocks(h) /\ SizeOf(h, b) = S
  BY <1>1 DEF Blocks, SizeOf
<1>7. \A c \in Blocks(h) : c < b => End(h, c) <= b
  BY <1>6 DEF Well, Tiled
<1>8. \A c \in Blocks(h) : b < c => b + S <= c
  BY <1>5, <1>6 DEF Well, Tiled
<1>13. End(h, b) = b + S /\ b + S <= HeapSize
  BY <1>5, <1>6 DEF Well, Tiled
<1> HIDE DEF new, S, g, R
<1>9. ASSUME NEW r \in R
      PROVE  r = b + g /\ r \notin Blocks(h) /\ r \in Words /\ S - g >= 4
  <2>1. r = b + g /\ S - g >= 4
    BY <1>2, <1>9
  <2>2. r \notin Blocks(h)
    BY <2>1, <1>1, <1>2, <1>8
  <2>3. r \in Words
    BY <2>1, <1>1, <1>2, <1>13, HeapAssumption DEF Words, hds_sz
  <2> QED BY <2>1, <2>2, <2>3
<1>10. /\ Blocks(new) = Blocks(h) \cup R
       /\ DOMAIN new.free = (DOMAIN h.free \ {b}) \cup R
       /\ DOMAIN new.used = DOMAIN h.used \cup {b}
  BY <1>1, <1>3 DEF Blocks
<1>11. /\ SizeOf(new, b) = g
       /\ \A r \in R : SizeOf(new, r) = S - g
       /\ \A c \in Blocks(h) \ {b} : SizeOf(new, c) = SizeOf(h, c)
  <2>1. b \notin R
    BY <1>6, <1>9
  <2>2. SizeOf(new, b) = g
    BY <2>1, <1>3, <1>10 DEF SizeOf
  <2>3. \A r \in R : SizeOf(new, r) = S - g
    BY <1>3, <1>10 DEF SizeOf
  <2>4. \A c \in Blocks(h) \ {b} : SizeOf(new, c) = SizeOf(h, c)
    BY <1>3, <1>9, <1>10 DEF SizeOf, Blocks
  <2> QED BY <2>2, <2>3, <2>4
<1>12. /\ End(new, b) = b + g
       /\ \A r \in R : r = b + g /\ End(new, r) = b + S
       /\ \A c \in Blocks(h) \ {b} : End(new, c) = End(h, c)
  BY <1>1, <1>2, <1>9, <1>11 DEF End
<1>14. Typed(new)
  <2>1. new.free \in [DOMAIN new.free -> Nat]
    BY <1>1, <1>2, <1>3, <1>9 DEF Well, Typed
  <2>2. new.used \in [DOMAIN new.used -> Nat]
    BY <1>2, <1>3 DEF Well, Typed
  <2> QED BY <2>1, <2>2, <1>1, <1>9, <1>10 DEF Well, Typed
<1>15. Tiled(new)
  <2>1. DOMAIN new.free \cap DOMAIN new.used = {}
    BY <1>6, <1>9, <1>10 DEF Well, Tiled, Blocks
  <2>2. \A c \in Blocks(new) : SizeOf(new, c) >= 4 /\ End(new, c) <= HeapSize
    BY <1>1, <1>2, <1>9, <1>10, <1>11, <1>12, <1>13, WordsType DEF Well, Tiled
  <2>3. ASSUME NEW c \in Blocks(new), NEW d \in Blocks(new), c < d
        PROVE  End(new, c) <= d
    <3>1. CASE c \in R
      <4>1. d \in Blocks(h) \ {b}
        BY <1>2, <1>9, <1>10, <2>3, <3>1, <1>1
      <4> QED BY <4>1, <2>3, <3>1, <1>1, <1>2, <1>5, <1>8, <1>9, <1>12
    <3>2. CASE c = b
      <4>1. CASE d \in R
        BY <4>1, <3>2, <1>9, <1>12, <1>1, <1>2
      <4>2. CASE d \in Blocks(h)
        BY <4>2, <3>2, <2>3, <1>1, <1>2, <1>5, <1>8, <1>12
      <4> QED BY <4>1, <4>2, <1>10
    <3>3. CASE c \in Blocks(h) \ {b}
      <4>1. CASE d \in R
        <5>1. c < b
          BY <4>1, <3>3, <2>3, <1>1, <1>2, <1>5, <1>8, <1>9
        <5> QED BY <5>1, <4>1, <3>3, <1>1, <1>2, <1>5, <1>7, <1>9, <1>12
      <4>2. CASE d \in Blocks(h)
        BY <4>2, <3>3, <2>3, <1>12 DEF Well, Tiled
      <4> QED BY <4>1, <4>2, <1>10
    <3> QED BY <3>1, <3>2, <3>3, <1>10
  <2>4. ASSUME NEW w \in Words
        PROVE  \E c \in Blocks(new) : c <= w /\ w < End(new, c)
    <3>1. PICK c \in Blocks(h) : c <= w /\ w < End(h, c)
      BY DEF Well, Tiled
    <3>2. CASE c # b
      BY <3>1, <3>2, <1>10, <1>12
    <3>3. CASE c = b
      <4>1. w \in Nat
        BY WordsType
      <4>2. CASE w < b + g
        BY <3>1, <3>3, <4>2, <1>6, <1>10, <1>12
      <4>3. CASE ~(w < b + g)
        BY <3>1, <3>3, <4>1, <4>3, <1>1, <1>2, <1>9, <1>10, <1>12, <1>13
      <4> QED BY <4>2, <4>3
    <3> QED BY <3>2, <3>3
  <2> QED BY <2>1, <2>2, <2>3, <2>4 DEF Tiled
<1>16. Merged(new)
  <2> SUFFICES ASSUME NEW c \in DOMAIN new.free, NEW d \in DOMAIN new.free
               PROVE  End(new, c) # d
    BY DEF Merged
  <2>1. b \notin DOMAIN new.free /\ R \cap Blocks(h) = {}
    BY <1>6, <1>9, <1>10
  <2>2. CASE c \in R
    <3>1. End(new, c) = b + S /\ End(h, b) = b + S
      BY <2>2, <1>12, <1>13
    <3>2. CASE d \in R
      BY <3>1, <3>2, <1>1, <1>2, <1>9
    <3>3. CASE d \in DOMAIN h.free
      BY <3>1, <3>3, <1>1 DEF Well, Merged
    <3> QED BY <3>2, <3>3, <1>10
  <2>3. CASE c \notin R
    <3>1. c \in DOMAIN h.free /\ c \in Blocks(h) \ {b} /\ End(new, c) = End(h, c)
      BY <2>1, <2>3, <1>10, <1>12 DEF Blocks
    <3>2. CASE d \in R
      <4>1. c < b => End(h, c) <= b
        BY <3>1, <1>7
      <4>2. b < c => b + S <= c
        BY <3>1, <1>8
      <4>3. End(h, c) > c
        BY <3>1, <1>5 DEF Well, Tiled
      <4> QED BY <3>1, <3>2, <4>1, <4>2, <4>3, <1>1, <1>2, <1>5, <1>9
    <3>3. CASE d \in DOMAIN h.free
      BY <3>1, <3>3 DEF Well, Merged
    <3> QED BY <3>2, <3>3, <1>10
  <2> QED BY <2>2, <2>3
<1>17. \A c \in DOMAIN h.used : new.used[c] = h.used[c]
  BY <1>3, <1>4
<1> QED BY <1>1, <1>4, <1>10, <1>14, <1>15, <1>16, <1>17 DEF Well, new

(* What free leaves: the block, the free block that ends where it starts   *)
(* and the free block that starts where it ends have become one.           *)
LEMMA FreeKeeps ==
  ASSUME NEW h, Well(h), NEW b \in DOMAIN h.used
  PROVE  /\ Well(FreeBlock(h, b))
         /\ DOMAIN FreeBlock(h, b).used = DOMAIN h.used \ {b}
         /\ \A c \in DOMAIN h.used \ {b} : FreeBlock(h, b).used[c] = h.used[c]
<1> DEFINE new == FreeBlock(h, b)
           U == h.used[b]
           N == b + U
           s == MergedStart(h, b)
           e == MergedEnd(h, b)
<1>1. /\ b \in Blocks(h) /\ b \in Words /\ b \in Nat /\ b \notin DOMAIN h.free
      /\ U \in Nat /\ U >= 4 /\ SizeOf(h, b) = U /\ End(h, b) = N /\ N <= HeapSize
  BY WordsType DEF Well, Typed, Tiled, Blocks, SizeOf, End, min_alloc_sz
<1>2. \A c \in Blocks(h) : c \in Nat /\ c \in Words /\ SizeOf(h, c) \in Nat
                           /\ SizeOf(h, c) >= 4
                           /\ End(h, c) = c + SizeOf(h, c) /\ End(h, c) <= HeapSize
  BY WordsType DEF Well, Typed, Tiled, Blocks, SizeOf, End, min_alloc_sz
<1>3. \A c \in DOMAIN h.free : c \in Blocks(h) /\ SizeOf(h, c) = h.free[c]
  BY DEF Blocks, SizeOf
<1>4. \A c, d \in Blocks(h) : c < d => End(h, c) <= d
  BY DEF Well, Tiled
<1>5. \/ s = b /\ \A c \in DOMAIN h.free : c + h.free[c] # b
      \/ s \in DOMAIN h.free /\ s + h.free[s] = b
  BY DEF MergedStart
<1>6. \/ e = N /\ N \notin DOMAIN h.free
      \/ N \in DOMAIN h.free /\ e = N + h.free[N]
  BY DEF MergedEnd
<1>7. /\ new.free = [c \in (DOMAIN h.free \ {N}) \cup {s} |->
                       IF c = s THEN e - s ELSE h.free[c]]
      /\ new.used = [c \in DOMAIN h.used \ {b} |-> h.used[c]]
  BY DEF FreeBlock
<1>8. s \in Blocks(h) /\ s \in Nat /\ s <= b /\ (s = b \/ End(h, s) = b)
  BY <1>1, <1>2, <1>3, <1>5
<1>9. e \in Nat /\ N <= e /\ e <= HeapSize /\ (N \in DOMAIN h.free => e = End(h, N))
  BY <1>1, <1>2, <1>3, <1>6
<1> HIDE DEF new, U, s, e
<1>10. /\ DOMAIN new.free = (DOMAIN h.free \ {N}) \cup {s}
       /\ DOMAIN new.used = DOMAIN h.used \ {b}
  BY <1>7
<1>11. \A c \in Blocks(new) : c = s \/ (c \in Blocks(h) /\ c # b /\ (c \in DOMAIN h.free => c # N))
  BY <1>1, <1>10 DEF Blocks, Well, Tiled
<1>12. \A c \in Blocks(h) : c \in Blocks(new) \/ c = b \/ (c = N /\ N \in DOMAIN h.free)
  BY <1>10 DEF Blocks
<1>13. s \in Blocks(new) /\ SizeOf(new, s) = e - s
  BY <1>7, <1>10 DEF Blocks, SizeOf
<1>14. ASSUME NEW c \in Blocks(new), c # s
       PROVE  SizeOf(new, c) = SizeOf(h, c)
  BY <1>7, <1>10, <1>14 DEF Blocks, SizeOf, Well, Tiled
<1>15. /\ End(new, s) = e
       /\ \A c \in Blocks(new) \ {s} : End(new, c) = End(h, c)
  BY <1>8, <1>9, <1>13, <1>14 DEF End
<1>16. ASSUME NEW d \in Blocks(new), d # s, s < d
       PROVE  e <= d
  <2>1. d \in Blocks(h) /\ d # b /\ (d \in DOMAIN h.free => d # N)
    BY <1>11, <1>16
  <2>2. b < d
    BY <2>1, <1>1, <1>2, <1>4, <1>8, <1>16
  <2>3. N <= d
    BY <2>1, <2>2, <1>1, <1>4
  <2>4. CASE e = N
    BY <2>3, <2>4
  <2>5. CASE N \in DOMAIN h.free
    <3>1. d # N
      BY <2>1, <2>5
    <3>2. N < d
      BY <3>1, <2>1, <2>3, <1>1, <1>2
    <3> QED BY <3>2, <2>1, <2>5, <1>3, <1>4, <1>9
  <2> QED BY <2>4, <2>5, <1>6
<1>17. Typed(new)
  <2>1. DOMAIN new.free \cup DOMAIN new.used \subseteq Words
    BY <1>2, <1>8, <1>10 DEF Well, Typed
  <2>2. e - s \in Nat
    BY <1>1, <1>8, <1>9
  <2>3. new.free \in [DOMAIN new.free -> Nat]
    BY <2>2, <1>7, <1>10 DEF Well, Typed
  <2>4. new.used \in [DOMAIN new.used -> Nat]
    BY <1>7, <1>10 DEF Well, Typed
  <2> QED BY <2>1, <2>3, <2>4 DEF Typed
<1>18. Tiled(new)
  <2>1. DOMAIN new.free \cap DOMAIN new.used = {}
    BY <1>1, <1>5, <1>10 DEF Well, Tiled
  <2>2. ASSUME NEW c \in Blocks(new)
        PROVE  SizeOf(new, c) >= min_alloc_sz /\ End(new, c) <= HeapSize
    <3>1. CASE c = s
      BY <3>1, <1>1, <1>8, <1>9, <1>13, <1>15 DEF min_alloc_sz
    <3>2. CASE c # s
      BY <3>2, <1>2, <1>11, <1>14, <1>15 DEF min_alloc_sz
    <3> QED BY <3>1, <3>2
  <2>3. ASSUME NEW c \in Blocks(new), NEW d \in Blocks(new), c < d
        PROVE  End(new, c) <= d
    <3>1. CASE c = s
      BY <3>1, <2>3, <1>8, <1>15, <1>16
    <3>2. CASE c # s
      BY <3>2, <2>3, <1>4, <1>8, <1>11, <1>15
    <3> QED BY <3>1, <3>2
  <2>4. ASSUME NEW w \in Words
        PROVE  \E c \in Blocks(new) : c <= w /\ w < End(new, c)
    <3>1. PICK c \in Blocks(h) : c <= w /\ w < End(h, c)
      BY DEF Well, Tiled
    <3>2. w \in Nat
      BY WordsType
    <3>3. CASE c = s \/ c = b \/ (c = N /\ N \in DOMAIN h.free)
      <4>1. s <= w
        BY <3>1, <3>2, <3>3, <1>1, <1>8
      <4>2. w < e
        BY <3>1, <3>2, <3>3, <1>1, <1>8, <1>9
      <4> QED BY <4>1, <4>2, <1>13, <1>15
    <3>4. CASE ~(c = s \/ c = b \/ (c = N /\ N \in DOMAIN h.free))
      BY <3>1, <3>4, <1>12, <1>15
    <3> QED BY <3>3, <3>4
  <2> QED BY <2>1, <2>2, <2>3, <2>4 DEF Tiled
<1>19. Merged(new)
  <2> SUFFICES ASSUME NEW c \in DOMAIN new.free, NEW d \in DOMAIN new.free
               PROVE  End(new, c) # d
    BY DEF Merged
  <2>1. CASE c = s
    <3>1. CASE d = s
      BY <2>1, <3>1, <1>1, <1>8, <1>9, <1>15
    <3>2. CASE d # s
      <4>1. d \in DOMAIN h.free /\ d # N
        BY <3>2, <1>10
      <4>2. CASE e = N
        BY <4>1, <4>2, <2>1, <1>15
      <4>3. CASE N \in DOMAIN h.free
        BY <4>1, <4>3, <2>1, <1>9, <1>15 DEF Well, Merged
      <4> QED BY <4>2, <4>3, <1>6
    <3> QED BY <3>1, <3>2
  <2>2. CASE c # s
    <3>1. c \in DOMAIN h.free /\ c \in Blocks(new) /\ End(new, c) = End(h, c)
      BY <2>2, <1>10, <1>15 DEF Blocks
    <3>2. CASE d \in DOMAIN h.free
      BY <3>1, <3>2 DEF Well, Merged
    <3>3. CASE d \notin DOMAIN h.free
      BY <3>1, <3>3, <1>2, <1>3, <1>5, <1>10
    <3> QED BY <3>2, <3>3
  <2> QED BY <2>1, <2>2
<1>20. \A c \in DOMAIN h.used \ {b} : new.used[c] = h.used[c]
  BY <1>7
<1> QED BY <1>10, <1>17, <1>18, <1>19, <1>20 DEF Well, new

(* A heap whose count of blocks is right as well. *)
Sound(h) == /\ Well(h)
            /\ h.true_num_alloced = Cardinality(DOMAIN h.used)
            /\ h.words_used = Cardinality(InUse(h))

(* The collector's books over the blocks in use. *)
Books(h, set, nodes, num) ==
  /\ set \subseteq DOMAIN h.used
  /\ nodes \subseteq DOMAIN h.used
  /\ set \cap nodes = {}
  /\ Cardinality(nodes) = Cardinality(set)
  /\ num = Cardinality(set)

(* The blocks in use are finitely many. *)
LEMMA Finite ==
  ASSUME NEW h, Typed(h)
  PROVE  \A S : S \subseteq DOMAIN h.used => IsFiniteSet(S) /\ Cardinality(S) \in Nat
<1>1. IsFiniteSet(Words)
  BY HeapAssumption, FS_Interval DEF Words, hds_sz
<1>2. \A S : S \subseteq DOMAIN h.used => S \subseteq Words
  BY DEF Typed
<1> QED BY <1>1, <1>2, FS_Subset, FS_CardinalityType

(* So are the words in them. *)
LEMMA InUseFinite ==
  ASSUME NEW h
  PROVE  IsFiniteSet(InUse(h)) /\ Cardinality(InUse(h)) \in Nat
<1>1. IsFiniteSet(Words)
  BY HeapAssumption, FS_Interval DEF Words, hds_sz
<1> QED BY <1>1, FS_Subset, FS_CardinalityType DEF InUse

(* The words of a block, and those of a block in use. *)
Span(b, s) == b .. (b + s - 1)

LEMMA UsedSpan ==
  ASSUME NEW h, Well(h), NEW b \in DOMAIN h.used
  PROVE  /\ b \in Nat /\ h.used[b] \in Nat /\ h.used[b] >= 4
         /\ Span(b, h.used[b]) \subseteq InUse(h)
         /\ IsFiniteSet(Span(b, h.used[b])) /\ Cardinality(Span(b, h.used[b])) = h.used[b]
<1> DEFINE U == h.used[b]
<1>1. /\ b \in Nat /\ b >= 8 /\ b \in Words /\ b \notin DOMAIN h.free /\ b \in Blocks(h)
      /\ U \in Nat /\ U >= 4 /\ b + U <= HeapSize
  BY WordsType DEF Well, Typed, Tiled, Blocks, SizeOf, End, min_alloc_sz
<1> HIDE DEF U
<1>2. Span(b, U) \subseteq Words
  BY <1>1, WordsType DEF Span, Words, hds_sz
<1>3. \A w \in Span(b, U) : b <= w /\ w < b + U
  BY <1>1 DEF Span
<1>4. Span(b, U) \subseteq InUse(h)
  BY <1>2, <1>3 DEF InUse, U
<1>5. IsFiniteSet(Span(b, U)) /\ Cardinality(Span(b, U)) = U
  <2> DEFINE e == b + U - 1
  <2>1. e \in Int /\ b \in Int /\ ~(b > e) /\ (e - b) + 1 = U
    BY <1>1
  <2>2. Span(b, U) = b .. e
    BY DEF Span
  <2> HIDE DEF e
  <2>3. IsFiniteSet(b .. e) /\ Cardinality(b .. e) = (e - b) + 1
    BY <2>1, FS_Interval
  <2> QED BY <2>1, <2>2, <2>3
<1> QED BY <1>1, <1>4, <1>5 DEF U

(* Two blocks in use have no word in common. *)
LEMMA Apart ==
  ASSUME NEW h, Well(h), NEW b \in DOMAIN h.used, NEW c \in DOMAIN h.used, b # c
  PROVE  Span(b, h.used[b]) \cap Span(c, h.used[c]) = {}
<1>1. \A d \in DOMAIN h.used : d \in Blocks(h) /\ End(h, d) = d + h.used[d]
                               /\ d \in Nat /\ h.used[d] \in Nat
  BY WordsType DEF Well, Typed, Tiled, Blocks, SizeOf, End
<1>2. b + h.used[b] <= c \/ c + h.used[c] <= b
  BY <1>1 DEF Well, Tiled
<1> QED BY <1>1, <1>2 DEF Span

(* A word in use is in one of the blocks. *)
LEMMA InSomeSpan ==
  ASSUME NEW h, Well(h)
  PROVE  InUse(h) = UNION {Span(b, h.used[b]) : b \in DOMAIN h.used}
<1>1. ASSUME NEW w \in InUse(h)
      PROVE  \E b \in DOMAIN h.used : w \in Span(b, h.used[b])
  <2>1. w \in Nat /\ \E b \in DOMAIN h.used : b <= w /\ w < b + h.used[b]
    BY WordsType DEF InUse
  <2> QED BY <2>1, UsedSpan DEF Span
<1> QED BY <1>1, UsedSpan

(* One more block in use adds as many words as it has. *)
LEMMA WordsTaken ==
  ASSUME NEW h, Well(h), NEW new, Well(new), NEW b, b \notin DOMAIN h.used,
         DOMAIN new.used = DOMAIN h.used \cup {b},
         \A c \in DOMAIN h.used : new.used[c] = h.used[c]
  PROVE  Cardinality(InUse(new)) = Cardinality(InUse(h)) + new.used[b]
<1> DEFINE S == Span(b, new.used[b])
<1>1. b \in DOMAIN new.used
  OBVIOUS
<1>2. InUse(new) = InUse(h) \cup S
  BY InSomeSpan
<1>3. InUse(h) \cap S = {}
  BY <1>1, InSomeSpan, Apart
<1>4. IsFiniteSet(S) /\ Cardinality(S) = new.used[b] /\ new.used[b] \in Nat
  BY <1>1, UsedSpan
<1> HIDE DEF S
<1>5. IsFiniteSet(InUse(h)) /\ Cardinality(InUse(h)) \in Nat
  BY InUseFinite
<1>6. Cardinality(InUse(h) \cup S) = Cardinality(InUse(h)) + Cardinality(S) - Cardinality(InUse(h) \cap S)
  BY <1>4, <1>5, FS_Union
<1>7. Cardinality(InUse(h) \cap S) = 0
  BY <1>3, FS_EmptySet
<1> QED BY <1>2, <1>4, <1>5, <1>6, <1>7

(* AllocKeeps, with the counts. *)
LEMMA Grow ==
  ASSUME NEW h, Sound(h), NEW n \in Nat, NEW b \in Fits(h, n)
  PROVE  /\ Sound(AllocAt(h, b, n))
         /\ b \in Words /\ b \notin DOMAIN h.used
         /\ DOMAIN AllocAt(h, b, n).used = DOMAIN h.used \cup {b}
<1> DEFINE new == AllocAt(h, b, n)
<1>1. /\ Well(new) /\ b \in Words /\ b \notin DOMAIN h.used
      /\ DOMAIN new.used = DOMAIN h.used \cup {b}
      /\ \A c \in DOMAIN h.used : new.used[c] = h.used[c]
  BY AllocKeeps DEF Sound
<1>2. /\ new.true_num_alloced = h.true_num_alloced + 1
      /\ new.words_used = h.words_used + new.used[b]
  BY DEF AllocAt
<1>3. IsFiniteSet(DOMAIN h.used)
  BY Finite DEF Sound, Well
<1>4. Cardinality(DOMAIN h.used \cup {b}) = Cardinality(DOMAIN h.used) + 1
  BY <1>1, <1>3, FS_AddElement
<1> HIDE DEF new
<1>5. Cardinality(InUse(new)) = Cardinality(InUse(h)) + new.used[b]
  BY <1>1, WordsTaken DEF Sound
<1>6. Sound(new)
  BY <1>1, <1>2, <1>4, <1>5 DEF Sound
<1> QED BY <1>1, <1>6 DEF new

(* FreeKeeps, with the counts. *)
LEMMA Shrink ==
  ASSUME NEW h, Sound(h), NEW b \in DOMAIN h.used
  PROVE  /\ Sound(FreeBlock(h, b))
         /\ DOMAIN FreeBlock(h, b).used = DOMAIN h.used \ {b}
         /\ b \in Words
<1> DEFINE new == FreeBlock(h, b)
<1>1. /\ Well(new) /\ DOMAIN new.used = DOMAIN h.used \ {b}
      /\ \A c \in DOMAIN h.used \ {b} : new.used[c] = h.used[c]
  BY FreeKeeps DEF Sound
<1>2. /\ new.true_num_alloced = h.true_num_alloced - 1
      /\ new.words_used = h.words_used - h.used[b]
  BY DEF FreeBlock
<1>3. IsFiniteSet(DOMAIN h.used)
  BY Finite DEF Sound, Well
<1>4. Cardinality(DOMAIN h.used \ {b}) = Cardinality(DOMAIN h.used) - 1
  BY <1>3, FS_RemoveElement
<1> HIDE DEF new
<1>5. Cardinality(InUse(h)) = Cardinality(InUse(new)) + h.used[b]
  <2>1. b \notin DOMAIN new.used /\ DOMAIN h.used = DOMAIN new.used \cup {b}
    BY <1>1
  <2>2. \A c \in DOMAIN new.used : h.used[c] = new.used[c]
    BY <1>1
  <2>3. Well(h) /\ Well(new)
    BY <1>1 DEF Sound
  <2> QED BY <2>1, <2>2, <2>3, WordsTaken
<1>6. h.used[b] \in Nat /\ Cardinality(InUse(new)) \in Nat
  BY InUseFinite DEF Sound, Well, Typed
<1>7. new.words_used = Cardinality(InUse(new))
  BY <1>2, <1>5, <1>6 DEF Sound
<1>8. Sound(new)
  BY <1>1, <1>2, <1>4, <1>7 DEF Sound
<1> QED BY <1>1, <1>8 DEF new, Sound, Well, Typed

(* Registering block b, with its node in a new block c. *)
LEMMA BooksGrow ==
  ASSUME NEW h, Sound(h), NEW set, NEW nodes, NEW num, Books(h, set, nodes, num),
         NEW b \in DOMAIN h.used, b \notin set, b \notin nodes,
         NEW c, c \notin DOMAIN h.used,
         NEW new, DOMAIN new.used = DOMAIN h.used \cup {c}
  PROVE  Books(new, set \cup {b}, nodes \cup {c}, num + 1)
<1>1. IsFiniteSet(set) /\ IsFiniteSet(nodes)
  BY Finite DEF Books, Sound, Well
<1>2. Cardinality(set \cup {b}) = Cardinality(set) + 1
  BY <1>1, FS_AddElement
<1>3. c \notin nodes
  BY DEF Books
<1>4. Cardinality(nodes \cup {c}) = Cardinality(nodes) + 1
  BY <1>1, <1>3, FS_AddElement
<1> QED BY <1>2, <1>4 DEF Books

(* Taking block b off the books, freeing it and some node x. *)
LEMMA BooksShrink ==
  ASSUME NEW h, Sound(h), NEW set, NEW nodes, NEW num, Books(h, set, nodes, num),
         NEW b \in set, NEW x \in nodes,
         NEW new, DOMAIN new.used = (DOMAIN h.used \ {x}) \ {b}
  PROVE  Books(new, set \ {b}, nodes \ {x}, num - 1)
<1>1. IsFiniteSet(set) /\ IsFiniteSet(nodes)
  BY Finite DEF Books, Sound, Well
<1>2. /\ Cardinality(set \ {b}) = Cardinality(set) - 1
      /\ Cardinality(nodes \ {x}) = Cardinality(nodes) - 1
  BY <1>1, FS_RemoveElement
<1> QED BY <1>2 DEF Books

(* The whole state, and the one after a step. *)
State == Sound(heap) /\ Books(heap, gc_set, gc_nodes, gc_num_alloced)
StateNext == Sound(heap') /\ Books(heap', gc_set', gc_nodes', gc_num_alloced')

(* IInv in the terms of the lemmas above. *)
LEMMA Restated == IInv <=> State
<1>1. State => gc_set \subseteq Words /\ gc_nodes \subseteq Words
  BY DEF State, Sound, Books, Well, Typed
<1>2. State => /\ heap.true_num_alloced \in Int /\ heap.words_used \in Int
               /\ gc_num_alloced \in Int
  BY Finite, InUseFinite DEF State, Sound, Books, Well
<1> QED BY <1>1, <1>2 DEF IInv, State, Sound, Books, Well, TypeOK, Tiling, Coalesced,
                          Registered, Counters, WordsCounted

(* The same for the next state. *)
LEMMA RestatedNext == StateNext => IInv'
<1>1. StateNext => gc_set' \subseteq Words /\ gc_nodes' \subseteq Words
  BY DEF StateNext, Sound, Books, Well, Typed
<1>2. StateNext => /\ heap'.true_num_alloced \in Int /\ heap'.words_used \in Int
                   /\ gc_num_alloced' \in Int
  BY Finite, InUseFinite DEF StateNext, Sound, Books, Well
<1> QED BY <1>1, <1>2 DEF IInv, StateNext, Sound, Books, Well, TypeOK, Tiling, Coalesced,
                          Registered, Counters, WordsCounted

(* At first the heap is one free block. *)
LEMMA Initially == Init => State
<1> SUFFICES ASSUME Init PROVE State
  OBVIOUS
<1>1. /\ DOMAIN heap.free = {8} /\ heap.free[8] = HeapSize - 8
      /\ DOMAIN heap.used = {} /\ heap.true_num_alloced = 0 /\ heap.words_used = 0
      /\ heap.used \in [{} -> Nat] /\ heap.free \in [{8} -> Int]
  BY HeapAssumption DEF Init, hds_sz
<1>2. Words = 8..(HeapSize - 1) /\ HeapSize \in Nat /\ HeapSize >= 12
  BY HeapAssumption DEF Words, hds_sz, min_alloc_sz
<1>3. Blocks(heap) = {8} /\ SizeOf(heap, 8) = HeapSize - 8 /\ End(heap, 8) = HeapSize
  BY <1>1, <1>2 DEF Blocks, SizeOf, End
<1>4. Typed(heap)
  BY <1>1, <1>2 DEF Typed
<1>5. Tiled(heap)
  BY <1>1, <1>2, <1>3 DEF Tiled, min_alloc_sz
<1>6. Merged(heap)
  BY <1>1, <1>2, <1>3 DEF Merged
<1>7. Cardinality({}) = 0 /\ InUse(heap) = {}
  BY <1>1, FS_EmptySet DEF InUse
<1> QED BY <1>1, <1>4, <1>5, <1>6, <1>7 DEF State, Sound, Well, Books, Init

(* A node's worth of words is a size alloc can be asked for. *)
LEMMA NodeWordsType == NodeWords \in Nat
BY DEF NodeWords

(* Registering a block of a sound heap keeps the books, and returns the
   block. *)
LEMMA RegisterKeeps ==
  ASSUME NEW h, Sound(h), Books(h, gc_set, gc_nodes, gc_num_alloced),
         NEW b \in DOMAIN h.used, b \notin gc_set, b \notin gc_nodes,
         NEW op, Register(op, h, b)
  PROVE  StateNext /\ last'.ret # Null
<1>1. PICK c \in Fits(h, NodeWords) :
        /\ heap' = AllocAt(h, c, NodeWords)
        /\ gc_set' = gc_set \cup {b}
        /\ gc_nodes' = gc_nodes \cup {c}
        /\ gc_num_alloced' = gc_num_alloced + 1
        /\ Returns(op, Addr(b))
  BY DEF Register
<1>2. Sound(heap') /\ c \notin DOMAIN h.used /\ DOMAIN heap'.used = DOMAIN h.used \cup {c}
  BY <1>1, NodeWordsType, Grow
<1>3. Books(heap', gc_set', gc_nodes', gc_num_alloced')
  BY <1>1, <1>2, BooksGrow
<1>4. b \in Nat
  BY WordsType DEF Sound, Well, Typed
<1> QED BY <1>1, <1>2, <1>3, <1>4 DEF StateNext, Returns, Addr, Null, umds_sz

(* alloc keeps the heap sound and does not touch the books. *)
LEMMA AllocStep ==
  ASSUME State, NEW n \in Nat, alloc(n)
  PROVE  StateNext
<1>1. CASE UNCHANGED heap
  BY <1>1 DEF alloc, gc, State, StateNext, Books
<1>2. ASSUME NEW b \in Fits(heap, n), heap' = AllocAt(heap, b, n)
      PROVE  StateNext
  <2>1. Sound(heap') /\ DOMAIN heap'.used = DOMAIN heap.used \cup {b}
    BY <1>2, Grow DEF State
  <2> QED BY <2>1 DEF alloc, gc, State, StateNext, Books
<1> QED BY <1>1, <1>2 DEF alloc

(* So does free, of a block that is not on the books. *)
LEMMA FreeStep ==
  ASSUME State, NEW b \in Owned, free(b)
  PROVE  StateNext
<1>1. b \in DOMAIN heap.used /\ b \notin gc_set /\ b \notin gc_nodes
  BY DEF Owned
<1>2. Sound(heap') /\ DOMAIN heap'.used = DOMAIN heap.used \ {b}
  BY <1>1, Shrink DEF free, State
<1> QED BY <1>1, <1>2 DEF free, gc, State, StateNext, Books

(* So does realloc: an alloc and then a free. *)
LEMMA ReallocStep ==
  ASSUME State, NEW b \in Owned, NEW n \in Nat, realloc(b, n)
  PROVE  StateNext
<1>1. b \in DOMAIN heap.used /\ b \notin gc_set /\ b \notin gc_nodes
  BY DEF Owned
<1>2. CASE UNCHANGED heap
  BY <1>2 DEF realloc, gc, State, StateNext, Books
<1>3. ASSUME NEW c \in Fits(heap, n), heap' = FreeBlock(AllocAt(heap, c, n), b)
      PROVE  StateNext
  <2> DEFINE h == AllocAt(heap, c, n)
  <2>1. Sound(h) /\ c \notin DOMAIN heap.used /\ DOMAIN h.used = DOMAIN heap.used \cup {c}
    BY Grow DEF State
  <2>2. b \in DOMAIN h.used
    BY <1>1, <2>1
  <2> HIDE DEF h
  <2>3. Sound(FreeBlock(h, b)) /\ DOMAIN FreeBlock(h, b).used = DOMAIN h.used \ {b}
    BY <2>1, <2>2, Shrink
  <2>4. heap' = FreeBlock(h, b)
    BY <1>3 DEF h
  <2> QED BY <1>1, <2>1, <2>3, <2>4 DEF realloc, gc, State, StateNext, Books
<1> QED BY <1>2, <1>3 DEF realloc

(* gc_alloc, the first step of gc_realloc too: on failure nothing but the  *)
(* heap's own bookkeeping may have moved.                                  *)
LEMMA GcAllocStep ==
  ASSUME State, NEW n \in Nat, gc_alloc(n)
  PROVE  StateNext
<1>1. CASE UNCHANGED <<heap, gc>>
  BY <1>1 DEF gc, State, StateNext
<1>2. ASSUME NEW b \in Fits(heap, n),
             \/ Register("gc_alloc", AllocAt(heap, b, n), b)
             \/ heap' = FreeBlock(AllocAt(heap, b, n), b) /\ UNCHANGED gc
      PROVE  StateNext
  <2> DEFINE h == AllocAt(heap, b, n)
  <2>1. Sound(h) /\ b \notin DOMAIN heap.used /\ DOMAIN h.used = DOMAIN heap.used \cup {b}
    BY Grow DEF State
  <2>2. b \in DOMAIN h.used /\ b \notin gc_set /\ b \notin gc_nodes
        /\ Books(h, gc_set, gc_nodes, gc_num_alloced)
    BY <2>1 DEF State, Books
  <2>3. CASE Register("gc_alloc", h, b)
    <3> HIDE DEF h
    <3> QED BY <2>1, <2>2, <2>3, RegisterKeeps
  <2>4. CASE heap' = FreeBlock(h, b) /\ UNCHANGED gc
    <3> HIDE DEF h
    <3>1. Sound(FreeBlock(h, b)) /\ DOMAIN FreeBlock(h, b).used = DOMAIN h.used \ {b}
      BY <2>1, <2>2, Shrink
    <3> QED BY <2>1, <2>2, <2>4, <3>1 DEF gc, StateNext, Books
  <2> QED BY <1>2, <2>3, <2>4
<1> QED BY <1>1, <1>2 DEF gc_alloc

(* gc_add, of a new block and of one that is registered already. *)
LEMMA GcAddStep ==
  ASSUME State, NEW b \in Owned \cup gc_set, gc_add(b)
  PROVE  StateNext
<1>1. CASE b \notin gc_set /\ Register("gc_add", heap, b)
  <2>1. b \in DOMAIN heap.used /\ b \notin gc_nodes
    BY <1>1 DEF Owned
  <2> QED BY <1>1, <2>1, RegisterKeeps DEF State
<1>2. ASSUME NEW c \in Fits(heap, NodeWords),
             heap' = FreeBlock(AllocAt(heap, c, NodeWords), c), UNCHANGED gc
      PROVE  StateNext
  <2> DEFINE h == AllocAt(heap, c, NodeWords)
  <2>1. Sound(h) /\ c \notin DOMAIN heap.used /\ DOMAIN h.used = DOMAIN heap.used \cup {c}
    BY Grow, NodeWordsType DEF State
  <2>2. heap' = FreeBlock(h, c)
    BY <1>2
  <2> HIDE DEF h
  <2>3. Sound(FreeBlock(h, c)) /\ DOMAIN FreeBlock(h, c).used = DOMAIN h.used \ {c}
    BY <2>1, Shrink
  <2> QED BY <1>2, <2>1, <2>2, <2>3 DEF gc, State, StateNext, Books
<1>3. CASE UNCHANGED <<heap, gc>>
  BY <1>3 DEF gc, State, StateNext
<1> QED BY <1>1, <1>2, <1>3 DEF gc_add

(* A block and a node go: what gc_free does to any sound heap. *)
LEMMA UnregisterKeeps ==
  ASSUME NEW h, Sound(h), NEW set, NEW nodes, NEW num, Books(h, set, nodes, num),
         NEW b \in set, NEW x \in nodes
  PROVE  /\ Sound(FreeBlock(FreeBlock(h, x), b))
         /\ Books(FreeBlock(FreeBlock(h, x), b), set \ {b}, nodes \ {x}, num - 1)
<1>1. b \in DOMAIN h.used /\ x \in DOMAIN h.used /\ b # x
  BY DEF Books
<1> DEFINE g == FreeBlock(h, x)
<1>2. Sound(g) /\ DOMAIN g.used = DOMAIN h.used \ {x}
  BY <1>1, Shrink
<1>3. b \in DOMAIN g.used
  BY <1>1, <1>2
<1> HIDE DEF g
<1>4. Sound(FreeBlock(g, b)) /\ DOMAIN FreeBlock(g, b).used = DOMAIN g.used \ {b}
  BY <1>2, <1>3, Shrink
<1>5. DOMAIN FreeBlock(g, b).used = (DOMAIN h.used \ {x}) \ {b}
  BY <1>2, <1>4
<1>6. Books(FreeBlock(g, b), set \ {b}, nodes \ {x}, num - 1)
  BY <1>5, BooksShrink
<1> QED BY <1>4, <1>6 DEF g

(* gc_free: block and node go together. *)
LEMMA GcFreeStep ==
  ASSUME State, NEW b \in gc_set, gc_free(b)
  PROVE  StateNext
<1>1. PICK x \in gc_nodes : /\ heap' = FreeBlock(FreeBlock(heap, x), b)
                            /\ gc_nodes' = gc_nodes \ {x}
  BY DEF gc_free
<1>2. gc_set' = gc_set \ {b} /\ gc_num_alloced' = gc_num_alloced - 1
  BY DEF gc_free
<1> QED BY <1>1, <1>2, UnregisterKeeps DEF State, StateNext

(* gc_realloc: whether or not the new block could be had, the old one and a
   node go. *)
LEMMA GcReallocStep ==
  ASSUME State, NEW b \in gc_set, NEW n \in Nat, gc_realloc(b, n)
  PROVE  StateNext
<1>1. ASSUME NEW x \in gc_nodes, heap' = FreeBlock(FreeBlock(heap, x), b),
             gc_nodes' = gc_nodes \ {x}, gc_set' = gc_set \ {b},
             gc_num_alloced' = gc_num_alloced - 1
      PROVE  StateNext
  BY <1>1, UnregisterKeeps DEF State, StateNext
<1>2. ASSUME NEW c \in Fits(heap, n), NEW x \in gc_nodes,
             heap' = FreeBlock(FreeBlock(FreeBlock(AllocAt(heap, c, n), c), x), b),
             gc_nodes' = gc_nodes \ {x}, gc_set' = gc_set \ {b},
             gc_num_alloced' = gc_num_alloced - 1
      PROVE  StateNext
  <2> DEFINE h == AllocAt(heap, c, n)
             g == FreeBlock(h, c)
  <2>1. Sound(h) /\ c \notin DOMAIN heap.used /\ DOMAIN h.used = DOMAIN heap.used \cup {c}
    BY Grow DEF State
  <2> HIDE DEF h
  <2>2. Sound(g) /\ DOMAIN g.used = DOMAIN h.used \ {c}
    BY <2>1, Shrink
  <2> HIDE DEF g
  <2>3. Books(g, gc_set, gc_nodes, gc_num_alloced)
    BY <2>1, <2>2 DEF State, Books
  <2>4. heap' = FreeBlock(FreeBlock(g, x), b)
    BY <1>2 DEF g, h
  <2> QED BY <1>2, <2>2, <2>3, <2>4, UnregisterKeeps DEF StateNext
<1>3. ASSUME NEW c \in Fits(heap, n), NEW d \in Fits(AllocAt(heap, c, n), NodeWords),
             NEW x \in gc_nodes \cup {d},
             heap' = FreeBlock(FreeBlock(AllocAt(AllocAt(heap, c, n), d, NodeWords), x), b),
             gc_nodes' = (gc_nodes \cup {d}) \ {x}, gc_set' = (gc_set \cup {c}) \ {b},
             UNCHANGED gc_num_alloced
      PROVE  StateNext
  <2> DEFINE h == AllocAt(heap, c, n)
             g == AllocAt(h, d, NodeWords)
             num == gc_num_alloced + 1
  <2>1. Sound(h) /\ c \notin DOMAIN heap.used /\ DOMAIN h.used = DOMAIN heap.used \cup {c}
    BY Grow DEF State
  <2>2. /\ Books(h, gc_set, gc_nodes, gc_num_alloced)
        /\ c \in DOMAIN h.used /\ c \notin gc_set /\ c \notin gc_nodes
    BY <2>1 DEF State, Books
  <2>3. heap' = FreeBlock(FreeBlock(g, x), b)
    BY <1>3
  <2>4. d \in Fits(h, NodeWords)
    OBVIOUS
  <2> HIDE DEF h
  <2>5. Sound(g) /\ d \notin DOMAIN h.used /\ DOMAIN g.used = DOMAIN h.used \cup {d}
    BY <2>1, <2>4, Grow, NodeWordsType
  <2> HIDE DEF g
  <2>6. Books(g, gc_set \cup {c}, gc_nodes \cup {d}, num)
    BY <2>1, <2>2, <2>5, BooksGrow
  <2> HIDE DEF num
  <2>7. /\ Sound(FreeBlock(FreeBlock(g, x), b))
        /\ Books(FreeBlock(FreeBlock(g, x), b), (gc_set \cup {c}) \ {b},
                 (gc_nodes \cup {d}) \ {x}, num - 1)
    BY <2>5, <2>6, UnregisterKeeps
  <2>8. gc_num_alloced \in Int
    BY Finite DEF State, Books, Sound, Well
  <2>9. num - 1 = gc_num_alloced'
    BY <1>3, <2>8 DEF num
  <2> QED BY <1>3, <2>3, <2>7, <2>9 DEF StateNext
<1> QED BY <1>1, <1>2, <1>3 DEF gc_realloc

(* Every call keeps the invariant. *)
LEMMA Inductive == IInv /\ [Next]_vars => IInv'
<1> SUFFICES ASSUME State, [Next]_vars PROVE StateNext
  BY Restated, RestatedNext
<1>1. ASSUME NEW n \in Requests, alloc(n) \/ gc_alloc(n)
      PROVE  StateNext
  BY <1>1, RequestsAssumption, AllocStep, GcAllocStep
<1>2. ASSUME NEW b \in Owned, free(b)
      PROVE  StateNext
  BY <1>2, FreeStep
<1>3. ASSUME NEW b \in Owned, NEW n \in Requests, realloc(b, n)
      PROVE  StateNext
  BY <1>3, RequestsAssumption, ReallocStep
<1>4. ASSUME NEW b \in Owned \cup gc_set, gc_add(b)
      PROVE  StateNext
  BY <1>4, GcAddStep
<1>5. ASSUME NEW b \in gc_set, gc_free(b)
      PROVE  StateNext
  BY <1>5, GcFreeStep
<1>6. ASSUME NEW b \in gc_set, NEW n \in Requests, gc_realloc(b, n)
      PROVE  StateNext
  BY <1>6, RequestsAssumption, GcReallocStep
<1>7. CASE UNCHANGED vars
  BY <1>7 DEF vars, State, StateNext
<1> QED BY <1>1, <1>2, <1>3, <1>4, <1>5, <1>6, <1>7 DEF Next

(* The inductive invariant: the heap is tiled by blocks, no two free ones  *)
(* touch, and the counts and the collector's books agree with them.        *)
THEOREM InvariantHolds == Spec => []IInv
<1>1. Init => IInv
  BY Initially, Restated
<1> QED BY <1>1, Inductive, PTL DEF Spec

(* However allocs, frees and the collector's calls are mixed, every word   *)
(* of the heap is in exactly one block: nothing is handed out twice or lost.*)
THEOREM HeapTiled == Spec => []Tiling
<1>1. IInv => Tiling
  BY DEF IInv
<1> QED BY <1>1, InvariantHolds, PTL

(* A free block never has a free neighbour, whatever order blocks are      *)
(* freed in: avl_merge finds both.                                         *)
THEOREM HeapCoalesced == Spec => []Coalesced
<1>1. IInv => Coalesced
  BY DEF IInv
<1> QED BY <1>1, InvariantHolds, PTL

(* The collector's set and its nodes are blocks in use, disjoint and one   *)
(* for one.                                                                *)
THEOREM BooksHold == Spec => []Registered
<1>1. IInv => Registered
  BY DEF IInv
<1> QED BY <1>1, InvariantHolds, PTL

(* words_used counts the words of the blocks in use, through every split   *)
(* and merge: check_heap_capacity goes by the truth.                       *)
THEOREM WordsAreCounted == Spec => []WordsCounted
<1>1. IInv => WordsCounted
  BY DEF IInv
<1> QED BY <1>1, InvariantHolds, PTL

(* alloc returns null only when no run of unused words is long enough: the *)
(* two facts above leave such a run inside a single free block.            *)
THEOREM NoFalseRefusal == Spec => []RefusedOnlyIfNoRun
<1>1. IInv => RefusedOnlyIfNoRun
  <2> SUFFICES ASSUME IInv, NEW n \in Requests, Fits(heap, n) = {},
                      NEW w \in Words, w + BlockSize(n) <= HeapSize,
                      \A v \in w..(w + BlockSize(n) - 1) : Unused(v)
               PROVE  FALSE
    BY DEF RefusedOnlyIfNoRun
  <2> DEFINE k == BlockSize(n)
  <2>1. Typed(heap) /\ Tiled(heap) /\ Merged(heap)
    BY DEF IInv, TypeOK, Tiling, Coalesced
  <2>2. w \in Nat /\ k \in Nat /\ k >= 4 /\ HeapSize \in Nat
    BY WordsType, RequestsAssumption DEF BlockSize, umds_sz, min_alloc_sz
  <2>3. \A c \in Blocks(heap) : c \in Nat /\ End(heap, c) \in Nat /\ End(heap, c) <= HeapSize
                                /\ End(heap, c) > c
    BY <2>1, WordsType DEF Typed, Tiled, Blocks, End, SizeOf, min_alloc_sz
  <2>4. PICK b \in Blocks(heap) : b <= w /\ w < End(heap, b)
    BY <2>1 DEF Tiled
  <2>5. Unused(w)
    BY <2>2
  <2>6. b \in DOMAIN heap.free
    BY <2>2, <2>3, <2>4, <2>5 DEF Unused, Blocks
  <2> HIDE DEF k
  <2>7. CASE w + k <= End(heap, b)
    <3>1. heap.free[b] >= k
      BY <2>1, <2>2, <2>3, <2>4, <2>6, <2>7 DEF End, SizeOf, Typed
    <3> QED BY <3>1, <2>6 DEF Fits, k
  <2>8. CASE ~(w + k <= End(heap, b))
    <3> DEFINE v == End(heap, b)
    <3>1. v \in w..(w + k - 1) /\ v \in Words
      BY <2>2, <2>3, <2>4, <2>8, HeapAssumption, WordsType DEF Words, hds_sz, k
    <3>2. Unused(v)
      BY <3>1 DEF k
    <3>3. PICK c \in Blocks(heap) : c <= v /\ v < End(heap, c)
      BY <2>1, <3>1 DEF Tiled
    <3>4. c # b /\ ~(c < b)
      BY <2>1, <2>3, <2>4, <3>3 DEF Tiled
    <3>5. v <= c
      BY <2>1, <2>3, <3>4 DEF Tiled
    <3>6. c = v
      BY <2>3, <3>3, <3>5
    <3>7. c \notin DOMAIN heap.used
      BY <2>3, <3>2, <3>3 DEF Unused
    <3>8. c \in DOMAIN heap.free
      BY <3>7 DEF Blocks
    <3> QED BY <2>1, <2>6, <3>6, <3>8 DEF Merged
  <2> QED BY <2>7, <2>8
<1> QED BY <1>1, InvariantHolds, PTL

(* Freeing what was just allocated undoes the split: the remainder is      *)
(* merged back and nothing else is touched.                                *)
LEMMA GiveBack ==
  ASSUME NEW h, Well(h), NEW n \in Nat, NEW b \in Fits(h, n)
  PROVE  LET g == FreeBlock(AllocAt(h, b, n), b)
         IN  g.free = h.free /\ g.used = h.used
<1> DEFINE mid == AllocAt(h, b, n)
           S == h.free[b]
           g == Granted(h, b, n)
           R == Remainder(h, b, n)
           new == FreeBlock(mid, b)
<1>1. /\ b \in DOMAIN h.free /\ b \in Nat /\ S \in Nat /\ b \in Blocks(h)
      /\ SizeOf(h, b) = S /\ End(h, b) = b + S
      /\ S >= BlockSize(n) /\ BlockSize(n) \in Nat /\ BlockSize(n) >= 4
  BY WordsType DEF Fits, Well, Typed, BlockSize, Blocks, SizeOf, End, umds_sz, min_alloc_sz
<1>2. /\ g \in Nat /\ g >= 4 /\ g <= S
      /\ \/ g = S /\ R = {}
         \/ S - g >= 4 /\ R = {b + g}
  BY <1>1 DEF Granted, Remainder, min_alloc_sz
<1>3. /\ mid.free = [c \in (DOMAIN h.free \ {b}) \cup R |-> IF c \in R THEN S - g ELSE h.free[c]]
      /\ mid.used = [c \in DOMAIN h.used \cup {b} |-> IF c = b THEN g ELSE h.used[c]]
  BY DEF AllocAt
<1>4. /\ new.free = [c \in (DOMAIN mid.free \ {b + mid.used[b]}) \cup {MergedStart(mid, b)} |->
                      IF c = MergedStart(mid, b)
                      THEN MergedEnd(mid, b) - MergedStart(mid, b) ELSE mid.free[c]]
      /\ new.used = [c \in DOMAIN mid.used \ {b} |-> mid.used[c]]
  BY DEF FreeBlock
<1>5. \A c \in DOMAIN h.free : c \in Nat /\ h.free[c] \in Nat /\ c + h.free[c] # b
                               /\ c # b + S /\ (b < c => b + S <= c)
  <2> TAKE c \in DOMAIN h.free
  <2>1. c \in Blocks(h) /\ SizeOf(h, c) = h.free[c] /\ End(h, c) = c + h.free[c]
    BY DEF Blocks, SizeOf, End
  <2>2. c \in Nat /\ h.free[c] \in Nat
    BY WordsType DEF Well, Typed
  <2>3. c + h.free[c] # b /\ c # b + S
    BY <1>1, <2>1 DEF Well, Merged
  <2>4. b < c => b + S <= c
    BY <1>1, <2>1 DEF Well, Tiled
  <2> QED BY <2>2, <2>3, <2>4
<1>6. b \notin DOMAIN h.used
  BY <1>1 DEF Well, Tiled
<1>7. h.free = [c \in DOMAIN h.free |-> h.free[c]] /\ h.used = [c \in DOMAIN h.used |-> h.used[c]]
  BY DEF Well, Typed
<1> SUFFICES new.free = h.free /\ new.used = h.used
  OBVIOUS
<1> HIDE DEF mid, S, g, R, new
<1>8. mid.used[b] = g
  BY <1>3
<1>9. MergedStart(mid, b) = b
  <2>1. ASSUME NEW c \in DOMAIN mid.free PROVE c + mid.free[c] # b
    <3>1. CASE c \in R
      BY <3>1, <1>1, <1>2, <1>3
    <3>2. CASE c \notin R
      BY <3>2, <1>3, <1>5
    <3> QED BY <3>1, <3>2
  <2> QED BY <2>1 DEF MergedStart
<1>10. MergedEnd(mid, b) = b + S
  <2>1. CASE g = S /\ R = {}
    <3>1. b + g \notin DOMAIN mid.free
      BY <2>1, <1>3, <1>5
    <3> QED BY <2>1, <3>1, <1>8 DEF MergedEnd
  <2>2. CASE S - g >= 4 /\ R = {b + g}
    <3>1. b + g \in DOMAIN mid.free /\ mid.free[b + g] = S - g
      BY <2>2, <1>3
    <3>2. b + g + (S - g) = b + S
      BY <1>1, <1>2
    <3> QED BY <3>1, <3>2, <1>8 DEF MergedEnd
  <2> QED BY <2>1, <2>2, <1>2
<1>11. b + g \notin DOMAIN h.free
  <2>1. CASE g = S
    BY <2>1, <1>5
  <2>2. CASE S - g >= 4
    <3>1. b < b + g /\ ~(b + S <= b + g)
      BY <2>2, <1>1, <1>2
    <3> QED BY <3>1, <1>5
  <2> QED BY <2>1, <2>2, <1>2
<1>12. (DOMAIN mid.free \ {b + g}) \cup {b} = DOMAIN h.free
  BY <1>1, <1>2, <1>3, <1>11
<1>13. DOMAIN new.free = DOMAIN h.free
  BY <1>4, <1>8, <1>9, <1>12
<1>14. ASSUME NEW c \in DOMAIN h.free
       PROVE  new.free[c] = h.free[c]
  <2>1. c \in (DOMAIN mid.free \ {b + mid.used[b]}) \cup {MergedStart(mid, b)}
    BY <1>8, <1>9, <1>12
  <2>2. CASE c = b
    <3>1. new.free[c] = MergedEnd(mid, b) - MergedStart(mid, b)
      BY <2>1, <2>2, <1>4, <1>9
    <3>2. new.free[c] = (b + S) - b
      BY <3>1, <1>9, <1>10
    <3> QED BY <3>2, <2>2, <1>1 DEF S
  <2>3. CASE c # b
    <3>1. new.free[c] = mid.free[c]
      BY <2>1, <2>3, <1>4, <1>9
    <3>2. c \notin R
      BY <1>2, <1>11
    <3> QED BY <2>3, <3>1, <3>2, <1>3
  <2> QED BY <2>2, <2>3
<1>15. new.free = [c \in DOMAIN new.free |-> new.free[c]]
  BY <1>4
<1>16. new.free = [c \in DOMAIN h.free |-> h.free[c]]
  BY <1>13, <1>14, <1>15
<1>17. new.used = [c \in DOMAIN h.used |-> h.used[c]]
  BY <1>3, <1>4, <1>6
<1> QED BY <1>7, <1>16, <1>17

(* A call that returns null has left every block as it was: what gc_alloc  *)
(* and gc_add had allocated before they failed is given back and merged.   *)
(* gc_realloc is excepted, because it frees the old block regardless.      *)
THEOREM FailureIsClean == Spec => FailureLeavesHeap
<1> DEFINE Clean == (last'.ret = Null /\ last'.op # "gc_realloc") =>
                       heap'.free = heap.free /\ heap'.used = heap.used /\ UNCHANGED gc
<1>1. ASSUME IInv, Next, last'.ret = Null, last'.op # "gc_realloc"
      PROVE  heap'.free = heap.free /\ heap'.used = heap.used /\ UNCHANGED gc
  <2>1. Well(heap) /\ Sound(heap) /\ State
    BY <1>1, Restated DEF State, Sound
  <2>2. \A n \in Nat : \A c \in Fits(heap, n) : c \in Nat
    BY <2>1, WordsType DEF Fits, Well, Typed
  <2>3. DOMAIN heap.used \subseteq Nat
    BY <2>1, WordsType DEF Well, Typed
  <2>4. ASSUME NEW n \in Requests, alloc(n)
        PROVE  UNCHANGED <<heap, gc>>
    BY <2>4, <1>1, <2>2, RequestsAssumption DEF alloc, Returns, Addr, Null, umds_sz
  <2>5. ASSUME NEW n \in Requests, NEW b \in Owned, realloc(b, n)
        PROVE  UNCHANGED <<heap, gc>>
    BY <2>5, <1>1, <2>2, RequestsAssumption DEF realloc, Returns, Addr, Null, umds_sz
  <2>6. ASSUME NEW n \in Requests, gc_alloc(n)
        PROVE  heap'.free = heap.free /\ heap'.used = heap.used /\ UNCHANGED gc
    <3>1. n \in Nat
      BY RequestsAssumption
    <3>2. ASSUME NEW b \in Fits(heap, n), Register("gc_alloc", AllocAt(heap, b, n), b)
          PROVE  FALSE
      <4>1. b \in Nat
        BY <2>2, <3>1
      <4>2. last'.ret = Addr(b)
        BY <3>2 DEF Register, Returns
      <4> QED BY <1>1, <4>1, <4>2 DEF Addr, Null, umds_sz
    <3>3. ASSUME NEW b \in Fits(heap, n), heap' = FreeBlock(AllocAt(heap, b, n), b),
                 UNCHANGED gc
          PROVE  heap'.free = heap.free /\ heap'.used = heap.used /\ UNCHANGED gc
      BY <3>1, <3>3, <2>1, GiveBack
    <3>4. CASE UNCHANGED <<heap, gc>>
      BY <3>4
    <3> QED BY <2>6, <3>2, <3>3, <3>4 DEF gc_alloc
  <2>7. ASSUME NEW b \in Owned, free(b)
        PROVE  FALSE
    <3>1. b \in Nat /\ last'.ret = Addr(b)
      BY <2>3, <2>7 DEF free, Returns, Owned
    <3> QED BY <1>1, <3>1 DEF Addr, Null, umds_sz
  <2>8. ASSUME NEW b \in Owned \cup gc_set, gc_add(b)
        PROVE  heap'.free = heap.free /\ heap'.used = heap.used /\ UNCHANGED gc
    <3>1. ASSUME Register("gc_add", heap, b)
          PROVE  FALSE
      <4>1. b \in Nat
        BY <2>1, <2>3 DEF Owned, State, Books
      <4>2. last'.ret = Addr(b)
        BY <3>1 DEF Register, Returns
      <4> QED BY <1>1, <4>1, <4>2 DEF Addr, Null, umds_sz
    <3>2. ASSUME NEW c \in Fits(heap, NodeWords),
                 heap' = FreeBlock(AllocAt(heap, c, NodeWords), c), UNCHANGED gc
          PROVE  heap'.free = heap.free /\ heap'.used = heap.used /\ UNCHANGED gc
      BY <3>2, <2>1, NodeWordsType, GiveBack
    <3>3. CASE UNCHANGED <<heap, gc>>
      BY <3>3
    <3> QED BY <2>8, <3>1, <3>2, <3>3 DEF gc_add
  <2>9. ASSUME NEW b \in gc_set, gc_free(b)
        PROVE  FALSE
    <3>1. b \in Nat /\ last'.ret = Addr(b)
      BY <2>1, <2>3, <2>9 DEF gc_free, Returns, State, Books
    <3> QED BY <1>1, <3>1 DEF Addr, Null, umds_sz
  <2>10. ASSUME NEW b \in gc_set, NEW n \in Requests, gc_realloc(b, n)
         PROVE  FALSE
    BY <2>10, <1>1 DEF gc_realloc, Register, Returns
  <2>11. (UNCHANGED <<heap, gc>>) => heap'.free = heap.free /\ heap'.used = heap.used /\ UNCHANGED gc
    OBVIOUS
  <2> QED BY <1>1, <2>4, <2>5, <2>6, <2>7, <2>8, <2>9, <2>10, <2>11 DEF Next
<1>2. IInv /\ [Next]_vars => [Clean]_vars
  BY <1>1
<1> QED BY <1>2, InvariantHolds, PTL DEF Spec, FailureLeavesHeap
=============================================================================
