--------------------------- MODULE Collector_proofs ---------------------------
(***************************************************************************)
(* Reference counts and the garbage collector, for any number of objects:  *)
(* every count is the number of references, marks and temporary counts are *)
(* gone when the collector is done, what the interpreter can reach is      *)
(* never freed, and nothing else is left after a collection.               *)
(***************************************************************************)
EXTENDS Collector, SequenceTheorems, FiniteSetTheorems, FunctionTheorems, TLAPS

(* How often something occurs in a sequence: a number, *)
Where(x, s) == {i \in DOMAIN s : s[i] = x}

LEMMA PlacesAre ==
  ASSUME NEW S, NEW s \in Seq(S), NEW x
  PROVE  /\ IsFiniteSet(Where(x, s)) /\ Where(x, s) \subseteq 1 .. Len(s)
         /\ \A i \in 1 .. Len(s) : i \in Where(x, s) <=> s[i] = x
         /\ Places(x, s) = Cardinality(Where(x, s)) /\ Places(x, s) \in Nat
         /\ Places(x, s) = 0 <=> \A i \in 1 .. Len(s) : s[i] # x
<1>1. Len(s) \in Nat /\ DOMAIN s = 1 .. Len(s)
  OBVIOUS
<1>2. IsFiniteSet(1 .. Len(s))
  BY <1>1, FS_Interval
<1>3. Where(x, s) \in SUBSET (1 .. Len(s))
  BY <1>1 DEF Where
<1>4. IsFiniteSet(Where(x, s))
  BY <1>2, <1>3, FS_Subset
<1>5. Cardinality(Where(x, s)) \in Nat /\ (Cardinality(Where(x, s)) = 0 <=> Where(x, s) = {})
  BY <1>4, FS_CardinalityType, FS_EmptySet
<1> QED BY <1>1, <1>3, <1>4, <1>5 DEF Where, Places

(* none in an empty one, *)
LEMMA PlacesEmpty == \A x : Places(x, <<>>) = 0
<1> TAKE x
<1>1. Where(x, <<>>) = {}
  BY DEF Where
<1> QED BY <1>1, FS_EmptySet DEF Places, Where

(* and in two that are joined as often as in both. *)
LEMMA PlacesJoined ==
  ASSUME NEW S, NEW s \in Seq(S), NEW t \in Seq(S), NEW x
  PROVE  Places(x, s \o t) = Places(x, s) + Places(x, t)
<1> DEFINE n == Len(s)
           T == Where(x, t)
           B == {i \in n + 1 .. n + Len(t) : t[i - n] = x}
           f == [i \in T |-> n + i]
<1>1. n \in Nat /\ Len(t) \in Nat
  OBVIOUS
<1>2. /\ s \o t \in Seq(S) /\ Len(s \o t) = n + Len(t)
      /\ \A i \in 1 .. n + Len(t) : (s \o t)[i] = IF i <= n THEN s[i] ELSE t[i - n]
  BY ConcatProperties
<1>3. IsFiniteSet(T) /\ T \subseteq 1 .. Len(t) /\ \A i \in 1 .. Len(t) : i \in T <=> t[i] = x
  BY PlacesAre
<1> HIDE DEF T
<1>4. f \in Bijection(T, B)
  <2>1. \A i \in T : n + i \in B
    <3> TAKE i \in T
    <3>1. i \in 1 .. Len(t) /\ t[i] = x
      BY <1>3
    <3>2. n + i \in n + 1 .. n + Len(t) /\ (n + i) - n = i
      BY <1>1, <3>1
    <3> QED BY <3>1, <3>2
  <2>2. \A i, j \in T : n + i = n + j => i = j
    BY <1>1, <1>3
  <2>3. \A b \in B : \E i \in T : n + i = b
    <3> TAKE b \in B
    <3>1. b - n \in 1 .. Len(t) /\ n + (b - n) = b /\ t[b - n] = x
      BY <1>1
    <3> QED BY <3>1, <1>3
  <2> HIDE DEF B
  <2>4. f \in [T -> B] /\ \A i \in T : f[i] = n + i
    BY <2>1
  <2> HIDE DEF f
  <2>5. \A i, j \in T : f[i] = f[j] => i = j
    BY <2>2, <2>4
  <2>6. \A b \in B : \E i \in T : f[i] = b
    BY <2>3, <2>4
  <2> QED BY <2>4, <2>5, <2>6, Fun_IsBij
<1>5. IsFiniteSet(B) /\ Cardinality(B) = Cardinality(T)
  <2>1. ExistsBijection(T, B)
    BY <1>4 DEF ExistsBijection
  <2> QED BY <2>1, <1>3, FS_Bijection
<1>6. IsFiniteSet(Where(x, s)) /\ Where(x, s) \subseteq 1 .. n
      /\ \A i \in 1 .. n : i \in Where(x, s) <=> s[i] = x
  BY PlacesAre
<1>7. Where(x, s \o t) = Where(x, s) \cup B
  <2>1. \A i : i \in Where(x, s \o t) <=> i \in 1 .. n + Len(t) /\ (s \o t)[i] = x
    BY <1>2 DEF Where
  <2>2. \A i \in 1 .. n + Len(t) : i \in 1 .. n \/ i \in n + 1 .. n + Len(t)
    BY <1>1
  <2>3. \A i \in 1 .. n : i \in 1 .. n + Len(t) /\ i <= n
    BY <1>1
  <2>4. \A i \in n + 1 .. n + Len(t) : i \in 1 .. n + Len(t) /\ ~(i <= n)
    BY <1>1
  <2> QED BY <1>2, <1>6, <2>1, <2>2, <2>3, <2>4
<1>8. Where(x, s) \cap B = {}
  BY <1>1, <1>6
<1>9. Cardinality(Where(x, s \o t)) = Cardinality(Where(x, s)) + Cardinality(B)
  <2>1. Cardinality(Where(x, s) \cap B) = 0
    BY <1>8, FS_EmptySet
  <2>2. Cardinality(Where(x, s)) \in Nat /\ Cardinality(B) \in Nat
    BY <1>5, <1>6, FS_CardinalityType
  <2> DEFINE W == Where(x, s)
  <2>3. IsFiniteSet(W) /\ IsFiniteSet(B)
    BY <1>5, <1>6
  <2> HIDE DEF W, B
  <2>4. Cardinality(W \cup B) = Cardinality(W) + Cardinality(B) - Cardinality(W \cap B)
    BY <2>3, FS_Union
  <2> QED BY <1>7, <2>1, <2>2, <2>4 DEF W
<1> QED BY <1>5, <1>9 DEF Places, Where, T

(* One more, at the end or in front. *)
One(x, y) == IF x = y THEN 1 ELSE 0

LEMMA PlacesOne == \A x, y : Places(x, <<y>>) = One(x, y)
<1> TAKE x, y
<1>1. Where(x, <<y>>) = IF x = y THEN {1} ELSE {}
  BY DEF Where
<1> QED BY <1>1, FS_EmptySet, FS_Singleton DEF Places, Where, One

LEMMA PlacesOfHead ==
  ASSUME NEW S, NEW s \in Seq(S), s # <<>>, NEW x
  PROVE  Places(x, s) = One(x, Head(s)) + Places(x, Tail(s))
<1>1. /\ Head(s) \in S /\ Tail(s) \in Seq(S) /\ Len(Tail(s)) = Len(s) - 1
      /\ \A i \in 1 .. Len(Tail(s)) : Tail(s)[i] = s[i + 1]
  BY HeadTailProperties
<1> DEFINE h == <<Head(s)>>
           t == Tail(s)
<1>2. h \in Seq(S) /\ Len(h) = 1 /\ h[1] = s[1]
  BY <1>1
<1>3. Len(s) \in Nat /\ Len(s) >= 1
  BY EmptySeq, LenProperties
<1> HIDE DEF h, t
<1>4. /\ h \o t \in Seq(S) /\ Len(h \o t) = 1 + Len(t)
      /\ \A i \in 1 .. 1 + Len(t) : (h \o t)[i] = IF i <= 1 THEN h[i] ELSE t[i - 1]
  <2>1. t \in Seq(S)
    BY <1>1 DEF t
  <2>2. /\ h \o t \in Seq(S) /\ Len(h \o t) = Len(h) + Len(t)
        /\ \A i \in 1 .. Len(h) + Len(t) : (h \o t)[i] = IF i <= Len(h) THEN h[i] ELSE t[i - Len(h)]
    BY ONLY <1>2, <2>1, ConcatProperties
  <2> QED BY <1>2, <2>2
<1>5. Len(h \o t) = Len(s) /\ \A i \in 1 .. Len(s) : (h \o t)[i] = s[i]
  <2>1. 1 + Len(t) = Len(s)
    BY <1>1, <1>3 DEF t
  <2>2. ASSUME NEW i \in 1 .. Len(s)
        PROVE  (h \o t)[i] = s[i]
    <3>1. CASE i = 1
      BY <3>1, <2>1, <1>2, <1>3, <1>4
    <3>2. CASE i # 1
      <4>1. i - 1 \in 1 .. Len(t) /\ (i - 1) + 1 = i /\ ~(i <= 1)
        BY <3>2, <2>1, <1>3
      <4> QED BY <4>1, <2>1, <1>1, <1>4 DEF t
    <3> QED BY <3>1, <3>2
  <2> QED BY <2>1, <2>2, <1>4
<1>6. s = h \o t
  BY <1>4, <1>5, SeqEqual
<1>7. Places(x, h \o t) = Places(x, h) + Places(x, t)
  BY <1>1, <1>2, PlacesJoined DEF t
<1> QED BY <1>6, <1>7, PlacesOne DEF h, t
-----------------------------------------------------------------------------
(* References.  K has those of each object.                                *)
RefsIn(K, x) == {K[x][i] : i \in 1 .. Size} \ {None}
ClosedIn(K, T) == \A y \in T : RefsIn(K, y) \subseteq T

(* The places of x in the objects of D, and their number.                  *)
In(K, D, x) == {p \in D \X (1 .. Size) : K[p[1]][p[2]] = x}
Refers(K, D, x) == Cardinality(In(K, D, x))

LEMMA InIs ==
  ASSUME NEW K, NEW D, NEW x
  PROVE  /\ \A y \in D, i \in 1 .. Size : K[y][i] = x => <<y, i>> \in In(K, D, x)
         /\ \A p \in In(K, D, x) : /\ p[1] \in D /\ p[2] \in 1 .. Size
                                  /\ K[p[1]][p[2]] = x /\ p = <<p[1], p[2]>>
BY DEF In

LEMMA RefersAre ==
  ASSUME NEW K, NEW D, IsFiniteSet(D), NEW x
  PROVE  /\ IsFiniteSet(In(K, D, x)) /\ Refers(K, D, x) \in Nat
         /\ Refers(K, D, x) = 0 <=> \A y \in D, i \in 1 .. Size : K[y][i] # x
<1>1. IsFiniteSet(1 .. Size)
  BY ReferencesAssumption, FS_Interval
<1>2. IsFiniteSet(D \X (1 .. Size))
  BY <1>1, FS_Product
<1>3. In(K, D, x) \in SUBSET (D \X (1 .. Size))
  BY DEF In
<1>4. IsFiniteSet(In(K, D, x))
  BY <1>2, <1>3, FS_Subset
<1>5. Refers(K, D, x) \in Nat /\ (Refers(K, D, x) = 0 <=> In(K, D, x) = {})
  BY <1>4, FS_CardinalityType, FS_EmptySet DEF Refers
<1>6. In(K, D, x) = {} <=> \A y \in D, i \in 1 .. Size : K[y][i] # x
  <2>1. ASSUME In(K, D, x) = {}, NEW y \in D, NEW i \in 1 .. Size, K[y][i] = x
        PROVE  FALSE
    <3>1. <<y, i>> \in In(K, D, x)
      BY <2>1, InIs
    <3> QED BY <2>1, <3>1
  <2>2. ASSUME \A y \in D, i \in 1 .. Size : K[y][i] # x PROVE In(K, D, x) = {}
    BY <2>2, InIs
  <2> QED BY <2>1, <2>2
<1> QED BY <1>4, <1>5, <1>6

(* They depend on the references of D.                                     *)
LEMMA RefersSame ==
  ASSUME NEW K, NEW N, NEW D, \A y \in D : N[y] = K[y], NEW x
  PROVE  Refers(N, D, x) = Refers(K, D, x)
<1>1. In(N, D, x) = In(K, D, x)
  BY DEF In
<1> QED BY <1>1 DEF Refers

(* One object more,                                                        *)
LEMMA RefersMore ==
  ASSUME NEW K, NEW D, IsFiniteSet(D), NEW a, a \notin D, NEW S,
         K[a] \in [1 .. Size -> S], NEW x
  PROVE  Refers(K, D \cup {a}, x) = Refers(K, D, x) + Places(x, K[a])
<1> DEFINE W == Where(x, K[a])
           H == {a} \X W
           f == [i \in W |-> <<a, i>>]
           E == In(K, D, x)
<1>1. K[a] \in Seq(S) /\ DOMAIN K[a] = 1 .. Size
  BY ReferencesAssumption
<1>2. IsFiniteSet(W) /\ Places(x, K[a]) = Cardinality(W) /\ Cardinality(W) \in Nat
  BY <1>1, PlacesAre
<1>3. f \in Bijection(W, H)
  <2>1. f \in [W -> H]
    OBVIOUS
  <2>2. \A i, j \in W : f[i] = f[j] => i = j
    OBVIOUS
  <2>3. \A h \in H : \E i \in W : f[i] = h
    OBVIOUS
  <2> HIDE DEF f, W, H
  <2> QED BY <2>1, <2>2, <2>3, Fun_IsBij
<1> HIDE DEF f
<1>4. IsFiniteSet(H) /\ Cardinality(H) = Cardinality(W)
  <2>1. ExistsBijection(W, H)
    BY <1>3 DEF ExistsBijection
  <2> QED BY <2>1, <1>2, FS_Bijection
<1>5. IsFiniteSet(E) /\ Cardinality(E) \in Nat
  BY RefersAre DEF Refers
<1>6. In(K, D \cup {a}, x) = E \cup H
  BY <1>1 DEF In, Where
<1>7. E \cap H = {}
  BY DEF In
<1>8. Cardinality(E \cap H) = 0
  BY <1>7, FS_EmptySet
<1>9. Refers(K, D, x) = Cardinality(E) /\ Refers(K, D \cup {a}, x) = Cardinality(E \cup H)
  BY <1>6 DEF Refers
<1> HIDE DEF E, H, W
<1>10. Cardinality(E \cup H) = Cardinality(E) + Cardinality(H) - Cardinality(E \cap H)
  BY <1>4, <1>5, FS_Union
<1> QED BY <1>2, <1>4, <1>5, <1>8, <1>9, <1>10

(* and more of them.                                                       *)
LEMMA RefersWithin ==
  ASSUME NEW K, NEW E, IsFiniteSet(E), NEW D \in SUBSET E, NEW x
  PROVE  /\ Refers(K, D, x) \in Nat /\ Refers(K, E, x) \in Nat
         /\ Refers(K, D, x) <= Refers(K, E, x)
         /\ Refers(K, D, x) = Refers(K, E, x) =>
              \A y \in E \ D, i \in 1 .. Size : K[y][i] # x
         /\ (\A y \in E \ D, i \in 1 .. Size : K[y][i] # x) =>
              Refers(K, D, x) = Refers(K, E, x)
<1>1. IsFiniteSet(D)
  BY FS_Subset
<1>2. /\ IsFiniteSet(In(K, E, x)) /\ Refers(K, E, x) \in Nat
      /\ IsFiniteSet(In(K, D, x)) /\ Refers(K, D, x) \in Nat
  BY <1>1, RefersAre
<1>3. In(K, D, x) \in SUBSET In(K, E, x)
  BY DEF In
<1>4. /\ Refers(K, D, x) <= Refers(K, E, x)
      /\ Refers(K, D, x) = Refers(K, E, x) => In(K, D, x) = In(K, E, x)
  BY <1>2, <1>3, FS_Subset DEF Refers
<1>5. In(K, D, x) = In(K, E, x) <=> \A y \in E \ D, i \in 1 .. Size : K[y][i] # x
  <2>1. ASSUME In(K, D, x) = In(K, E, x), NEW y \in E \ D, NEW i \in 1 .. Size, K[y][i] = x
        PROVE  FALSE
    <3>1. <<y, i>> \in In(K, D, x)
      BY <2>1, InIs
    <3> QED BY <3>1, InIs
  <2>2. ASSUME \A y \in E \ D, i \in 1 .. Size : K[y][i] # x, NEW p \in In(K, E, x)
        PROVE  p \in In(K, D, x)
    <3>1. p[1] \in E /\ p[2] \in 1 .. Size /\ K[p[1]][p[2]] = x /\ p = <<p[1], p[2]>>
      BY InIs
    <3>2. p[1] \in D
      BY <2>2, <3>1
    <3> QED BY <3>1, <3>2, InIs
  <2> QED BY <1>3, <2>1, <2>2
<1>6. In(K, D, x) = In(K, E, x) => Refers(K, D, x) = Refers(K, E, x)
  BY DEF Refers
<1> QED BY <1>2, <1>4, <1>5, <1>6

(* An object whose references change.                                      *)
Rewritten(N, K, D, a, S) ==
  /\ IsFiniteSet(D) /\ a \in D /\ K[a] \in [1 .. Size -> S] /\ N[a] \in [1 .. Size -> S]
  /\ \A y \in D \ {a} : N[y] = K[y]

LEMMA RefersChange ==
  ASSUME NEW K, NEW N, NEW D, NEW a, NEW S, Rewritten(N, K, D, a, S), NEW x
  PROVE  /\ Refers(K, D, x) \in Nat /\ Refers(N, D, x) \in Nat
         /\ Places(x, K[a]) \in Nat /\ Places(x, N[a]) \in Nat
         /\ Refers(N, D, x) + Places(x, K[a]) = Refers(K, D, x) + Places(x, N[a])
<1>0. /\ IsFiniteSet(D) /\ a \in D /\ K[a] \in [1 .. Size -> S] /\ N[a] \in [1 .. Size -> S]
      /\ \A y \in D \ {a} : N[y] = K[y]
  BY DEF Rewritten
<1>7. K[a] \in [1 .. Size -> S]
  BY <1>0
<1>8. N[a] \in [1 .. Size -> S]
  BY <1>0
<1> DEFINE E == D \ {a}
<1>1. IsFiniteSet(E) /\ a \notin E /\ D = E \cup {a}
  BY <1>0, FS_Subset
<1> HIDE DEF E
<1>2. Refers(K, D, x) = Refers(K, E, x) + Places(x, K[a])
  <2>1. Refers(K, E \cup {a}, x) = Refers(K, E, x) + Places(x, K[a])
    BY ONLY <1>1, <1>7, RefersMore
  <2> QED BY <1>1, <2>1
<1>3. Refers(N, D, x) = Refers(N, E, x) + Places(x, N[a])
  <2>1. Refers(N, E \cup {a}, x) = Refers(N, E, x) + Places(x, N[a])
    BY ONLY <1>1, <1>8, RefersMore
  <2> QED BY <1>1, <2>1
<1>4. Refers(N, E, x) = Refers(K, E, x)
  BY <1>0, RefersSame DEF E
<1>5. Refers(K, D, x) \in Nat /\ Refers(N, D, x) \in Nat /\ Refers(K, E, x) \in Nat
  BY <1>0, <1>1, RefersAre
<1>6. Places(x, K[a]) \in Nat /\ Places(x, N[a]) \in Nat
  <2>1. K[a] \in Seq(S) /\ N[a] \in Seq(S)
    BY <1>0, ReferencesAssumption
  <2> QED BY <2>1, PlacesAre
<1> QED BY <1>2, <1>3, <1>4, <1>5, <1>6

(* The places in an object of which one slot changes.                      *)
SlotPut(n, k, S, i, v) ==
  k \in [1 .. Size -> S] /\ i \in 1 .. Size /\ v \in S /\ n = [k EXCEPT ![i] = v]

LEMMA PlacesChange ==
  ASSUME NEW S, NEW k, NEW i, NEW v, NEW n, SlotPut(n, k, S, i, v), NEW x
  PROVE  /\ Places(x, n) \in Nat /\ Places(x, k) \in Nat
         /\ Places(x, n) + One(x, k[i]) = Places(x, k) + One(x, v)
<1> DEFINE E == Where(x, k) \ {i}
<1>1. /\ k \in [1 .. Size -> S] /\ i \in 1 .. Size /\ v \in S
      /\ n \in [1 .. Size -> S] /\ n[i] = v /\ \A j \in 1 .. Size : j # i => n[j] = k[j]
  BY DEF SlotPut
<1>2. k \in Seq(S) /\ n \in Seq(S)
  BY <1>1, ReferencesAssumption
<1>3. /\ IsFiniteSet(Where(x, k)) /\ Places(x, k) = Cardinality(Where(x, k))
      /\ Places(x, n) = Cardinality(Where(x, n))
      /\ Places(x, n) \in Nat /\ Places(x, k) \in Nat
  BY <1>2, PlacesAre
<1>4. Where(x, k) = IF x = k[i] THEN E \cup {i} ELSE E
  BY <1>1 DEF Where
<1>5. Where(x, n) = IF x = v THEN E \cup {i} ELSE E
  BY <1>1 DEF Where
<1>6. IsFiniteSet(E) /\ i \notin E
  BY <1>3, FS_Subset
<1> HIDE DEF E
<1>7. Cardinality(E \cup {i}) = Cardinality(E) + 1 /\ Cardinality(E) \in Nat
  BY <1>6, FS_AddElement, FS_CardinalityType
<1> QED BY <1>3, <1>4, <1>5, <1>7 DEF One
-----------------------------------------------------------------------------
(* The memory, taken apart: references, counts, temporary counts and marks.*)
ObjectWith(L) == [fun : BOOLEAN, kid : [1 .. Size -> L \cup {None}], rc : Int,
                  visited : BOOLEAN, tmp : Int]
Objects(O) == O \in [DOMAIN O -> ObjectWith(DOMAIN O)]

KidsOf(O) == [x \in DOMAIN O |-> O[x].kid]
RcOf(O) == [x \in DOMAIN O |-> O[x].rc]
TmpOf(O) == [x \in DOMAIN O |-> O[x].tmp]
MarksOf(O) == {x \in DOMAIN O : O[x].visited}
FunsOf(O) == {x \in DOMAIN O : O[x].fun}

(* One object that changes, in all its fields.                             *)
Put(O, N, a, r) ==
  /\ DOMAIN N = DOMAIN O /\ Objects(N)
  /\ KidsOf(N) = [KidsOf(O) EXCEPT ![a] = r.kid]
  /\ RcOf(N) = [RcOf(O) EXCEPT ![a] = r.rc]
  /\ TmpOf(N) = [TmpOf(O) EXCEPT ![a] = r.tmp]
  /\ MarksOf(N) = IF r.visited THEN MarksOf(O) \cup {a} ELSE MarksOf(O) \ {a}
  /\ FunsOf(N) = IF r.fun THEN FunsOf(O) \cup {a} ELSE FunsOf(O) \ {a}

LEMMA PutIs ==
  ASSUME NEW O, Objects(O), NEW a \in DOMAIN O, NEW r \in ObjectWith(DOMAIN O),
         NEW N, N = [O EXCEPT ![a] = r]
  PROVE  Put(O, N, a, r)
<1>1. DOMAIN N = DOMAIN O /\ N[a] = r /\ \A x \in DOMAIN O : x # a => N[x] = O[x]
  BY DEF Objects
<1>2. O \in [DOMAIN O -> ObjectWith(DOMAIN O)]
  BY DEF Objects
<1>3. N \in [DOMAIN O -> ObjectWith(DOMAIN O)]
  BY <1>2
<1>4. Objects(N)
  BY <1>1, <1>3 DEF Objects
<1>5. KidsOf(N) = [KidsOf(O) EXCEPT ![a] = r.kid]
  BY <1>1 DEF KidsOf
<1>6. RcOf(N) = [RcOf(O) EXCEPT ![a] = r.rc]
  BY <1>1 DEF RcOf
<1>7. TmpOf(N) = [TmpOf(O) EXCEPT ![a] = r.tmp]
  BY <1>1 DEF TmpOf
<1>8. MarksOf(N) = IF r.visited THEN MarksOf(O) \cup {a} ELSE MarksOf(O) \ {a}
  BY <1>1 DEF MarksOf
<1>9. FunsOf(N) = IF r.fun THEN FunsOf(O) \cup {a} ELSE FunsOf(O) \ {a}
  BY <1>1 DEF FunsOf
<1> QED BY <1>1, <1>4, <1>5, <1>6, <1>7, <1>8, <1>9 DEF Put

LEMMA FieldsAre ==
  ASSUME NEW O, Objects(O)
  PROVE  /\ KidsOf(O) \in [DOMAIN O -> [1 .. Size -> DOMAIN O \cup {None}]]
         /\ RcOf(O) \in [DOMAIN O -> Int] /\ TmpOf(O) \in [DOMAIN O -> Int]
         /\ MarksOf(O) \subseteq DOMAIN O /\ FunsOf(O) \subseteq DOMAIN O
         /\ \A x \in DOMAIN O :
              /\ O[x] \in ObjectWith(DOMAIN O)
              /\ O[x].kid = KidsOf(O)[x] /\ O[x].rc = RcOf(O)[x] /\ O[x].tmp = TmpOf(O)[x]
              /\ O[x].visited <=> x \in MarksOf(O)
              /\ O[x].fun <=> x \in FunsOf(O)
<1>1. \A x \in DOMAIN O : O[x] \in ObjectWith(DOMAIN O)
  BY DEF Objects
<1> QED BY <1>1 DEF ObjectWith, KidsOf, RcOf, TmpOf, MarksOf, FunsOf

(* The same references, the same functions.                                *)
SameKids(N, O) ==
  /\ DOMAIN N = DOMAIN O /\ Objects(N) /\ KidsOf(N) = KidsOf(O) /\ FunsOf(N) = FunsOf(O)

(* A count that changes,                                                   *)
CountPut(N, O, a, n) == N = [O EXCEPT ![a].rc = @ + n]

LEMMA CountIs ==
  ASSUME NEW O, Objects(O), NEW a \in DOMAIN O, NEW n \in Int, NEW N, CountPut(N, O, a, n)
  PROVE  /\ SameKids(N, O) /\ TmpOf(N) = TmpOf(O) /\ MarksOf(N) = MarksOf(O)
         /\ RcOf(N) = [RcOf(O) EXCEPT ![a] = RcOf(O)[a] + n]
<1> DEFINE m == O[a].rc + n
           r == [O[a] EXCEPT !.rc = m]
<1>1. O[a] \in ObjectWith(DOMAIN O) /\ O[a].rc = RcOf(O)[a] /\ m \in Int
  BY FieldsAre DEF ObjectWith
<1>2. N = [O EXCEPT ![a] = r]
  BY DEF CountPut
<1> HIDE DEF m
<1>3. /\ r \in ObjectWith(DOMAIN O) /\ r.rc = m
      /\ r.kid = O[a].kid /\ r.tmp = O[a].tmp /\ r.visited = O[a].visited /\ r.fun = O[a].fun
  BY <1>1 DEF ObjectWith
<1> HIDE DEF r
<1>4. /\ DOMAIN N = DOMAIN O /\ Objects(N)
      /\ KidsOf(N) = [KidsOf(O) EXCEPT ![a] = r.kid]
      /\ RcOf(N) = [RcOf(O) EXCEPT ![a] = r.rc]
      /\ TmpOf(N) = [TmpOf(O) EXCEPT ![a] = r.tmp]
      /\ MarksOf(N) = IF r.visited THEN MarksOf(O) \cup {a} ELSE MarksOf(O) \ {a}
      /\ FunsOf(N) = IF r.fun THEN FunsOf(O) \cup {a} ELSE FunsOf(O) \ {a}
  <2>1. Objects(O) /\ a \in DOMAIN O /\ r \in ObjectWith(DOMAIN O) /\ N = [O EXCEPT ![a] = r]
    BY <1>2, <1>3
  <2>2. Put(O, N, a, r)
    BY ONLY <2>1, PutIs
  <2> QED BY ONLY <2>2 DEF Put
<1>5. KidsOf(N) = KidsOf(O)
  BY <1>3, <1>4 DEF KidsOf
<1>6. TmpOf(N) = TmpOf(O)
  BY <1>3, <1>4 DEF TmpOf
<1>7. MarksOf(N) = MarksOf(O) /\ FunsOf(N) = FunsOf(O)
  BY <1>3, <1>4 DEF MarksOf, FunsOf
<1> QED BY <1>1, <1>3, <1>4, <1>5, <1>6, <1>7 DEF SameKids, m

(* a temporary count,                                                      *)
TmpPut(N, O, a, n) == N = [O EXCEPT ![a].tmp = @ + n]

LEMMA TmpIs ==
  ASSUME NEW O, Objects(O), NEW a \in DOMAIN O, NEW n \in Int, NEW N, TmpPut(N, O, a, n)
  PROVE  /\ SameKids(N, O) /\ RcOf(N) = RcOf(O) /\ MarksOf(N) = MarksOf(O)
         /\ TmpOf(N) = [TmpOf(O) EXCEPT ![a] = TmpOf(O)[a] + n]
<1> DEFINE m == O[a].tmp + n
           r == [O[a] EXCEPT !.tmp = m]
<1>1. O[a] \in ObjectWith(DOMAIN O) /\ O[a].tmp = TmpOf(O)[a] /\ m \in Int
  BY FieldsAre DEF ObjectWith
<1>2. N = [O EXCEPT ![a] = r]
  BY DEF TmpPut
<1> HIDE DEF m
<1>3. /\ r \in ObjectWith(DOMAIN O) /\ r.tmp = m
      /\ r.kid = O[a].kid /\ r.rc = O[a].rc /\ r.visited = O[a].visited /\ r.fun = O[a].fun
  BY <1>1 DEF ObjectWith
<1> HIDE DEF r
<1>4. /\ DOMAIN N = DOMAIN O /\ Objects(N)
      /\ KidsOf(N) = [KidsOf(O) EXCEPT ![a] = r.kid]
      /\ RcOf(N) = [RcOf(O) EXCEPT ![a] = r.rc]
      /\ TmpOf(N) = [TmpOf(O) EXCEPT ![a] = r.tmp]
      /\ MarksOf(N) = IF r.visited THEN MarksOf(O) \cup {a} ELSE MarksOf(O) \ {a}
      /\ FunsOf(N) = IF r.fun THEN FunsOf(O) \cup {a} ELSE FunsOf(O) \ {a}
  <2>1. Objects(O) /\ a \in DOMAIN O /\ r \in ObjectWith(DOMAIN O) /\ N = [O EXCEPT ![a] = r]
    BY <1>2, <1>3
  <2>2. Put(O, N, a, r)
    BY ONLY <2>1, PutIs
  <2> QED BY ONLY <2>2 DEF Put
<1>5. KidsOf(N) = KidsOf(O)
  BY <1>3, <1>4 DEF KidsOf
<1>6. RcOf(N) = RcOf(O)
  BY <1>3, <1>4 DEF RcOf
<1>7. MarksOf(N) = MarksOf(O) /\ FunsOf(N) = FunsOf(O)
  BY <1>3, <1>4 DEF MarksOf, FunsOf
<1> QED BY <1>1, <1>3, <1>4, <1>5, <1>6, <1>7 DEF SameKids, m

(* a mark,                                                                 *)
MarkPut(N, O, a, c, n) == N = [O EXCEPT ![a].visited = c, ![a].tmp = n]

LEMMA MarkIs ==
  ASSUME NEW O, Objects(O), NEW a \in DOMAIN O, NEW c \in BOOLEAN, NEW n \in Int,
         NEW N, MarkPut(N, O, a, c, n)
  PROVE  /\ SameKids(N, O) /\ RcOf(N) = RcOf(O)
         /\ TmpOf(N) = [TmpOf(O) EXCEPT ![a] = n]
         /\ MarksOf(N) = IF c THEN MarksOf(O) \cup {a} ELSE MarksOf(O) \ {a}
<1> DEFINE r == [O[a] EXCEPT !.visited = c, !.tmp = n]
<1>1. O[a] \in ObjectWith(DOMAIN O)
  BY FieldsAre
<1>2. N = [O EXCEPT ![a] = r]
  BY DEF MarkPut
<1>3. /\ r \in ObjectWith(DOMAIN O) /\ r.tmp = n /\ r.visited = c
      /\ r.kid = O[a].kid /\ r.rc = O[a].rc /\ r.fun = O[a].fun
  BY <1>1 DEF ObjectWith
<1> HIDE DEF r
<1>4. Put(O, N, a, r)
  <2>1. Objects(O) /\ a \in DOMAIN O /\ r \in ObjectWith(DOMAIN O) /\ N = [O EXCEPT ![a] = r]
    BY <1>2, <1>3
  <2> QED BY ONLY <2>1, PutIs
<1>5. KidsOf(N) = KidsOf(O)
  BY <1>3, <1>4 DEF KidsOf, Put
<1>6. RcOf(N) = RcOf(O)
  BY <1>3, <1>4 DEF RcOf, Put
<1>7. FunsOf(N) = FunsOf(O)
  BY <1>3, <1>4 DEF FunsOf, Put
<1> QED BY <1>3, <1>4, <1>5, <1>6, <1>7 DEF SameKids, Put

(* references,                                                             *)
KidPut(N, O, a, k) == N = [O EXCEPT ![a].kid = k]

LEMMA KidIs ==
  ASSUME NEW O, Objects(O), NEW a \in DOMAIN O,
         NEW k \in [1 .. Size -> DOMAIN O \cup {None}], NEW N, KidPut(N, O, a, k)
  PROVE  /\ DOMAIN N = DOMAIN O /\ Objects(N)
         /\ KidsOf(N) = [KidsOf(O) EXCEPT ![a] = k] /\ RcOf(N) = RcOf(O)
         /\ TmpOf(N) = TmpOf(O) /\ MarksOf(N) = MarksOf(O) /\ FunsOf(N) = FunsOf(O)
<1> DEFINE r == [O[a] EXCEPT !.kid = k]
<1>1. O[a] \in ObjectWith(DOMAIN O)
  BY FieldsAre
<1>2. N = [O EXCEPT ![a] = r]
  BY DEF KidPut
<1>3. /\ r \in ObjectWith(DOMAIN O) /\ r.kid = k /\ r.tmp = O[a].tmp
      /\ r.visited = O[a].visited /\ r.rc = O[a].rc /\ r.fun = O[a].fun
  BY <1>1 DEF ObjectWith
<1> HIDE DEF r
<1>4. Put(O, N, a, r)
  <2>1. Objects(O) /\ a \in DOMAIN O /\ r \in ObjectWith(DOMAIN O) /\ N = [O EXCEPT ![a] = r]
    BY <1>2, <1>3
  <2> QED BY ONLY <2>1, PutIs
<1>5. RcOf(N) = RcOf(O)
  BY <1>3, <1>4 DEF RcOf, Put
<1>6. TmpOf(N) = TmpOf(O)
  BY <1>3, <1>4 DEF TmpOf, Put
<1>7. MarksOf(N) = MarksOf(O) /\ FunsOf(N) = FunsOf(O)
  BY <1>3, <1>4 DEF MarksOf, FunsOf, Put
<1> QED BY <1>3, <1>4, <1>5, <1>6, <1>7 DEF Put

(* and fewer objects.                                                      *)
Fewer(N, O, V) ==
  /\ DOMAIN N = DOMAIN O \ V /\ Objects(N)
  /\ \A x \in DOMAIN N : /\ KidsOf(N)[x] = KidsOf(O)[x] /\ RcOf(N)[x] = RcOf(O)[x]
                         /\ TmpOf(N)[x] = TmpOf(O)[x]
  /\ MarksOf(N) = MarksOf(O) \ V /\ FunsOf(N) = FunsOf(O) \ V

FewerPut(N, O, V) == N = [y \in DOMAIN O \ V |-> O[y]]

LEMMA FewerIs ==
  ASSUME NEW O, Objects(O), NEW V,
         \A y \in DOMAIN O \ V : RefsIn(KidsOf(O), y) \cap V = {},
         NEW N, FewerPut(N, O, V)
  PROVE  Fewer(N, O, V)
<1>1. DOMAIN N = DOMAIN O \ V /\ \A y \in DOMAIN N : N[y] = O[y]
  BY DEF FewerPut
<1>2. ASSUME NEW y \in DOMAIN N PROVE N[y] \in ObjectWith(DOMAIN N)
  <2>1. O[y] \in ObjectWith(DOMAIN O) /\ O[y].kid = KidsOf(O)[y] /\ y \in DOMAIN O \ V
    BY <1>1, FieldsAre
  <2>2. O[y].kid \in [1 .. Size -> DOMAIN O \cup {None}]
    BY <2>1 DEF ObjectWith
  <2>3. \A i \in 1 .. Size : O[y].kid[i] \in DOMAIN N \cup {None}
    BY <2>1, <2>2, <1>1 DEF RefsIn
  <2>4. O[y].kid \in [1 .. Size -> DOMAIN N \cup {None}]
    BY <2>2, <2>3
  <2> QED BY <2>1, <2>4, <1>1 DEF ObjectWith
<1>3. N = [y \in DOMAIN N |-> N[y]]
  BY <1>1 DEF FewerPut
<1>4. Objects(N)
  BY <1>2, <1>3 DEF Objects
<1>5. \A x \in DOMAIN N : /\ KidsOf(N)[x] = KidsOf(O)[x] /\ RcOf(N)[x] = RcOf(O)[x]
                          /\ TmpOf(N)[x] = TmpOf(O)[x]
  BY <1>1 DEF KidsOf, RcOf, TmpOf
<1>6. MarksOf(N) = MarksOf(O) \ V /\ FunsOf(N) = FunsOf(O) \ V
  BY <1>1 DEF MarksOf, FunsOf
<1> QED BY <1>1, <1>4, <1>5, <1>6 DEF Fewer
-----------------------------------------------------------------------------
(* The invariant.                                                          *)
Kids == KidsOf(obj)
Rc == RcOf(obj)
Tmp == TmpOf(obj)
Marks == MarksOf(obj)

Elements(s) == {s[i] : i \in DOMAIN s} \ {None}
HeldNow == {x \in Objs : held[x] > 0}

Looking == {"check", "unmark"}
Marking == {"mark"} \cup Looking
Passing == {"pass", "sweep"} \cup Marking

Typed ==
  /\ Objects(obj) /\ Live \subseteq Objs /\ IsFiniteSet(Live)
  /\ gc_set = FunsOf(obj)
  /\ held \in [Objs -> Nat] /\ HeldNow \subseteq Live
  /\ work \in {"idle", "delete"} \cup Passing
  /\ todo \in Seq(Live \cup {None}) /\ q \in Seq(Live)
  /\ order \subseteq gc_set /\ refuse \subseteq Live
  /\ work # "idle" => collected = FALSE

(* A parent is a function.                                                 *)
Parents(K, F) == \A x \in DOMAIN K : K[x][sup] \in F \cup {None}

(* What the caller of object_delete or of the collector does then: v is    *)
(* bound, or del_fn has to undo what it did.                               *)
Binding(v) ==
  /\ after.call = "bind" /\ work = "delete"
  /\ after.f \in gc_set /\ after.i \in Values /\ held[v] > 0
  /\ Kids[after.f][after.i] = None
  /\ after.kid = [Kids[after.f] EXCEPT ![after.i] = v]

Returning ==
  /\ after.call = "return" /\ work \in Passing
  /\ after.f \in gc_set /\ after.i = sup
  /\ after.kid \in [1 .. Size -> Live \cup {None}] /\ after.kid[sup] \in gc_set \cup {None}
  /\ Kids[after.f] = [after.kid EXCEPT ![sup] = None, ![exp] = None]
  /\ order \subseteq {after.f} /\ (work # "pass" => root = after.f)
  /\ refuse # {} => after.f \in refuse

AfterSound == after = Nothing \/ Returning \/ \E v \in Objs : Binding(v)

(* The references to x that are being given up, and the one that del_fn    *)
(* has taken out of its function without uncounting it.                    *)
GivenUp(x) == IF work \in {"delete", "sweep"} THEN Places(x, todo) ELSE 0
Owed(x) == IF after.call = "return" /\ after.kid[exp] = x THEN 1 ELSE 0

Counts ==
  \A x \in Live : Rc[x] = held[x] + Refers(Kids, Live \ refuse, x) + GivenUp(x) + Owed(x)

DataCounted == work # "sweep" => \A x \in Live \ (refuse \cup gc_set) : Rc[x] > 0

(* In every set of data there is an object that no other of the set has.   *)
Acyclic(K, F) ==
  \A S \in SUBSET (DOMAIN K \ F) :
    S # {} => \E x \in S : \A y \in S : x \notin RefsIn(K, y)

(* Nothing refers to an object of V but the others.                        *)
Apart(V) == \A x \in V : /\ held[x] = 0 /\ Owed(x) = 0
                         /\ \A y \in Live \ V : x \notin RefsIn(Kids, y)

(* All of L can be reached from what is held and from O.                   *)
Complete(L, O) ==
  \A T \in SUBSET L :
    ClosedIn(Kids, T) /\ HeldNow \subseteq T /\ O \cap L \subseteq T => T = L

Supported(x) == held[x] > 0 \/ Owed(x) > 0 \/ \E y \in Live \ Marks : x \in RefsIn(Kids, y)

Clean ==
  /\ refuse \subseteq Marks
  /\ \A x \in Live \ Marks : Tmp[x] = 0
  /\ work # "sweep" => Apart(refuse)
  /\ work \in {"idle", "pass", "check"} => todo = <<>>
  /\ work \notin Marking => q = <<>>
  /\ work \in {"idle", "delete"} => Marks = {} /\ order = {}
  /\ work = "idle" => after = Nothing
  /\ work \notin {"idle", "delete", "pass"} => root \in gc_set

InPass ==
  work = "pass" => Marks = refuse /\ (after = Nothing => Complete(Live \ refuse, order))

Covered ==
  work \in Marking /\ after = Nothing => Complete(Live \ refuse, order \cup {root})

(* What is marked and still to be marked is in everything that the object  *)
(* where marking started can reach.                                        *)
MarkSound ==
  IF root \in refuse
  THEN Marks = refuse /\ q = <<>> /\ todo \in {<<root>>, <<>>}
  ELSE /\ Elements(todo) \cap refuse = {}
       /\ Elements(q) = Marks \ refuse
       /\ \A x \in Live \ refuse :
            Tmp[x] + Places(x, todo) = Refers(Kids, Marks \ refuse, x) + One(x, root)
       /\ \A T \in SUBSET Live :
            root \in T /\ ClosedIn(Kids, T) => (Marks \ refuse) \cup Elements(todo) \subseteq T
InMark == work = "mark" => MarkSound

(* R is what can be reached from there.                                    *)
Region(R) ==
  /\ R \subseteq Live /\ ClosedIn(Kids, R)
  /\ R = {} \/ root \in R
  /\ \A T \in SUBSET R : root \in T /\ ClosedIn(Kids, T) => T = R

(* It is what was marked.  Objects that are not marked any more have a     *)
(* reference from outside; the others have none, or are still to be looked *)
(* at.                                                                     *)
LookSound(R) ==
  /\ Region(R) /\ R \cap refuse = {} /\ root \in R \cup refuse
  /\ Marks \ refuse \subseteq R
  /\ Elements(todo) \cup Elements(q) \subseteq R
  /\ \A x \in Marks \ refuse :
       /\ Tmp[x] = Refers(Kids, R, x)
       /\ Tmp[x] >= Rc[x] \/ x \in Elements(q) \cup Elements(todo)
  /\ \A x \in R \ Marks : RefsIn(Kids, x) \cap Marks \subseteq Elements(todo)
  /\ \A x \in (R \ Marks) \cup Elements(todo) : Supported(x)
Outside(R) ==
  \A T \in SUBSET (Live \ refuse) :
    ClosedIn(Kids, T) /\ HeldNow \subseteq T /\ Live \ (refuse \cup R) \subseteq T =>
      (R \ Marks) \cup Elements(todo) \subseteq T
InLook == work \in Looking =>
            \E R \in SUBSET Live : LookSound(R) /\ (after = Nothing => Outside(R))

SweepSound(R) ==
  /\ Region(R) /\ Marks \ refuse \subseteq R
  /\ root \in Marks \/ todo # <<>> => root \in refuse
  /\ Apart(Marks)
  /\ \A x \in refuse \cap R : RefsIn(Kids, x) \cap Marks \subseteq refuse \cup Elements(todo)
  /\ \A x \in Live \ (Marks \cup gc_set) : Supported(x)
  /\ after = Nothing => Complete(Live \ Marks, order)
InSweep == work = "sweep" => \E R \in SUBSET Live : SweepSound(R)

IInv == /\ Typed /\ Parents(Kids, gc_set) /\ AfterSound
        /\ Counts /\ DataCounted /\ Acyclic(Kids, gc_set) /\ Clean
        /\ InPass /\ InMark /\ Covered /\ InLook /\ InSweep
-----------------------------------------------------------------------------
LEMMA InitIsSound == Init => IInv
<1> SUFFICES ASSUME Init PROVE IInv
  OBVIOUS
<1>1. Live = {} /\ obj = [x \in {} |-> None] /\ DOMAIN Kids = {}
  BY DEF Init, Live, Kids, KidsOf
<1>2. Marks = {} /\ FunsOf(obj) = {} /\ HeldNow = {}
  BY <1>1 DEF Init, Marks, MarksOf, FunsOf, HeldNow
<1>3. IsFiniteSet(Live)
  BY <1>1, FS_EmptySet
<1>4. Objects(obj)
  BY <1>1 DEF Objects
<1>5. Typed
  BY <1>1, <1>2, <1>3, <1>4 DEF Init, Typed
<1>6. Parents(Kids, gc_set) /\ AfterSound /\ Counts /\ DataCounted /\ Acyclic(Kids, gc_set)
  BY <1>1 DEF Init, Parents, AfterSound, Counts, DataCounted, Acyclic
<1>7. Clean
  BY <1>1, <1>2 DEF Init, Clean, Apart, Passing, Marking, Looking
<1>8. InPass /\ InMark /\ Covered /\ InLook /\ InSweep
  BY DEF Init, InPass, InMark, Covered, InLook, InSweep, Marking, Looking
<1> QED BY <1>5, <1>6, <1>7, <1>8 DEF IInv
-----------------------------------------------------------------------------
(* Steps of marking: only marks and temporary counts of objects change.    *)
SameCounts == SameKids(obj', obj) /\ RcOf(obj') = RcOf(obj)

Moving ==
  /\ SameCounts
  /\ UNCHANGED <<gc_set, held, refuse, after, collected>>
  /\ work \in {"pass"} \cup Marking /\ work' \in Marking
  /\ todo' \in Seq(Live \cup {None}) /\ q' \in Seq(Live)
  /\ work = "pass" => root' \in order /\ order' = order \ {root'}
  /\ work # "pass" => root' = root /\ order' = order

LEMMA SameIs ==
  ASSUME SameCounts
  PROVE  /\ Live' = Live /\ Kids' = Kids /\ Rc' = Rc /\ Objects(obj)' /\ FunsOf(obj') = FunsOf(obj)
BY DEF SameCounts, SameKids, Live, Kids, Rc

LEMMA MovingFrame ==
  ASSUME IInv, Moving
  PROVE  /\ Typed' /\ Parents(Kids, gc_set)' /\ AfterSound' /\ Counts' /\ DataCounted'
         /\ Acyclic(Kids, gc_set)' /\ Covered' /\ InPass' /\ InSweep' /\ Apart(refuse)'
<1> USE DEF Moving
<1>1. Live' = Live /\ Kids' = Kids /\ Rc' = Rc /\ Objects(obj)' /\ FunsOf(obj') = FunsOf(obj)
  BY SameIs
<1>2. HeldNow' = HeldNow
  BY DEF HeldNow
<1>3. work' \in {"mark", "check", "unmark"} /\ work \in {"pass", "mark", "check", "unmark"}
  BY DEF Marking, Looking
<1>4. \A x : GivenUp(x)' = 0 /\ GivenUp(x) = 0 /\ Owed(x)' = Owed(x)
  BY <1>3 DEF GivenUp, Owed
<1>5. Typed'
  <2>1. Typed
    BY DEF IInv
  <2>2. work' \in {"idle", "delete"} \cup Passing
    BY DEF Passing
  <2>3. work # "idle"
    BY <1>3
  <2>4. order' \subseteq order
    BY <1>3
  <2> HIDE DEF Moving
  <2>5. UNCHANGED <<gc_set, held, refuse, collected>> /\ todo' \in Seq(Live \cup {None})
        /\ q' \in Seq(Live)
    BY DEF Moving
  <2> QED BY <1>1, <1>2, <2>1, <2>2, <2>3, <2>4, <2>5 DEF Typed
<1>6. Parents(Kids, gc_set)' /\ Acyclic(Kids, gc_set)'
  BY <1>1 DEF IInv, Parents, Acyclic
<1>7. AfterSound'
  <2>1. CASE after = Nothing
    BY <2>1 DEF AfterSound, Nothing, NoRefs
  <2>2. CASE Returning
    <3>1. work' \in Passing /\ work' # "pass"
      BY <1>3 DEF Passing, Marking, Looking
    <3>2. order' \subseteq {after.f} /\ root' = after.f
      BY <1>3, <2>2 DEF Returning
    <3> QED BY <1>1, <2>2, <3>1, <3>2 DEF AfterSound, Returning
  <2>3. CASE \E v \in Objs : Binding(v)
    BY <1>3, <2>3 DEF Binding
  <2> QED BY <2>1, <2>2, <2>3 DEF IInv, AfterSound
<1>8. Counts'
  BY <1>1, <1>4 DEF IInv, Counts
<1>9. DataCounted'
  BY <1>1, <1>3 DEF IInv, DataCounted
<1>10. Covered'
  <2> SUFFICES ASSUME after = Nothing PROVE Complete(Live \ refuse, order \cup {root})'
    BY DEF Covered
  <2>1. CASE work = "pass"
    <3>1. Complete(Live \ refuse, order)
      BY <2>1 DEF IInv, InPass
    <3>2. order' \cup {root'} = order
      BY <2>1
    <3> QED BY <1>1, <1>2, <3>1, <3>2 DEF Complete
  <2>2. CASE work # "pass"
    <3>1. Complete(Live \ refuse, order \cup {root})
      BY <2>2, <1>3 DEF IInv, Covered, Marking, Looking
    <3> QED BY <1>1, <1>2, <2>2, <3>1 DEF Complete
  <2> QED BY <2>1, <2>2
<1>11. InPass' /\ InSweep'
  BY <1>3 DEF InPass, InSweep
<1>12. Apart(refuse)'
  <2>1. Apart(refuse)
    BY <1>3 DEF IInv, Clean
  <2> QED BY <1>1, <1>4, <2>1 DEF Apart
<1> QED BY <1>5, <1>6, <1>7, <1>8, <1>9, <1>10, <1>11, <1>12

(* What a sequence has.                                                    *)
LEMMA ElementsAre ==
  ASSUME NEW S, NEW s \in Seq(S)
  PROVE  /\ Elements(s) \subseteq S
         /\ \A x \in S \ {None} : x \in Elements(s) <=> Places(x, s) > 0
         /\ s # <<>> => /\ Head(s) \in S /\ Tail(s) \in Seq(S)
                        /\ Elements(s) = ({Head(s)} \ {None}) \cup Elements(Tail(s))
<1>1. DOMAIN s = 1 .. Len(s) /\ Len(s) \in Nat /\ \A i \in 1 .. Len(s) : s[i] \in S
  BY ElementOfSeq
<1>2. Elements(s) = {s[i] : i \in 1 .. Len(s)} \ {None}
  BY <1>1 DEF Elements
<1>3. ASSUME NEW x \in S \ {None}
      PROVE  x \in Elements(s) <=> Places(x, s) > 0
  <2>1. Places(x, s) \in Nat /\ (Places(x, s) = 0 <=> \A i \in 1 .. Len(s) : s[i] # x)
    BY PlacesAre
  <2>2. x \in Elements(s) <=> \E i \in 1 .. Len(s) : s[i] = x
    BY <1>2
  <2> QED BY <2>1, <2>2
<1>4. ASSUME s # <<>>
      PROVE  /\ Head(s) \in S /\ Tail(s) \in Seq(S)
             /\ Elements(s) = ({Head(s)} \ {None}) \cup Elements(Tail(s))
  <2>1. /\ Head(s) = s[1] /\ Head(s) \in S /\ Tail(s) \in Seq(S) /\ Len(Tail(s)) = Len(s) - 1
        /\ \A i \in 1 .. Len(Tail(s)) : Tail(s)[i] = s[i + 1]
    BY <1>4, HeadTailProperties
  <2>2. Len(s) >= 1
    BY <1>1, <1>4, EmptySeq
  <2> DEFINE t == Tail(s)
  <2>3. DOMAIN t = 1 .. Len(t)
    BY <2>1
  <2>4. Elements(t) = {t[i] : i \in 1 .. Len(t)} \ {None}
    BY <2>3 DEF Elements
  <2>5. /\ Len(t) = Len(s) - 1 /\ \A i \in 1 .. Len(t) : t[i] = s[i + 1]
    BY <2>1
  <2> HIDE DEF t
  <2>6. ASSUME NEW i \in 1 .. Len(s), i # 1
        PROVE  i - 1 \in 1 .. Len(t) /\ s[i] = t[i - 1]
    <3>1. i - 1 \in 1 .. Len(t) /\ (i - 1) + 1 = i
      BY <1>1, <2>5, <2>6
    <3> QED BY <3>1, <2>5
  <2>7. ASSUME NEW i \in 1 .. Len(t)
        PROVE  i + 1 \in 1 .. Len(s) /\ s[i + 1] = t[i]
    BY <1>1, <2>5
  <2>8. 1 \in 1 .. Len(s)
    BY <1>1, <2>2
  <2> DEFINE A == {s[i] : i \in 1 .. Len(s)}
             B == {t[i] : i \in 1 .. Len(t)}
  <2>10. \A i \in 1 .. Len(s) : s[i] \in {s[1]} \cup B
    <3> TAKE i \in 1 .. Len(s)
    <3>1. CASE i = 1
      BY <3>1
    <3>2. CASE i # 1
      <4>1. i - 1 \in 1 .. Len(t) /\ s[i] = t[i - 1]
        BY <3>2, <2>6
      <4>2. s[i] \in B
        BY <4>1
      <4> QED BY <4>2
    <3> QED BY <3>1, <3>2
  <2>11. \A i \in 1 .. Len(t) : t[i] \in A
    <3> TAKE i \in 1 .. Len(t)
    <3>1. i + 1 \in 1 .. Len(s) /\ s[i + 1] = t[i]
      BY <2>7
    <3> QED BY <3>1
  <2>12. s[1] \in A
    BY <2>8
  <2>13. A \subseteq {s[1]} \cup B
    BY <2>10
  <2>14. {s[1]} \cup B \subseteq A
    BY <2>11, <2>12
  <2>9. {s[i] : i \in 1 .. Len(s)} = {s[1]} \cup {t[i] : i \in 1 .. Len(t)}
    <3> HIDE DEF A, B
    <3>1. A = {s[1]} \cup B
      BY <2>13, <2>14
    <3> QED BY <3>1 DEF A, B
  <2> QED BY <1>2, <2>1, <2>4, <2>9 DEF t
<1> QED BY <1>1, <1>2, <1>3, <1>4

LEMMA ElementsEmpty == Elements(<<>>) = {}
BY DEF Elements

LEMMA ElementsOne == \A y : Elements(<<y>>) = {y} \ {None}
BY DEF Elements

LEMMA ElementsJoined ==
  ASSUME NEW S, NEW s \in Seq(S), NEW t \in Seq(S)
  PROVE  s \o t \in Seq(S) /\ Elements(s \o t) = Elements(s) \cup Elements(t)
<1>1. /\ s \o t \in Seq(S) /\ Len(s) \in Nat /\ Len(t) \in Nat
      /\ Len(s \o t) = Len(s) + Len(t)
      /\ \A i \in 1 .. Len(s) + Len(t) : (s \o t)[i] = IF i <= Len(s) THEN s[i] ELSE t[i - Len(s)]
  BY ConcatProperties
<1> DEFINE u == s \o t
           n == Len(s)
           m == Len(t)
<1>2. /\ Elements(s) = {s[i] : i \in 1 .. n} \ {None}
      /\ Elements(t) = {t[i] : i \in 1 .. m} \ {None}
  BY DEF Elements
<1>3. Elements(u) = {u[i] : i \in 1 .. n + m} \ {None}
  <2>1. DOMAIN u = 1 .. n + m
    BY <1>1
  <2> QED BY <2>1 DEF Elements
<1>4. n \in Nat /\ m \in Nat /\ \A i \in 1 .. n + m : u[i] = IF i <= n THEN s[i] ELSE t[i - n]
  BY <1>1
<1> HIDE DEF u, n, m
<1>5. ASSUME NEW i \in 1 .. n + m PROVE u[i] \in {s[j] : j \in 1 .. n} \cup {t[j] : j \in 1 .. m}
  <2>1. CASE i <= n
    BY <1>4, <2>1
  <2>2. CASE ~(i <= n)
    <3>1. i - n \in 1 .. m
      BY <1>4, <2>2
    <3> QED BY <1>4, <2>2, <3>1
  <2> QED BY <2>1, <2>2
<1>6. ASSUME NEW i \in 1 .. n PROVE s[i] \in {u[j] : j \in 1 .. n + m}
  BY <1>4
<1>7. ASSUME NEW i \in 1 .. m PROVE t[i] \in {u[j] : j \in 1 .. n + m}
  <2>1. n + i \in 1 .. n + m /\ ~(n + i <= n) /\ (n + i) - n = i
    BY <1>4
  <2>2. u[n + i] = t[i]
    BY <1>4, <2>1
  <2> QED BY <2>1, <2>2
<1>8. {u[j] : j \in 1 .. n + m} = {s[j] : j \in 1 .. n} \cup {t[j] : j \in 1 .. m}
  BY <1>5, <1>6, <1>7
<1>9. Elements(u) = Elements(s) \cup Elements(t)
  BY <1>2, <1>3, <1>8
<1> QED BY <1>1, <1>9 DEF u

(* The references of an object are a sequence.                             *)
LEMMA KidsAre ==
  ASSUME Objects(obj), NEW y \in Live
  PROVE  /\ Kids[y] \in [1 .. Size -> Live \cup {None}] /\ Kids[y] \in Seq(Live \cup {None})
         /\ obj[y].kid = Kids[y] /\ Elements(Kids[y]) = RefsIn(Kids, y)
         /\ RefsIn(Kids, y) \subseteq Live
<1>1. Kids[y] \in [1 .. Size -> Live \cup {None}] /\ obj[y].kid = Kids[y]
  BY FieldsAre DEF Live, Kids
<1>2. Kids[y] \in Seq(Live \cup {None}) /\ DOMAIN Kids[y] = 1 .. Size
  BY <1>1, ReferencesAssumption
<1>3. Elements(Kids[y]) = RefsIn(Kids, y)
  BY <1>2 DEF Elements, RefsIn
<1> QED BY <1>1, <1>2, <1>3 DEF RefsIn

LEMMA Unchanged ==
  ASSUME Objects(obj), obj' = obj
  PROVE  SameCounts /\ Tmp' = Tmp /\ Marks' = Marks
BY DEF SameCounts, SameKids, Tmp, Marks

(* What the invariant has that is used throughout.                         *)
Basics ==
  /\ Objects(obj) /\ Live \subseteq Objs /\ IsFiniteSet(Live) /\ None \notin Live
  /\ gc_set = FunsOf(obj) /\ gc_set \subseteq Live
  /\ todo \in Seq(Live \cup {None}) /\ q \in Seq(Live)
  /\ Marks \subseteq Live /\ refuse \subseteq Marks /\ \A x \in Live \ Marks : Tmp[x] = 0
  /\ Rc \in [Live -> Int] /\ Tmp \in [Live -> Int] /\ held \in [Objs -> Nat]
  /\ order \subseteq gc_set
LEMMA BasicsAre == IInv => Basics
<1> SUFFICES ASSUME IInv PROVE Basics
  OBVIOUS
<1>1. Typed /\ Clean
  BY DEF IInv
<1>2. Objects(obj)
  BY <1>1 DEF Typed
<1>3. Marks \subseteq Live /\ FunsOf(obj) \subseteq Live /\ Rc \in [Live -> Int] /\ Tmp \in [Live -> Int]
  BY <1>2, FieldsAre DEF Marks, Live, Rc, Tmp
<1> QED BY <1>1, <1>3, ReferencesAssumption DEF Basics, Typed, Clean

LEMMA PassStep == IInv /\ gc_pass => IInv'
<1> SUFFICES ASSUME IInv, gc_pass PROVE IInv'
  OBVIOUS
<1>1. PICK f \in order : root' = f /\ order' = order \ {f} /\ work' = "mark" /\ todo' = <<f>>
  BY DEF gc_pass, Work
<1>2. /\ work = "pass" /\ obj' = obj
      /\ UNCHANGED <<gc_set, held, q, refuse, after, collected>>
  BY DEF gc_pass, memory
<1>3. Basics
  BY BasicsAre
<1>4. f \in Live /\ f # None /\ f \in gc_set
  BY <1>1, <1>3 DEF Basics
<1>5. SameCounts /\ Tmp' = Tmp /\ Marks' = Marks
  BY <1>2, <1>3, Unchanged DEF Basics
<1>6. Moving
  <2>1. <<f>> \in Seq(Live \cup {None})
    BY <1>4
  <2> QED BY <1>1, <1>2, <1>3, <1>5, <2>1 DEF Moving, Marking, Basics
<1>7. /\ Typed' /\ Parents(Kids, gc_set)' /\ AfterSound' /\ Counts' /\ DataCounted'
      /\ Acyclic(Kids, gc_set)' /\ Covered' /\ InPass' /\ InSweep' /\ Apart(refuse)'
  BY <1>6, MovingFrame
<1>8. Live' = Live /\ Kids' = Kids
  BY <1>5, SameIs
<1>9. q = <<>> /\ Marks = refuse
  BY <1>2 DEF IInv, Clean, InPass, Marking, Looking
<1>10. Clean'
  BY <1>1, <1>2, <1>3, <1>4, <1>5, <1>7, <1>8 DEF Clean, Basics, Marking
<1>11. MarkSound'
  <2>1. CASE f \in refuse
    BY <2>1, <1>1, <1>2, <1>5, <1>9 DEF MarkSound
  <2>2. CASE f \notin refuse
    <3>1. Elements(todo') = {f} /\ Elements(q') = {}
      BY <1>1, <1>2, <1>4, <1>9, ElementsOne, ElementsEmpty
    <3>2. ASSUME NEW x \in Live \ refuse
          PROVE  Tmp[x] + Places(x, todo') = Refers(Kids, Marks \ refuse, x) + One(x, f)
      <4>1. Places(x, todo') = One(x, f) /\ One(x, f) \in Nat
        BY <1>1, PlacesOne DEF One
      <4>2. Tmp[x] = 0
        BY <1>3, <1>9 DEF Basics
      <4>3. Refers(Kids, Marks \ refuse, x) = 0
        BY <1>9, RefersAre, FS_EmptySet
      <4> QED BY <4>1, <4>2, <4>3
    <3>3. \A T \in SUBSET Live : f \in T => {} \cup {f} \subseteq T
      OBVIOUS
    <3> QED BY <3>1, <3>2, <3>3, <2>2, <1>1, <1>2, <1>5, <1>8, <1>9 DEF MarkSound
  <2> QED BY <2>1, <2>2
<1>12. InMark' /\ InLook'
  BY <1>1, <1>11 DEF InMark, InLook, Looking
<1> QED BY <1>7, <1>10, <1>12 DEF IInv

(* What follows for the rest of the references.                            *)
LEMMA RestIs ==
  ASSUME Basics, todo # <<>>
  PROVE  /\ Ref \in Live \cup {None} /\ Rest \in Seq(Live \cup {None})
         /\ Elements(todo) = ({Ref} \ {None}) \cup Elements(Rest)
         /\ \A x \in Live : /\ Places(x, todo) \in Nat /\ Places(x, Rest) \in Nat
                            /\ Places(x, todo) = One(x, Ref) + Places(x, Rest)
         /\ \A x : todo = <<x>> => Ref = x /\ Rest = <<>>
<1> DEFINE S == Live \cup {None}
<1>1. todo \in Seq(S)
  BY DEF Basics
<1>2. Ref \in S /\ Rest \in Seq(S) /\ Elements(todo) = ({Ref} \ {None}) \cup Elements(Rest)
  <2>1. /\ Head(todo) \in S /\ Tail(todo) \in Seq(S)
        /\ Elements(todo) = ({Head(todo)} \ {None}) \cup Elements(Tail(todo))
    BY <1>1, ElementsAre
  <2> QED BY <2>1 DEF Ref, Rest
<1>3. ASSUME NEW x \in Live
      PROVE  /\ Places(x, todo) \in Nat /\ Places(x, Rest) \in Nat
             /\ Places(x, todo) = One(x, Ref) + Places(x, Rest)
  <2>1. Places(x, todo) \in Nat /\ Places(x, Rest) \in Nat
    BY <1>1, <1>2, PlacesAre
  <2>2. Places(x, todo) = One(x, Head(todo)) + Places(x, Tail(todo))
    BY <1>1, PlacesOfHead
  <2> QED BY <2>1, <2>2 DEF Ref, Rest
<1>4. \A x : todo = <<x>> => Ref = x /\ Rest = <<>>
  BY DEF Ref, Rest
<1> QED BY <1>2, <1>3, <1>4

LEMMA SkipNone ==
  IInv /\ Following("mark") /\ Ref = None /\ todo' = Rest /\ UNCHANGED <<obj, q>>
  /\ UNCHANGED <<gc_set, held, work, root, order, refuse, after, collected>> => IInv'
<1> SUFFICES ASSUME IInv, Following("mark"), Ref = None, todo' = Rest, UNCHANGED <<obj, q>>,
                    UNCHANGED <<gc_set, held, work, root, order, refuse, after, collected>>
             PROVE  IInv'
  OBVIOUS
<1>1. Basics /\ work = "mark" /\ todo # <<>>
  BY BasicsAre DEF Following
<1>2. /\ Rest \in Seq(Live \cup {None}) /\ Elements(todo) = Elements(Rest)
      /\ \A x \in Live : Places(x, todo) = Places(x, Rest)
  <2>1. \A x \in Live : One(x, Ref) = 0
    BY <1>1 DEF One, Basics
  <2>2. /\ Rest \in Seq(Live \cup {None}) /\ Elements(todo) = ({Ref} \ {None}) \cup Elements(Rest)
        /\ \A x \in Live : /\ Places(x, Rest) \in Nat
                           /\ Places(x, todo) = One(x, Ref) + Places(x, Rest)
    BY <1>1, RestIs
  <2> QED BY <2>1, <2>2
<1>3. SameCounts /\ Tmp' = Tmp /\ Marks' = Marks
  BY <1>1, Unchanged DEF Basics
<1>4. Moving
  BY <1>1, <1>2, <1>3 DEF Moving, Marking, Basics
<1>5. /\ Typed' /\ Parents(Kids, gc_set)' /\ AfterSound' /\ Counts' /\ DataCounted'
      /\ Acyclic(Kids, gc_set)' /\ Covered' /\ InPass' /\ InSweep' /\ Apart(refuse)'
  BY <1>4, MovingFrame
<1>6. Live' = Live /\ Kids' = Kids
  BY <1>3, SameIs
<1>7. Clean'
  BY <1>1, <1>3, <1>5, <1>6 DEF IInv, Clean, Marking
<1>8. MarkSound
  BY <1>1 DEF IInv, InMark
<1>9. MarkSound'
  <2>1. CASE root \in refuse
    <3>1. todo' \in {<<root>>, <<>>}
      BY <1>1, <1>8, <2>1, RestIs DEF MarkSound
    <3> QED BY <2>1, <3>1, <1>3, <1>8 DEF MarkSound
  <2>2. CASE root \notin refuse
    BY <2>2, <1>2, <1>3, <1>6, <1>8 DEF MarkSound
  <2> QED BY <2>1, <2>2
<1>10. InMark' /\ InLook'
  BY <1>1, <1>9 DEF InMark, InLook, Looking
<1> QED BY <1>5, <1>7, <1>10 DEF IInv

LEMMA MarkAgain ==
  ASSUME IInv, Following("mark"), Ref # None, obj[Ref].visited,
         obj' = [obj EXCEPT ![Ref].tmp = @ + 1], todo' = Rest, q' = q,
         UNCHANGED <<gc_set, held, work, root, order, refuse, after, collected>>
  PROVE  IInv'
<1>1. Basics /\ work = "mark" /\ todo # <<>>
  BY BasicsAre DEF Following
<1>2. /\ Ref \in Live /\ Rest \in Seq(Live \cup {None})
      /\ Elements(todo) = {Ref} \cup Elements(Rest)
      /\ \A x \in Live : /\ Places(x, Rest) \in Nat
                         /\ Places(x, todo) = One(x, Ref) + Places(x, Rest)
  BY <1>1, RestIs
<1>3. SameCounts /\ Marks' = Marks /\ Tmp' = [Tmp EXCEPT ![Ref] = Tmp[Ref] + 1]
  <2>1. Objects(obj) /\ Ref \in DOMAIN obj
    BY <1>1, <1>2 DEF Basics, Live
  <2> DEFINE n == 1
  <2>2. n \in Int /\ TmpPut(obj', obj, Ref, n)
    BY DEF TmpPut
  <2> HIDE DEF n
  <2>3. /\ SameKids(obj', obj) /\ RcOf(obj') = RcOf(obj) /\ MarksOf(obj') = MarksOf(obj)
        /\ TmpOf(obj') = [TmpOf(obj) EXCEPT ![Ref] = TmpOf(obj)[Ref] + n]
    BY ONLY <2>1, <2>2, TmpIs
  <2> QED BY <2>3 DEF SameCounts, Tmp, Marks, n
<1>4. Ref \in Marks
  BY <1>1, <1>2, FieldsAre DEF Basics, Live, Marks
<1>5. Moving
  BY <1>1, <1>2, <1>3 DEF Moving, Marking, Basics
<1>6. /\ Typed' /\ Parents(Kids, gc_set)' /\ AfterSound' /\ Counts' /\ DataCounted'
      /\ Acyclic(Kids, gc_set)' /\ Covered' /\ InPass' /\ InSweep' /\ Apart(refuse)'
  BY <1>5, MovingFrame
<1>7. Live' = Live /\ Kids' = Kids
  BY <1>3, SameIs
<1>8. Tmp \in [Live -> Int] /\ \A x \in Live : Tmp'[x] = IF x = Ref THEN Tmp[x] + 1 ELSE Tmp[x]
  BY <1>1, <1>3 DEF Basics
<1>9. Clean'
  BY <1>1, <1>3, <1>4, <1>6, <1>7, <1>8 DEF IInv, Clean, Marking
<1>10. MarkSound
  BY <1>1 DEF IInv, InMark
<1>11. MarkSound'
  <2>1. CASE root \in refuse
    <3>1. todo' \in {<<root>>, <<>>}
      BY <1>1, <1>10, <2>1, RestIs DEF MarkSound
    <3> QED BY <2>1, <3>1, <1>3, <1>10 DEF MarkSound
  <2>2. CASE root \notin refuse
    <3>1. /\ Elements(todo) \cap refuse = {} /\ Elements(q) = Marks \ refuse
          /\ \A x \in Live \ refuse :
               Tmp[x] + Places(x, todo) = Refers(Kids, Marks \ refuse, x) + One(x, root)
          /\ \A T \in SUBSET Live :
               root \in T /\ ClosedIn(Kids, T) => (Marks \ refuse) \cup Elements(todo) \subseteq T
      BY <1>10, <2>2 DEF MarkSound
    <3>2. ASSUME NEW x \in Live
          PROVE  Tmp'[x] + Places(x, Rest) = Tmp[x] + Places(x, todo)
      <4>1. /\ Places(x, Rest) \in Nat /\ Places(x, todo) = One(x, Ref) + Places(x, Rest)
            /\ Tmp[x] \in Int
        BY <1>2, <1>8
      <4>2. Tmp'[x] = Tmp[x] + One(x, Ref) /\ One(x, Ref) \in Nat
        BY <1>8 DEF One
      <4> QED BY <4>1, <4>2
    <3>3. \A x \in Live \ refuse :
               Tmp'[x] + Places(x, todo') = Refers(Kids, Marks \ refuse, x) + One(x, root)
      BY <3>1, <3>2
    <3>4. Elements(todo') \subseteq Elements(todo)
      BY <1>2
    <3>5. \A T \in SUBSET Live :
             root \in T /\ ClosedIn(Kids, T) => (Marks \ refuse) \cup Elements(todo') \subseteq T
      BY <3>1, <3>4
    <3> QED BY <2>2, <3>1, <3>3, <3>4, <3>5, <1>3, <1>7 DEF MarkSound
  <2> QED BY <2>1, <2>2
<1>12. InMark' /\ InLook'
  BY <1>1, <1>11 DEF InMark, InLook, Looking
<1> QED BY <1>6, <1>9, <1>12 DEF IInv

LEMMA MarkNew ==
  ASSUME IInv, Following("mark"), Ref # None, ~obj[Ref].visited,
         obj' = Marked(Ref, TRUE), todo' = obj[Ref].kid \o Rest, q' = <<Ref>> \o q,
         UNCHANGED <<gc_set, held, work, root, order, refuse, after, collected>>
  PROVE  IInv'
<1>1. Basics /\ work = "mark" /\ todo # <<>>
  BY BasicsAre DEF Following
<1>2. /\ Ref \in Live /\ Rest \in Seq(Live \cup {None})
      /\ Elements(todo) = {Ref} \cup Elements(Rest)
      /\ \A x \in Live : /\ Places(x, Rest) \in Nat
                         /\ Places(x, todo) = One(x, Ref) + Places(x, Rest)
  BY <1>1, RestIs
<1>3. SameCounts /\ Marks' = Marks \cup {Ref} /\ Tmp' = [Tmp EXCEPT ![Ref] = 1]
  <2>1. Objects(obj) /\ Ref \in DOMAIN obj
    BY <1>1, <1>2 DEF Basics, Live
  <2> DEFINE n == 1
             c == TRUE
  <2>2. n \in Int /\ c \in BOOLEAN /\ MarkPut(obj', obj, Ref, c, n)
    BY DEF Marked, MarkPut
  <2>3. c = TRUE
    OBVIOUS
  <2> HIDE DEF n, c
  <2>4. /\ SameKids(obj', obj) /\ RcOf(obj') = RcOf(obj)
        /\ TmpOf(obj') = [TmpOf(obj) EXCEPT ![Ref] = n]
        /\ MarksOf(obj') = IF c THEN MarksOf(obj) \cup {Ref} ELSE MarksOf(obj) \ {Ref}
    BY ONLY <2>1, <2>2, MarkIs
  <2> QED BY <2>3, <2>4 DEF SameCounts, Tmp, Marks, n
<1>4. Ref \notin Marks
  BY <1>1, <1>2, FieldsAre DEF Basics, Live, Marks
<1>5. /\ Kids[Ref] \in [1 .. Size -> Live \cup {None}] /\ Kids[Ref] \in Seq(Live \cup {None})
      /\ obj[Ref].kid = Kids[Ref] /\ Elements(Kids[Ref]) = RefsIn(Kids, Ref)
      /\ RefsIn(Kids, Ref) \subseteq Live
  BY <1>1, <1>2, KidsAre DEF Basics
<1>6. todo' \in Seq(Live \cup {None}) /\ Elements(todo') = RefsIn(Kids, Ref) \cup Elements(Rest)
  BY <1>2, <1>5, ElementsJoined
<1>7. q' \in Seq(Live) /\ Elements(q') = {Ref} \cup Elements(q)
  <2>1. <<Ref>> \in Seq(Live) /\ q \in Seq(Live)
    BY <1>1, <1>2 DEF Basics
  <2>2. Elements(<<Ref>>) = {Ref}
    BY ElementsOne
  <2> DEFINE s == <<Ref>>
  <2>3. s \in Seq(Live) /\ q \in Seq(Live) /\ q' = s \o q /\ Elements(s) = {Ref}
    BY <2>1, <2>2
  <2> HIDE DEF s
  <2>4. s \o q \in Seq(Live) /\ Elements(s \o q) = Elements(s) \cup Elements(q)
    BY ONLY <2>3, ElementsJoined
  <2> QED BY <2>3, <2>4
<1>8. Moving
  BY <1>1, <1>3, <1>6, <1>7 DEF Moving, Marking
<1>9. /\ Typed' /\ Parents(Kids, gc_set)' /\ AfterSound' /\ Counts' /\ DataCounted'
      /\ Acyclic(Kids, gc_set)' /\ Covered' /\ InPass' /\ InSweep' /\ Apart(refuse)'
  BY <1>8, MovingFrame
<1>10. Live' = Live /\ Kids' = Kids
  BY <1>3, SameIs
<1>11. Tmp \in [Live -> Int] /\ \A x \in Live : Tmp'[x] = IF x = Ref THEN 1 ELSE Tmp[x]
  BY <1>1, <1>3 DEF Basics
<1>12. Clean'
  BY <1>1, <1>3, <1>9, <1>10, <1>11 DEF IInv, Clean, Marking
<1>13. MarkSound
  BY <1>1 DEF IInv, InMark
<1>14. root \notin refuse
  BY <1>1, <1>4, <1>13, RestIs DEF MarkSound, Basics
<1>15. /\ Elements(todo) \cap refuse = {} /\ Elements(q) = Marks \ refuse
       /\ \A x \in Live \ refuse :
            Tmp[x] + Places(x, todo) = Refers(Kids, Marks \ refuse, x) + One(x, root)
       /\ \A T \in SUBSET Live :
            root \in T /\ ClosedIn(Kids, T) => (Marks \ refuse) \cup Elements(todo) \subseteq T
  BY <1>13, <1>14 DEF MarkSound
<1>16. Ref \notin refuse /\ Marks' \ refuse = (Marks \ refuse) \cup {Ref}
  BY <1>2, <1>3, <1>15
<1>17. Elements(todo') \cap refuse = {}
  <2>1. Apart(refuse)
    BY <1>1 DEF IInv, Clean
  <2>2. RefsIn(Kids, Ref) \cap refuse = {}
    BY <1>2, <1>16, <2>1 DEF Apart
  <2> QED BY <1>2, <1>6, <1>15, <2>2
<1>18. ASSUME NEW x \in Live \ refuse
       PROVE  Tmp'[x] + Places(x, todo') = Refers(Kids, Marks' \ refuse, x) + One(x, root)
  <2> DEFINE M == Marks \ refuse
  <2>1. IsFiniteSet(M) /\ Ref \notin M
    BY <1>1, <1>4, FS_Subset DEF Basics
  <2>2. Refers(Kids, M, x) \in Nat
    BY <2>1, RefersAre
  <2>3. M \cup {Ref} = Marks' \ refuse
    BY <1>16
  <2> HIDE DEF M
  <2>4. Refers(Kids, M \cup {Ref}, x) = Refers(Kids, M, x) + Places(x, Kids[Ref])
    BY ONLY <2>1, <1>5, RefersMore
  <2>5. Places(x, todo') = Places(x, Kids[Ref]) + Places(x, Rest)
    BY <1>2, <1>5, PlacesJoined
  <2>6. Places(x, Kids[Ref]) \in Nat
    BY <1>5, PlacesAre
  <2>7. Tmp'[x] = Tmp[x] + One(x, Ref) /\ One(x, Ref) \in Nat /\ Tmp[x] \in Int
    BY <1>1, <1>2, <1>4, <1>11 DEF One, Basics
  <2>8. Places(x, Rest) \in Nat /\ Places(x, todo) = One(x, Ref) + Places(x, Rest)
    BY <1>2
  <2>9. Tmp[x] + Places(x, todo) = Refers(Kids, M, x) + One(x, root)
    BY <1>15 DEF M
  <2>10. One(x, root) \in Nat
    BY DEF One
  <2> DEFINE o == One(x, Ref)
             k == Places(x, Kids[Ref])
             p == Places(x, Rest)
             r == Refers(Kids, M, x)
             t == Tmp[x]
             e == One(x, root)
  <2>11. Tmp'[x] + Places(x, todo') = (t + o) + (k + p) /\ Places(x, todo) = o + p
    BY <2>5, <2>7, <2>8
  <2>12. Refers(Kids, Marks' \ refuse, x) = r + k
    BY <2>3, <2>4
  <2>13. o \in Nat /\ k \in Nat /\ p \in Nat /\ r \in Nat /\ t \in Int /\ e \in Nat
    BY <2>2, <2>6, <2>7, <2>8, <2>10
  <2>14. t + (o + p) = r + e
    BY <2>9, <2>11
  <2>15. Refers(Kids, Marks' \ refuse, x) + One(x, root) = (r + k) + e
    BY <2>12
  <2> HIDE DEF o, k, p, r, t, e
  <2>16. (t + o) + (k + p) = (r + k) + e
    BY ONLY <2>13, <2>14
  <2> QED BY <2>11, <2>15, <2>16
<1>19. ASSUME NEW T \in SUBSET Live, root \in T, ClosedIn(Kids, T)
       PROVE  (Marks' \ refuse) \cup Elements(todo') \subseteq T
  <2>1. (Marks \ refuse) \cup Elements(todo) \subseteq T
    BY <1>15, <1>19
  <2>2. Ref \in T /\ Elements(Rest) \subseteq T
    BY <1>2, <2>1
  <2>3. RefsIn(Kids, Ref) \subseteq T
    BY <1>19, <2>2 DEF ClosedIn
  <2> QED BY <1>6, <1>16, <2>1, <2>2, <2>3
<1>20. MarkSound'
  <2>1. Elements(q') = Marks' \ refuse
    BY <1>7, <1>15, <1>16
  <2> QED BY <1>10, <1>14, <1>17, <1>18, <1>19, <2>1 DEF MarkSound
<1>21. InMark' /\ InLook'
  BY <1>1, <1>20 DEF InMark, InLook, Looking
<1> QED BY <1>9, <1>12, <1>21 DEF IInv

LEMMA MarkedStep ==
  ASSUME IInv, marked
  PROVE  IInv'
<1>1. /\ Basics /\ work = "mark" /\ todo = <<>> /\ work' = "check" /\ obj' = Corrected
      /\ UNCHANGED <<gc_set, held, todo, root, q, order, refuse, after, collected>>
  BY BasicsAre DEF marked, pass
<1>2. root \in gc_set /\ root \in Live
  BY <1>1 DEF IInv, Clean, Basics
<1>3. SameCounts /\ Marks' = Marks /\ \A x \in Live : Tmp'[x] = Tmp[x] - One(x, root)
  <2>1. Objects(obj) /\ root \in DOMAIN obj
    BY <1>1, <1>2 DEF Basics, Live
  <2> DEFINE n == -1
  <2>3. n = -1 /\ n \in Int
    OBVIOUS
  <2> HIDE DEF n
  <2>2. TmpPut(obj', obj, root, n)
    <3>1. Tmp[root] \in Int /\ obj[root].tmp = Tmp[root]
      BY <1>1, <1>2, FieldsAre DEF Basics, Tmp, Live
    <3>2. obj[root].tmp - 1 = obj[root].tmp + n
      BY <2>3, <3>1
    <3>3. obj' = [obj EXCEPT ![root].tmp = obj[root].tmp - 1]
      BY <1>1 DEF Corrected
    <3> QED BY <3>2, <3>3 DEF TmpPut
  <2>4. /\ SameKids(obj', obj) /\ RcOf(obj') = RcOf(obj) /\ MarksOf(obj') = MarksOf(obj)
        /\ TmpOf(obj') = [TmpOf(obj) EXCEPT ![root] = TmpOf(obj)[root] + n]
    BY ONLY <2>1, <2>2, <2>3, TmpIs
  <2>5. ASSUME NEW x \in Live PROVE Tmp'[x] = Tmp[x] - One(x, root)
    <3>1. Tmp \in [Live -> Int] /\ Tmp' = [Tmp EXCEPT ![root] = Tmp[root] + n]
      BY <1>1, <2>4 DEF Tmp, Basics
    <3> QED BY <2>3, <3>1, <1>2 DEF One
  <2> QED BY <2>4, <2>5 DEF SameCounts, Marks
<1>4. Moving
  BY <1>1, <1>3 DEF Moving, Marking, Looking, Basics
<1>5. /\ Typed' /\ Parents(Kids, gc_set)' /\ AfterSound' /\ Counts' /\ DataCounted'
      /\ Acyclic(Kids, gc_set)' /\ Covered' /\ InPass' /\ InSweep' /\ Apart(refuse)'
  BY <1>4, MovingFrame
<1>6. Live' = Live /\ Kids' = Kids /\ Rc' = Rc
  BY <1>3, SameIs
<1>7. MarkSound
  BY <1>1 DEF IInv, InMark
<1>8. Elements(todo) = {} /\ \A x \in Live : Places(x, todo) = 0
  BY <1>1, ElementsEmpty, PlacesEmpty
<1>9. root \in refuse \/ \A x \in Live \ refuse : Tmp'[x] = Refers(Kids, Marks \ refuse, x)
  <2> SUFFICES ASSUME root \notin refuse, NEW x \in Live \ refuse
               PROVE  Tmp'[x] = Refers(Kids, Marks \ refuse, x)
    OBVIOUS
  <2>1. Tmp[x] + Places(x, todo) = Refers(Kids, Marks \ refuse, x) + One(x, root)
    BY <1>7 DEF MarkSound
  <2>2. IsFiniteSet(Marks \ refuse)
    BY <1>1, FS_Subset DEF Basics
  <2>3. Refers(Kids, Marks \ refuse, x) \in Nat /\ One(x, root) \in Nat /\ Tmp[x] \in Int
    BY <1>1, <2>2, RefersAre DEF One, Basics
  <2> QED BY <2>1, <2>3, <1>3, <1>8
<1>10. root \in Marks
  <2>1. CASE root \in refuse
    BY <2>1, <1>1 DEF Basics
  <2>2. CASE root \notin refuse
    <3>1. Tmp'[root] = Refers(Kids, Marks \ refuse, root) /\ Tmp'[root] = Tmp[root] - 1
      BY <2>2, <1>2, <1>3, <1>9 DEF One
    <3>2. IsFiniteSet(Marks \ refuse)
      BY <1>1, FS_Subset DEF Basics
    <3>3. Refers(Kids, Marks \ refuse, root) \in Nat /\ Tmp[root] \in Int
      BY <1>1, <1>2, <3>2, RefersAre DEF Basics
    <3>4. Tmp[root] # 0
      BY <3>1, <3>3
    <3> QED BY <1>1, <1>2, <3>4 DEF Basics
  <2> QED BY <2>1, <2>2
<1>11. Clean'
  <2>1. ASSUME NEW x \in Live \ Marks PROVE Tmp'[x] = 0
    <3>1. Tmp[x] = 0
      BY <1>1 DEF Basics
    <3>2. x # root
      BY <1>10
    <3>3. One(x, root) = 0
      BY <3>2 DEF One
    <3> QED BY <1>3, <3>1, <3>3
  <2> QED BY <2>1, <1>1, <1>2, <1>3, <1>5, <1>6 DEF Basics, Clean, Marking, Looking
<1>12. ASSUME root \in refuse PROVE LookSound({})' /\ Outside({})'
  <2>1. Marks = refuse /\ q = <<>>
    BY <1>7, <1>12 DEF MarkSound
  <2>2. Elements(q) = {}
    BY <2>1, ElementsEmpty
  <2> QED BY <2>1, <2>2, <1>1, <1>3, <1>6, <1>8, <1>12
          DEF LookSound, Outside, Region, ClosedIn
<1>13. ASSUME root \notin refuse PROVE LookSound(Marks \ refuse)' /\ Outside(Marks \ refuse)'
  <2> DEFINE R == Marks \ refuse
  <2>1. /\ Elements(q) = R
        /\ \A T \in SUBSET Live : root \in T /\ ClosedIn(Kids, T) => R \subseteq T
    BY <1>7, <1>13 DEF MarkSound
  <2>2. R \subseteq Live /\ R \cap refuse = {} /\ root \in R /\ IsFiniteSet(R)
    BY <1>1, <1>10, <1>13, FS_Subset DEF Basics
  <2>3. \A x \in Live \ refuse : Tmp'[x] = Refers(Kids, R, x)
    BY <1>9, <1>13
  <2>4. R' = R /\ R \ Marks = {}
    BY <1>1, <1>3
  <2> HIDE DEF R
  <2>5. ClosedIn(Kids, R)
    <3> SUFFICES ASSUME NEW y \in R, NEW i \in 1 .. Size, Kids[y][i] # None
                 PROVE  Kids[y][i] \in R
      BY DEF ClosedIn, RefsIn
    <3> DEFINE x == Kids[y][i]
    <3>1. x \in RefsIn(Kids, y)
      BY DEF RefsIn
    <3>2. x \in Live
      BY <3>1, <2>2, <1>1, KidsAre DEF Basics
    <3>3. x \notin refuse
      <4>1. Apart(refuse)
        BY <1>1 DEF IInv, Clean
      <4> QED BY <4>1, <3>1, <2>2 DEF Apart
    <3>4. Refers(Kids, R, x) # 0
      BY <2>2, RefersAre
    <3>5. x \in Marks
      <4>1. CASE x = root
        BY <4>1, <1>10
      <4>2. CASE x # root
        <5>1. Tmp'[x] = Tmp[x] - One(x, root) /\ One(x, root) = 0
          BY <4>2, <3>2, <1>3 DEF One
        <5>2. Tmp[x] \in Int
          BY <1>1, <3>2 DEF Basics
        <5>3. Tmp[x] # 0
          BY <5>1, <5>2, <2>3, <3>2, <3>3, <3>4
        <5> QED BY <5>3, <1>1, <3>2 DEF Basics
      <4> QED BY <4>1, <4>2
    <3> QED BY <3>3, <3>5 DEF R
  <2>6. Region(R)
    BY <2>1, <2>2, <2>5 DEF Region
  <2>7. LookSound(R)'
    <3>1. Region(R)'
      BY <2>4, <2>6, <1>1, <1>6 DEF Region
    <3>2. Marks \ refuse = R
      BY DEF R
    <3>3. \A x \in Marks' \ refuse' : Tmp'[x] = Refers(Kids, R, x)
      BY <1>1, <1>3, <2>2, <2>3, <3>2
    <3> QED BY <2>1, <2>2, <2>4, <3>1, <3>2, <3>3, <1>1, <1>3, <1>6, <1>8 DEF LookSound
  <2>8. Outside(R)'
    BY <2>4, <1>1, <1>3, <1>8 DEF Outside
  <2> QED BY <2>7, <2>8 DEF R
<1>14. InMark' /\ InLook'
  <2>1. CASE root \in refuse
    BY <2>1, <1>1, <1>12 DEF InMark, InLook
  <2>2. CASE root \notin refuse
    <3>1. (Marks \ refuse)' \in SUBSET Live'
      BY <1>1, <1>3, <1>6 DEF Basics
    <3> QED BY <3>1, <2>2, <1>1, <1>13 DEF InMark, InLook
  <2> QED BY <2>1, <2>2
<1> QED BY <1>5, <1>11, <1>14 DEF IInv

(* An object with more references than were counted in R has one that does *)
(* not come from there.                                                    *)
LEMMA CountedFromOutside ==
  ASSUME Basics, Counts, work \in Looking, NEW R \in SUBSET (Live \ refuse),
         NEW h \in R, Refers(Kids, R, h) < Rc[h]
  PROVE  held[h] > 0 \/ Owed(h) > 0 \/ \E y \in Live \ (refuse \cup R) : h \in RefsIn(Kids, y)
<1> DEFINE D == Live \ refuse
<1>1. IsFiniteSet(D) /\ R \in SUBSET D /\ h \in Live /\ h # None
  BY FS_Subset DEF Basics
<1>2. Rc[h] = held[h] + Refers(Kids, D, h) + GivenUp(h) + Owed(h)
  BY <1>1 DEF Counts
<1>3. GivenUp(h) = 0 /\ Owed(h) \in Nat /\ held[h] \in Nat
  BY <1>1 DEF GivenUp, Owed, Looking, Basics
<1>4. \A y \in Live \ (refuse \cup R) : y \in D \ R
  OBVIOUS
<1>5. \A y \in D \ R : y \in Live \ (refuse \cup R)
  OBVIOUS
<1> HIDE DEF D
<1>6. /\ Refers(Kids, R, h) \in Nat /\ Refers(Kids, D, h) \in Nat
      /\ (\A y \in D \ R, i \in 1 .. Size : Kids[y][i] # h) => Refers(Kids, R, h) = Refers(Kids, D, h)
  BY <1>1, RefersWithin
<1>7. \A y \in D \ R, i \in 1 .. Size : Kids[y][i] = h => h \in RefsIn(Kids, y)
  BY <1>1 DEF RefsIn
<1> QED BY <1>2, <1>3, <1>5, <1>6, <1>7

LEMMA CheckStep ==
  ASSUME IInv, check
  PROVE  IInv'
<1>1. /\ Basics /\ work = "check" /\ q # <<>> /\ q' = Tail(q) /\ obj' = obj
      /\ UNCHANGED <<gc_set, held, root, order, refuse, after, collected>>
  BY BasicsAre DEF check, memory
<1> DEFINE h == Head(q)
<1>2. /\ h \in Live /\ q' \in Seq(Live) /\ Elements(q) = {h} \cup Elements(q') /\ h # None
  <2>1. q \in Seq(Live)
    BY <1>1 DEF Basics
  <2>2. /\ Head(q) \in Live /\ Tail(q) \in Seq(Live)
        /\ Elements(q) = ({Head(q)} \ {None}) \cup Elements(Tail(q))
    BY <1>1, <2>1, ElementsAre
  <2> QED BY <1>1, <2>2 DEF Basics
<1>3. obj[h].tmp = Tmp[h] /\ obj[h].rc = Rc[h] /\ Tmp[h] \in Int /\ Rc[h] \in Int
  BY <1>1, <1>2, FieldsAre DEF Basics, Tmp, Rc, Live
<1>4. \/ Tmp[h] < Rc[h] /\ work' = "unmark" /\ todo' = <<h>>
      \/ ~(Tmp[h] < Rc[h]) /\ work' = work /\ todo' = todo
  BY <1>3 DEF check, Work
<1> HIDE DEF h
<1>5. SameCounts /\ Tmp' = Tmp /\ Marks' = Marks
  BY <1>1, Unchanged DEF Basics
<1>6. todo = <<>>
  BY <1>1 DEF IInv, Clean
<1>7. Moving
  <2>1. <<h>> \in Seq(Live \cup {None}) /\ todo \in Seq(Live \cup {None})
    BY <1>1, <1>2 DEF Basics
  <2> QED BY <2>1, <1>1, <1>2, <1>4, <1>5 DEF Moving, Marking, Looking
<1>8. /\ Typed' /\ Parents(Kids, gc_set)' /\ AfterSound' /\ Counts' /\ DataCounted'
      /\ Acyclic(Kids, gc_set)' /\ Covered' /\ InPass' /\ InSweep' /\ Apart(refuse)'
  BY <1>7, MovingFrame
<1>9. Live' = Live /\ Kids' = Kids /\ Rc' = Rc /\ HeldNow' = HeldNow
  BY <1>1, <1>5, SameIs DEF HeldNow
<1>10. Clean'
  <2>1. root \in gc_set
    BY <1>1 DEF IInv, Clean
  <2> QED BY <2>1, <1>1, <1>4, <1>5, <1>6, <1>8, <1>9 DEF Basics, Clean, Marking, Looking
<1>11. PICK R \in SUBSET Live : LookSound(R) /\ (after = Nothing => Outside(R))
  BY <1>1 DEF IInv, InLook, Looking
<1>12. Elements(todo) = {} /\ Elements(<<h>>) = {h}
  BY <1>2, <1>6, ElementsEmpty, ElementsOne
<1>13. /\ Region(R) /\ R \cap refuse = {} /\ root \in R \cup refuse /\ Marks \ refuse \subseteq R
       /\ Elements(q) \subseteq R
       /\ \A x \in Marks \ refuse : Tmp[x] = Refers(Kids, R, x) /\ (Tmp[x] >= Rc[x] \/ x \in Elements(q))
       /\ \A x \in R \ Marks : RefsIn(Kids, x) \cap Marks = {}
       /\ \A x \in R \ Marks : Supported(x)
  BY <1>11, <1>12 DEF LookSound
<1>14. Region(R)' /\ \A x : Supported(x)' = Supported(x)
  <2>1. \A x : Owed(x)' = Owed(x)
    BY <1>1 DEF Owed
  <2> QED BY <2>1, <1>1, <1>5, <1>9, <1>13 DEF Region, Supported
<1>15. CASE ~(Tmp[h] < Rc[h])
  <2>1. work' = "check" /\ todo' = todo
    BY <1>1, <1>4, <1>15
  <2>2. ASSUME NEW x \in Marks \ refuse PROVE Tmp[x] >= Rc[x] \/ x \in Elements(q')
    <3>1. Tmp[x] >= Rc[x] \/ x \in Elements(q)
      BY <1>13
    <3>2. Tmp[h] >= Rc[h]
      BY <1>3, <1>15
    <3> QED BY <3>1, <3>2, <1>2
  <2>3. LookSound(R)'
    BY <2>1, <2>2, <1>1, <1>2, <1>5, <1>9, <1>12, <1>13, <1>14 DEF LookSound
  <2>4. after = Nothing => Outside(R)'
    BY <2>1, <1>1, <1>5, <1>9, <1>11 DEF Outside
  <2>5. InLook' /\ InMark'
    BY <2>1, <2>3, <2>4, <1>1, <1>9, <1>11 DEF InLook, InMark
  <2> QED BY <2>5, <1>8, <1>10 DEF IInv
<1>16. CASE Tmp[h] < Rc[h]
  <2>1. work' = "unmark" /\ todo' = <<h>> /\ Elements(todo') = {h} /\ h \in R
    BY <1>2, <1>4, <1>12, <1>13, <1>16
  <2>2. ASSUME h \in Marks
        PROVE  held[h] > 0 \/ Owed(h) > 0 \/ \E y \in Live \ (refuse \cup R) : h \in RefsIn(Kids, y)
    <3>1. Tmp[h] = Refers(Kids, R, h)
      BY <1>13, <2>1, <2>2
    <3>2. R \in SUBSET (Live \ refuse) /\ Counts /\ work \in Looking
      BY <1>1, <1>13 DEF IInv, Looking
    <3> QED BY <1>1, <1>16, <2>1, <3>1, <3>2, CountedFromOutside
  <2>3. Supported(h)
    <3>1. CASE h \in Marks
      <4>1. \A y \in Live \ (refuse \cup R) : y \in Live \ Marks
        BY <1>13
      <4> QED BY <2>2, <3>1, <4>1 DEF Supported
    <3>2. CASE h \notin Marks
      BY <2>1, <3>2, <1>13
    <3> QED BY <3>1, <3>2
  <2>4. LookSound(R)'
    <3>1. Elements(todo') \cup Elements(q') = Elements(q)
      BY <1>2, <2>1
    <3> QED BY <3>1, <2>1, <2>3, <1>1, <1>5, <1>9, <1>13, <1>14 DEF LookSound
  <2>5. ASSUME after = Nothing PROVE Outside(R)'
    <3> SUFFICES ASSUME NEW T \in SUBSET (Live \ refuse), ClosedIn(Kids, T), HeldNow \subseteq T,
                        Live \ (refuse \cup R) \subseteq T
                 PROVE  (R \ Marks) \cup {h} \subseteq T
      BY <2>1, <1>1, <1>5, <1>9 DEF Outside
    <3>1. R \ Marks \subseteq T
      BY <2>5, <1>11 DEF Outside
    <3>2. h \in T
      <4>1. CASE h \in Marks
        <5>1. Owed(h) = 0
          BY <2>5 DEF Owed, Nothing
        <5>2. held[h] > 0 => h \in T
          BY <1>1, <1>2 DEF HeldNow, Basics
        <5>3. \A y \in Live \ (refuse \cup R) : h \in RefsIn(Kids, y) => h \in T
          BY DEF ClosedIn
        <5> QED BY <2>2, <4>1, <5>1, <5>2, <5>3
      <4>2. CASE h \notin Marks
        BY <2>1, <3>1, <4>2
      <4> QED BY <4>1, <4>2
    <3> QED BY <3>1, <3>2
  <2>6. InLook' /\ InMark'
    BY <2>1, <2>4, <2>5, <1>1, <1>9, <1>11 DEF InLook, InMark
  <2> QED BY <2>6, <1>8, <1>10 DEF IInv
<1> QED BY <1>15, <1>16

LEMMA UnmarkNew ==
  ASSUME IInv, Following("unmark"), Ref # None, obj[Ref].visited,
         obj' = Marked(Ref, FALSE), todo' = obj[Ref].kid \o Rest,
         UNCHANGED <<gc_set, held, work, root, q, order, refuse, after, collected>>
  PROVE  IInv'
<1>1. Basics /\ work = "unmark" /\ todo # <<>>
  BY BasicsAre DEF Following
<1>2. /\ Ref \in Live /\ Rest \in Seq(Live \cup {None})
      /\ Elements(todo) = {Ref} \cup Elements(Rest)
  BY <1>1, RestIs
<1>3. SameCounts /\ Marks' = Marks \ {Ref} /\ Tmp' = [Tmp EXCEPT ![Ref] = 0]
  <2>1. Objects(obj) /\ Ref \in DOMAIN obj
    BY <1>1, <1>2 DEF Basics, Live
  <2> DEFINE n == 0
             c == FALSE
  <2>2. n \in Int /\ c \in BOOLEAN /\ MarkPut(obj', obj, Ref, c, n)
    BY DEF Marked, MarkPut
  <2>3. c = FALSE
    OBVIOUS
  <2> HIDE DEF n, c
  <2>4. /\ SameKids(obj', obj) /\ RcOf(obj') = RcOf(obj)
        /\ TmpOf(obj') = [TmpOf(obj) EXCEPT ![Ref] = n]
        /\ MarksOf(obj') = IF c THEN MarksOf(obj) \cup {Ref} ELSE MarksOf(obj) \ {Ref}
    BY ONLY <2>1, <2>2, MarkIs
  <2> QED BY <2>3, <2>4 DEF SameCounts, Tmp, Marks, n
<1>4. /\ Kids[Ref] \in Seq(Live \cup {None})
      /\ obj[Ref].kid = Kids[Ref] /\ Elements(Kids[Ref]) = RefsIn(Kids, Ref)
  BY <1>1, <1>2, KidsAre DEF Basics
<1>5. todo' \in Seq(Live \cup {None}) /\ Elements(todo') = RefsIn(Kids, Ref) \cup Elements(Rest)
  BY <1>2, <1>4, ElementsJoined
<1>6. Moving
  BY <1>1, <1>3, <1>5 DEF Moving, Marking, Looking, Basics
<1>7. /\ Typed' /\ Parents(Kids, gc_set)' /\ AfterSound' /\ Counts' /\ DataCounted'
      /\ Acyclic(Kids, gc_set)' /\ Covered' /\ InPass' /\ InSweep' /\ Apart(refuse)'
  BY <1>6, MovingFrame
<1>8. Live' = Live /\ Kids' = Kids /\ Rc' = Rc /\ HeldNow' = HeldNow
  BY <1>3, SameIs DEF HeldNow
<1>9. \A x \in Live : Tmp'[x] = IF x = Ref THEN 0 ELSE Tmp[x]
  BY <1>1, <1>3 DEF Basics
<1>10. PICK R \in SUBSET Live : LookSound(R) /\ (after = Nothing => Outside(R))
  BY <1>1 DEF IInv, InLook, Looking
<1>11. Ref \in R /\ Ref \notin refuse
  BY <1>2, <1>10 DEF LookSound
<1>12. Clean'
  <2>1. refuse \subseteq Marks'
    BY <1>1, <1>3, <1>11 DEF Basics
  <2>2. \A x \in Live \ Marks' : Tmp'[x] = 0
    BY <1>1, <1>3, <1>9 DEF Basics
  <2> QED BY <2>1, <2>2, <1>1, <1>7, <1>8 DEF IInv, Clean, Marking, Looking
<1>13. /\ Region(R) /\ R \cap refuse = {} /\ root \in R \cup refuse /\ Marks \ refuse \subseteq R
       /\ Elements(todo) \cup Elements(q) \subseteq R
       /\ \A x \in Marks \ refuse : /\ Tmp[x] = Refers(Kids, R, x)
                                    /\ Tmp[x] >= Rc[x] \/ x \in Elements(q) \cup Elements(todo)
       /\ \A x \in R \ Marks : RefsIn(Kids, x) \cap Marks \subseteq Elements(todo)
       /\ \A x \in (R \ Marks) \cup Elements(todo) : Supported(x)
  BY <1>10 DEF LookSound
<1>14. Region(R)'
  BY <1>1, <1>8, <1>13 DEF Region
<1>15. ASSUME NEW x \in Marks' \ refuse
       PROVE  /\ Tmp'[x] = Refers(Kids, R, x)
              /\ Tmp'[x] >= Rc[x] \/ x \in Elements(q) \cup Elements(todo')
  <2>1. x \in Marks \ refuse /\ x # Ref /\ x \in Live
    BY <1>1, <1>3 DEF Basics
  <2>2. Tmp'[x] = Tmp[x]
    BY <2>1, <1>9
  <2> QED BY <2>1, <2>2, <1>2, <1>5, <1>13
<1>16. ASSUME NEW x \in R \ Marks' PROVE RefsIn(Kids, x) \cap Marks' \subseteq Elements(todo')
  <2>1. CASE x = Ref
    BY <2>1, <1>5
  <2>2. CASE x # Ref
    <3>1. RefsIn(Kids, x) \cap Marks \subseteq Elements(todo)
      BY <2>2, <1>3, <1>13
    <3> QED BY <3>1, <1>2, <1>3, <1>5
  <2> QED BY <2>1, <2>2
<1>17. ASSUME NEW x \in (R \ Marks') \cup Elements(todo') PROVE Supported(x)'
  <2>1. ASSUME Supported(x) PROVE Supported(x)'
    <3>1. Owed(x)' = Owed(x)
      BY DEF Owed
    <3>2. Live \ Marks \subseteq Live' \ Marks'
      BY <1>3, <1>8
    <3> QED BY <2>1, <3>1, <3>2, <1>8 DEF Supported
  <2>2. CASE x \in RefsIn(Kids, Ref)
    <3>1. Ref \in Live' \ Marks'
      BY <1>2, <1>3, <1>8
    <3> QED BY <2>2, <3>1, <1>8 DEF Supported
  <2>3. CASE x \notin RefsIn(Kids, Ref)
    <3>1. x \in (R \ Marks) \cup Elements(todo)
      BY <2>3, <1>2, <1>3, <1>5
    <3> QED BY <2>1, <3>1, <1>13
  <2> QED BY <2>2, <2>3
<1>18. Elements(todo') \cup Elements(q') \subseteq R
  <2>1. RefsIn(Kids, Ref) \subseteq R
    BY <1>11, <1>13 DEF Region, ClosedIn
  <2> QED BY <2>1, <1>2, <1>5, <1>13
<1>19. LookSound(R)'
  <2>1. Marks' \ refuse \subseteq R
    BY <1>3, <1>13
  <2> QED BY <2>1, <1>8, <1>13, <1>14, <1>15, <1>16, <1>17, <1>18 DEF LookSound
<1>20. ASSUME after = Nothing PROVE Outside(R)'
  <2> SUFFICES ASSUME NEW T \in SUBSET (Live \ refuse), ClosedIn(Kids, T), HeldNow \subseteq T,
                      Live \ (refuse \cup R) \subseteq T
               PROVE  (R \ Marks') \cup Elements(todo') \subseteq T
    BY <1>8 DEF Outside
  <2>1. (R \ Marks) \cup Elements(todo) \subseteq T
    BY <1>10, <1>20 DEF Outside
  <2>2. RefsIn(Kids, Ref) \subseteq T
    BY <2>1, <1>2 DEF ClosedIn
  <2> QED BY <2>1, <2>2, <1>2, <1>3, <1>5
<1>21. InMark' /\ InLook'
  BY <1>1, <1>8, <1>19, <1>20 DEF InMark, InLook
<1> QED BY <1>7, <1>12, <1>21 DEF IInv

LEMMA UnmarkSkip ==
  ASSUME IInv, Following("unmark"), ~(Ref # None /\ obj[Ref].visited),
         obj' = obj, todo' = Rest,
         UNCHANGED <<gc_set, held, work, root, q, order, refuse, after, collected>>
  PROVE  IInv'
<1>1. Basics /\ work = "unmark" /\ todo # <<>>
  BY BasicsAre DEF Following
<1>2. /\ Ref \in Live \cup {None} /\ Rest \in Seq(Live \cup {None})
      /\ Elements(todo) = ({Ref} \ {None}) \cup Elements(Rest)
  BY <1>1, RestIs
<1>3. SameCounts /\ Marks' = Marks /\ Tmp' = Tmp
  BY <1>1, Unchanged DEF Basics
<1>4. Ref \notin Marks
  BY <1>1, <1>2, FieldsAre DEF Basics, Live, Marks
<1>5. Moving
  BY <1>1, <1>2, <1>3 DEF Moving, Marking, Looking, Basics
<1>6. /\ Typed' /\ Parents(Kids, gc_set)' /\ AfterSound' /\ Counts' /\ DataCounted'
      /\ Acyclic(Kids, gc_set)' /\ Covered' /\ InPass' /\ InSweep' /\ Apart(refuse)'
  BY <1>5, MovingFrame
<1>7. Live' = Live /\ Kids' = Kids /\ Rc' = Rc /\ HeldNow' = HeldNow
  BY <1>3, SameIs DEF HeldNow
<1>8. Clean'
  BY <1>1, <1>3, <1>6, <1>7 DEF IInv, Clean, Marking, Looking
<1>9. PICK R \in SUBSET Live : LookSound(R) /\ (after = Nothing => Outside(R))
  BY <1>1 DEF IInv, InLook, Looking
<1>10. /\ Region(R) /\ R \cap refuse = {} /\ root \in R \cup refuse /\ Marks \ refuse \subseteq R
       /\ Elements(todo) \cup Elements(q) \subseteq R
       /\ \A x \in Marks \ refuse : /\ Tmp[x] = Refers(Kids, R, x)
                                    /\ Tmp[x] >= Rc[x] \/ x \in Elements(q) \cup Elements(todo)
       /\ \A x \in R \ Marks : RefsIn(Kids, x) \cap Marks \subseteq Elements(todo)
       /\ \A x \in (R \ Marks) \cup Elements(todo) : Supported(x)
  BY <1>9 DEF LookSound
<1>11. Region(R)' /\ \A x : Supported(x)' = Supported(x)
  <2>1. \A x : Owed(x)' = Owed(x)
    BY <1>1 DEF Owed
  <2> QED BY <2>1, <1>1, <1>3, <1>7, <1>10 DEF Region, Supported
<1>12. Elements(todo') \subseteq Elements(todo) /\ Elements(todo) \cap Marks \subseteq Elements(todo')
  BY <1>2, <1>4
<1>13. LookSound(R)'
  BY <1>3, <1>7, <1>10, <1>11, <1>12 DEF LookSound
<1>14. after = Nothing => Outside(R)'
  BY <1>3, <1>7, <1>9, <1>12 DEF Outside
<1>15. InMark' /\ InLook'
  BY <1>1, <1>7, <1>13, <1>14 DEF InMark, InLook
<1> QED BY <1>6, <1>8, <1>15 DEF IInv

LEMMA UnmarkedStep ==
  ASSUME IInv, unmarked
  PROVE  IInv'
<1>1. /\ Basics /\ work = "unmark" /\ todo = <<>> /\ work' = "check" /\ obj' = obj
      /\ UNCHANGED <<gc_set, held, todo, root, q, order, refuse, after, collected>>
  BY BasicsAre DEF unmarked, memory, pass
<1>2. SameCounts /\ Marks' = Marks /\ Tmp' = Tmp
  BY <1>1, Unchanged DEF Basics
<1>3. Moving
  BY <1>1, <1>2 DEF Moving, Marking, Looking, Basics
<1>4. /\ Typed' /\ Parents(Kids, gc_set)' /\ AfterSound' /\ Counts' /\ DataCounted'
      /\ Acyclic(Kids, gc_set)' /\ Covered' /\ InPass' /\ InSweep' /\ Apart(refuse)'
  BY <1>3, MovingFrame
<1>5. Live' = Live /\ Kids' = Kids /\ Rc' = Rc /\ HeldNow' = HeldNow
  BY <1>1, <1>2, SameIs DEF HeldNow
<1>6. Clean'
  BY <1>1, <1>2, <1>4, <1>5 DEF IInv, Clean, Marking, Looking
<1>7. PICK R \in SUBSET Live : LookSound(R) /\ (after = Nothing => Outside(R))
  BY <1>1 DEF IInv, InLook, Looking
<1>8. \A x : Supported(x)' = Supported(x)
  <2>1. \A x : Owed(x)' = Owed(x)
    BY <1>1 DEF Owed
  <2> QED BY <2>1, <1>1, <1>2, <1>5 DEF Supported
<1>9. LookSound(R)'
  <2>1. Region(R)'
    BY <1>1, <1>5, <1>7 DEF LookSound, Region
  <2> QED BY <2>1, <1>1, <1>2, <1>5, <1>7, <1>8 DEF LookSound
<1>10. after = Nothing => Outside(R)'
  BY <1>1, <1>2, <1>5, <1>7 DEF Outside
<1>11. InMark' /\ InLook'
  BY <1>1, <1>5, <1>9, <1>10 DEF InMark, InLook
<1> QED BY <1>4, <1>6, <1>11 DEF IInv

(* Sweeping.                                                               *)
Sweeping ==
  /\ SameKids(obj', obj) /\ TmpOf(obj') = TmpOf(obj) /\ MarksOf(obj') = MarksOf(obj)
  /\ UNCHANGED <<gc_set, held, root, q, order, after, collected>>
  /\ work \in {"check", "sweep"} /\ work' \in {"sweep", "pass"} /\ q = <<>>
  /\ todo' \in Seq(Live \cup {None})
  /\ refuse \subseteq refuse' /\ refuse' \subseteq Marks
  /\ refuse' = refuse \/ root \in refuse'

LEMMA SweepingFrame ==
  ASSUME IInv, Sweeping
  PROVE  /\ Live' = Live /\ Kids' = Kids /\ Marks' = Marks /\ HeldNow' = HeldNow
         /\ \A x : Owed(x)' = Owed(x) /\ Supported(x)' = Supported(x)
         /\ Typed' /\ Parents(Kids, gc_set)' /\ AfterSound' /\ Acyclic(Kids, gc_set)'
         /\ InMark' /\ Covered' /\ InLook'
<1> USE DEF Sweeping
<1>1. /\ Live' = Live /\ Kids' = Kids /\ Objects(obj)' /\ FunsOf(obj') = FunsOf(obj)
      /\ Marks' = Marks /\ Tmp' = Tmp
  BY DEF SameKids, Live, Kids, Marks, Tmp
<1>2. HeldNow' = HeldNow /\ \A x : Owed(x)' = Owed(x)
  BY DEF HeldNow, Owed
<1>3. \A x : Supported(x)' = Supported(x)
  BY <1>1, <1>2 DEF Supported
<1>4. Typed'
  <2>1. Typed /\ Basics
    BY BasicsAre DEF IInv
  <2>2. /\ work' \in {"idle", "delete"} \cup Passing /\ work # "idle"
        /\ refuse' \subseteq Live
    BY <2>1 DEF Passing, Basics
  <2>3. UNCHANGED <<gc_set, held, q, order, collected>> /\ todo' \in Seq(Live \cup {None})
    OBVIOUS
  <2> HIDE DEF Sweeping
  <2> QED BY <1>1, <1>2, <2>1, <2>2, <2>3 DEF Typed
<1>5. Parents(Kids, gc_set)' /\ Acyclic(Kids, gc_set)'
  BY <1>1 DEF IInv, Parents, Acyclic
<1>6. AfterSound'
  <2>1. CASE after = Nothing
    BY <2>1 DEF AfterSound, Nothing, NoRefs
  <2>2. CASE Returning
    <3>1. work' \in Passing
      BY DEF Passing, Marking, Looking
    <3>2. order \subseteq {after.f} /\ root = after.f /\ (refuse # {} => after.f \in refuse)
      BY <2>2 DEF Returning
    <3>3. refuse' # {} => after.f \in refuse'
      BY <3>2
    <3> QED BY <1>1, <2>2, <3>1, <3>2, <3>3 DEF AfterSound, Returning
  <2>3. CASE \E v \in Objs : Binding(v)
    BY <2>3 DEF Binding
  <2> QED BY <2>1, <2>2, <2>3 DEF IInv, AfterSound
<1>7. InMark' /\ Covered' /\ InLook'
  BY DEF InMark, Covered, InLook, Marking, Looking
<1> QED BY <1>1, <1>2, <1>3, <1>4, <1>5, <1>6, <1>7

(* The sum of the references to x does not change when an object's are to  *)
(* be given up.                                                            *)
LEMMA SweptIs ==
  ASSUME Basics, NEW y \in Live \ refuse, NEW x \in Live, NEW s \in Seq(Live \cup {None})
  PROVE  /\ Kids[y] \o s \in Seq(Live \cup {None})
         /\ Elements(Kids[y] \o s) = RefsIn(Kids, y) \cup Elements(s)
         /\ Refers(Kids, Live \ refuse, x) + Places(x, s)
              = Refers(Kids, Live \ (refuse \cup {y}), x) + Places(x, Kids[y] \o s)
         /\ Refers(Kids, Live \ refuse, x) \in Nat /\ Places(x, s) \in Nat
         /\ Refers(Kids, Live \ (refuse \cup {y}), x) \in Nat
         /\ Places(x, Kids[y] \o s) \in Nat
<1> DEFINE D == Live \ (refuse \cup {y})
           k == Kids[y]
<1>1. /\ k \in [1 .. Size -> Live \cup {None}] /\ k \in Seq(Live \cup {None})
      /\ Elements(k) = RefsIn(Kids, y)
  BY KidsAre DEF Basics
<1>2. k \o s \in Seq(Live \cup {None}) /\ Elements(k \o s) = RefsIn(Kids, y) \cup Elements(s)
  BY <1>1, ElementsJoined
<1>3. Places(x, k \o s) = Places(x, k) + Places(x, s) /\ Places(x, k) \in Nat /\ Places(x, s) \in Nat
  BY <1>1, PlacesJoined, PlacesAre
<1>4. IsFiniteSet(D) /\ y \notin D /\ D \cup {y} = Live \ refuse
  BY FS_Subset DEF Basics
<1> HIDE DEF D
<1>5. Refers(Kids, D, x) \in Nat
  BY <1>4, RefersAre
<1>6. Refers(Kids, D \cup {y}, x) = Refers(Kids, D, x) + Places(x, Kids[y])
  <2>1. Kids[y] \in [1 .. Size -> Live \cup {None}]
    BY <1>1
  <2> QED BY ONLY <1>4, <2>1, RefersMore
<1> DEFINE a == Refers(Kids, D, x)
           b == Places(x, k)
           c == Places(x, s)
<1>7. Refers(Kids, Live \ refuse, x) = a + b /\ Places(x, k \o s) = b + c
      /\ Refers(Kids, Live \ (refuse \cup {y}), x) = a
  BY <1>3, <1>4, <1>6 DEF D
<1>8. a \in Nat /\ b \in Nat /\ c \in Nat
  BY <1>3, <1>5
<1> HIDE DEF a, b
<1>9. (a + b) + c = a + (b + c) /\ a + b \in Nat /\ b + c \in Nat
  BY <1>8
<1>10. /\ Refers(Kids, Live \ refuse, x) + Places(x, s)
              = Refers(Kids, Live \ (refuse \cup {y}), x) + Places(x, k \o s)
       /\ Refers(Kids, Live \ refuse, x) \in Nat /\ Places(x, k \o s) \in Nat
       /\ Refers(Kids, Live \ (refuse \cup {y}), x) \in Nat
  BY <1>7, <1>8, <1>9
<1> QED BY <1>2, <1>3, <1>10

(* Where all references of all objects were counted, nothing else refers   *)
(* to one that has no more.                                                *)
LEMMA CountedWithin ==
  ASSUME Basics, Counts, work = "check", NEW R \in SUBSET (Live \ refuse),
         NEW x \in R, Refers(Kids, R, x) >= Rc[x]
  PROVE  /\ held[x] = 0 /\ Owed(x) = 0
         /\ \A y \in Live \ (refuse \cup R) : x \notin RefsIn(Kids, y)
<1> DEFINE D == Live \ refuse
<1>1. IsFiniteSet(D) /\ R \in SUBSET D /\ x \in Live /\ x # None
  BY FS_Subset DEF Basics
<1>2. Rc[x] = held[x] + Refers(Kids, D, x) + GivenUp(x) + Owed(x)
  BY <1>1 DEF Counts
<1>3. GivenUp(x) = 0 /\ Owed(x) \in Nat /\ held[x] \in Nat
  BY <1>1 DEF GivenUp, Owed, Basics
<1>4. \A y \in Live \ (refuse \cup R) : y \in D \ R
  OBVIOUS
<1> HIDE DEF D
<1>5. /\ Refers(Kids, R, x) \in Nat /\ Refers(Kids, D, x) \in Nat
      /\ Refers(Kids, R, x) <= Refers(Kids, D, x)
      /\ Refers(Kids, R, x) = Refers(Kids, D, x) => \A y \in D \ R, i \in 1 .. Size : Kids[y][i] # x
  BY <1>1, RefersWithin
<1>6. held[x] = 0 /\ Owed(x) = 0 /\ Refers(Kids, R, x) = Refers(Kids, D, x)
  BY <1>2, <1>3, <1>5
<1>7. \A y \in D \ R : x \notin RefsIn(Kids, y)
  BY <1>5, <1>6 DEF RefsIn
<1> QED BY <1>4, <1>6, <1>7

LEMMA SweepStep ==
  ASSUME IInv, sweep
  PROVE  IInv'
<1>1. /\ Basics /\ work = "check" /\ q = <<>> /\ work' = "sweep" /\ obj' = obj
      /\ UNCHANGED <<gc_set, held, root, q, order, after, collected>>
  BY BasicsAre DEF sweep, memory
<1>2. todo = <<>> /\ Apart(refuse) /\ root \in gc_set /\ root \in Live
  BY <1>1 DEF IInv, Clean, Basics
<1>3. /\ obj[root].kid = Kids[root] /\ Kids[root] \in Seq(Live \cup {None})
      /\ Elements(Kids[root]) = RefsIn(Kids, root)
      /\ obj[root].visited <=> root \in Marks
  BY <1>1, <1>2, KidsAre, FieldsAre DEF Basics, Live, Marks
<1>4. Kids[root] \o <<>> = Kids[root]
  BY <1>3, ConcatEmptySeq
<1>5. \/ /\ root \in Marks \ refuse /\ refuse' = refuse \cup {root}
         /\ todo' = Kids[root] \o <<>>
      \/ root \notin Marks \ refuse /\ refuse' = refuse /\ todo' = <<>>
  BY <1>2, <1>3 DEF sweep, Dead, Swept
<1>6. SameCounts /\ Marks' = Marks /\ Tmp' = Tmp
  BY <1>1, Unchanged DEF Basics
<1>7. Sweeping
  <2>1. <<>> \in Seq(Live \cup {None})
    OBVIOUS
  <2>2. todo' = <<>> \/ todo' = Kids[root]
    BY <1>4, <1>5
  <2>3. todo' \in Seq(Live \cup {None})
    BY <2>1, <2>2, <1>3
  <2> QED BY <2>3, <1>1, <1>5, <1>6 DEF Sweeping, SameCounts, Basics, Marks, Tmp
<1>8. /\ Live' = Live /\ Kids' = Kids /\ Marks' = Marks /\ HeldNow' = HeldNow
      /\ \A x : Owed(x)' = Owed(x) /\ Supported(x)' = Supported(x)
      /\ Typed' /\ Parents(Kids, gc_set)' /\ AfterSound' /\ Acyclic(Kids, gc_set)'
      /\ InMark' /\ Covered' /\ InLook'
  BY <1>7, SweepingFrame
<1>9. Rc' = Rc
  BY <1>6, SameIs
<1>10. Counts'
  <2> SUFFICES ASSUME NEW x \in Live
               PROVE  Rc[x] = held[x] + Refers(Kids, Live \ refuse', x) + GivenUp(x)' + Owed(x)
    BY <1>1, <1>8, <1>9 DEF Counts
  <2>1. Rc[x] = held[x] + Refers(Kids, Live \ refuse, x) + GivenUp(x) + Owed(x)
    BY DEF IInv, Counts
  <2>2. GivenUp(x) = 0 /\ GivenUp(x)' = Places(x, todo')
    BY <1>1 DEF GivenUp
  <2>3. Refers(Kids, Live \ refuse, x) = Refers(Kids, Live \ refuse', x) + Places(x, todo')
        /\ Refers(Kids, Live \ refuse', x) \in Nat /\ Places(x, todo') \in Nat
    <3>1. CASE refuse' = refuse /\ todo' = <<>>
      <4>1. IsFiniteSet(Live \ refuse)
        BY <1>1, FS_Subset DEF Basics
      <4>2. Refers(Kids, Live \ refuse, x) \in Nat
        BY <4>1, RefersAre
      <4>3. Places(x, todo') = 0
        BY <3>1, PlacesEmpty
      <4> QED BY <3>1, <4>2, <4>3
    <3>2. CASE root \in Marks \ refuse /\ refuse' = refuse \cup {root} /\ todo' = Kids[root] \o <<>>
      <4> DEFINE s == <<>>
      <4>1. s \in Seq(Live \cup {None}) /\ root \in Live \ refuse /\ Places(x, s) = 0
        BY <1>2, <3>2, PlacesEmpty
      <4>2. todo' = Kids[root] \o s
        BY <3>2
      <4> HIDE DEF s
      <4>3. /\ Refers(Kids, Live \ refuse, x) + Places(x, s)
                 = Refers(Kids, Live \ (refuse \cup {root}), x) + Places(x, Kids[root] \o s)
            /\ Refers(Kids, Live \ refuse, x) \in Nat /\ Places(x, s) \in Nat
            /\ Refers(Kids, Live \ (refuse \cup {root}), x) \in Nat
            /\ Places(x, Kids[root] \o s) \in Nat
        BY <1>1, <4>1, SweptIs
      <4>4. Live \ (refuse \cup {root}) = Live \ refuse' /\ Kids[root] \o s = todo'
        BY <3>2, <4>2
      <4>5. Refers(Kids, Live \ refuse, x) + 0 = Refers(Kids, Live \ refuse', x) + Places(x, todo')
        BY ONLY <4>1, <4>3, <4>4
      <4>6. Refers(Kids, Live \ refuse', x) \in Nat /\ Places(x, todo') \in Nat
        BY ONLY <4>3, <4>4
      <4>7. Refers(Kids, Live \ refuse, x) + 0 = Refers(Kids, Live \ refuse, x)
        BY <4>3
      <4> QED BY ONLY <4>5, <4>6, <4>7
    <3> QED BY <1>5, <3>1, <3>2
  <2>4. held[x] \in Nat /\ Owed(x) \in Nat
    BY <1>1 DEF Basics, Owed
  <2> QED BY <2>1, <2>2, <2>3, <2>4
<1>11. Clean'
  <2>1. refuse' \subseteq Marks
    BY <1>1, <1>5 DEF Basics
  <2> QED BY <2>1, <1>1, <1>2, <1>6, <1>8 DEF Clean, Marking, Looking, Basics
<1>12. PICK R \in SUBSET Live : LookSound(R) /\ (after = Nothing => Outside(R))
  BY <1>1 DEF IInv, InLook, Looking
<1>13. Elements(todo) = {} /\ Elements(q) = {}
  BY <1>1, <1>2, ElementsEmpty
<1>14. /\ Region(R) /\ R \cap refuse = {} /\ root \in R \cup refuse /\ Marks \ refuse \subseteq R
       /\ \A x \in Marks \ refuse : Tmp[x] = Refers(Kids, R, x) /\ Tmp[x] >= Rc[x]
       /\ \A x \in R \ Marks : RefsIn(Kids, x) \cap Marks = {}
       /\ \A x \in R \ Marks : Supported(x)
  BY <1>12, <1>13 DEF LookSound
<1>15. Apart(Marks)
  <2> SUFFICES ASSUME NEW x \in Marks
               PROVE  /\ held[x] = 0 /\ Owed(x) = 0
                      /\ \A y \in Live \ Marks : x \notin RefsIn(Kids, y)
    BY DEF Apart
  <2>1. CASE x \in refuse
    BY <2>1, <1>1, <1>2 DEF Apart, Basics
  <2>2. CASE x \notin refuse
    <3>1. R \in SUBSET (Live \ refuse) /\ x \in R /\ Refers(Kids, R, x) >= Rc[x] /\ Counts
      BY <2>2, <1>14 DEF IInv
    <3>2. held[x] = 0 /\ Owed(x) = 0 /\ \A y \in Live \ (refuse \cup R) : x \notin RefsIn(Kids, y)
      BY <1>1, <3>1, CountedWithin
    <3>3. \A y \in Live \ Marks : y \in R \ Marks \/ y \in Live \ (refuse \cup R)
      BY <1>1 DEF Basics
    <3> QED BY <3>2, <3>3, <1>14
  <2> QED BY <2>1, <2>2
<1>16. ASSUME NEW x \in refuse' \cap R
       PROVE  RefsIn(Kids, x) \cap Marks \subseteq refuse' \cup Elements(todo')
  <2>1. x = root /\ todo' = Kids[root] \o <<>>
    BY <1>5, <1>14
  <2> QED BY <2>1, <1>3, <1>4
<1>17. ASSUME NEW x \in Live \ (Marks \cup gc_set) PROVE Supported(x)
  <2>1. CASE x \in R
    BY <2>1, <1>14
  <2>2. CASE x \notin R
    <3>1. Rc[x] > 0
      BY <1>1 DEF IInv, DataCounted, Basics
    <3>2. Rc[x] = held[x] + Refers(Kids, Live \ refuse, x) + GivenUp(x) + Owed(x)
      BY DEF IInv, Counts
    <3>3. GivenUp(x) = 0 /\ held[x] \in Nat /\ Owed(x) \in Nat
      BY <1>1 DEF GivenUp, Basics, Owed
    <3>4. IsFiniteSet(Live \ refuse)
      BY <1>1, FS_Subset DEF Basics
    <3>5. held[x] > 0 \/ Owed(x) > 0 \/ \E y \in Live \ refuse, i \in 1 .. Size : Kids[y][i] = x
      <4>1. Refers(Kids, Live \ refuse, x) \in Nat
            /\ (Refers(Kids, Live \ refuse, x) = 0 <=>
                  \A y \in Live \ refuse, i \in 1 .. Size : Kids[y][i] # x)
        BY <3>4, RefersAre
      <4> QED BY <3>1, <3>2, <3>3, <4>1
    <3>6. ASSUME NEW y \in Live \ refuse, NEW i \in 1 .. Size, Kids[y][i] = x PROVE Supported(x)
      <4>1. x \in RefsIn(Kids, y)
        BY <3>6, <1>1 DEF RefsIn, Basics
      <4>2. y \notin R
        BY <4>1, <2>2, <1>14 DEF Region, ClosedIn
      <4>3. y \in Live \ Marks
        BY <4>2, <1>14
      <4> QED BY <4>1, <4>3 DEF Supported
    <3> QED BY <3>5, <3>6 DEF Supported
  <2> QED BY <2>1, <2>2
<1>18. ASSUME after = Nothing PROVE Complete(Live \ Marks, order)
  <2> SUFFICES ASSUME NEW T \in SUBSET (Live \ Marks), ClosedIn(Kids, T), HeldNow \subseteq T,
                      order \cap (Live \ Marks) \subseteq T
               PROVE  Live \ Marks \subseteq T
    BY DEF Complete
  <2> DEFINE U == T \cup R
  <2>1. U \in SUBSET (Live \ refuse)
    BY <1>1, <1>14 DEF Basics
  <2>2. ClosedIn(Kids, U)
    BY <1>14 DEF ClosedIn, Region
  <2>3. (order \cup {root}) \cap (Live \ refuse) \subseteq U
    BY <1>14
  <2>4. Complete(Live \ refuse, order \cup {root})
    BY <1>1, <1>18 DEF IInv, Covered, Marking, Looking
  <2>5. U = Live \ refuse
    <3>1. HeldNow \subseteq U
      OBVIOUS
    <3> HIDE DEF U
    <3> QED BY <2>1, <2>2, <2>3, <2>4, <3>1 DEF Complete
  <2>6. R \ Marks \subseteq T
    <3>1. T \in SUBSET (Live \ refuse) /\ Live \ (refuse \cup R) \subseteq T
      BY <1>1, <2>5 DEF Basics
    <3> QED BY <1>12, <1>18, <3>1 DEF Outside
  <2> QED BY <2>5, <2>6, <1>1 DEF Basics
<1>19. SweepSound(R)'
  <2>1. Region(R)' /\ Apart(Marks)'
    BY <1>1, <1>8, <1>14, <1>15 DEF Region, Apart
  <2>2. Marks \ refuse' \subseteq R /\ (root \in Marks \/ todo' # <<>> => root \in refuse')
    BY <1>5, <1>14
  <2>3. after' = Nothing => Complete(Live \ Marks, order)'
    BY <1>1, <1>8, <1>18 DEF Complete, Nothing, NoRefs
  <2> QED BY <2>1, <2>2, <2>3, <1>1, <1>8, <1>16, <1>17 DEF SweepSound
<1>20. InSweep' /\ InPass' /\ DataCounted'
  BY <1>1, <1>8, <1>19 DEF InSweep, InPass, DataCounted
<1> QED BY <1>8, <1>10, <1>11, <1>20 DEF IInv

(* One reference less.                                                     *)
LEMMA CountedOff ==
  ASSUME Basics, todo # <<>>, obj' = Count(Ref, -1)
  PROVE  /\ SameKids(obj', obj) /\ Tmp' = Tmp /\ Marks' = Marks
         /\ Live' = Live /\ Kids' = Kids
         /\ \A x \in Live : Rc'[x] = Rc[x] - One(x, Ref)
<1>1. Ref \in Live \cup {None} /\ Objects(obj) /\ Rc \in [Live -> Int] /\ None \notin Live
  BY RestIs DEF Basics
<1>2. CASE Ref = None
  <2>1. obj' = obj
    BY <1>2 DEF Count
  <2>2. \A x \in Live : One(x, Ref) = 0 /\ Rc[x] \in Int
    BY <1>1, <1>2 DEF One
  <2> QED BY <1>1, <2>1, <2>2 DEF SameKids, Tmp, Marks, Live, Kids, Rc
<1>3. CASE Ref # None
  <2> DEFINE n == -1
  <2>1. n = -1 /\ n \in Int
    OBVIOUS
  <2>2. CountPut(obj', obj, Ref, n)
    BY <1>3 DEF Count, CountPut
  <2> HIDE DEF n
  <2>3. Objects(obj) /\ Ref \in DOMAIN obj
    BY <1>1, <1>3 DEF Live
  <2>4. /\ SameKids(obj', obj) /\ TmpOf(obj') = TmpOf(obj) /\ MarksOf(obj') = MarksOf(obj)
        /\ RcOf(obj') = [RcOf(obj) EXCEPT ![Ref] = RcOf(obj)[Ref] + n]
    BY ONLY <2>1, <2>2, <2>3, CountIs
  <2>5. ASSUME NEW x \in Live PROVE Rc'[x] = Rc[x] - One(x, Ref)
    <3>1. Rc' = [Rc EXCEPT ![Ref] = Rc[Ref] + n]
      BY <2>4 DEF Rc
    <3> QED BY <1>1, <2>1, <3>1 DEF One
  <2> QED BY <2>4, <2>5 DEF SameKids, Tmp, Marks, Live, Kids
<1> QED BY <1>2, <1>3

LEMMA SweepNextStep ==
  ASSUME IInv, sweep_next
  PROVE  IInv'
<1>1. /\ Basics /\ work = "sweep" /\ todo # <<>> /\ work' = "sweep" /\ obj' = Count(Ref, -1)
      /\ UNCHANGED <<gc_set, held, root, q, order, after, collected>>
  BY BasicsAre DEF sweep_next, Following
<1>2. /\ Ref \in Live \cup {None} /\ Rest \in Seq(Live \cup {None})
      /\ Elements(todo) = ({Ref} \ {None}) \cup Elements(Rest)
      /\ \A x \in Live : /\ Places(x, Rest) \in Nat
                         /\ Places(x, todo) = One(x, Ref) + Places(x, Rest)
  BY <1>1, RestIs
<1>3. /\ SameKids(obj', obj) /\ Tmp' = Tmp /\ Marks' = Marks
      /\ \A x \in Live : Rc'[x] = Rc[x] - One(x, Ref)
  BY <1>1, CountedOff
<1>4. \/ /\ Ref \in Marks \ refuse /\ refuse' = refuse \cup {Ref}
         /\ todo' = Kids[Ref] \o Rest
      \/ Ref \notin Marks \ refuse /\ refuse' = refuse /\ todo' = Rest
  <2>1. CASE Ref = None
    BY <2>1, <1>1 DEF sweep_next, Basics
  <2>2. CASE Ref # None
    <3>1. (obj[Ref].visited <=> Ref \in Marks) /\ obj[Ref].kid = Kids[Ref]
      BY <1>1, <1>2, <2>2, KidsAre, FieldsAre DEF Basics, Live, Marks
    <3> QED BY <2>2, <3>1 DEF sweep_next, Dead, Swept
  <2> QED BY <2>1, <2>2
<1>5. PICK R \in SUBSET Live : SweepSound(R)
  BY <1>1 DEF IInv, InSweep
<1>6. root \in refuse /\ q = <<>>
  BY <1>1, <1>5 DEF SweepSound, IInv, Clean, Marking, Looking
<1>7. ASSUME NEW x \in Live, Ref \in Marks \ refuse
      PROVE  /\ Kids[Ref] \o Rest \in Seq(Live \cup {None})
             /\ Elements(Kids[Ref] \o Rest) = RefsIn(Kids, Ref) \cup Elements(Rest)
             /\ Refers(Kids, Live \ refuse, x) + Places(x, Rest)
                  = Refers(Kids, Live \ (refuse \cup {Ref}), x) + Places(x, Kids[Ref] \o Rest)
             /\ Refers(Kids, Live \ refuse, x) \in Nat /\ Places(x, Rest) \in Nat
             /\ Refers(Kids, Live \ (refuse \cup {Ref}), x) \in Nat
             /\ Places(x, Kids[Ref] \o Rest) \in Nat
  <2>1. Ref \in Live \ refuse
    BY <1>1, <1>7 DEF Basics
  <2> HIDE DEF Ref, Rest
  <2> QED BY <1>1, <1>2, <2>1, SweptIs
<1>8. Sweeping
  <2>1. todo' \in Seq(Live \cup {None})
    <3>1. CASE todo' = Rest
      BY <3>1, <1>2
    <3>2. CASE Ref \in Marks \ refuse /\ todo' = Kids[Ref] \o Rest
      <4>1. Ref \in Live
        BY <3>2, <1>1 DEF Basics
      <4> QED BY <3>2, <4>1, <1>7
    <3> QED BY <1>4, <3>1, <3>2
  <2>2. refuse \subseteq refuse' /\ refuse' \subseteq Marks
    BY <1>1, <1>4 DEF Basics
  <2> QED BY <2>1, <2>2, <1>1, <1>3, <1>6 DEF Sweeping, Tmp, Marks
<1>9. /\ Live' = Live /\ Kids' = Kids /\ HeldNow' = HeldNow
      /\ \A x : Owed(x)' = Owed(x) /\ Supported(x)' = Supported(x)
      /\ Typed' /\ Parents(Kids, gc_set)' /\ AfterSound' /\ Acyclic(Kids, gc_set)'
      /\ InMark' /\ Covered' /\ InLook'
  BY <1>8, SweepingFrame
<1>10. Counts'
  <2> SUFFICES ASSUME NEW x \in Live
               PROVE  Rc'[x] = held[x] + Refers(Kids, Live \ refuse', x) + GivenUp(x)' + Owed(x)
    BY <1>1, <1>9 DEF Counts
  <2>1. Rc[x] = held[x] + Refers(Kids, Live \ refuse, x) + GivenUp(x) + Owed(x)
    BY DEF IInv, Counts
  <2>2. GivenUp(x) = One(x, Ref) + Places(x, Rest) /\ GivenUp(x)' = Places(x, todo')
    BY <1>1, <1>2 DEF GivenUp
  <2>3. Refers(Kids, Live \ refuse, x) + Places(x, Rest)
          = Refers(Kids, Live \ refuse', x) + Places(x, todo')
        /\ Refers(Kids, Live \ refuse, x) \in Nat /\ Places(x, Rest) \in Nat
        /\ Refers(Kids, Live \ refuse', x) \in Nat /\ Places(x, todo') \in Nat
    <3>1. CASE refuse' = refuse /\ todo' = Rest
      <4>1. IsFiniteSet(Live \ refuse)
        BY <1>1, FS_Subset DEF Basics
      <4>2. Refers(Kids, Live \ refuse, x) \in Nat
        BY <4>1, RefersAre
      <4> QED BY <3>1, <4>2, <1>2
    <3>2. CASE Ref \in Marks \ refuse /\ refuse' = refuse \cup {Ref} /\ todo' = Kids[Ref] \o Rest
      <4>1. Live \ (refuse \cup {Ref}) = Live \ refuse' /\ Kids[Ref] \o Rest = todo'
        BY <3>2
      <4>2. /\ Refers(Kids, Live \ refuse, x) + Places(x, Rest)
                  = Refers(Kids, Live \ (refuse \cup {Ref}), x) + Places(x, Kids[Ref] \o Rest)
             /\ Refers(Kids, Live \ refuse, x) \in Nat /\ Places(x, Rest) \in Nat
             /\ Refers(Kids, Live \ (refuse \cup {Ref}), x) \in Nat
             /\ Places(x, Kids[Ref] \o Rest) \in Nat
        BY <1>7, <3>2
      <4> QED BY ONLY <4>1, <4>2
    <3> QED BY <1>4, <3>1, <3>2
  <2>4. held[x] \in Nat /\ Owed(x) \in Nat /\ One(x, Ref) \in Nat /\ Rc'[x] = Rc[x] - One(x, Ref)
    BY <1>1, <1>3 DEF Basics, Owed, One
  <2> DEFINE a == Refers(Kids, Live \ refuse, x)
             b == Places(x, Rest)
             c == Refers(Kids, Live \ refuse', x)
             d == Places(x, todo')
             h == held[x]
             o == Owed(x)
             n == One(x, Ref)
  <2>5. /\ a + b = c + d /\ a \in Nat /\ b \in Nat /\ c \in Nat /\ d \in Nat
        /\ h \in Nat /\ o \in Nat /\ n \in Nat
    BY <2>3, <2>4
  <2>6. Rc'[x] = (h + a + (n + b) + o) - n
    BY <2>1, <2>2, <2>4
  <2>7. held[x] + Refers(Kids, Live \ refuse', x) + GivenUp(x)' + Owed(x) = h + c + d + o
    BY <2>2
  <2> HIDE DEF a, b, c, d, h, o, n
  <2>8. (h + a + (n + b) + o) - n = h + c + d + o
    BY ONLY <2>5
  <2> QED BY <2>6, <2>7, <2>8
<1>11. Clean'
  <2>1. refuse' \subseteq Marks
    BY <1>8 DEF Sweeping
  <2>2. root \in gc_set
    BY <1>1 DEF IInv, Clean
  <2> QED BY <2>1, <2>2, <1>1, <1>3, <1>6, <1>9 DEF Clean, Marking, Looking, Basics
<1>12. /\ Region(R) /\ Marks \ refuse \subseteq R /\ Apart(Marks)
       /\ \A x \in refuse \cap R : RefsIn(Kids, x) \cap Marks \subseteq refuse \cup Elements(todo)
       /\ \A x \in Live \ (Marks \cup gc_set) : Supported(x)
       /\ after = Nothing => Complete(Live \ Marks, order)
  BY <1>5 DEF SweepSound
<1>13. ASSUME NEW x \in refuse' \cap R
       PROVE  RefsIn(Kids, x) \cap Marks \subseteq refuse' \cup Elements(todo')
  <2>1. CASE refuse' = refuse /\ todo' = Rest /\ Ref \notin Marks \ refuse
    BY <2>1, <1>2, <1>12
  <2>2. CASE Ref \in Marks \ refuse /\ refuse' = refuse \cup {Ref} /\ todo' = Kids[Ref] \o Rest
    <3>1. Elements(todo') = RefsIn(Kids, Ref) \cup Elements(Rest)
      <4>1. Ref \in Live
        BY <2>2, <1>1 DEF Basics
      <4> QED BY <2>2, <4>1, <1>7
    <3>2. CASE x = Ref
      BY <3>1, <3>2
    <3>3. CASE x # Ref
      <4>1. RefsIn(Kids, x) \cap Marks \subseteq refuse \cup Elements(todo)
        BY <2>2, <3>3, <1>12
      <4> QED BY <4>1, <3>1, <2>2, <1>2
    <3> QED BY <3>2, <3>3
  <2> QED BY <1>4, <2>1, <2>2
<1>14. SweepSound(R)'
  <2>1. Region(R)' /\ Apart(Marks)'
    BY <1>1, <1>3, <1>9, <1>12 DEF Region, Apart
  <2>2. Marks \ refuse' \subseteq R /\ root \in refuse'
    BY <1>4, <1>6, <1>12
  <2>3. after' = Nothing => Complete(Live \ Marks, order)'
    BY <1>1, <1>3, <1>9, <1>12 DEF Complete, Nothing, NoRefs
  <2> QED BY <2>1, <2>2, <2>3, <1>1, <1>3, <1>9, <1>12, <1>13 DEF SweepSound
<1>15. InSweep' /\ InPass' /\ DataCounted'
  BY <1>1, <1>9, <1>14 DEF InSweep, InPass, DataCounted
<1> QED BY <1>9, <1>10, <1>11, <1>15 DEF IInv

LEMMA SweptStep ==
  ASSUME IInv, swept
  PROVE  IInv'
<1>1. /\ Basics /\ work = "sweep" /\ todo = <<>> /\ work' = "pass" /\ obj' = obj
      /\ UNCHANGED <<gc_set, held, root, q, order, refuse, todo, after, collected>>
  BY BasicsAre DEF swept, memory, pass
<1>2. SameCounts /\ Marks' = Marks /\ Tmp' = Tmp /\ q = <<>>
  BY <1>1, Unchanged DEF Basics, IInv, Clean, Marking, Looking
<1>3. Sweeping
  BY <1>1, <1>2 DEF Sweeping, SameCounts, Basics, Tmp, Marks
<1>4. /\ Live' = Live /\ Kids' = Kids /\ HeldNow' = HeldNow
      /\ \A x : Owed(x)' = Owed(x) /\ Supported(x)' = Supported(x)
      /\ Typed' /\ Parents(Kids, gc_set)' /\ AfterSound' /\ Acyclic(Kids, gc_set)'
      /\ InMark' /\ Covered' /\ InLook'
  BY <1>3, SweepingFrame
<1>5. PICK R \in SUBSET Live : SweepSound(R)
  BY <1>1 DEF IInv, InSweep
<1>6. /\ Region(R) /\ Marks \ refuse \subseteq R /\ Apart(Marks)
      /\ root \in Marks => root \in refuse
      /\ \A x \in refuse \cap R : RefsIn(Kids, x) \cap Marks \subseteq refuse
      /\ \A x \in Live \ (Marks \cup gc_set) : Supported(x)
      /\ after = Nothing => Complete(Live \ Marks, order)
  <2>1. Elements(todo) = {}
    BY <1>1, ElementsEmpty
  <2> QED BY <2>1, <1>5 DEF SweepSound
<1>7. Marks = refuse
  <2> DEFINE T == {x \in R : x \notin Marks \ refuse}
  <2>1. CASE R = {}
    BY <2>1, <1>1, <1>6 DEF Basics
  <2>2. CASE R # {}
    <3>1. root \in T
      BY <2>2, <1>6 DEF Region
    <3>2. ClosedIn(Kids, T)
      <4> SUFFICES ASSUME NEW y \in T, NEW x \in RefsIn(Kids, y) PROVE x \in T
        BY DEF ClosedIn
      <4>1. x \in R /\ y \in Live
        BY <1>6 DEF Region, ClosedIn
      <4>2. CASE y \in refuse
        BY <4>1, <4>2, <1>6
      <4>3. CASE y \notin Marks
        BY <4>1, <4>3, <1>6 DEF Apart
      <4> QED BY <4>2, <4>3
    <3>3. T \in SUBSET R
      OBVIOUS
    <3> HIDE DEF T
    <3>4. T = R
      BY <3>1, <3>2, <3>3, <1>6 DEF Region
    <3> QED BY <3>4, <1>1, <1>6 DEF Basics, T
  <2> QED BY <2>1, <2>2
<1>8. Counts'
  <2>1. \A x : GivenUp(x) = 0 /\ GivenUp(x)' = 0
    BY <1>1, PlacesEmpty DEF GivenUp
  <2>2. Rc' = Rc
    BY <1>2, SameIs
  <2> QED BY <2>1, <2>2, <1>1, <1>4 DEF IInv, Counts
<1>9. Clean'
  <2>1. Apart(refuse)'
    BY <1>1, <1>4, <1>6, <1>7 DEF Apart
  <2> QED BY <2>1, <1>1, <1>2, <1>4 DEF Clean, Marking, Looking, Basics
<1>10. DataCounted'
  <2> SUFFICES ASSUME NEW x \in Live \ (refuse \cup gc_set) PROVE Rc[x] > 0
    BY <1>1, <1>2, <1>4, SameIs DEF DataCounted
  <2>1. Supported(x)
    BY <1>6, <1>7
  <2>2. Rc[x] = held[x] + Refers(Kids, Live \ refuse, x) + GivenUp(x) + Owed(x)
    BY DEF IInv, Counts
  <2>3. GivenUp(x) = 0 /\ held[x] \in Nat /\ Owed(x) \in Nat
    BY <1>1, PlacesEmpty DEF GivenUp, Basics, Owed
  <2>4. IsFiniteSet(Live \ refuse)
    BY <1>1, FS_Subset DEF Basics
  <2>5. Refers(Kids, Live \ refuse, x) \in Nat
        /\ (Refers(Kids, Live \ refuse, x) = 0 <=>
              \A y \in Live \ refuse, i \in 1 .. Size : Kids[y][i] # x)
    BY <2>4, RefersAre
  <2>6. (\E y \in Live \ Marks : x \in RefsIn(Kids, y)) =>
           \E y \in Live \ refuse, i \in 1 .. Size : Kids[y][i] = x
    BY <1>7 DEF RefsIn
  <2>7. held[x] > 0 \/ Owed(x) > 0 \/ Refers(Kids, Live \ refuse, x) # 0
    BY <2>1, <2>5, <2>6 DEF Supported
  <2>8. Refers(Kids, Live \ refuse, x) \in Nat
    BY <2>5
  <2> QED BY ONLY <2>2, <2>3, <2>7, <2>8
<1>11. InPass' /\ InSweep'
  BY <1>1, <1>2, <1>4, <1>6, <1>7 DEF InPass, InSweep, Complete, Nothing, NoRefs
<1> QED BY <1>4, <1>8, <1>9, <1>10, <1>11 DEF IInv

(* Objects that nothing else refers to are freed.                          *)
Cutting(V) ==
  /\ HeldNow \subseteq Live /\ Parents(Kids, gc_set) /\ Acyclic(Kids, gc_set)
  /\ \A x \in V : held[x] = 0 /\ \A y \in Live \ V : x \notin RefsIn(Kids, y)
  /\ obj' = [y \in Live \ V |-> obj[y]]

LEMMA FewerObjects ==
  ASSUME Basics, NEW V, Cutting(V)
  PROVE  /\ Live' = Live \ V /\ DOMAIN Kids' = Live' /\ Objects(obj')
         /\ \A x \in Live' : Kids'[x] = Kids[x] /\ Rc'[x] = Rc[x] /\ Tmp'[x] = Tmp[x]
         /\ \A x \in Live' : Refers(Kids', Live', x) = Refers(Kids, Live \ V, x)
         /\ Marks' = Marks \ V /\ FunsOf(obj') = gc_set \ V /\ HeldNow \subseteq Live'
         /\ Parents(Kids', gc_set \ V) /\ Acyclic(Kids', gc_set \ V)
<1>1. Objects(obj) /\ \A y \in DOMAIN obj \ V : RefsIn(KidsOf(obj), y) \cap V = {}
  BY DEF Basics, Cutting, Kids, Live
<1>2. FewerPut(obj', obj, V)
  BY DEF FewerPut, Live, Cutting
<1>3. Fewer(obj', obj, V)
  BY ONLY <1>1, <1>2, FewerIs
<1>4. /\ Live' = Live \ V /\ Marks' = Marks \ V /\ FunsOf(obj') = gc_set \ V
      /\ DOMAIN Kids' = Live' /\ Objects(obj')
  BY <1>3 DEF Fewer, Live, Marks, Basics, Kids, KidsOf
<1>5. \A x \in Live' : Kids'[x] = Kids[x] /\ Rc'[x] = Rc[x] /\ Tmp'[x] = Tmp[x]
  BY <1>3 DEF Fewer, Live, Kids, Rc, Tmp
<1>6. \A x : Refers(Kids', Live', x) = Refers(Kids, Live', x)
  BY <1>5, RefersSame
<1>7. HeldNow \subseteq Live'
  BY <1>4 DEF Cutting, HeldNow
<1>8. ASSUME NEW x \in Live'
      PROVE  /\ RefsIn(Kids', x) = RefsIn(Kids, x)
             /\ Kids'[x][sup] \in (gc_set \ V) \cup {None}
  <2>1. RefsIn(Kids', x) = RefsIn(Kids, x) /\ x \in Live
    BY <1>4, <1>5 DEF RefsIn
  <2>2. RefsIn(Kids, x) \cap V = {}
    BY <1>4 DEF Cutting
  <2>3. sup \in 1 .. Size /\ DOMAIN Kids = Live
    BY ReferencesAssumption DEF sup, Kids, KidsOf, Live
  <2>4. Kids'[x][sup] = Kids[x][sup] /\ Kids[x][sup] \in gc_set \cup {None}
    BY <2>1, <2>3, <1>5 DEF Parents, Cutting
  <2>5. Kids[x][sup] = None \/ Kids[x][sup] \in RefsIn(Kids, x)
    BY <2>3 DEF RefsIn
  <2> QED BY <2>1, <2>2, <2>4, <2>5
<1>9. Parents(Kids', gc_set \ V)
  BY <1>4, <1>8 DEF Parents
<1>10. Acyclic(Kids', gc_set \ V)
  <2> SUFFICES ASSUME NEW S \in SUBSET (Live' \ (gc_set \ V)), S # {}
               PROVE  \E x \in S : \A y \in S : x \notin RefsIn(Kids', y)
    BY <1>4 DEF Acyclic
  <2>1. S \in SUBSET (DOMAIN Kids \ gc_set)
    BY <1>4 DEF Kids, KidsOf, Live
  <2>2. PICK x \in S : \A y \in S : x \notin RefsIn(Kids, y)
    BY <2>1 DEF Acyclic, Cutting
  <2> QED BY <2>2, <1>8
<1> QED BY <1>4, <1>5, <1>6, <1>7, <1>9, <1>10

(* The end of gc_collect and gc_del_obj: what was swept is freed.          *)
LEMMA FreedFewer ==
  ASSUME IInv, work = "pass", order = {}, gc_set' = gc_set \ refuse, refuse' = {},
         after' = Nothing, obj' = [y \in Live \ refuse |-> obj[y]],
         UNCHANGED <<held, root, q, order>>,
         \/ /\ after = Nothing /\ work' = "idle" /\ todo' = <<>> /\ collected' = TRUE
         \/ /\ Returning /\ work' = "delete" /\ todo' = <<after.kid[exp]>>
            /\ collected' = collected
  PROVE  IInv'
<1>1. /\ Basics /\ Apart(refuse) /\ Marks = refuse /\ q = <<>> /\ todo = <<>>
      /\ collected = FALSE
  BY BasicsAre DEF IInv, Clean, InPass, Marking, Looking, Typed
<1>2. /\ Live' = Live \ refuse /\ DOMAIN Kids' = Live' /\ Objects(obj')
      /\ \A x \in Live' : Kids'[x] = Kids[x] /\ Rc'[x] = Rc[x] /\ Tmp'[x] = Tmp[x]
      /\ \A x \in Live' : Refers(Kids', Live', x) = Refers(Kids, Live \ refuse, x)
      /\ Marks' = Marks \ refuse /\ FunsOf(obj') = gc_set \ refuse /\ HeldNow \subseteq Live'
      /\ Parents(Kids', gc_set \ refuse) /\ Acyclic(Kids', gc_set \ refuse)
  <2>1. Cutting(refuse)
    BY <1>1 DEF Cutting, Apart, IInv, Typed
  <2> QED BY ONLY <1>1, <2>1, FewerObjects
<1>3. Marks' = {} /\ \A x \in Live' : Tmp'[x] = 0
  BY <1>1, <1>2 DEF Basics
<1>4. todo' \in Seq(Live' \cup {None})
  <2>1. CASE todo' = <<>>
    BY <2>1
  <2>2. CASE Returning /\ todo' = <<after.kid[exp]>>
    <3>1. after.kid[exp] \in Live \cup {None}
      BY <2>2, ReferencesAssumption DEF Returning, exp
    <3>2. after.kid[exp] \notin refuse
      BY <1>1, <2>2 DEF Apart, Owed, Returning
    <3>3. after.kid[exp] \in Live' \cup {None}
      BY <1>2, <3>1, <3>2
    <3> QED BY <2>2, <3>3
  <2> QED BY <2>1, <2>2
<1>5. Typed'
  <2>1. Objects(obj') /\ Live' \subseteq Objs
    BY <1>1, <1>2 DEF Basics
  <2>2. IsFiniteSet(Live')
    BY <1>1, <1>2, FS_Subset DEF Basics
  <2>3. HeldNow' = HeldNow
    BY DEF HeldNow
  <2>4. q' \in Seq(Live') /\ order' \subseteq gc_set' /\ refuse' \subseteq Live'
    BY <1>1
  <2>5. /\ work' \in {"idle", "delete"} \cup Passing
        /\ work' # "idle" => collected' = FALSE
    BY <1>1
  <2>6. held' \in [Objs -> Nat]
    BY <1>1 DEF Basics
  <2> QED BY <1>2, <1>4, <2>1, <2>2, <2>3, <2>4, <2>5, <2>6 DEF Typed
<1>6. Parents(Kids, gc_set)' /\ Acyclic(Kids, gc_set)' /\ AfterSound'
  BY <1>2 DEF AfterSound, Nothing, NoRefs, Parents, Acyclic
<1>7. Counts' /\ DataCounted'
  <2> SUFFICES ASSUME NEW x \in Live'
               PROVE  /\ Rc[x] = held[x] + Refers(Kids, Live \ refuse, x) + GivenUp(x)' + Owed(x)'
                      /\ x \notin gc_set' => Rc[x] > 0
    BY <1>2 DEF Counts, DataCounted
  <2>1. Rc[x] = held[x] + Refers(Kids, Live \ refuse, x) + GivenUp(x) + Owed(x)
    BY <1>2 DEF IInv, Counts
  <2>2. GivenUp(x) = 0 /\ Owed(x)' = 0
    BY DEF GivenUp, Owed, Nothing
  <2>3. GivenUp(x)' = Owed(x) /\ Owed(x) \in Nat
    <3>1. CASE after = Nothing /\ work' = "idle"
      BY <3>1 DEF GivenUp, Owed, Nothing
    <3>2. CASE Returning /\ work' = "delete" /\ todo' = <<after.kid[exp]>>
      <4>1. GivenUp(x)' = Places(x, <<after.kid[exp]>>)
        BY <3>2 DEF GivenUp
      <4>2. Places(x, <<after.kid[exp]>>) = One(x, after.kid[exp])
        BY PlacesOne
      <4> QED BY <4>1, <4>2, <3>2 DEF Owed, Returning, One
    <3> QED BY <3>1, <3>2
  <2>4. IsFiniteSet(Live \ refuse) /\ held[x] \in Nat
    BY <1>1, <1>2, FS_Subset DEF Basics
  <2>5. Refers(Kids, Live \ refuse, x) \in Nat
    BY <2>4, RefersAre
  <2>6. x \notin gc_set' => Rc[x] > 0
    BY <1>2 DEF IInv, DataCounted
  <2> QED BY <2>1, <2>2, <2>3, <2>4, <2>5, <2>6
<1>8. Clean'
  BY <1>1, <1>3, <1>4 DEF Clean, Apart, Marking, Looking
<1>9. InPass' /\ InMark' /\ Covered' /\ InLook' /\ InSweep'
  BY DEF InPass, InMark, Covered, InLook, InSweep, Marking, Looking
<1> QED BY <1>5, <1>6, <1>7, <1>8, <1>9 DEF IInv

(* A function's references are set, and one of them is counted.            *)
Linking(f, i, kid) ==
  /\ f \in Live /\ kid \in [1 .. Size -> Live \cup {None}] /\ i \in 1 .. Size
  /\ obj' = Linked(f, i, kid)

LEMMA LinkedIs ==
  ASSUME Basics, NEW f, NEW i, NEW kid, Linking(f, i, kid)
  PROVE  /\ Live' = Live /\ Objects(obj') /\ FunsOf(obj') = gc_set
         /\ Tmp' = Tmp /\ Marks' = Marks /\ Kids' = [Kids EXCEPT ![f] = kid]
         /\ \A x \in Live : Rc'[x] = Rc[x] + One(x, kid[i])
         /\ \A x \in Live :
              /\ Refers(Kids', Live, x) + Places(x, Kids[f]) = Refers(Kids, Live, x) + Places(x, kid)
              /\ Refers(Kids', Live, x) \in Nat /\ Refers(Kids, Live, x) \in Nat
              /\ Places(x, kid) \in Nat /\ Places(x, Kids[f]) \in Nat
<1> DEFINE v == kid[i]
           M == Count(v, 1)
<1>1. v \in Live \cup {None} /\ Objects(obj) /\ Rc \in [Live -> Int] /\ None \notin Live
      /\ Kids \in [Live -> [1 .. Size -> Live \cup {None}]]
      /\ f \in Live /\ kid \in [1 .. Size -> Live \cup {None}]
  BY FieldsAre DEF Basics, Kids, Live, Linking
<1>2. /\ DOMAIN M = Live /\ Objects(M) /\ KidsOf(M) = Kids /\ FunsOf(M) = gc_set
      /\ TmpOf(M) = Tmp /\ MarksOf(M) = Marks
      /\ \A x \in Live : RcOf(M)[x] = Rc[x] + One(x, v)
  <2> HIDE DEF v
  <2>1. CASE v = None
    <3>1. M = obj
      BY <2>1 DEF Count
    <3>2. \A x \in Live : One(x, v) = 0 /\ Rc[x] \in Int
      BY <1>1, <2>1 DEF One
    <3> QED BY <1>1, <3>1, <3>2 DEF Kids, Tmp, Marks, Live, Rc, Basics
  <2>2. CASE v # None
    <3> DEFINE n == 1
    <3>1. n = 1 /\ n \in Int
      OBVIOUS
    <3>2. CountPut(M, obj, v, n)
      BY <2>2 DEF Count, CountPut
    <3> HIDE DEF n, M
    <3>3. Objects(obj) /\ v \in DOMAIN obj
      BY <1>1, <2>2 DEF Live
    <3>4. /\ SameKids(M, obj) /\ TmpOf(M) = TmpOf(obj) /\ MarksOf(M) = MarksOf(obj)
          /\ RcOf(M) = [RcOf(obj) EXCEPT ![v] = RcOf(obj)[v] + n]
      BY ONLY <3>1, <3>2, <3>3, CountIs
    <3>5. ASSUME NEW x \in Live PROVE RcOf(M)[x] = Rc[x] + One(x, v)
      <4>1. RcOf(M) = [Rc EXCEPT ![v] = Rc[v] + n]
        BY <3>4 DEF Rc
      <4> QED BY <1>1, <3>1, <4>1 DEF One
    <3> QED BY <3>4, <3>5 DEF SameKids, Kids, Tmp, Marks, Live, Basics
  <2> QED BY <2>1, <2>2
<1>3. KidPut(obj', M, f, kid)
  BY DEF KidPut, Linked, Linking
<1> HIDE DEF M, v
<1>4. /\ DOMAIN obj' = DOMAIN M /\ Objects(obj')
      /\ KidsOf(obj') = [KidsOf(M) EXCEPT ![f] = kid] /\ RcOf(obj') = RcOf(M)
      /\ TmpOf(obj') = TmpOf(M) /\ MarksOf(obj') = MarksOf(M) /\ FunsOf(obj') = FunsOf(M)
  <2>1. Objects(M) /\ f \in DOMAIN M /\ kid \in [1 .. Size -> DOMAIN M \cup {None}]
    BY <1>1, <1>2
  <2> QED BY ONLY <2>1, <1>3, KidIs
<1>5. Live' = Live /\ Kids' = [Kids EXCEPT ![f] = kid] /\ Tmp' = Tmp /\ Marks' = Marks
  BY <1>2, <1>4 DEF Live, Kids, Tmp, Marks
<1>6. \A x \in Live : Rc'[x] = Rc[x] + One(x, v)
  BY <1>2, <1>4 DEF Rc
<1>7. ASSUME NEW x \in Live
      PROVE  /\ Refers(Kids', Live, x) + Places(x, Kids[f]) = Refers(Kids, Live, x) + Places(x, kid)
             /\ Refers(Kids', Live, x) \in Nat /\ Refers(Kids, Live, x) \in Nat
             /\ Places(x, kid) \in Nat /\ Places(x, Kids[f]) \in Nat
  <2> DEFINE S == Live \cup {None}
  <2>1. Kids'[f] = kid /\ Rewritten(Kids', Kids, Live, f, S)
    BY <1>1, <1>5 DEF Basics, Rewritten
  <2> HIDE DEF S
  <2>2. /\ Refers(Kids, Live, x) \in Nat /\ Refers(Kids', Live, x) \in Nat
        /\ Places(x, Kids[f]) \in Nat /\ Places(x, Kids'[f]) \in Nat
        /\ Refers(Kids', Live, x) + Places(x, Kids[f]) = Refers(Kids, Live, x) + Places(x, Kids'[f])
    BY ONLY <2>1, RefersChange
  <2> QED BY <2>1, <2>2
<1> QED BY <1>2, <1>4, <1>5, <1>6, <1>7 DEF v

Unlinked(less, kid, S) ==
  None \in S /\ kid \in [1 .. Size -> S] /\ less = [kid EXCEPT ![sup] = None, ![exp] = None]

LEMMA UnlinkedIs ==
  ASSUME NEW S, NEW kid, NEW less, Unlinked(less, kid, S), NEW x, x # None
  PROVE  /\ less \in [1 .. Size -> S]
         /\ Places(x, kid) = Places(x, less) + One(x, kid[sup]) + One(x, kid[exp])
         /\ Places(x, kid) \in Nat /\ Places(x, less) \in Nat
<1> DEFINE k1 == [kid EXCEPT ![sup] = None]
           k2 == [k1 EXCEPT ![exp] = None]
<1>1. sup \in 1 .. Size /\ exp \in 1 .. Size /\ sup # exp
  BY ReferencesAssumption DEF sup, exp
<1>2. k1 \in [1 .. Size -> S] /\ k1[exp] = kid[exp] /\ k2 \in [1 .. Size -> S] /\ k2 = less
  BY <1>1 DEF Unlinked
<1>6. SlotPut(k1, kid, S, sup, None)
  BY <1>1 DEF SlotPut, Unlinked
<1> HIDE DEF k1
<1>7. SlotPut(k2, k1, S, exp, None)
  BY <1>1, <1>2 DEF SlotPut, Unlinked
<1> HIDE DEF k2
<1>3. /\ Places(x, k1) \in Nat /\ Places(x, kid) \in Nat
      /\ Places(x, k1) + One(x, kid[sup]) = Places(x, kid) + One(x, None)
  BY ONLY <1>6, PlacesChange
<1>4. /\ Places(x, k2) \in Nat
      /\ Places(x, k2) + One(x, k1[exp]) = Places(x, k1) + One(x, None)
  BY ONLY <1>7, PlacesChange
<1>5. One(x, None) = 0 /\ One(x, kid[sup]) \in Nat /\ One(x, kid[exp]) \in Nat
  BY DEF One
<1> QED BY <1>2, <1>3, <1>4, <1>5

(* A function's references change, and the parent is still a function: the *)
(* invariants of the references hold.                                      *)
LEMMA OnlyFunctionsChange ==
  ASSUME Parents(Kids, gc_set), Acyclic(Kids, gc_set), Objects(obj), NEW f \in gc_set,
         NEW kid, kid[sup] \in gc_set \cup {None}, Kids' = [Kids EXCEPT ![f] = kid]
  PROVE  Parents(Kids', gc_set) /\ Acyclic(Kids', gc_set)
<1>1. DOMAIN Kids' = DOMAIN Kids /\ DOMAIN Kids = Live
  BY DEF Kids, KidsOf, Live
<1>2. \A y \in Live : Kids'[y] = IF y = f THEN kid ELSE Kids[y]
  BY <1>1
<1>3. Parents(Kids', gc_set)
  BY <1>1, <1>2 DEF Parents
<1>4. Acyclic(Kids', gc_set)
  <2> SUFFICES ASSUME NEW S \in SUBSET (Live \ gc_set), S # {}
               PROVE  \E x \in S : \A y \in S : x \notin RefsIn(Kids', y)
    BY <1>1 DEF Acyclic
  <2>1. PICK x \in S : \A y \in S : x \notin RefsIn(Kids, y)
    BY <1>1 DEF Acyclic
  <2>2. \A y \in S : RefsIn(Kids', y) = RefsIn(Kids, y)
    BY <1>2 DEF RefsIn
  <2> QED BY <2>1, <2>2
<1> QED BY <1>3, <1>4

(* del_fn links a function again that was not swept.                       *)
LEMMA FreedKept ==
  ASSUME IInv, work = "pass", order = {}, gc_set' = gc_set \ refuse, refuse' = {},
         after' = Nothing, refuse = {}, after.call = "return",
         obj' = Linked(after.f, after.i, after.kid), work' = "idle", todo' = <<>>,
         UNCHANGED <<held, root, q, order, collected>>
  PROVE  IInv'
<1> DEFINE f == after.f
           kid == after.kid
<1>1. /\ Basics /\ Apart(refuse) /\ Marks = {} /\ q = <<>> /\ todo = <<>> /\ Typed
      /\ Parents(Kids, gc_set) /\ Acyclic(Kids, gc_set) /\ gc_set' = gc_set
  BY BasicsAre DEF IInv, Clean, InPass, Marking, Looking
<1>2. Returning
  BY DEF IInv, AfterSound, Nothing, Binding
<1>3. /\ f \in gc_set /\ f \in Live /\ after.i = sup /\ sup \in 1 .. Size
      /\ kid \in [1 .. Size -> Live \cup {None}] /\ kid[sup] \in gc_set \cup {None}
      /\ Kids[f] = [kid EXCEPT ![sup] = None, ![exp] = None]
  BY <1>1, <1>2, ReferencesAssumption DEF Returning, Basics, sup
<1>4. Linking(f, sup, kid)
  BY <1>3 DEF Linking
<1> HIDE DEF f, kid
<1>5. /\ Live' = Live /\ Objects(obj') /\ FunsOf(obj') = gc_set
      /\ Tmp' = Tmp /\ Marks' = Marks /\ Kids' = [Kids EXCEPT ![f] = kid]
      /\ \A x \in Live : Rc'[x] = Rc[x] + One(x, kid[sup])
      /\ \A x \in Live :
           /\ Refers(Kids', Live, x) + Places(x, Kids[f]) = Refers(Kids, Live, x) + Places(x, kid)
           /\ Refers(Kids', Live, x) \in Nat /\ Refers(Kids, Live, x) \in Nat
           /\ Places(x, kid) \in Nat /\ Places(x, Kids[f]) \in Nat
  BY ONLY <1>1, <1>4, LinkedIs
<1>6. HeldNow' = HeldNow
  BY DEF HeldNow
<1>7. Typed'
  <2>1. <<>> \in Seq(Live \cup {None})
    OBVIOUS
  <2> QED BY <2>1, <1>1, <1>5, <1>6 DEF Typed
<1>8. Parents(Kids, gc_set)' /\ Acyclic(Kids, gc_set)'
  <2>1. Objects(obj)
    BY <1>1 DEF Basics
  <2>2. Parents(Kids', gc_set) /\ Acyclic(Kids', gc_set)
    BY <2>1, <1>1, <1>3, <1>5, OnlyFunctionsChange
  <2> QED BY <2>2, <1>1
<1>9. AfterSound'
  BY DEF AfterSound, Nothing, NoRefs
<1>10. ASSUME NEW x \in Live
       PROVE  /\ Rc'[x] = held[x] + Refers(Kids', Live, x) /\ One(x, kid[sup]) \in Nat
              /\ Rc'[x] = Rc[x] + One(x, kid[sup]) /\ Rc[x] \in Int
  <2>1. Rc[x] = held[x] + Refers(Kids, Live, x) + GivenUp(x) + Owed(x)
    BY DEF IInv, Counts
  <2>2. GivenUp(x) = 0 /\ Owed(x) = One(x, kid[exp]) /\ held[x] \in Nat
    BY <1>1 DEF GivenUp, Owed, One, Basics, kid
  <2>3. x # None /\ Unlinked(Kids[f], kid, Live \cup {None})
    BY <1>1, <1>3 DEF Basics, Unlinked
  <2>4. Places(x, kid) = Places(x, Kids[f]) + One(x, kid[sup]) + One(x, kid[exp])
    BY ONLY <2>3, UnlinkedIs
  <2>5. Rc'[x] = Rc[x] + One(x, kid[sup]) /\ Rc[x] \in Int
    BY <1>1, <1>5 DEF Basics
  <2>6. One(x, kid[sup]) \in Nat /\ One(x, kid[exp]) \in Nat
    BY DEF One
  <2>7. /\ Refers(Kids', Live, x) + Places(x, Kids[f]) = Refers(Kids, Live, x) + Places(x, kid)
        /\ Refers(Kids', Live, x) \in Nat /\ Refers(Kids, Live, x) \in Nat
        /\ Places(x, kid) \in Nat /\ Places(x, Kids[f]) \in Nat
    BY <1>5
  <2> DEFINE a == Refers(Kids, Live, x)
             b == Refers(Kids', Live, x)
             k == Places(x, kid)
             l == Places(x, Kids[f])
             s == One(x, kid[sup])
             e == One(x, kid[exp])
             h == held[x]
  <2>8. /\ b + l = a + k /\ k = l + s + e /\ a \in Nat /\ b \in Nat /\ k \in Nat /\ l \in Nat
        /\ s \in Nat /\ e \in Nat /\ h \in Nat
    BY <2>2, <2>4, <2>6, <2>7
  <2>9. Rc'[x] = (h + a + 0 + e) + s
    BY <2>1, <2>2, <2>5
  <2> HIDE DEF a, b, k, l, s, e, h
  <2>10. (h + a + 0 + e) + s = h + b
    BY ONLY <2>8
  <2>11. Rc'[x] = h + b
    BY <2>9, <2>10
  <2> QED BY <2>5, <2>6, <2>11 DEF h, b
<1>11. Counts'
  <2>1. \A x : GivenUp(x)' = 0 /\ Owed(x)' = 0
    BY DEF GivenUp, Owed, Nothing
  <2>2. \A x \in Live : held[x] \in Nat /\ Refers(Kids', Live, x) \in Nat
    BY <1>1, <1>5 DEF Basics
  <2>3. Live \ {} = Live
    OBVIOUS
  <2>4. \A x \in Live : Rc'[x] = held[x] + Refers(Kids', Live, x) + 0 + 0
    BY <1>10, <2>2
  <2> QED BY <1>5, <2>1, <2>3, <2>4 DEF Counts
<1>12. DataCounted'
  <2>1. \A x \in Live \ ({} \cup gc_set) : Rc[x] > 0
    BY DEF IInv, DataCounted
  <2>2. \A x \in Live \ ({} \cup gc_set) : Rc'[x] > 0
    BY <1>10, <2>1
  <2> QED BY <2>2, <1>1, <1>5 DEF DataCounted
<1>13. Clean'
  BY <1>1, <1>5 DEF Clean, Apart, Basics, Marking, Looking
<1>14. InPass' /\ InMark' /\ Covered' /\ InLook' /\ InSweep'
  BY DEF InPass, InMark, Covered, InLook, InSweep, Marking, Looking
<1> QED BY <1>7, <1>8, <1>9, <1>11, <1>12, <1>13, <1>14 DEF IInv

(* While the collector does not run there are no marks.                    *)
Quiet ==
  /\ work \in {"idle", "delete"} /\ Marks = {} /\ refuse = {} /\ order = {} /\ q = <<>>
  /\ \A x \in Live : Tmp[x] = 0

LEMMA QuietIs ==
  ASSUME IInv, work \in {"idle", "delete"}
  PROVE  /\ Quiet /\ Typed /\ Parents(Kids, gc_set) /\ Acyclic(Kids, gc_set)
         /\ after = Nothing \/ \E v \in Objs : Binding(v)
         /\ \A x \in Live : /\ Rc[x] = held[x] + Refers(Kids, Live, x) + GivenUp(x)
                            /\ x \notin gc_set => Rc[x] > 0
                            /\ Rc[x] \in Int /\ held[x] \in Nat /\ GivenUp(x) \in Nat
                            /\ Refers(Kids, Live, x) \in Nat
<1>1. Basics
  BY BasicsAre
<1>2. Quiet
  BY <1>1 DEF Quiet, IInv, Clean, Basics, Marking, Looking
<1>3. ~Returning /\ (after = Nothing \/ \E v \in Objs : Binding(v))
  BY DEF IInv, AfterSound, Returning, Passing, Marking, Looking
<1>4. ASSUME NEW x \in Live
      PROVE  /\ Rc[x] = held[x] + Refers(Kids, Live, x) + GivenUp(x)
             /\ x \notin gc_set => Rc[x] > 0
             /\ Rc[x] \in Int /\ held[x] \in Nat /\ GivenUp(x) \in Nat
             /\ Refers(Kids, Live, x) \in Nat
  <2>1. Live \ refuse = Live /\ IsFiniteSet(Live)
    BY <1>1, <1>2 DEF Quiet, Basics
  <2>2. Rc[x] = held[x] + Refers(Kids, Live \ refuse, x) + GivenUp(x) + Owed(x)
    BY DEF IInv, Counts
  <2>3. Owed(x) = 0
    <3>1. after = Nothing => after.call = "none"
      BY DEF Nothing
    <3>2. (\E v \in Objs : Binding(v)) => after.call = "bind"
      BY DEF Binding
    <3> QED BY <1>3, <3>1, <3>2 DEF Owed
  <2>4. Refers(Kids, Live, x) \in Nat /\ held[x] \in Nat /\ Rc[x] \in Int
    BY <1>1, <2>1, RefersAre DEF Basics
  <2>5. GivenUp(x) \in Nat
    BY <1>1, PlacesAre DEF GivenUp, Basics
  <2>6. x \notin gc_set => Rc[x] > 0
    BY <1>2 DEF IInv, DataCounted, Quiet
  <2> QED BY <2>1, <2>2, <2>3, <2>4, <2>5, <2>6
<1> QED BY <1>2, <1>3, <1>4 DEF IInv

(* What has to be shown for a step of the interpreter or of object_delete. *)
QuietNext ==
  /\ Quiet' /\ Typed' /\ Parents(Kids', gc_set') /\ Acyclic(Kids', gc_set')
  /\ after' = Nothing \/ ((\E v \in Objs : Binding(v)') /\ work' = "delete")
  /\ work' = "idle" => todo' = <<>>
  /\ \A x \in Live' : /\ Rc'[x] = held'[x] + Refers(Kids', Live', x) + GivenUp(x)'
                      /\ x \notin gc_set' => Rc'[x] > 0

LEMMA StillQuiet == QuietNext => IInv'
<1> SUFFICES ASSUME QuietNext PROVE IInv'
  OBVIOUS
<1> USE DEF QuietNext
<1>1. Clean' /\ InPass' /\ InMark' /\ Covered' /\ InLook' /\ InSweep'
  BY DEF Quiet, Clean, Apart, InPass, InMark, Covered, InLook, InSweep, Marking, Looking
<1>2. AfterSound'
  BY DEF AfterSound, Nothing, NoRefs
<1>3. Counts' /\ DataCounted'
  <2> SUFFICES ASSUME NEW x \in Live'
               PROVE  /\ Rc'[x] = held'[x] + Refers(Kids', Live', x) + GivenUp(x)' + Owed(x)'
                      /\ x \notin gc_set' => Rc'[x] > 0
    BY DEF Counts, DataCounted, Quiet
  <2>1. Owed(x)' = 0
    <3>1. after' = Nothing => after'.call = "none"
      BY DEF Nothing
    <3>2. (\E v \in Objs : Binding(v)') => after'.call = "bind"
      BY DEF Binding
    <3> QED BY <3>1, <3>2 DEF Owed
  <2>2. held'[x] \in Nat /\ IsFiniteSet(Live')
    BY DEF Typed
  <2>3. Refers(Kids', Live', x) \in Nat
    BY <2>2, RefersAre
  <2>4. GivenUp(x)' \in Nat
    <3>1. todo' \in Seq(Live' \cup {None})
      BY DEF Typed
    <3>2. Places(x, todo') \in Nat
      BY <3>1, PlacesAre
    <3> QED BY <3>2 DEF GivenUp
  <2> QED BY <2>1, <2>2, <2>3, <2>4
<1>4. Parents(Kids, gc_set)' /\ Acyclic(Kids, gc_set)'
  BY DEF Parents, Acyclic
<1> QED BY <1>1, <1>2, <1>3, <1>4 DEF IInv

LEMMA DeletedStep ==
  ASSUME IInv, deleted
  PROVE  IInv'
<1>1. /\ Basics /\ work = "delete" /\ todo = <<>> /\ work' = "idle" /\ todo' = <<>>
      /\ after' = Nothing /\ UNCHANGED <<gc_set, held, root, q, order, refuse, collected>>
  BY BasicsAre DEF deleted, pass
<1>2. /\ Quiet /\ Typed /\ Parents(Kids, gc_set) /\ Acyclic(Kids, gc_set)
      /\ after = Nothing \/ \E v \in Objs : Binding(v)
      /\ \A x \in Live : /\ Rc[x] = held[x] + Refers(Kids, Live, x) + GivenUp(x)
                         /\ x \notin gc_set => Rc[x] > 0
                         /\ Rc[x] \in Int /\ held[x] \in Nat /\ GivenUp(x) \in Nat
                         /\ Refers(Kids, Live, x) \in Nat
  BY <1>1, QuietIs
<1>3. \A x : GivenUp(x) = 0 /\ GivenUp(x)' = 0
  BY <1>1, PlacesEmpty DEF GivenUp
<1>4. HeldNow' = HeldNow
  BY <1>1 DEF HeldNow
<1>5. CASE after = Nothing
  <2>1. obj' = obj
    BY <1>5 DEF deleted, Nothing
  <2>2. Live' = Live /\ Kids' = Kids /\ Rc' = Rc /\ Tmp' = Tmp /\ Marks' = Marks
    BY <2>1 DEF Live, Kids, Rc, Tmp, Marks
  <2>3. Typed' /\ Quiet'
    BY <1>1, <1>2, <1>4, <2>1, <2>2 DEF Typed, Quiet
  <2>4. \A x \in Live' : /\ Rc'[x] = held'[x] + Refers(Kids', Live', x) + GivenUp(x)'
                         /\ x \notin gc_set' => Rc'[x] > 0
    BY <1>1, <1>2, <1>3, <2>2
  <2>5. Parents(Kids', gc_set') /\ Acyclic(Kids', gc_set')
    BY <1>1, <1>2, <2>2
  <2>6. QuietNext
    BY <2>3, <2>4, <2>5, <1>1 DEF QuietNext
  <2> QED BY <2>6, StillQuiet
<1>6. ASSUME NEW v \in Objs, Binding(v) PROVE IInv'
  <2> DEFINE f == after.f
             i == after.i
             kid == after.kid
  <2>1. /\ f \in gc_set /\ f \in Live /\ i \in 1 .. Size /\ i # sup /\ sup \in 1 .. Size
        /\ Kids[f] \in [1 .. Size -> Live \cup {None}]
        /\ Kids[f][i] = None /\ kid = [Kids[f] EXCEPT ![i] = v] /\ v \in Live /\ held[v] > 0
    <3>1. f \in gc_set /\ after.i \in Values /\ held[v] > 0 /\ Kids[f][i] = None
          /\ kid = [Kids[f] EXCEPT ![i] = v]
      BY <1>6 DEF Binding
    <3>2. f \in Live
      BY <1>1, <3>1 DEF Basics
    <3>3. Kids[f] \in [1 .. Size -> Live \cup {None}]
      BY <1>1, <3>2, KidsAre DEF Basics
    <3>4. v \in Live
      BY <1>2, <1>6, <3>1 DEF Typed, HeldNow
    <3> QED BY <3>1, <3>2, <3>3, <3>4, ReferencesAssumption DEF Values, sup
  <2>2. obj' = Linked(f, i, kid)
    BY <1>6 DEF deleted, Binding
  <2> HIDE DEF f, i, kid
  <2>3. Linking(f, i, kid) /\ kid[i] = v /\ kid[sup] = Kids[f][sup]
    BY <2>1, <2>2 DEF Linking
  <2>4. /\ Live' = Live /\ Objects(obj') /\ FunsOf(obj') = gc_set
        /\ Tmp' = Tmp /\ Marks' = Marks /\ Kids' = [Kids EXCEPT ![f] = kid]
        /\ \A x \in Live : Rc'[x] = Rc[x] + One(x, kid[i])
        /\ \A x \in Live :
             /\ Refers(Kids', Live, x) + Places(x, Kids[f]) = Refers(Kids, Live, x) + Places(x, kid)
             /\ Refers(Kids', Live, x) \in Nat /\ Refers(Kids, Live, x) \in Nat
             /\ Places(x, kid) \in Nat /\ Places(x, Kids[f]) \in Nat
    BY ONLY <1>1, <2>3, LinkedIs
  <2>5. Parents(Kids', gc_set') /\ Acyclic(Kids', gc_set')
    <3>1. Kids[f][sup] \in gc_set \cup {None}
      <4>1. DOMAIN Kids = Live
        BY DEF Kids, KidsOf, Live
      <4> QED BY <4>1, <1>2, <2>1 DEF Parents
    <3>2. Objects(obj)
      BY <1>1 DEF Basics
    <3> QED BY <3>1, <3>2, <2>1, <2>3, <2>4, <1>1, <1>2, OnlyFunctionsChange
  <2>6. ASSUME NEW x \in Live
        PROVE  /\ Rc'[x] = held[x] + Refers(Kids', Live, x) + 0
               /\ x \notin gc_set => Rc'[x] > 0
    <3>1. SlotPut(kid, Kids[f], Live \cup {None}, i, v)
      BY <2>1 DEF SlotPut
    <3>2. Places(x, kid) + One(x, Kids[f][i]) = Places(x, Kids[f]) + One(x, v)
      BY ONLY <3>1, PlacesChange
    <3>3. One(x, Kids[f][i]) = 0 /\ One(x, v) \in Nat
      BY <1>1, <2>1 DEF One, Basics
    <3>4. Rc'[x] = Rc[x] + One(x, v) /\ Rc[x] = held[x] + Refers(Kids, Live, x) + 0
          /\ Rc[x] \in Int
      BY <1>2, <1>3, <2>3, <2>4
    <3> DEFINE a == Refers(Kids, Live, x)
               b == Refers(Kids', Live, x)
               k == Places(x, kid)
               l == Places(x, Kids[f])
               h == held[x]
               o == One(x, v)
    <3>5. /\ b + l = a + k /\ k + 0 = l + o /\ a \in Nat /\ b \in Nat /\ k \in Nat /\ l \in Nat
          /\ h \in Nat /\ o \in Nat
      BY <1>2, <2>4, <3>2, <3>3
    <3>6. Rc'[x] = (h + a + 0) + o
      BY <3>4
    <3>7. x \notin gc_set => Rc'[x] > 0
      BY <1>2, <3>3, <3>4
    <3> HIDE DEF a, b, k, l, h, o
    <3>8. (h + a + 0) + o = h + b + 0
      BY ONLY <3>5
    <3>9. Rc'[x] = h + b + 0
      BY <3>6, <3>8
    <3> QED BY <3>7, <3>9 DEF h, b
  <2>7. Typed' /\ Quiet'
    BY <1>1, <1>2, <1>4, <2>4 DEF Typed, Quiet
  <2>8. \A x \in Live' : /\ Rc'[x] = held'[x] + Refers(Kids', Live', x) + GivenUp(x)'
                         /\ x \notin gc_set' => Rc'[x] > 0
    BY <1>1, <1>3, <2>4, <2>6
  <2>9. QuietNext
    BY <2>5, <2>7, <2>8, <1>1 DEF QuietNext
  <2> QED BY <2>9, StillQuiet
<1> QED BY <1>2, <1>5, <1>6

(* object_delete.                                                          *)
LEMMA CountDown ==
  ASSUME IInv, Following("delete"), obj' = Count(Ref, -1), todo' = Rest,
         Ref # None => obj[Ref].rc > 1 \/ IsFun(Ref),
         collected' = FALSE, UNCHANGED <<gc_set, held, work, root, q, order, refuse, after>>
  PROVE  IInv'
<1>1. Basics /\ work = "delete" /\ todo # <<>>
  BY BasicsAre DEF Following
<1>2. /\ Quiet /\ Typed /\ Parents(Kids, gc_set) /\ Acyclic(Kids, gc_set)
      /\ after = Nothing \/ \E v \in Objs : Binding(v)
      /\ \A x \in Live : /\ Rc[x] = held[x] + Refers(Kids, Live, x) + GivenUp(x)
                         /\ x \notin gc_set => Rc[x] > 0
                         /\ Rc[x] \in Int /\ held[x] \in Nat /\ GivenUp(x) \in Nat
                         /\ Refers(Kids, Live, x) \in Nat
  BY <1>1, QuietIs
<1>3. /\ Ref \in Live \cup {None} /\ Rest \in Seq(Live \cup {None})
      /\ \A x \in Live : /\ Places(x, Rest) \in Nat
                         /\ Places(x, todo) = One(x, Ref) + Places(x, Rest)
  BY <1>1, RestIs
<1>4. /\ SameKids(obj', obj) /\ Tmp' = Tmp /\ Marks' = Marks /\ Live' = Live /\ Kids' = Kids
      /\ \A x \in Live : Rc'[x] = Rc[x] - One(x, Ref)
  BY <1>1, CountedOff
<1>5. HeldNow' = HeldNow
  BY DEF HeldNow
<1>6. Typed'
  <2>1. todo' \in Seq(Live \cup {None})
    BY <1>3
  <2> QED BY <2>1, <1>2, <1>4, <1>5 DEF Typed, SameKids
<1>7. Quiet'
  BY <1>2, <1>4 DEF Quiet
<1>8. ASSUME NEW x \in Live
      PROVE  /\ Rc'[x] = held[x] + Refers(Kids, Live, x) + GivenUp(x)'
             /\ x \notin gc_set => Rc'[x] > 0
  <2>1. GivenUp(x) = One(x, Ref) + Places(x, Rest) /\ GivenUp(x)' = Places(x, Rest)
    BY <1>1, <1>3 DEF GivenUp
  <2>2. One(x, Ref) \in Nat /\ Places(x, Rest) \in Nat
    BY <1>3 DEF One
  <2>3. Rc'[x] = held[x] + Refers(Kids, Live, x) + GivenUp(x)'
    BY <1>2, <1>4, <2>1, <2>2
  <2>4. ASSUME x \notin gc_set PROVE Rc'[x] > 0
    <3>1. Rc[x] > 0 /\ Rc[x] \in Int
      BY <1>2, <2>4
    <3>2. CASE x = Ref
      <4>1. obj[Ref].rc = Rc[x] /\ ~obj[Ref].fun
        BY <1>1, <2>4, <3>2, FieldsAre DEF Basics, Live, Rc
      <4>2. x # None
        BY <1>1 DEF Basics
      <4> QED BY <1>4, <3>1, <3>2, <4>1, <4>2 DEF IsFun, One
    <3>3. CASE x # Ref
      BY <1>4, <3>1, <3>3 DEF One
    <3> QED BY <3>2, <3>3
  <2> QED BY <2>3, <2>4
<1>9. after' = Nothing \/ ((\E v \in Objs : Binding(v)') /\ work' = "delete")
  <2>1. \A v \in Objs : Binding(v) => Binding(v)'
    BY <1>4 DEF Binding
  <2> QED BY <1>1, <1>2, <2>1
<1>10. QuietNext
  BY <1>1, <1>2, <1>4, <1>6, <1>7, <1>8, <1>9 DEF QuietNext
<1> QED BY <1>10, StillQuiet

LEMMA FreeObject ==
  ASSUME IInv, Following("delete"), Ref # None, obj[Ref].rc <= 1, ~IsFun(Ref),
         obj' = [y \in Live \ {Ref} |-> obj[y]], todo' = obj[Ref].kid \o Rest,
         collected' = FALSE, UNCHANGED <<gc_set, held, work, root, q, order, refuse, after>>
  PROVE  IInv'
<1>1. Basics /\ work = "delete" /\ todo # <<>>
  BY BasicsAre DEF Following
<1>2. /\ Quiet /\ Typed /\ Parents(Kids, gc_set) /\ Acyclic(Kids, gc_set)
      /\ after = Nothing \/ \E v \in Objs : Binding(v)
      /\ \A x \in Live : /\ Rc[x] = held[x] + Refers(Kids, Live, x) + GivenUp(x)
                         /\ x \notin gc_set => Rc[x] > 0
                         /\ Rc[x] \in Int /\ held[x] \in Nat /\ GivenUp(x) \in Nat
                         /\ Refers(Kids, Live, x) \in Nat
  BY <1>1, QuietIs
<1>3. /\ Ref \in Live /\ Rest \in Seq(Live \cup {None})
      /\ \A x \in Live : /\ Places(x, Rest) \in Nat
                         /\ Places(x, todo) = One(x, Ref) + Places(x, Rest)
  BY <1>1, RestIs
<1>4. obj[Ref].kid = Kids[Ref] /\ Rc[Ref] <= 1 /\ Ref \notin gc_set
  BY <1>1, <1>3, KidsAre, FieldsAre DEF Basics, Live, Rc, IsFun
<1>5. held[Ref] = 0 /\ Refers(Kids, Live, Ref) = 0 /\ Places(Ref, Rest) = 0
  <2>1. GivenUp(Ref) = 1 + Places(Ref, Rest) /\ Places(Ref, Rest) \in Nat
    BY <1>1, <1>3 DEF GivenUp, One
  <2>2. /\ Rc[Ref] = held[Ref] + Refers(Kids, Live, Ref) + GivenUp(Ref) /\ Rc[Ref] \in Int
        /\ held[Ref] \in Nat /\ Refers(Kids, Live, Ref) \in Nat
    BY <1>2, <1>3
  <2> HIDE DEF Ref, Rest
  <2> QED BY <2>1, <2>2, <1>4
<1>6. \A y \in Live : Ref \notin RefsIn(Kids, y)
  <2>1. \A y \in Live, i \in 1 .. Size : Kids[y][i] # Ref
    BY <1>1, <1>5, RefersAre DEF Basics
  <2> QED BY <2>1 DEF RefsIn
<1> DEFINE V == {Ref}
<1>7. Cutting(V)
  BY <1>2, <1>5, <1>6 DEF Cutting, Typed
<1>8. V \subseteq Live \ gc_set /\ Live \ V = Live \ {Ref} /\ gc_set \ V = gc_set
  BY <1>3, <1>4
<1> HIDE DEF V
<1>9. /\ Live' = Live \ V /\ DOMAIN Kids' = Live' /\ Objects(obj')
      /\ \A x \in Live' : Kids'[x] = Kids[x] /\ Rc'[x] = Rc[x] /\ Tmp'[x] = Tmp[x]
      /\ \A x \in Live' : Refers(Kids', Live', x) = Refers(Kids, Live \ V, x)
      /\ Marks' = Marks \ V /\ FunsOf(obj') = gc_set \ V /\ HeldNow \subseteq Live'
      /\ Parents(Kids', gc_set \ V) /\ Acyclic(Kids', gc_set \ V)
  BY ONLY <1>1, <1>7, FewerObjects
<1>10. ASSUME NEW x \in Live'
       PROVE  /\ Refers(Kids, Live, x) + Places(x, Rest) = Refers(Kids', Live', x) + Places(x, todo')
              /\ Refers(Kids', Live', x) \in Nat /\ Places(x, todo') \in Nat
  <2>1. Ref \in Live \ refuse /\ x \in Live /\ refuse = {}
    BY <1>2, <1>3, <1>9 DEF Quiet
  <2>2. Live \ refuse = Live /\ Live \ (refuse \cup {Ref}) = Live \ V
    BY <1>8, <2>1
  <2>3. todo' = Kids[Ref] \o Rest
    BY <1>4
  <2>4. Refers(Kids', Live', x) = Refers(Kids, Live \ V, x)
    BY <1>9
  <2> HIDE DEF Ref, Rest
  <2>5. /\ Refers(Kids, Live \ refuse, x) + Places(x, Rest)
             = Refers(Kids, Live \ (refuse \cup {Ref}), x) + Places(x, Kids[Ref] \o Rest)
        /\ Refers(Kids, Live \ (refuse \cup {Ref}), x) \in Nat
        /\ Places(x, Kids[Ref] \o Rest) \in Nat
    BY <1>1, <1>3, <2>1, SweptIs
  <2> QED BY ONLY <2>2, <2>3, <2>4, <2>5
<1>11. todo' \in Seq(Live' \cup {None})
  <2>1. /\ Kids[Ref] \in Seq(Live \cup {None}) /\ Elements(Kids[Ref]) = RefsIn(Kids, Ref)
    BY <1>1, <1>3, KidsAre DEF Basics
  <2>2. todo' \in Seq(Live \cup {None}) /\ Elements(todo') = RefsIn(Kids, Ref) \cup Elements(Rest)
    BY <2>1, <1>3, <1>4, ElementsJoined
  <2>3. Ref \notin Elements(Rest)
    <3>1. Ref \in (Live \cup {None}) \ {None}
      BY <1>3
    <3> QED BY <3>1, <1>3, <1>5, ElementsAre
  <2>4. Ref \notin Elements(todo')
    BY <2>2, <2>3, <1>3, <1>6
  <2>5. \A i \in 1 .. Len(todo') : todo'[i] \in Live' \cup {None}
    <3>1. \A i \in 1 .. Len(todo') : todo'[i] \in Live \cup {None} /\ todo'[i] # Ref
      <4>1. DOMAIN todo' = 1 .. Len(todo')
        BY <2>2
      <4> QED BY <2>2, <2>4, <4>1, ElementOfSeq DEF Elements
    <3> QED BY <3>1, <1>8, <1>9
  <2> DEFINE n == Len(todo')
             S == Live' \cup {None}
  <2>6. n \in Nat /\ todo' = [i \in 1 .. n |-> todo'[i]] /\ \A i \in 1 .. n : todo'[i] \in S
    BY <2>2, <2>5
  <2> HIDE DEF n, S
  <2>7. todo' \in [1 .. n -> S]
    BY ONLY <2>6
  <2>8. todo' \in Seq(S)
    BY ONLY <2>6, <2>7, SeqDef
  <2> QED BY <2>8 DEF S
<1>12. Typed'
  <2>1. IsFiniteSet(Live') /\ Live' \subseteq Objs
    BY <1>1, <1>9, FS_Subset DEF Basics
  <2>2. HeldNow' = HeldNow
    BY DEF HeldNow
  <2>3. q' \in Seq(Live') /\ refuse' \subseteq Live' /\ order' \subseteq gc_set'
    BY <1>2 DEF Quiet
  <2> QED BY <2>1, <2>2, <2>3, <1>1, <1>2, <1>8, <1>9, <1>11 DEF Typed
<1>13. Quiet'
  BY <1>2, <1>9 DEF Quiet
<1>14. ASSUME NEW x \in Live'
       PROVE  /\ Rc'[x] = held[x] + Refers(Kids', Live', x) + GivenUp(x)'
              /\ x \notin gc_set => Rc'[x] > 0
  <2>1. x \in Live /\ x # Ref
    BY <1>8, <1>9
  <2>2. GivenUp(x) = Places(x, Rest) /\ GivenUp(x)' = Places(x, todo') /\ Places(x, Rest) \in Nat
    BY <1>1, <1>3, <2>1 DEF GivenUp, One
  <2>3. Rc'[x] = Rc[x]
    BY <1>9
  <2>4. /\ Rc[x] = held[x] + Refers(Kids, Live, x) + Places(x, Rest)
        /\ held[x] \in Nat /\ Refers(Kids, Live, x) \in Nat
        /\ x \notin gc_set => Rc[x] > 0
    BY <1>2, <2>1, <2>2
  <2>5. /\ Refers(Kids, Live, x) + Places(x, Rest) = Refers(Kids', Live', x) + Places(x, todo')
        /\ Refers(Kids', Live', x) \in Nat /\ Places(x, todo') \in Nat
    BY <1>10
  <2> DEFINE a == Refers(Kids, Live, x)
             b == Places(x, Rest)
             c == Refers(Kids', Live', x)
             d == Places(x, todo')
             h == held[x]
  <2>6. /\ a + b = c + d /\ a \in Nat /\ b \in Nat /\ c \in Nat /\ d \in Nat /\ h \in Nat
        /\ Rc'[x] = h + a + b
    BY <2>2, <2>3, <2>4, <2>5
  <2> HIDE DEF a, b, c, d, h
  <2>7. Rc'[x] = h + c + d
    BY ONLY <2>6
  <2> QED BY <2>2, <2>3, <2>4, <2>7 DEF c, d, h
<1>15. after' = Nothing \/ ((\E v \in Objs : Binding(v)') /\ work' = "delete")
  <2>1. \A v \in Objs : Binding(v) => Binding(v)'
    <3> SUFFICES ASSUME NEW v \in Objs, Binding(v) PROVE Binding(v)'
      OBVIOUS
    <3>1. Kids'[after.f] = Kids[after.f]
      BY <1>1, <1>8, <1>9 DEF Binding, Basics
    <3> QED BY <3>1 DEF Binding
  <2> QED BY <1>1, <1>2, <2>1
<1>16. QuietNext
  BY <1>1, <1>2, <1>8, <1>9, <1>12, <1>13, <1>14, <1>15 DEF QuietNext
<1> QED BY <1>16, StillQuiet

LEMMA ObjectDeleteStep ==
  ASSUME IInv, object_delete
  PROVE  IInv'
<1> USE DEF pass
<1>1. CASE Ref = None /\ todo' = Rest /\ obj' = obj
  BY <1>1, CountDown DEF object_delete, Count
<1>2. CASE Ref # None /\ (obj[Ref].rc > 1 \/ IsFun(Ref)) /\ obj' = Count(Ref, -1) /\ todo' = Rest
  BY <1>2, CountDown DEF object_delete
<1>3. CASE /\ Ref # None /\ obj[Ref].rc <= 1 /\ ~IsFun(Ref)
           /\ obj' = [y \in Live \ {Ref} |-> obj[y]] /\ todo' = obj[Ref].kid \o Rest
  BY <1>3, FreeObject DEF object_delete
<1> QED BY <1>1, <1>2, <1>3 DEF object_delete
-----------------------------------------------------------------------------
(* The interpreter.                                                        *)
LEMMA IdleIs ==
  ASSUME IInv, work = "idle"
  PROVE  /\ Basics /\ Quiet /\ Typed /\ Parents(Kids, gc_set) /\ Acyclic(Kids, gc_set)
         /\ todo = <<>> /\ after = Nothing
         /\ \A x \in Live : /\ Rc[x] = held[x] + Refers(Kids, Live, x)
                            /\ x \notin gc_set => Rc[x] > 0
                            /\ Rc[x] \in Int /\ held[x] \in Nat
                            /\ Refers(Kids, Live, x) \in Nat
         /\ Known \subseteq Live /\ Funs \subseteq gc_set /\ Data \subseteq Live
<1>1. /\ Quiet /\ Typed /\ Parents(Kids, gc_set) /\ Acyclic(Kids, gc_set)
      /\ \A x \in Live : /\ Rc[x] = held[x] + Refers(Kids, Live, x) + GivenUp(x)
                         /\ x \notin gc_set => Rc[x] > 0
                         /\ Rc[x] \in Int /\ held[x] \in Nat /\ GivenUp(x) \in Nat
                         /\ Refers(Kids, Live, x) \in Nat
  BY QuietIs
<1>2. Basics /\ todo = <<>> /\ after = Nothing
  BY BasicsAre DEF IInv, Clean
<1>3. \A x : GivenUp(x) = 0
  BY DEF GivenUp
<1>4. Known \subseteq Live
  BY DEF Known, Reach
<1>5. Funs \subseteq gc_set /\ Data \subseteq Live
  <2>1. \A x \in Live : obj[x].fun <=> x \in gc_set
    BY <1>2, FieldsAre DEF Basics, Live
  <2> QED BY <1>4, <2>1 DEF Funs, Data, IsFun
<1>6. ASSUME NEW x \in Live PROVE Rc[x] = held[x] + Refers(Kids, Live, x)
  <2>1. /\ Rc[x] = held[x] + Refers(Kids, Live, x) + 0
        /\ held[x] \in Nat /\ Refers(Kids, Live, x) \in Nat
    BY <1>1, <1>3
  <2> QED BY <2>1
<1> QED BY <1>1, <1>2, <1>4, <1>5, <1>6

LEMMA DropStep ==
  ASSUME IInv, NEW a \in Known, drop(a)
  PROVE  IInv'
<1>1. /\ work = "idle" /\ held[a] > 0 /\ work' = "delete" /\ todo' = <<a>>
      /\ held' = [held EXCEPT ![a] = held[a] - 1] /\ collected' = FALSE /\ obj' = obj
      /\ UNCHANGED <<gc_set, root, q, order, refuse, after>>
  <2>1. /\ work = "idle" /\ held[a] > 0 /\ work' = "delete" /\ todo' = <<a>>
        /\ held' = [held EXCEPT ![a] = held[a] + (-1)] /\ collected' = FALSE /\ obj' = obj
        /\ UNCHANGED <<gc_set, root, q, order, refuse, after>>
    BY DEF drop, Work, Holds, memory, pass
  <2>2. held[a] \in Nat
    BY <2>1, IdleIs
  <2>3. held[a] + (-1) = held[a] - 1
    BY <2>2
  <2> QED BY <2>1, <2>3
<1>2. /\ Basics /\ Quiet /\ Typed /\ Parents(Kids, gc_set) /\ Acyclic(Kids, gc_set)
      /\ todo = <<>> /\ after = Nothing
      /\ \A x \in Live : /\ Rc[x] = held[x] + Refers(Kids, Live, x)
                         /\ x \notin gc_set => Rc[x] > 0
                         /\ Rc[x] \in Int /\ held[x] \in Nat
                         /\ Refers(Kids, Live, x) \in Nat
      /\ a \in Live
  BY <1>1, IdleIs
<1>3. Live' = Live /\ Kids' = Kids /\ Rc' = Rc /\ Tmp' = Tmp /\ Marks' = Marks
  BY <1>1 DEF Live, Kids, Rc, Tmp, Marks
<1>4. held \in [Objs -> Nat] /\ a \in Objs
  BY <1>2 DEF Basics
<1>5. \A x \in Objs : held'[x] = held[x] - One(x, a)
  BY <1>1, <1>4 DEF One
<1>6. held' \in [Objs -> Nat] /\ HeldNow' \subseteq HeldNow
  <2>1. held' \in [Objs -> Nat]
    BY <1>1, <1>4
  <2>2. \A x \in Objs : held'[x] > 0 => held[x] > 0
    BY <1>1, <1>4
  <2> QED BY <2>1, <2>2 DEF HeldNow
<1>7. Typed'
  <2>1. <<a>> \in Seq(Live \cup {None})
    BY <1>2
  <2> QED BY <2>1, <1>1, <1>2, <1>3, <1>6 DEF Typed
<1>8. Quiet'
  BY <1>1, <1>2, <1>3 DEF Quiet
<1>9. ASSUME NEW x \in Live
      PROVE  Rc[x] = held'[x] + Refers(Kids, Live, x) + GivenUp(x)'
  <2>1. GivenUp(x)' = One(x, a) /\ One(x, a) \in Nat
    BY <1>1, PlacesOne DEF GivenUp, One
  <2>2. held'[x] = held[x] - One(x, a)
    BY <1>2, <1>5 DEF Basics
  <2> QED BY <1>2, <2>1, <2>2
<1>10. QuietNext
  BY <1>1, <1>2, <1>3, <1>7, <1>8, <1>9 DEF QuietNext
<1> QED BY <1>10, StillQuiet

LEMMA KeepStep ==
  ASSUME IInv, NEW a \in Known, keep(a)
  PROVE  IInv'
<1>1. /\ work = "idle" /\ obj' = Count(a, 1) /\ held' = [held EXCEPT ![a] = held[a] + 1]
      /\ collected' = FALSE /\ UNCHANGED <<gc_set, work, todo, root, q, order, refuse, after>>
  BY DEF keep, Holds, pass
<1>2. /\ Basics /\ Quiet /\ Typed /\ Parents(Kids, gc_set) /\ Acyclic(Kids, gc_set)
      /\ todo = <<>> /\ after = Nothing
      /\ \A x \in Live : /\ Rc[x] = held[x] + Refers(Kids, Live, x)
                         /\ x \notin gc_set => Rc[x] > 0
                         /\ Rc[x] \in Int /\ held[x] \in Nat
                         /\ Refers(Kids, Live, x) \in Nat
      /\ a \in Live
  BY <1>1, IdleIs
<1>3. held \in [Objs -> Nat] /\ a \in Objs /\ a # None
  BY <1>2 DEF Basics
<1>4. /\ SameKids(obj', obj) /\ Tmp' = Tmp /\ Marks' = Marks /\ Live' = Live /\ Kids' = Kids
      /\ \A x \in Live : Rc'[x] = Rc[x] + One(x, a)
  <2> DEFINE n == 1
  <2>1. n = 1 /\ n \in Int
    OBVIOUS
  <2>2. CountPut(obj', obj, a, n)
    BY <1>1, <1>3 DEF Count, CountPut
  <2> HIDE DEF n
  <2>3. Objects(obj) /\ a \in DOMAIN obj
    BY <1>2 DEF Basics, Live
  <2>4. /\ SameKids(obj', obj) /\ TmpOf(obj') = TmpOf(obj) /\ MarksOf(obj') = MarksOf(obj)
        /\ RcOf(obj') = [RcOf(obj) EXCEPT ![a] = RcOf(obj)[a] + n]
    BY ONLY <2>1, <2>2, <2>3, CountIs
  <2>5. ASSUME NEW x \in Live PROVE Rc'[x] = Rc[x] + One(x, a)
    <3>1. Rc' = [Rc EXCEPT ![a] = Rc[a] + n] /\ Rc \in [Live -> Int]
      BY <1>2, <2>4 DEF Rc, Basics
    <3> QED BY <2>1, <3>1 DEF One
  <2> QED BY <2>4, <2>5 DEF SameKids, Tmp, Marks, Live, Kids
<1>5. \A x \in Objs : held'[x] = held[x] + One(x, a)
  BY <1>1, <1>3 DEF One
<1>6. held' \in [Objs -> Nat] /\ HeldNow' \subseteq Live
  <2>1. held' \in [Objs -> Nat]
    BY <1>1, <1>3
  <2>2. \A x \in Objs : held'[x] > 0 => held[x] > 0 \/ x = a
    BY <1>1, <1>3
  <2> QED BY <2>1, <2>2, <1>2 DEF HeldNow, Typed
<1>7. Typed'
  BY <1>1, <1>2, <1>4, <1>6 DEF Typed, SameKids
<1>8. Quiet'
  BY <1>1, <1>2, <1>4 DEF Quiet
<1>9. ASSUME NEW x \in Live
      PROVE  /\ Rc'[x] = held'[x] + Refers(Kids, Live, x) + GivenUp(x)'
             /\ x \notin gc_set => Rc'[x] > 0
  <2>1. GivenUp(x)' = 0 /\ One(x, a) \in Nat
    BY <1>1 DEF GivenUp, One
  <2>2. held'[x] = held[x] + One(x, a)
    BY <1>2, <1>5 DEF Basics
  <2>3. Rc'[x] = Rc[x] + One(x, a)
    BY <1>4
  <2>4. /\ Rc[x] = held[x] + Refers(Kids, Live, x) /\ held[x] \in Nat
        /\ Refers(Kids, Live, x) \in Nat
        /\ x \notin gc_set => Rc[x] > 0
    BY <1>2
  <2> QED BY <2>1, <2>2, <2>3, <2>4
<1>10. QuietNext
  BY <1>1, <1>2, <1>4, <1>7, <1>8, <1>9 DEF QuietNext
<1> QED BY <1>10, StillQuiet

LEMMA NameFnStep ==
  ASSUME IInv, NEW f \in Funs, NEW i \in Values, NEW v \in Known, name_fn(f, i, v)
  PROVE  IInv'
<1> DEFINE k == obj[f].kid
           n == [k EXCEPT ![i] = None]
           b == [k EXCEPT ![i] = v]
<1>1. /\ work = "idle" /\ held[v] > 0 /\ work' = "delete" /\ todo' = <<k[i]>>
      /\ obj' = [obj EXCEPT ![f].kid[i] = None] /\ collected' = FALSE
      /\ after' = [call |-> "bind", f |-> f, i |-> i, kid |-> b]
      /\ UNCHANGED <<gc_set, held, root, q, order, refuse>>
  BY DEF name_fn, Work, pass
<1>2. /\ Basics /\ Quiet /\ Typed /\ Parents(Kids, gc_set) /\ Acyclic(Kids, gc_set)
      /\ todo = <<>> /\ after = Nothing
      /\ \A x \in Live : /\ Rc[x] = held[x] + Refers(Kids, Live, x)
                         /\ x \notin gc_set => Rc[x] > 0
                         /\ Rc[x] \in Int /\ held[x] \in Nat
                         /\ Refers(Kids, Live, x) \in Nat
      /\ f \in gc_set /\ f \in Live /\ v \in Live /\ v \in Objs
  BY <1>1, IdleIs DEF Basics
<1>3. /\ k = Kids[f] /\ k \in [1 .. Size -> Live \cup {None}] /\ i \in 1 .. Size /\ i # sup
      /\ sup \in 1 .. Size
  <2>1. k = Kids[f] /\ k \in [1 .. Size -> Live \cup {None}]
    BY <1>2, KidsAre DEF Basics
  <2>2. i \in 1 .. Size /\ i # sup /\ sup \in 1 .. Size
    BY ReferencesAssumption DEF Values, sup
  <2> QED BY <2>1, <2>2
<1>4. n \in [1 .. Size -> Live \cup {None}] /\ n[i] = None /\ n[sup] = k[sup] /\ b = [n EXCEPT ![i] = v]
  BY <1>3
<1>5. KidPut(obj', obj, f, n)
  BY <1>1 DEF KidPut
<1>6. SlotPut(n, k, Live \cup {None}, i, None)
  BY <1>3 DEF SlotPut
<1> HIDE DEF k, n, b
<1>7. /\ Live' = Live /\ Objects(obj') /\ Kids' = [Kids EXCEPT ![f] = n] /\ Rc' = Rc
      /\ Tmp' = Tmp /\ Marks' = Marks /\ FunsOf(obj') = FunsOf(obj)
  <2>1. Objects(obj) /\ f \in DOMAIN obj /\ n \in [1 .. Size -> DOMAIN obj \cup {None}]
    BY <1>2, <1>4 DEF Basics, Live
  <2>2. /\ DOMAIN obj' = DOMAIN obj /\ Objects(obj')
        /\ KidsOf(obj') = [KidsOf(obj) EXCEPT ![f] = n] /\ RcOf(obj') = RcOf(obj)
        /\ TmpOf(obj') = TmpOf(obj) /\ MarksOf(obj') = MarksOf(obj) /\ FunsOf(obj') = FunsOf(obj)
    BY ONLY <2>1, <1>5, KidIs
  <2> QED BY <2>2 DEF Live, Kids, Rc, Tmp, Marks
<1>8. DOMAIN Kids = Live /\ Kids'[f] = n /\ \A y \in Live \ {f} : Kids'[y] = Kids[y]
  BY <1>2, <1>7 DEF Kids, KidsOf, Live
<1>9. Rewritten(Kids', Kids, Live, f, Live \cup {None})
  BY <1>2, <1>3, <1>4, <1>8 DEF Rewritten, Basics
<1>10. Parents(Kids', gc_set') /\ Acyclic(Kids', gc_set')
  <2>1. k[sup] \in gc_set \cup {None}
    BY <1>2, <1>3, <1>8 DEF Parents
  <2>2. n[sup] \in gc_set \cup {None} /\ Objects(obj)
    BY <2>1, <1>2, <1>4 DEF Basics
  <2> QED BY <2>2, <1>1, <1>2, <1>7, OnlyFunctionsChange
<1>11. ASSUME NEW x \in Live
       PROVE  Rc[x] = held[x] + Refers(Kids', Live, x) + GivenUp(x)'
  <2>1. GivenUp(x)' = One(x, k[i]) /\ One(x, k[i]) \in Nat
    BY <1>1, PlacesOne DEF GivenUp, One
  <2>2. /\ Refers(Kids, Live, x) \in Nat /\ Refers(Kids', Live, x) \in Nat
        /\ Places(x, Kids[f]) \in Nat /\ Places(x, Kids'[f]) \in Nat
        /\ Refers(Kids', Live, x) + Places(x, Kids[f]) = Refers(Kids, Live, x) + Places(x, Kids'[f])
    BY ONLY <1>9, RefersChange
  <2>3. /\ Places(x, n) \in Nat /\ Places(x, k) \in Nat
        /\ Places(x, n) + One(x, k[i]) = Places(x, k) + One(x, None)
    BY ONLY <1>6, PlacesChange
  <2>4. One(x, None) = 0
    BY <1>2 DEF One, Basics
  <2>5. Rc[x] = held[x] + Refers(Kids, Live, x) /\ held[x] \in Nat
    BY <1>2
  <2> DEFINE a == Refers(Kids, Live, x)
             c == Refers(Kids', Live, x)
             l == Places(x, k)
             m == Places(x, n)
             o == One(x, k[i])
             h == held[x]
  <2>6. /\ a \in Nat /\ c \in Nat /\ l \in Nat /\ m \in Nat /\ o \in Nat /\ h \in Nat
        /\ c + l = a + m /\ m + o = l + 0
    BY <2>1, <2>2, <2>3, <2>4, <2>5, <1>3, <1>8
  <2>7. Rc[x] = h + a /\ GivenUp(x)' = o
    BY <2>1, <2>5
  <2> HIDE DEF a, c, l, m, o, h
  <2>8. h + a = h + c + o
    BY ONLY <2>6
  <2> QED BY <2>7, <2>8 DEF c, h
<1>12. Binding(v)'
  <2>1. f \in gc_set' /\ Kids'[f][i] = None /\ b = [Kids'[f] EXCEPT ![i] = v]
    BY <1>1, <1>2, <1>4, <1>8
  <2> QED BY <2>1, <1>1 DEF Binding
<1>13. Typed'
  <2>3. k[i] \in Live \cup {None}
    BY <1>3
  <2>1. <<k[i]>> \in Seq(Live \cup {None})
    BY <2>3
  <2>2. HeldNow' = HeldNow
    BY <1>1 DEF HeldNow
  <2> QED BY <2>1, <2>2, <1>1, <1>2, <1>7 DEF Typed
<1>14. Quiet'
  BY <1>1, <1>2, <1>7 DEF Quiet
<1>15. QuietNext
  <2>1. (\E u \in Objs : Binding(u)') /\ work' = "delete"
    BY <1>1, <1>2, <1>12
  <2>2. \A x \in Live' : /\ Rc'[x] = held'[x] + Refers(Kids', Live', x) + GivenUp(x)'
                         /\ x \notin gc_set' => Rc'[x] > 0
    BY <1>1, <1>2, <1>7, <1>11
  <2> QED BY <2>1, <2>2, <1>1, <1>10, <1>13, <1>14 DEF QuietNext
<1> QED BY <1>15, StillQuiet

(* At the start of gc_collect everything can be reached from what is held  *)
(* and from the functions: data that nothing refers to is freed already.   *)
LEMMA AllFunctionsAreThere ==
  ASSUME IInv, work = "idle"
  PROVE  Complete(Live, gc_set)
<1>1. /\ Basics /\ Acyclic(Kids, gc_set)
      /\ \A x \in Live : /\ Rc[x] = held[x] + Refers(Kids, Live, x)
                         /\ x \notin gc_set => Rc[x] > 0
                         /\ Rc[x] \in Int /\ held[x] \in Nat
                         /\ Refers(Kids, Live, x) \in Nat
  BY IdleIs
<1> SUFFICES ASSUME NEW T \in SUBSET Live, ClosedIn(Kids, T), HeldNow \subseteq T,
                    gc_set \cap Live \subseteq T, T # Live
             PROVE  FALSE
  BY DEF Complete
<1> DEFINE S == Live \ T
<1>2. S \in SUBSET (DOMAIN Kids \ gc_set) /\ S # {}
  BY DEF Kids, KidsOf, Live
<1>3. PICK x \in S : \A y \in S : x \notin RefsIn(Kids, y)
  <2> HIDE DEF S
  <2> QED BY <1>1, <1>2 DEF Acyclic
<1>4. \A y \in Live : x \notin RefsIn(Kids, y)
  BY <1>3 DEF ClosedIn
<1>5. Refers(Kids, Live, x) = 0
  <2>1. ASSUME NEW y \in Live, NEW i \in 1 .. Size, Kids[y][i] = x
        PROVE  FALSE
    <3>1. x # None
      BY <1>1, <1>3 DEF Basics
    <3> QED BY <2>1, <3>1, <1>4 DEF RefsIn
  <2>2. \A y \in Live, i \in 1 .. Size : Kids[y][i] # x
    BY <2>1
  <2>3. IsFiniteSet(Live)
    BY <1>1 DEF Basics
  <2> QED BY ONLY <2>2, <2>3, RefersAre
<1>6. x \in Live /\ x \notin gc_set
  BY <1>2
<1>7. held[x] > 0
  BY <1>1, <1>5, <1>6
<1>8. x \in HeldNow
  BY <1>1, <1>6, <1>7 DEF HeldNow, Basics
<1> QED BY <1>8

LEMMA GcCollectStep ==
  ASSUME IInv, gc_collect
  PROVE  IInv'
<1>1. /\ work = "idle" /\ order' = gc_set /\ work' = "pass" /\ todo' = <<>> /\ obj' = obj
      /\ collected' = FALSE /\ UNCHANGED <<gc_set, held, root, q, refuse, after>>
  BY DEF gc_collect, Work, memory
<1>2. /\ Basics /\ Quiet /\ Typed /\ after = Nothing /\ todo = <<>>
      /\ Parents(Kids, gc_set) /\ Acyclic(Kids, gc_set)
  BY <1>1, IdleIs
<1>3. Live' = Live /\ Kids' = Kids /\ Rc' = Rc /\ Tmp' = Tmp /\ Marks' = Marks /\ HeldNow' = HeldNow
  BY <1>1 DEF Live, Kids, Rc, Tmp, Marks, HeldNow
<1>4. Typed'
  <2>1. work' \in {"idle", "delete"} \cup Passing
    BY <1>1 DEF Passing
  <2> QED BY <2>1, <1>1, <1>2, <1>3 DEF Typed
<1>5. Parents(Kids, gc_set)' /\ Acyclic(Kids, gc_set)' /\ AfterSound'
  BY <1>1, <1>2, <1>3 DEF Parents, Acyclic, AfterSound, Nothing, NoRefs
<1>6. Counts' /\ DataCounted'
  <2>1. \A x : GivenUp(x) = 0 /\ GivenUp(x)' = 0 /\ Owed(x)' = Owed(x)
    BY <1>1 DEF GivenUp, Owed
  <2> QED BY <2>1, <1>1, <1>3 DEF IInv, Counts, DataCounted
<1>7. Clean' /\ InPass'
  <2>1. Complete(Live, gc_set) /\ Live \ {} = Live
    BY <1>1, AllFunctionsAreThere
  <2>2. Complete(Live \ refuse, order)'
    BY <2>1, <1>1, <1>2, <1>3 DEF Complete, Quiet
  <2> QED BY <2>2, <1>1, <1>2, <1>3 DEF Clean, Apart, InPass, Quiet, Marking, Looking
<1>8. InMark' /\ Covered' /\ InLook' /\ InSweep'
  BY <1>1 DEF InMark, Covered, InLook, InSweep, Marking, Looking
<1> QED BY <1>4, <1>5, <1>6, <1>7, <1>8 DEF IInv
-----------------------------------------------------------------------------
(* A new object, that nothing refers to but the interpreter.               *)
Adding(x, fun, kid) ==
  /\ x \in Objs \ Live /\ fun \in BOOLEAN
  /\ kid \in [1 .. Size -> Live \cup {None}] /\ kid[sup] \in gc_set \cup {None}
  /\ obj' = Added(x, fun, kid)

LEMMA AddedIs ==
  ASSUME Basics, Parents(Kids, gc_set), Acyclic(Kids, gc_set),
         NEW x, NEW fun, NEW kid, Adding(x, fun, kid)
  PROVE  /\ Live' = Live \cup {x} /\ Objects(obj') /\ DOMAIN Kids' = Live'
         /\ FunsOf(obj') = IF fun THEN gc_set \cup {x} ELSE gc_set
         /\ Marks' = Marks /\ Tmp'[x] = 0 /\ \A y \in Live : Tmp'[y] = Tmp[y]
         /\ Kids'[x] = kid /\ \A y \in Live : Kids'[y] = Kids[y]
         /\ Rc'[x] = 1 /\ \A y \in Live : Rc'[y] = Rc[y] + Places(y, kid)
         /\ Refers(Kids', Live', x) = 0
         /\ \A y \in Live :
              /\ Refers(Kids', Live', y) = Refers(Kids, Live, y) + Places(y, kid)
              /\ Refers(Kids, Live, y) \in Nat /\ Places(y, kid) \in Nat
         /\ Parents(Kids', FunsOf(obj')) /\ Acyclic(Kids', FunsOf(obj'))
<1> DEFINE new == [fun |-> fun, kid |-> kid, rc |-> 1, visited |-> FALSE, tmp |-> 0]
           L == Live \cup {x}
           S == Live \cup {None}
<1>1. /\ x \notin Live /\ x # None /\ None \notin Live /\ fun \in BOOLEAN /\ x \in Objs
      /\ kid \in [1 .. Size -> S] /\ kid[sup] \in gc_set \cup {None}
  BY ReferencesAssumption DEF Adding, Basics
<1>2. obj' = [y \in L |-> IF y = x THEN new ELSE [obj[y] EXCEPT !.rc = @ + Places(y, kid)]]
  BY DEF Adding, Added
<1>3. /\ DOMAIN obj' = L /\ Live' = L /\ obj'[x] = new
      /\ \A y \in Live : obj'[y] = [obj[y] EXCEPT !.rc = obj[y].rc + Places(y, kid)]
  BY <1>1, <1>2 DEF Live
<1>4. \A y : Places(y, kid) \in Nat
  <2>1. kid \in Seq(S)
    BY <1>1, ReferencesAssumption
  <2> QED BY <2>1, PlacesAre
<1>5. \A y \in Live : obj[y] \in ObjectWith(Live)
  BY FieldsAre DEF Basics, Live
<1> HIDE DEF L
<1>6. ASSUME NEW y \in Live
      PROVE  /\ obj'[y] \in ObjectWith(L)
             /\ obj'[y].rc = obj[y].rc + Places(y, kid) /\ obj'[y].fun = obj[y].fun
             /\ obj'[y].tmp = obj[y].tmp /\ obj'[y].visited = obj[y].visited
             /\ obj'[y].kid = obj[y].kid
  <2>1. obj[y] \in ObjectWith(Live) /\ Places(y, kid) \in Int
    BY <1>4, <1>5
  <2>2. obj[y] \in ObjectWith(L)
    BY <2>1 DEF ObjectWith, L
  <2> DEFINE r == obj[y]
             p == Places(y, kid)
  <2>3. obj'[y] = [r EXCEPT !.rc = r.rc + p]
    BY <1>3
  <2> HIDE DEF r, p
  <2>4. r \in ObjectWith(L) /\ p \in Int
    BY <2>1, <2>2 DEF r, p
  <2>5. [r EXCEPT !.rc = r.rc + p] \in ObjectWith(L)
    BY <2>4 DEF ObjectWith
  <2>6. /\ [r EXCEPT !.rc = r.rc + p].rc = r.rc + p
        /\ [r EXCEPT !.rc = r.rc + p].fun = r.fun
        /\ [r EXCEPT !.rc = r.rc + p].tmp = r.tmp
        /\ [r EXCEPT !.rc = r.rc + p].visited = r.visited
        /\ [r EXCEPT !.rc = r.rc + p].kid = r.kid
    BY <2>4 DEF ObjectWith
  <2> QED BY <2>3, <2>5, <2>6 DEF r, p
<1>7. obj'[x] \in ObjectWith(L)
  <2>1. kid \in [1 .. Size -> L \cup {None}]
    BY <1>1 DEF L
  <2> QED BY <2>1, <1>1, <1>3 DEF ObjectWith
<1>8. Objects(obj')
  <2>1. \A y \in L : obj'[y] \in ObjectWith(L)
    BY <1>6, <1>7 DEF L
  <2>2. obj' = [y \in L |-> obj'[y]]
    BY <1>2
  <2>3. obj' \in [L -> ObjectWith(L)]
    BY <2>1, <2>2
  <2> QED BY <2>3, <1>3 DEF Objects
<1>9. FunsOf(obj') = IF fun THEN gc_set \cup {x} ELSE gc_set
  <2>1. FunsOf(obj') = {y \in L : obj'[y].fun} /\ gc_set = {y \in Live : obj[y].fun}
    BY <1>3 DEF FunsOf, Basics, Live
  <2> QED BY <2>1, <1>1, <1>3, <1>6 DEF L
<1>10. Marks' = Marks
  <2>1. Marks' = {y \in L : obj'[y].visited} /\ Marks = {y \in Live : obj[y].visited}
    BY <1>3 DEF Marks, MarksOf, Live
  <2> QED BY <2>1, <1>1, <1>3, <1>6 DEF L
<1>11. /\ Tmp'[x] = 0 /\ Rc'[x] = 1 /\ Kids'[x] = kid /\ DOMAIN Kids' = L
       /\ \A y \in Live : Tmp'[y] = Tmp[y] /\ Kids'[y] = Kids[y]
       /\ \A y \in Live : Rc'[y] = Rc[y] + Places(y, kid)
  BY <1>3, <1>6 DEF Tmp, TmpOf, Rc, RcOf, Kids, KidsOf, Live, L
<1>12. IsFiniteSet(Live) /\ \A y \in Live : RefsIn(Kids, y) \subseteq Live
  BY KidsAre DEF Basics
<1>13. ASSUME NEW y
       PROVE  /\ Refers(Kids', L, y) = Refers(Kids, Live, y) + Places(y, kid)
              /\ Refers(Kids, Live, y) \in Nat
  <2>1. Kids'[x] \in [1 .. Size -> S] /\ \A z \in Live : Kids'[z] = Kids[z]
    BY <1>1, <1>11
  <2> HIDE DEF S
  <2>2. Refers(Kids', Live \cup {x}, y) = Refers(Kids', Live, y) + Places(y, Kids'[x])
    <3>1. IsFiniteSet(Live) /\ x \notin Live /\ Kids'[x] \in [1 .. Size -> S]
      BY <1>1, <1>12, <2>1
    <3> QED BY ONLY <3>1, RefersMore
  <2>3. Refers(Kids', Live, y) = Refers(Kids, Live, y)
    BY <2>1, RefersSame
  <2>4. Refers(Kids, Live, y) \in Nat
    BY <1>12, RefersAre
  <2> QED BY <2>2, <2>3, <2>4, <1>11 DEF L
<1>14. Refers(Kids', L, x) = 0
  <2>1. kid \in Seq(S) /\ Len(kid) = Size
    BY <1>1, ReferencesAssumption
  <2>2. \A i \in 1 .. Size : kid[i] # x
    BY <1>1
  <2>3. Places(x, kid) = 0
    BY <2>1, <2>2, PlacesAre
  <2>4. ASSUME NEW y \in Live, NEW i \in 1 .. Size, Kids[y][i] = x PROVE FALSE
    BY <2>4, <1>1, <1>12 DEF RefsIn
  <2>5. \A y \in Live, i \in 1 .. Size : Kids[y][i] # x
    BY <2>4
  <2>6. Refers(Kids, Live, x) = 0
    BY <1>12, <2>5, RefersAre
  <2> QED BY <1>13, <2>3, <2>6
<1> DEFINE F == FunsOf(obj')
<1>15. gc_set \subseteq F /\ F \subseteq gc_set \cup {x}
  BY <1>9
<1> HIDE DEF F
<1>16. Parents(Kids', F)
  BY <1>1, <1>11, <1>15 DEF Parents, L, Kids, KidsOf, Live
<1>17. Acyclic(Kids', F)
  <2> SUFFICES ASSUME NEW T \in SUBSET (L \ F), T # {}
               PROVE  \E z \in T : \A y \in T : z \notin RefsIn(Kids', y)
    BY <1>11 DEF Acyclic
  <2>1. \A y \in Live : RefsIn(Kids', y) = RefsIn(Kids, y)
    BY <1>11 DEF RefsIn
  <2>2. x \notin RefsIn(Kids', x)
    BY <1>1, <1>11 DEF RefsIn
  <2>3. CASE x \in T
    <3>1. \A y \in T : x \notin RefsIn(Kids', y)
      BY <2>1, <2>2, <1>1, <1>12 DEF L
    <3> QED BY <2>3, <3>1
  <2>4. CASE x \notin T
    <3>1. T \in SUBSET (DOMAIN Kids \ gc_set) /\ T \subseteq Live
      BY <2>4, <1>15 DEF L, Kids, KidsOf, Live
    <3>2. PICK z \in T : \A y \in T : z \notin RefsIn(Kids, y)
      BY <3>1 DEF Acyclic
    <3> QED BY <2>1, <3>1, <3>2
  <2> QED BY <2>3, <2>4
<1> QED BY <1>3, <1>4, <1>8, <1>9, <1>10, <1>11, <1>13, <1>14, <1>16, <1>17 DEF F, L

LEMMA NewObject ==
  ASSUME IInv, work = "idle", NEW x, NEW fun, NEW kid, Adding(x, fun, kid),
         gc_set' = (IF fun THEN gc_set \cup {x} ELSE gc_set), Holds(x, 1),
         UNCHANGED <<work, todo, root, q, order, refuse, after>>
  PROVE  IInv'
<1>1. /\ Basics /\ Quiet /\ Typed /\ Parents(Kids, gc_set) /\ Acyclic(Kids, gc_set)
      /\ todo = <<>> /\ after = Nothing
      /\ \A y \in Live : /\ Rc[y] = held[y] + Refers(Kids, Live, y)
                         /\ y \notin gc_set => Rc[y] > 0
                         /\ Rc[y] \in Int /\ held[y] \in Nat
                         /\ Refers(Kids, Live, y) \in Nat
  BY IdleIs
<1>2. /\ Live' = Live \cup {x} /\ Objects(obj') /\ DOMAIN Kids' = Live'
      /\ FunsOf(obj') = IF fun THEN gc_set \cup {x} ELSE gc_set
      /\ Marks' = Marks /\ Tmp'[x] = 0 /\ \A y \in Live : Tmp'[y] = Tmp[y]
      /\ Kids'[x] = kid /\ \A y \in Live : Kids'[y] = Kids[y]
      /\ Rc'[x] = 1 /\ \A y \in Live : Rc'[y] = Rc[y] + Places(y, kid)
      /\ Refers(Kids', Live', x) = 0
      /\ \A y \in Live :
           /\ Refers(Kids', Live', y) = Refers(Kids, Live, y) + Places(y, kid)
           /\ Refers(Kids, Live, y) \in Nat /\ Places(y, kid) \in Nat
      /\ Parents(Kids', FunsOf(obj')) /\ Acyclic(Kids', FunsOf(obj'))
  BY <1>1, AddedIs
<1>3. x \in Objs /\ x \notin Live /\ gc_set' = FunsOf(obj') /\ gc_set \subseteq gc_set'
  BY <1>2 DEF Adding
<1>4. held \in [Objs -> Nat] /\ held' = [held EXCEPT ![x] = held[x] + 1] /\ collected' = FALSE
  BY <1>1 DEF Basics, Holds
<1>5. held[x] = 0
  <2>1. ~(held[x] > 0)
    BY <1>1, <1>3 DEF Typed, HeldNow
  <2> QED BY <2>1, <1>3, <1>4
<1>6. /\ held' \in [Objs -> Nat] /\ held'[x] = 1 /\ \A y \in Live : held'[y] = held[y]
      /\ \A y \in Objs \ {x} : held'[y] = held[y]
  BY <1>3, <1>4, <1>5
<1>7. HeldNow' \subseteq Live'
  BY <1>1, <1>2, <1>6 DEF HeldNow, Typed
<1>8. Typed'
  <2>1. IsFiniteSet(Live')
    <3>1. IsFiniteSet(Live)
      BY <1>1 DEF Basics
    <3>2. IsFiniteSet(Live \cup {x})
      BY ONLY <3>1, FS_AddElement
    <3> QED BY <3>2, <1>2
  <2>2. Live' \subseteq Objs
    BY <1>1, <1>2, <1>3 DEF Basics
  <2>3. todo' \in Seq(Live' \cup {None}) /\ q' \in Seq(Live') /\ order' \subseteq gc_set' /\ refuse' \subseteq Live'
    BY <1>1 DEF Quiet
  <2>4. work' \in {"idle", "delete"} \cup Passing
    OBVIOUS
  <2> QED BY <2>1, <2>2, <2>3, <2>4, <1>2, <1>3, <1>4, <1>6, <1>7 DEF Typed
<1>9. Quiet'
  BY <1>1, <1>2 DEF Quiet
<1>10. ASSUME NEW y \in Live'
       PROVE  /\ Rc'[y] = held'[y] + Refers(Kids', Live', y) + GivenUp(y)'
              /\ y \notin gc_set' => Rc'[y] > 0
  <2>1. GivenUp(y)' = 0
    BY DEF GivenUp
  <2>2. CASE y = x
    BY <2>1, <2>2, <1>2, <1>6
  <2>3. CASE y \in Live
    <3> DEFINE h == held[y]
               a == Refers(Kids, Live, y)
               p == Places(y, kid)
    <3>1. h \in Nat /\ a \in Nat /\ p \in Nat /\ (y \notin gc_set' => h + a > 0)
      BY <2>3, <1>1, <1>2, <1>3
    <3>2. Rc'[y] = (h + a) + p /\ held'[y] = h /\ Refers(Kids', Live', y) = a + p
      BY <2>3, <1>1, <1>2, <1>6
    <3> HIDE DEF h, a, p
    <3> QED BY <2>1, <3>1, <3>2
  <2> QED BY <2>2, <2>3, <1>2
<1>11. QuietNext
  BY <1>1, <1>2, <1>3, <1>8, <1>9, <1>10 DEF QuietNext
<1> QED BY <1>11, StillQuiet

LEMMA ObjectStep ==
  ASSUME IInv, NEW x \in Objs \ Live, NEW kid \in [1 .. Size -> Known \cup {None}],
         object(x, kid)
  PROVE  IInv'
<1>1. /\ work = "idle" /\ kid[sup] = None /\ obj' = Added(x, FALSE, kid) /\ Holds(x, 1)
      /\ UNCHANGED <<gc_set, work, todo, root, q, order, refuse, after>>
  BY DEF object, pass
<1>2. Known \subseteq Live
  BY <1>1, IdleIs
<1>3. kid \in [1 .. Size -> Live \cup {None}]
  BY <1>2
<1>4. Adding(x, FALSE, kid)
  BY <1>1, <1>3 DEF Adding
<1> QED BY <1>1, <1>4, NewObject

LEMMA NewFnStep ==
  ASSUME IInv, NEW x \in Objs \ Live, NEW s \in Funs \cup {None}, NEW e \in Data,
         new_fn(x, s, e)
  PROVE  IInv'
<1> DEFINE kid == [NoRefs EXCEPT ![sup] = s, ![exp] = e]
<1>1. /\ work = "idle" /\ obj' = Added(x, TRUE, kid) /\ gc_set' = gc_set \cup {x} /\ Holds(x, 1)
      /\ UNCHANGED <<work, todo, root, q, order, refuse, after>>
  BY DEF new_fn, pass
<1>2. s \in gc_set \cup {None} /\ e \in Live /\ gc_set \subseteq Live
  BY <1>1, IdleIs DEF Basics
<1>3. sup \in 1 .. Size /\ exp \in 1 .. Size /\ sup # exp
  BY ReferencesAssumption DEF sup, exp
<1>4. kid \in [1 .. Size -> Live \cup {None}] /\ kid[sup] = s
  BY <1>2, <1>3 DEF NoRefs
<1> HIDE DEF kid
<1>5. Adding(x, TRUE, kid)
  BY <1>1, <1>2, <1>4 DEF Adding
<1> QED BY <1>1, <1>5, NewObject
-----------------------------------------------------------------------------
(* del_fn: the counts of two references are taken off,                     *)
Uncounting(N, refs) ==
  N = [x \in Live |-> [obj[x] EXCEPT !.rc = @ - Places(x, refs)]]

LEMMA UncountedIs ==
  ASSUME Basics, NEW refs \in Seq(Live \cup {None}), NEW N, Uncounting(N, refs)
  PROVE  /\ SameKids(N, obj) /\ TmpOf(N) = Tmp /\ MarksOf(N) = Marks
         /\ \A x \in Live : RcOf(N)[x] = Rc[x] - Places(x, refs) /\ Places(x, refs) \in Nat
<1>1. \A x : Places(x, refs) \in Nat
  BY PlacesAre
<1>2. DOMAIN N = Live
  BY DEF Uncounting
<1>3. ASSUME NEW x \in Live
      PROVE  /\ N[x] \in ObjectWith(Live)
             /\ N[x].rc = obj[x].rc - Places(x, refs) /\ N[x].fun = obj[x].fun
             /\ N[x].tmp = obj[x].tmp /\ N[x].visited = obj[x].visited
             /\ N[x].kid = obj[x].kid
  <2> DEFINE r == obj[x]
             p == Places(x, refs)
  <2>1. N[x] = [r EXCEPT !.rc = r.rc - p]
    BY DEF Uncounting
  <2>2. r \in ObjectWith(Live) /\ p \in Int
    BY <1>1, FieldsAre DEF Basics, Live
  <2> HIDE DEF r, p
  <2>3. [r EXCEPT !.rc = r.rc - p] \in ObjectWith(Live)
    BY <2>2 DEF ObjectWith
  <2>4. /\ [r EXCEPT !.rc = r.rc - p].rc = r.rc - p
        /\ [r EXCEPT !.rc = r.rc - p].fun = r.fun
        /\ [r EXCEPT !.rc = r.rc - p].tmp = r.tmp
        /\ [r EXCEPT !.rc = r.rc - p].visited = r.visited
        /\ [r EXCEPT !.rc = r.rc - p].kid = r.kid
    BY <2>2 DEF ObjectWith
  <2> QED BY <2>1, <2>3, <2>4 DEF r, p
<1>4. Objects(N)
  <2>1. N = [x \in Live |-> N[x]]
    BY DEF Uncounting
  <2> QED BY <1>2, <1>3, <2>1 DEF Objects
<1>5. KidsOf(N) = KidsOf(obj) /\ FunsOf(N) = FunsOf(obj)
  BY <1>2, <1>3 DEF KidsOf, FunsOf, Live
<1>6. TmpOf(N) = Tmp /\ MarksOf(N) = Marks
  BY <1>2, <1>3 DEF TmpOf, MarksOf, Tmp, Marks, Live
<1>7. \A x \in Live : RcOf(N)[x] = Rc[x] - Places(x, refs)
  BY <1>2, <1>3 DEF RcOf, Rc, Live
<1> QED BY <1>1, <1>2, <1>4, <1>5, <1>6, <1>7 DEF SameKids, Live

(* and its parent and its code are taken out of the function.              *)
Unlinking(f, kid, less) ==
  /\ f \in gc_set /\ kid = Kids[f] /\ less = [kid EXCEPT ![sup] = None, ![exp] = None]
  /\ LET uncounted == [x \in Live |-> [obj[x] EXCEPT !.rc = @ - Places(x, <<f, kid[sup]>>)]]
     IN  obj' = [uncounted EXCEPT ![f].kid[sup] = None, ![f].kid[exp] = None]

LEMMA UnlinkingIs ==
  ASSUME Basics, NEW f, NEW kid, NEW less, Unlinking(f, kid, less)
  PROVE  /\ f \in Live /\ kid \in [1 .. Size -> Live \cup {None}]
         /\ less \in [1 .. Size -> Live \cup {None}]
         /\ Live' = Live /\ Objects(obj') /\ FunsOf(obj') = gc_set
         /\ Tmp' = Tmp /\ Marks' = Marks /\ Kids' = [Kids EXCEPT ![f] = less]
         /\ \A x \in Live : Rc'[x] = Rc[x] - (One(x, f) + One(x, kid[sup]))
<1> DEFINE refs == <<f, kid[sup]>>
           M == [x \in Live |-> [obj[x] EXCEPT !.rc = @ - Places(x, refs)]]
           S == Live \cup {None}
<1>1. f \in Live /\ sup \in 1 .. Size /\ exp \in 1 .. Size /\ sup # exp
  BY ReferencesAssumption DEF Basics, Unlinking, sup, exp
<1>2. kid \in [1 .. Size -> S] /\ kid = obj[f].kid
  BY <1>1, KidsAre DEF Basics, Unlinking
<1>3. less \in [1 .. Size -> S]
  BY <1>1, <1>2 DEF Unlinking
<1>4. kid[sup] \in S /\ f \in S
  BY <1>1, <1>2
<1>5. refs \in Seq(S)
  <2> HIDE DEF S
  <2> QED BY <1>4
<1>6. Uncounting(M, refs)
  BY DEF Uncounting
<1>7. obj' = [M EXCEPT ![f].kid[sup] = None, ![f].kid[exp] = None]
  BY DEF Unlinking
<1> HIDE DEF M, refs
<1>8. /\ SameKids(M, obj) /\ TmpOf(M) = Tmp /\ MarksOf(M) = Marks
      /\ \A x \in Live : RcOf(M)[x] = Rc[x] - Places(x, refs) /\ Places(x, refs) \in Nat
  BY <1>5, <1>6, UncountedIs
<1>9. DOMAIN M = Live /\ Objects(M) /\ KidsOf(M) = Kids /\ FunsOf(M) = gc_set
  BY <1>8 DEF SameKids, Live, Kids, Basics
<1>10. M[f].kid = kid
  BY <1>1, <1>9, FieldsAre DEF Unlinking
<1>11. KidPut(obj', M, f, less)
  <2> DEFINE r == M[f]
             k1 == [kid EXCEPT ![sup] = None]
  <2>1. less = [k1 EXCEPT ![exp] = None]
    BY <1>1, <1>2 DEF Unlinking
  <2>2. r \in ObjectWith(Live) /\ r.kid = kid
    BY <1>1, <1>9, <1>10, FieldsAre
  <2>3. obj' = [M EXCEPT ![f] = [[r EXCEPT !.kid = [r.kid EXCEPT ![sup] = None]]
                                    EXCEPT !.kid = [[r.kid EXCEPT ![sup] = None] EXCEPT ![exp] = None]]]
    BY <1>1, <1>7, <1>9, <2>2 DEF ObjectWith
  <2> HIDE DEF k1, r
  <2>4. obj' = [M EXCEPT ![f] = [[r EXCEPT !.kid = k1] EXCEPT !.kid = less]]
    BY <2>1, <2>2, <2>3 DEF k1
  <2>5. [[r EXCEPT !.kid = k1] EXCEPT !.kid = less] = [r EXCEPT !.kid = less]
    BY <2>2 DEF ObjectWith
  <2> QED BY <2>4, <2>5 DEF KidPut, r
<1>12. /\ DOMAIN obj' = DOMAIN M /\ Objects(obj')
       /\ KidsOf(obj') = [KidsOf(M) EXCEPT ![f] = less] /\ RcOf(obj') = RcOf(M)
       /\ TmpOf(obj') = TmpOf(M) /\ MarksOf(obj') = MarksOf(M) /\ FunsOf(obj') = FunsOf(M)
  <2>1. Objects(M) /\ f \in DOMAIN M /\ less \in [1 .. Size -> DOMAIN M \cup {None}]
    BY <1>1, <1>3, <1>9
  <2> QED BY ONLY <2>1, <1>11, KidIs
<1>13. ASSUME NEW x \in Live PROVE Places(x, refs) = One(x, f) + One(x, kid[sup])
  <2>1. refs # <<>> /\ Head(refs) = f /\ Tail(refs) = <<kid[sup]>>
    BY DEF refs
  <2>2. Places(x, refs) = One(x, f) + Places(x, <<kid[sup]>>)
    BY <1>5, <2>1, PlacesOfHead
  <2> QED BY <2>2, PlacesOne
<1>14. \A x \in Live : Rc'[x] = Rc[x] - (One(x, f) + One(x, kid[sup]))
  BY <1>8, <1>12, <1>13 DEF Rc
<1> QED BY <1>1, <1>2, <1>3, <1>8, <1>9, <1>12, <1>14 DEF Live, Kids, Tmp, Marks

LEMMA DelFnStep ==
  ASSUME IInv, NEW f \in Funs, del_fn(f)
  PROVE  IInv'
<1> DEFINE kid == obj[f].kid
           less == [kid EXCEPT ![sup] = None, ![exp] = None]
<1>1. /\ work = "idle" /\ held[f] > 0 /\ work' = "pass" /\ todo' = <<>> /\ order' = {f}
      /\ Holds(f, -1) /\ after' = [call |-> "return", f |-> f, i |-> sup, kid |-> kid]
      /\ UNCHANGED <<gc_set, root, q, refuse>>
  BY DEF del_fn, Work
<1>2. /\ Basics /\ Quiet /\ Typed /\ Parents(Kids, gc_set) /\ Acyclic(Kids, gc_set)
      /\ todo = <<>> /\ after = Nothing
      /\ \A x \in Live : /\ Rc[x] = held[x] + Refers(Kids, Live, x)
                         /\ x \notin gc_set => Rc[x] > 0
                         /\ Rc[x] \in Int /\ held[x] \in Nat
                         /\ Refers(Kids, Live, x) \in Nat
      /\ f \in gc_set
  BY <1>1, IdleIs
<1>3. f \in Live /\ f \in Objs /\ kid = Kids[f]
  BY <1>2, KidsAre DEF Basics
<1>4. Unlinking(f, kid, less)
  BY <1>2, <1>3 DEF del_fn, Unlinking
<1>5. less = [kid EXCEPT ![sup] = None, ![exp] = None]
  OBVIOUS
<1> HIDE DEF kid, less
<1>6. /\ kid \in [1 .. Size -> Live \cup {None}] /\ less \in [1 .. Size -> Live \cup {None}]
      /\ Live' = Live /\ Objects(obj') /\ FunsOf(obj') = gc_set
      /\ Tmp' = Tmp /\ Marks' = Marks /\ Kids' = [Kids EXCEPT ![f] = less]
      /\ \A x \in Live : Rc'[x] = Rc[x] - (One(x, f) + One(x, kid[sup]))
  BY <1>2, <1>4, UnlinkingIs
<1>7. /\ sup \in 1 .. Size /\ exp \in 1 .. Size /\ sup # exp
      /\ less[sup] = None /\ kid[sup] \in gc_set \cup {None} /\ DOMAIN Kids = Live
      /\ Kids'[f] = less /\ \A y \in Live \ {f} : Kids'[y] = Kids[y]
  <2>1. sup \in 1 .. Size /\ exp \in 1 .. Size /\ sup # exp /\ DOMAIN Kids = Live
    BY ReferencesAssumption DEF sup, exp, Kids, KidsOf, Live
  <2> QED BY <2>1, <1>2, <1>3, <1>5, <1>6 DEF Parents
<1>8. Returning'
  BY <1>1, <1>2, <1>5, <1>6, <1>7 DEF Returning, Passing, Quiet
<1>9. held \in [Objs -> Nat] /\ held' = [held EXCEPT ![f] = held[f] + (-1)] /\ collected' = FALSE
  BY <1>1, <1>2 DEF Basics, Holds
<1>10. /\ held' \in [Objs -> Nat] /\ HeldNow' \subseteq HeldNow
       /\ \A x \in Live : held'[x] = held[x] - One(x, f)
  <2>1. held[f] + (-1) = held[f] - 1 /\ held[f] - 1 \in Nat
    BY <1>1, <1>3, <1>9
  <2>2. held' \in [Objs -> Nat] /\ \A x \in Objs : held'[x] = IF x = f THEN held[f] - 1 ELSE held[x]
    BY <1>3, <1>9, <2>1
  <2>3. \A x \in Objs : held'[x] > 0 => held[x] > 0
    BY <1>1, <2>2
  <2>4. \A x \in Live : held'[x] = held[x] - One(x, f)
    BY <1>2, <2>2 DEF One, Basics
  <2> QED BY <2>2, <2>3, <2>4 DEF HeldNow
<1>11. Typed'
  <2>1. <<>> \in Seq(Live \cup {None})
    OBVIOUS
  <2>2. {f} \subseteq gc_set /\ work' \in {"idle", "delete"} \cup Passing
    BY <1>1, <1>2 DEF Passing
  <2> QED BY <2>1, <2>2, <1>1, <1>2, <1>6, <1>9, <1>10 DEF Typed
<1>12. Parents(Kids, gc_set)' /\ Acyclic(Kids, gc_set)'
  <2>1. less[sup] \in gc_set \cup {None} /\ Objects(obj)
    BY <1>2, <1>7 DEF Basics
  <2>2. Parents(Kids', gc_set) /\ Acyclic(Kids', gc_set)
    BY <2>1, <1>2, <1>6, OnlyFunctionsChange
  <2> QED BY <2>2, <1>1
<1>13. Rewritten(Kids', Kids, Live, f, Live \cup {None})
  BY <1>2, <1>3, <1>6, <1>7 DEF Rewritten, Basics
<1>14. ASSUME NEW x \in Live
       PROVE  /\ Rc'[x] = held'[x] + Refers(Kids', Live, x) + GivenUp(x)' + Owed(x)'
              /\ x \notin gc_set => Rc'[x] > 0
  <2>1. GivenUp(x)' = 0 /\ Owed(x)' = One(x, kid[exp])
    BY <1>1 DEF GivenUp, Owed, One
  <2>2. /\ Refers(Kids, Live, x) \in Nat /\ Refers(Kids', Live, x) \in Nat
        /\ Refers(Kids', Live, x) + Places(x, Kids[f]) = Refers(Kids, Live, x) + Places(x, Kids'[f])
    BY ONLY <1>13, RefersChange
  <2>3. x # None /\ Unlinked(less, kid, Live \cup {None})
    BY <1>2, <1>5, <1>6 DEF Basics, Unlinked
  <2>4. /\ Places(x, kid) = Places(x, less) + One(x, kid[sup]) + One(x, kid[exp])
        /\ Places(x, kid) \in Nat /\ Places(x, less) \in Nat
    BY ONLY <2>3, UnlinkedIs
  <2>5. One(x, f) \in Nat /\ One(x, kid[sup]) \in Nat /\ One(x, kid[exp]) \in Nat
    BY DEF One
  <2> DEFINE a == Refers(Kids, Live, x)
             b == Refers(Kids', Live, x)
             k == Places(x, kid)
             l == Places(x, less)
             g == One(x, f)
             s == One(x, kid[sup])
             e == One(x, kid[exp])
             h == held[x]
  <2>6. /\ a \in Nat /\ b \in Nat /\ k \in Nat /\ l \in Nat /\ g \in Nat /\ s \in Nat
        /\ e \in Nat /\ h \in Nat /\ b + k = a + l /\ k = l + s + e
    BY <1>2, <1>3, <1>7, <2>2, <2>4, <2>5
  <2>7. Rc'[x] = (h + a) - (g + s) /\ held'[x] = h - g
    BY <1>2, <1>6, <1>10
  <2>8. x \notin gc_set => h + a > 0 /\ g = 0 /\ s = 0
    BY <1>2, <1>7, <2>3 DEF One
  <2> HIDE DEF a, b, k, l, g, s, e, h
  <2>9. (h + a) - (g + s) = (h - g) + b + 0 + e
    BY ONLY <2>6
  <2>10. Rc'[x] = held'[x] + b + 0 + e
    BY <2>7, <2>9
  <2>11. x \notin gc_set => Rc'[x] > 0
    BY <2>6, <2>7, <2>8
  <2> QED BY <2>1, <2>10, <2>11 DEF b, e
<1>15. Counts' /\ DataCounted'
  <2>1. refuse' = {} /\ Live \ {} = Live /\ gc_set' = gc_set
    BY <1>1, <1>2 DEF Quiet
  <2>2. Counts'
    BY <2>1, <1>6, <1>14 DEF Counts
  <2>3. DataCounted'
    BY <2>1, <1>6, <1>14 DEF DataCounted
  <2> QED BY <2>2, <2>3
<1>16. AfterSound'
  BY <1>8 DEF AfterSound
<1>17. Clean'
  BY <1>1, <1>2, <1>6 DEF Clean, Quiet, Apart, Marking, Looking
<1>18. after' # Nothing
  <2>1. after'.call = "return" /\ Nothing.call = "none"
    BY <1>1 DEF Nothing
  <2> QED BY <2>1
<1>19. InPass' /\ InMark' /\ Covered' /\ InLook' /\ InSweep'
  BY <1>1, <1>2, <1>6, <1>18 DEF InPass, InMark, Covered, InLook, InSweep, Marking, Looking, Quiet
<1> QED BY <1>11, <1>12, <1>15, <1>16, <1>17, <1>19 DEF IInv
-----------------------------------------------------------------------------
(* All the steps.                                                          *)
LEMMA MarkNextStep ==
  ASSUME IInv, mark_next
  PROVE  IInv'
<1>1. /\ Following("mark")
      /\ UNCHANGED <<gc_set, held, work, root, order, refuse, after, collected>>
  BY DEF mark_next
<1>2. CASE Ref = None /\ todo' = Rest /\ UNCHANGED <<obj, q>>
  BY <1>1, <1>2, SkipNone
<1>3. CASE /\ Ref # None /\ obj[Ref].visited
           /\ obj' = [obj EXCEPT ![Ref].tmp = @ + 1] /\ todo' = Rest /\ q' = q
  BY <1>1, <1>3, MarkAgain
<1>4. CASE /\ Ref # None /\ ~obj[Ref].visited
           /\ obj' = Marked(Ref, TRUE) /\ todo' = obj[Ref].kid \o Rest /\ q' = <<Ref>> \o q
  BY <1>1, <1>4, MarkNew
<1> QED BY <1>2, <1>3, <1>4 DEF mark_next

LEMMA UnmarkNextStep ==
  ASSUME IInv, unmark_next
  PROVE  IInv'
<1>1. /\ Following("unmark")
      /\ UNCHANGED <<gc_set, held, work, root, q, order, refuse, after, collected>>
  BY DEF unmark_next, pass
<1>2. CASE Ref # None /\ obj[Ref].visited
  <2>1. obj' = Marked(Ref, FALSE) /\ todo' = obj[Ref].kid \o Rest
    BY <1>2 DEF unmark_next
  <2> QED BY <1>1, <1>2, <2>1, UnmarkNew
<1>3. CASE ~(Ref # None /\ obj[Ref].visited)
  <2>1. obj' = obj /\ todo' = Rest
    BY <1>3 DEF unmark_next
  <2> QED BY <1>1, <1>3, <2>1, UnmarkSkip
<1> QED BY <1>2, <1>3

(* del_fn is to go on if and only if after says so.                        *)
LEMMA AfterIs ==
  ASSUME IInv, work = "pass"
  PROVE  /\ after = Nothing \/ Returning
         /\ after.call = "none" => after = Nothing
         /\ after.call = "return" => Returning
<1>1. after = Nothing \/ Returning
  BY DEF IInv, AfterSound, Binding
<1>2. Nothing.call = "none"
  BY DEF Nothing
<1>3. Returning => after.call = "return"
  BY DEF Returning
<1> QED BY <1>1, <1>2, <1>3

LEMMA FreedStep ==
  ASSUME IInv, freed
  PROVE  IInv'
<1>1. /\ work = "pass" /\ order = {} /\ gc_set' = gc_set \ refuse /\ refuse' = {}
      /\ after' = Nothing /\ UNCHANGED <<held, root, q, order>>
  BY DEF freed
<1>2. /\ after.call = "none" => after = Nothing
      /\ after.call = "return" => Returning
  BY <1>1, AfterIs
<1>3. CASE /\ refuse = {} /\ after.call = "return"
           /\ obj' = Linked(after.f, after.i, after.kid) /\ Work("idle", <<>>)
           /\ UNCHANGED collected
  BY <1>1, <1>3, FreedKept DEF Work
<1>4. CASE /\ refuse # {} /\ after.call = "return"
           /\ obj' = [y \in Live \ refuse |-> obj[y]] /\ Work("delete", <<after.kid[exp]>>)
           /\ UNCHANGED collected
  BY <1>1, <1>2, <1>4, FreedFewer DEF Work
<1>5. CASE /\ after.call = "none"
           /\ obj' = [y \in Live \ refuse |-> obj[y]] /\ Work("idle", <<>>)
           /\ collected' = TRUE
  BY <1>1, <1>2, <1>5, FreedFewer DEF Work
<1> QED BY <1>3, <1>4, <1>5 DEF freed

LEMMA Stuttering ==
  ASSUME IInv, UNCHANGED vars
  PROVE  IInv'
<1>1. UNCHANGED <<obj, gc_set, held, work, todo, root, q, order, refuse, after, collected>>
  BY DEF vars
<1>2. /\ Live' = Live /\ Kids' = Kids /\ Rc' = Rc /\ Tmp' = Tmp /\ Marks' = Marks
      /\ HeldNow' = HeldNow
  BY <1>1 DEF Live, Kids, Rc, Tmp, Marks, HeldNow
<1>3. \A x : /\ GivenUp(x)' = GivenUp(x) /\ Owed(x)' = Owed(x)
             /\ Supported(x)' = Supported(x)
  BY <1>1, <1>2 DEF GivenUp, Owed, Supported
<1>4. Typed'
  BY <1>1, <1>2 DEF IInv, Typed
<1>5. Parents(Kids, gc_set)' /\ Acyclic(Kids, gc_set)'
  BY <1>1, <1>2 DEF IInv, Parents, Acyclic
<1>6. AfterSound'
  <2>1. Returning' = Returning /\ \A v : Binding(v)' = Binding(v)
    BY <1>1, <1>2 DEF Returning, Binding
  <2> QED BY <2>1, <1>1 DEF IInv, AfterSound, Nothing, NoRefs
<1>7. Counts' /\ DataCounted'
  BY <1>1, <1>2, <1>3 DEF IInv, Counts, DataCounted
<1>8. Clean'
  BY <1>1, <1>2, <1>3 DEF IInv, Clean, Apart
<1>10. InPass' /\ Covered'
  BY <1>1, <1>2 DEF IInv, InPass, Covered, Complete
<1>11. InMark'
  BY <1>1, <1>2 DEF IInv, InMark, MarkSound
<1>12. \A R : Region(R)' = Region(R)
  BY <1>1, <1>2 DEF Region
<1>13. InLook'
  <2>1. \A R : LookSound(R)' = LookSound(R) /\ Outside(R)' = Outside(R)
    BY <1>1, <1>2, <1>3, <1>12 DEF LookSound, Outside
  <2> QED BY <2>1, <1>1, <1>2 DEF IInv, InLook
<1>14. InSweep'
  <2>1. \A R : SweepSound(R)' = SweepSound(R)
    BY <1>1, <1>2, <1>3, <1>12 DEF SweepSound, Apart, Complete
  <2> QED BY <2>1, <1>1, <1>2 DEF IInv, InSweep
<1> QED BY <1>4, <1>5, <1>6, <1>7, <1>8, <1>10, <1>11, <1>13, <1>14 DEF IInv

LEMMA NextIsSound == IInv /\ [Next]_vars => IInv'
<1> SUFFICES ASSUME IInv, [Next]_vars PROVE IInv'
  OBVIOUS
<1>1. ASSUME NEW x \in Objs \ Live, NEW kid \in [1 .. Size -> Known \cup {None}], object(x, kid)
      PROVE  IInv'
  BY <1>1, ObjectStep
<1>2. ASSUME NEW x \in Objs \ Live, NEW s \in Funs \cup {None}, NEW e \in Data, new_fn(x, s, e)
      PROVE  IInv'
  BY <1>2, NewFnStep
<1>3. ASSUME NEW x \in Known, keep(x) \/ drop(x) PROVE IInv'
  BY <1>3, KeepStep, DropStep
<1>4. ASSUME NEW f \in Funs, NEW i \in Values, NEW v \in Known, name_fn(f, i, v) PROVE IInv'
  BY <1>4, NameFnStep
<1>5. ASSUME NEW f \in Funs, del_fn(f) PROVE IInv'
  BY <1>5, DelFnStep
<1>6. CASE gc_collect
  BY <1>6, GcCollectStep
<1>7. CASE object_delete \/ deleted
  BY <1>7, ObjectDeleteStep, DeletedStep
<1>8. CASE gc_pass \/ mark_next \/ marked
  BY <1>8, PassStep, MarkNextStep, MarkedStep
<1>9. CASE check \/ unmark_next \/ unmarked
  BY <1>9, CheckStep, UnmarkNextStep, UnmarkedStep
<1>10. CASE sweep \/ sweep_next \/ swept \/ freed
  BY <1>10, SweepStep, SweepNextStep, SweptStep, FreedStep
<1>11. CASE UNCHANGED vars
  BY <1>11, Stuttering
<1> QED BY <1>1, <1>2, <1>3, <1>4, <1>5, <1>6, <1>7, <1>8, <1>9, <1>10, <1>11 DEF Next, Step

(* Every step of the program keeps the invariant: counts, references,      *)
(* marks and what is still to do belong together all the time.             *)
THEOREM InvariantHolds == Spec => []IInv
<1> QED BY InitIsSound, NextIsSound, PTL DEF Spec
-----------------------------------------------------------------------------
LEMMA ReferencesAre ==
  ASSUME Objects(obj), NEW x
  PROVE  References(x) = Refers(Kids, Live, x)
<1>1. \A p \in Live \X (1 .. Size) : obj[p[1]].kid = Kids[p[1]]
  BY FieldsAre DEF Kids, Live
<1>2. {p \in Live \X (1 .. Size) : obj[p[1]].kid[p[2]] = x} = In(Kids, Live, x)
  BY <1>1 DEF In
<1> QED BY <1>2 DEF References, Refers

LEMMA BooksAreRight == IInv => BooksRight
<1> SUFFICES ASSUME IInv, work = "idle"
             PROVE  /\ \A x \in Live :
                         /\ obj[x].rc = References(x) + held[x]
                         /\ obj[x].rc = 0 => IsFun(x)
                         /\ Refs(x) \subseteq Live
                         /\ ~obj[x].visited /\ obj[x].tmp = 0
                    /\ gc_set = {x \in Live : IsFun(x)}
  BY DEF BooksRight
<1>1. /\ Basics /\ Quiet
      /\ \A x \in Live : /\ Rc[x] = held[x] + Refers(Kids, Live, x)
                         /\ x \notin gc_set => Rc[x] > 0
                         /\ Rc[x] \in Int /\ held[x] \in Nat
                         /\ Refers(Kids, Live, x) \in Nat
  BY IdleIs
<1>2. Objects(obj) /\ gc_set = FunsOf(obj) /\ Live = DOMAIN obj /\ Marks = MarksOf(obj)
  BY <1>1 DEF Basics, Live, Marks
<1>3. \A x \in Live : /\ obj[x].rc = Rc[x] /\ obj[x].tmp = Tmp[x]
                      /\ obj[x].visited <=> x \in Marks
                      /\ obj[x].fun <=> x \in gc_set
                      /\ obj[x].kid = Kids[x]
  BY <1>2, FieldsAre DEF Rc, Tmp, Kids
<1>4. ASSUME NEW x \in Live
      PROVE  /\ obj[x].rc = References(x) + held[x] /\ (obj[x].rc = 0 => IsFun(x))
             /\ Refs(x) \subseteq Live /\ ~obj[x].visited /\ obj[x].tmp = 0
  <2>1. References(x) = Refers(Kids, Live, x)
    BY <1>2, ReferencesAre
  <2>2. obj[x].rc = References(x) + held[x]
    BY <1>1, <1>3, <2>1
  <2>3. obj[x].rc = 0 => IsFun(x)
    BY <1>1, <1>3 DEF IsFun
  <2>4. Refs(x) \subseteq Live
    BY <1>2, <1>3, KidsAre DEF Refs, RefsIn
  <2> QED BY <2>2, <2>3, <2>4, <1>1, <1>3 DEF Quiet
<1>5. gc_set = {x \in Live : IsFun(x)}
  BY <1>2 DEF FunsOf, IsFun
<1> QED BY <1>4, <1>5

(* At rest every count is the number of the references to the object from  *)
(* others and from the interpreter; only functions can be there without    *)
(* one; no object has a reference to one that was freed; neither marks nor *)
(* temporary counts are left, and gc_set has exactly the functions.        *)
THEOREM CountsAreRight == Spec => []BooksRight
<1> QED BY InvariantHolds, BooksAreRight, PTL
-----------------------------------------------------------------------------
(* What the interpreter may rely on: ObjectStore, where the contents of a  *)
(* function that a call has still to finish are those that it will have.   *)
Contents == [x \in Live |-> IF x = after.f THEN after.kid ELSE obj[x].kid]
Observed == <<Contents, held, collected>>
StoreStep == Store!Next \/ UNCHANGED Observed

ContentsSound ==
  /\ Contents \in [Live -> [1 .. Size -> Live \cup {None}]]
  /\ DOMAIN Contents = Live /\ HeldNow \subseteq Live
  /\ \A x \in Live : Contents[x] = IF x = after.f THEN after.kid ELSE Kids[x]
  /\ after = Nothing => Contents = Kids

LEMMA ContentsAre == IInv => ContentsSound
<1> SUFFICES ASSUME IInv PROVE ContentsSound
  OBVIOUS
<1>1. Basics /\ HeldNow \subseteq Live
  BY BasicsAre DEF IInv, Typed
<1>2. \A x \in Live : obj[x].kid = Kids[x] /\ Kids[x] \in [1 .. Size -> Live \cup {None}]
  BY <1>1, KidsAre DEF Basics
<1>3. \A x \in Live : Contents[x] = IF x = after.f THEN after.kid ELSE Kids[x]
  BY <1>2 DEF Contents
<1>4. DOMAIN Contents = Live /\ Contents = [x \in Live |-> Contents[x]]
  BY DEF Contents
<1>5. after = Nothing => Contents = Kids
  <2>1. after = Nothing => \A x \in Live : x # after.f
    BY <1>1 DEF Nothing, Basics
  <2>2. Kids = [x \in Live |-> Kids[x]]
    BY DEF Kids, KidsOf, Live
  <2> QED BY <1>3, <1>4, <2>1, <2>2
<1>6. ASSUME NEW x \in Live, x = after.f PROVE after.kid \in [1 .. Size -> Live \cup {None}]
  <2>1. CASE Returning
    BY <2>1 DEF Returning
  <2>2. ASSUME NEW v \in Objs, Binding(v) PROVE after.kid \in [1 .. Size -> Live \cup {None}]
    <3>1. v \in Live /\ after.kid = [Kids[x] EXCEPT ![after.i] = v]
      BY <1>1, <1>6, <2>2 DEF Binding, HeldNow
    <3> DEFINE k == Kids[x]
    <3>2. k \in [1 .. Size -> Live \cup {None}] /\ after.kid = [k EXCEPT ![after.i] = v]
      BY <3>1, <1>2
    <3> HIDE DEF k
    <3>3. [k EXCEPT ![after.i] = v] \in [1 .. Size -> Live \cup {None}]
      BY <3>1, <3>2
    <3> QED BY <3>2, <3>3
  <2>3. after # Nothing
    BY <1>1, <1>6 DEF Nothing, Basics
  <2> QED BY <2>1, <2>2, <2>3 DEF IInv, AfterSound
<1>7. Contents \in [Live -> [1 .. Size -> Live \cup {None}]]
  BY <1>2, <1>3, <1>4, <1>6
<1> QED BY <1>1, <1>3, <1>4, <1>5, <1>7 DEF ContentsSound

LEMMA ContentsWillBe == IInv' => ContentsSound'
BY ContentsAre, PTL

(* A step that leaves references alone is none of the store's.             *)
LEMMA SameContents ==
  ASSUME Objects(obj), SameKids(obj', obj), after' = after
  PROVE  Contents' = Contents
<1>1. Live' = Live /\ \A x \in Live : obj'[x].kid = obj[x].kid
  <2>1. /\ DOMAIN obj' = DOMAIN obj /\ Objects(obj') /\ KidsOf(obj') = KidsOf(obj)
    BY DEF SameKids
  <2>2. \A x \in DOMAIN obj : obj'[x].kid = KidsOf(obj')[x] /\ obj[x].kid = KidsOf(obj)[x]
    BY <2>1 DEF KidsOf
  <2> QED BY <2>1, <2>2 DEF Live
<1> QED BY <1>1 DEF Contents

LEMMA CollectedIs == IInv /\ work # "idle" => collected = FALSE
BY DEF IInv, Typed

LEMMA MarkNextStays == IInv /\ mark_next => UNCHANGED Observed
<1> SUFFICES ASSUME IInv, mark_next PROVE UNCHANGED Observed
  OBVIOUS
<1>1. Basics /\ todo # <<>> /\ UNCHANGED <<held, collected, after>>
  BY BasicsAre DEF mark_next, Following
<1>2. Ref \in Live \cup {None} /\ Objects(obj)
  BY <1>1, RestIs DEF Basics
<1>3. SameKids(obj', obj)
  <2>1. CASE obj' = obj
    BY <1>2, <2>1, Unchanged DEF SameCounts
  <2>2. CASE Ref # None /\ obj' = [obj EXCEPT ![Ref].tmp = @ + 1]
    <3> DEFINE n == 1
    <3>1. n \in Int /\ TmpPut(obj', obj, Ref, n) /\ Objects(obj) /\ Ref \in DOMAIN obj
      BY <1>2, <2>2 DEF TmpPut, Live
    <3> HIDE DEF n
    <3> QED BY ONLY <3>1, TmpIs
  <2>3. CASE Ref # None /\ obj' = Marked(Ref, TRUE)
    <3> DEFINE n == 1
               c == TRUE
    <3>1. /\ n \in Int /\ c \in BOOLEAN /\ MarkPut(obj', obj, Ref, c, n)
          /\ Objects(obj) /\ Ref \in DOMAIN obj
      BY <1>2, <2>3 DEF MarkPut, Marked, Live
    <3> HIDE DEF n, c
    <3> QED BY ONLY <3>1, MarkIs
  <2> QED BY <2>1, <2>2, <2>3 DEF mark_next
<1> QED BY <1>1, <1>2, <1>3, SameContents DEF Observed

LEMMA MarkedStays == IInv /\ marked => UNCHANGED Observed
<1> SUFFICES ASSUME IInv, marked PROVE UNCHANGED Observed
  OBVIOUS
<1>1. /\ Basics /\ work = "mark" /\ obj' = Corrected /\ UNCHANGED <<held, collected, after>>
  BY BasicsAre DEF marked
<1>2. root \in Live /\ Objects(obj)
  BY <1>1 DEF IInv, Clean, Basics
<1>3. SameKids(obj', obj)
  <2> DEFINE n == -1
  <2>1. n \in Int /\ Objects(obj) /\ root \in DOMAIN obj
    BY <1>2 DEF Live
  <2>2. TmpPut(obj', obj, root, n)
    <3>1. obj[root].tmp \in Int
      BY <2>1, FieldsAre
    <3>2. obj[root].tmp - 1 = obj[root].tmp + n
      BY <3>1
    <3> QED BY <1>1, <3>2 DEF TmpPut, Corrected
  <2> HIDE DEF n
  <2> QED BY ONLY <2>1, <2>2, TmpIs
<1> QED BY <1>1, <1>2, <1>3, SameContents DEF Observed

LEMMA UnmarkNextStays == IInv /\ unmark_next => UNCHANGED Observed
<1> SUFFICES ASSUME IInv, unmark_next PROVE UNCHANGED Observed
  OBVIOUS
<1>1. Basics /\ todo # <<>> /\ UNCHANGED <<held, collected, after>>
  BY BasicsAre DEF unmark_next, Following
<1>2. Ref \in Live \cup {None} /\ Objects(obj)
  BY <1>1, RestIs DEF Basics
<1>3. SameKids(obj', obj)
  <2>1. CASE obj' = obj
    BY <1>2, <2>1, Unchanged DEF SameCounts
  <2>2. CASE Ref # None /\ obj' = Marked(Ref, FALSE)
    <3> DEFINE n == 0
               c == FALSE
    <3>1. /\ n \in Int /\ c \in BOOLEAN /\ MarkPut(obj', obj, Ref, c, n)
          /\ Objects(obj) /\ Ref \in DOMAIN obj
      BY <1>2, <2>2 DEF MarkPut, Marked, Live
    <3> HIDE DEF n, c
    <3> QED BY ONLY <3>1, MarkIs
  <2> QED BY <2>1, <2>2 DEF unmark_next
<1> QED BY <1>1, <1>2, <1>3, SameContents DEF Observed

LEMMA SweepNextStays == IInv /\ sweep_next => UNCHANGED Observed
<1> SUFFICES ASSUME IInv, sweep_next PROVE UNCHANGED Observed
  OBVIOUS
<1>1. Basics /\ todo # <<>> /\ obj' = Count(Ref, -1) /\ UNCHANGED <<held, collected, after>>
  BY BasicsAre DEF sweep_next, Following
<1>2. SameKids(obj', obj) /\ Objects(obj)
  BY <1>1, CountedOff DEF Basics
<1> QED BY <1>1, <1>2, SameContents DEF Observed

LEMMA ReadingStays ==
  gc_pass \/ check \/ unmarked \/ sweep \/ swept => UNCHANGED Observed
<1> SUFFICES ASSUME gc_pass \/ check \/ unmarked \/ sweep \/ swept PROVE UNCHANGED Observed
  OBVIOUS
<1>1. UNCHANGED <<obj, held, collected, after>>
  BY DEF gc_pass, check, unmarked, sweep, swept, memory
<1> QED BY <1>1 DEF Observed, Contents, Live

(* A function gets the references that its call was to give it.            *)
LEMMA LinkedStays ==
  ASSUME IInv, IInv', after.f \in Live, after.i \in 1 .. Size, after' = Nothing,
         obj' = Linked(after.f, after.i, after.kid)
  PROVE  Contents' = Contents
<1>1. Basics /\ ContentsSound /\ ContentsSound'
  BY BasicsAre, ContentsAre, ContentsWillBe
<1> DEFINE f == after.f
           i == after.i
           kid == after.kid
<1>2. Contents[f] = kid /\ kid \in [1 .. Size -> Live \cup {None}]
  BY <1>1 DEF ContentsSound
<1>3. Linking(f, i, kid) /\ f \in Live
  BY <1>2 DEF Linking
<1> HIDE DEF f, i, kid
<1>4. Live' = Live /\ Kids' = [Kids EXCEPT ![f] = kid]
  BY <1>1, <1>3, LinkedIs
<1>5. Contents' = Kids' /\ DOMAIN Kids = Live
  BY <1>1 DEF ContentsSound, Kids, KidsOf, Live
<1>6. \A x \in Live : Contents'[x] = Contents[x]
  BY <1>1, <1>2, <1>3, <1>4, <1>5 DEF ContentsSound, f, kid
<1>7. Contents = [x \in Live |-> Contents[x]] /\ Contents' = [x \in Live |-> Contents'[x]]
  BY <1>1, <1>4 DEF ContentsSound
<1> QED BY <1>6, <1>7

LEMMA DeletedStays == IInv /\ IInv' /\ deleted => UNCHANGED Observed
<1> SUFFICES ASSUME IInv, IInv', deleted PROVE UNCHANGED Observed
  OBVIOUS
<1>1. /\ work = "delete" /\ after' = Nothing /\ UNCHANGED <<held, collected>>
      /\ obj' = IF after.call = "bind" THEN Linked(after.f, after.i, after.kid) ELSE obj
  BY DEF deleted
<1>2. after = Nothing \/ \E v \in Objs : Binding(v)
  BY <1>1, QuietIs
<1>3. CASE after = Nothing
  <2>1. obj' = obj /\ after' = after
    BY <1>1, <1>3 DEF Nothing
  <2> QED BY <2>1, <1>1 DEF Observed, Contents, Live
<1>4. CASE \E v \in Objs : Binding(v)
  <2>1. after.call = "bind" /\ after.f \in gc_set /\ after.i \in Values
    BY <1>4 DEF Binding
  <2>2. after.f \in Live /\ after.i \in 1 .. Size
    BY <2>1, BasicsAre, ReferencesAssumption DEF Basics, Values
  <2>3. Contents' = Contents
    BY <1>1, <2>1, <2>2, LinkedStays
  <2> QED BY <2>3, <1>1 DEF Observed
<1> QED BY <1>2, <1>3, <1>4

(* Objects are freed: what is left is closed.                              *)
Freeing ==
  /\ Live' \subseteq Live /\ \A x \in Live' : Contents'[x] = Contents[x]
  /\ UNCHANGED held

LEMMA ReclaimedIs == IInv /\ IInv' /\ Freeing => Store!Reclaimed
<1> SUFFICES ASSUME IInv, IInv', Freeing PROVE Store!Reclaimed
  OBVIOUS
<1>1. ContentsSound /\ ContentsSound'
  BY ContentsAre, ContentsWillBe
<1> DEFINE S == DOMAIN Contents'
<1>2. S = Live' /\ S \subseteq DOMAIN Contents
  BY <1>1 DEF ContentsSound, Freeing
<1>3. Contents' = [o \in S |-> Contents[o]]
  <2>1. Contents' = [o \in S |-> Contents'[o]]
    BY <1>1 DEF ContentsSound
  <2> HIDE DEF S
  <2> QED BY <2>1, <1>2 DEF Freeing
<1> HIDE DEF S
<1>4. {o \in Objs : held[o] > 0} \subseteq S
  BY <1>1, <1>2 DEF ContentsSound, HeldNow, Freeing
<1>5. \A o \in S, i \in 1 .. Size : Contents[o][i] \in S \cup {None}
  <2>1. \A o \in S : Contents'[o] \in [1 .. Size -> S \cup {None}] /\ Contents'[o] = Contents[o]
    BY <1>1, <1>2 DEF ContentsSound, Freeing
  <2> QED BY <2>1
<1>6. Store!Closed(Contents, held, S)
  BY <1>4, <1>5 DEF Store!Closed, Store!Slots
<1> QED BY <1>2, <1>3, <1>6 DEF Store!Reclaimed, Freeing, S, Contents

LEMMA ObjectDeleteRefines == IInv /\ IInv' /\ object_delete => StoreStep
<1> SUFFICES ASSUME IInv, IInv', object_delete PROVE StoreStep
  OBVIOUS
<1>1. /\ Basics /\ work = "delete" /\ todo # <<>>
      /\ UNCHANGED <<held, after>> /\ collected' = FALSE
  BY BasicsAre DEF object_delete, Following
<1>2. collected = FALSE /\ Objects(obj)
  BY <1>1, CollectedIs DEF Basics
<1>3. CASE obj' = obj
  BY <1>1, <1>2, <1>3 DEF StoreStep, Observed, Contents, Live
<1>4. CASE obj' = Count(Ref, -1)
  <2>1. SameKids(obj', obj)
    BY <1>1, <1>4, CountedOff
  <2>2. Contents' = Contents
    BY <1>1, <1>2, <2>1, SameContents
  <2> QED BY <2>2, <1>1, <1>2 DEF StoreStep, Observed
<1>5. CASE obj' = [y \in Live \ {Ref} |-> obj[y]]
  <2>1. Freeing
    BY <1>1, <1>5 DEF Freeing, Contents, Live
  <2>2. Store!Reclaimed
    BY <2>1, ReclaimedIs
  <2>3. Store!Reclaim
    BY <2>2, <1>1 DEF Store!Reclaim
  <2> QED BY <2>3 DEF StoreStep, Store!Next
<1> QED BY <1>3, <1>4, <1>5 DEF object_delete

LEMMA FreedRefines == IInv /\ IInv' /\ freed => StoreStep
<1> SUFFICES ASSUME IInv, IInv', freed PROVE StoreStep
  OBVIOUS
<1>1. /\ Basics /\ work = "pass" /\ order = {} /\ after' = Nothing /\ held' = held
      /\ collected = FALSE
  BY BasicsAre, CollectedIs DEF freed
<1>2. /\ after = Nothing \/ Returning
      /\ after.call = "none" => after = Nothing
      /\ after.call = "return" => Returning
  BY <1>1, AfterIs
<1>3. ContentsSound /\ ContentsSound' /\ after'.f = None /\ None \notin Live
  BY <1>1, ContentsAre, ContentsWillBe DEF Nothing, Basics
<1>4. CASE /\ refuse = {} /\ after.call = "return"
           /\ obj' = Linked(after.f, after.i, after.kid) /\ collected' = collected
  <2>1. after.f \in Live /\ after.i \in 1 .. Size
    BY <1>1, <1>2, <1>4, ReferencesAssumption DEF Returning, Basics, sup
  <2>2. Contents' = Contents
    BY <1>1, <1>4, <2>1, LinkedStays
  <2> QED BY <2>2, <1>1, <1>4 DEF StoreStep, Observed
<1>5. CASE /\ refuse # {} /\ after.call = "return"
           /\ obj' = [y \in Live \ refuse |-> obj[y]] /\ collected' = collected
  <2>1. after.f \in refuse
    BY <1>2, <1>5 DEF Returning
  <2>2. Freeing
    BY <1>1, <1>3, <1>5, <2>1 DEF Freeing, Contents, Live
  <2>3. Store!Reclaim
    BY <2>2, <1>1, <1>5, ReclaimedIs DEF Store!Reclaim
  <2> QED BY <2>3 DEF StoreStep, Store!Next
<1>6. CASE /\ after.call = "none"
           /\ obj' = [y \in Live \ refuse |-> obj[y]] /\ collected' = TRUE
  <2>1. after = Nothing /\ after.f = None
    BY <1>2, <1>6 DEF Nothing
  <2>2. Freeing
    BY <1>1, <1>3, <1>6, <2>1 DEF Freeing, Contents, Live
  <2>3. Complete(Live \ refuse, order)
    BY <1>1, <2>1 DEF IInv, InPass
  <2>4. Live' = Live \ refuse /\ DOMAIN Contents' = Live'
    BY <1>3, <1>6 DEF Live, ContentsSound
  <2>5. ASSUME NEW T \in SUBSET (Live \ refuse), Store!Closed(Contents, held, T)
        PROVE  T = Live \ refuse
    <3>1. HeldNow \subseteq T
      BY <2>5 DEF Store!Closed, HeldNow
    <3>2. \A y \in T, i \in 1 .. Size : Kids[y][i] \in T \cup {None}
      BY <2>1, <2>5, <1>3 DEF Store!Closed, Store!Slots, ContentsSound
    <3>3. ClosedIn(Kids, T)
      BY <3>2 DEF ClosedIn, RefsIn
    <3> QED BY <2>3, <3>1, <3>3, <1>1 DEF Complete
  <2>6. Store!Least(Contents, held, DOMAIN Contents')
    BY <2>4, <2>5 DEF Store!Least
  <2>7. Store!Collect
    BY <2>2, <2>6, <1>6, ReclaimedIs DEF Store!Collect, Contents
  <2> QED BY <2>7 DEF StoreStep, Store!Next
<1> QED BY <1>4, <1>5, <1>6 DEF freed

LEMMA GcCollectRefines == IInv /\ IInv' /\ gc_collect => StoreStep
<1> SUFFICES ASSUME IInv, IInv', gc_collect PROVE StoreStep
  OBVIOUS
<1>1. UNCHANGED <<obj, held, after>> /\ collected' = FALSE
  BY DEF gc_collect, memory
<1>2. Freeing
  BY <1>1 DEF Freeing, Contents, Live
<1>3. Store!Reclaim
  BY <1>1, <1>2, ReclaimedIs DEF Store!Reclaim
<1> QED BY <1>3 DEF StoreStep, Store!Next

(* The interpreter's steps.                                                *)
LEMMA NewRefines ==
  ASSUME IInv, IInv', work = "idle", NEW x, NEW fun, NEW kid, Adding(x, fun, kid),
         Holds(x, 1), after' = after
  PROVE  StoreStep
<1>1. /\ Basics /\ Typed /\ Parents(Kids, gc_set) /\ Acyclic(Kids, gc_set) /\ after = Nothing
  BY IdleIs
<1>2. ContentsSound /\ ContentsSound'
  BY ContentsAre, ContentsWillBe
<1>3. /\ Live' = Live \cup {x} /\ Kids'[x] = kid /\ \A y \in Live : Kids'[y] = Kids[y]
  BY <1>1, AddedIs
<1>4. Contents = Kids /\ Contents' = Kids' /\ DOMAIN Contents = Live /\ DOMAIN Contents' = Live'
  BY <1>1, <1>2 DEF ContentsSound, Nothing, NoRefs
<1>5. x \in Objs /\ x \notin Live /\ kid \in [1 .. Size -> Live \cup {None}]
  BY DEF Adding
<1>6. held' = [held EXCEPT ![x] = 1] /\ collected' = FALSE
  <2>1. held \in [Objs -> Nat] /\ ~(held[x] > 0)
    BY <1>1, <1>5 DEF Typed, HeldNow
  <2>2. held[x] + 1 = 1
    BY <1>5, <2>1
  <2> QED BY <2>2 DEF Holds
<1>7. Store!New(x)
  BY <1>3, <1>4, <1>5, <1>6 DEF Store!New, Store!Slots, Contents
<1> QED BY <1>5, <1>7 DEF StoreStep, Store!Next

LEMMA ObjectRefines ==
  ASSUME IInv, IInv', NEW x \in Objs \ Live, NEW kid \in [1 .. Size -> Known \cup {None}],
         object(x, kid)
  PROVE  StoreStep
<1>1. /\ work = "idle" /\ kid[sup] = None /\ obj' = Added(x, FALSE, kid) /\ Holds(x, 1)
      /\ after' = after
  BY DEF object
<1>2. Known \subseteq Live
  BY <1>1, IdleIs
<1>3. kid \in [1 .. Size -> Live \cup {None}]
  BY <1>2
<1>4. Adding(x, FALSE, kid)
  BY <1>1, <1>3 DEF Adding
<1> QED BY <1>1, <1>4, NewRefines

LEMMA NewFnRefines ==
  ASSUME IInv, IInv', NEW x \in Objs \ Live, NEW s \in Funs \cup {None}, NEW e \in Data,
         new_fn(x, s, e)
  PROVE  StoreStep
<1> DEFINE kid == [NoRefs EXCEPT ![sup] = s, ![exp] = e]
<1>1. work = "idle" /\ obj' = Added(x, TRUE, kid) /\ Holds(x, 1) /\ after' = after
  BY DEF new_fn
<1>2. s \in gc_set \cup {None} /\ e \in Live /\ gc_set \subseteq Live
  BY <1>1, IdleIs DEF Basics
<1>3. sup \in 1 .. Size /\ exp \in 1 .. Size /\ sup # exp
  BY ReferencesAssumption DEF sup, exp
<1>4. kid \in [1 .. Size -> Live \cup {None}] /\ kid[sup] = s
  BY <1>2, <1>3 DEF NoRefs
<1> HIDE DEF kid
<1>5. Adding(x, TRUE, kid)
  BY <1>1, <1>2, <1>4 DEF Adding
<1> QED BY <1>1, <1>5, NewRefines

LEMMA KeepRefines == ASSUME IInv, NEW x \in Known, keep(x) PROVE StoreStep
<1>1. work = "idle" /\ obj' = Count(x, 1) /\ Holds(x, 1) /\ after' = after
  BY DEF keep
<1>2. Basics /\ x \in Live /\ ContentsSound
  BY <1>1, IdleIs, ContentsAre
<1>3. x \in DOMAIN obj /\ Objects(obj) /\ x # None /\ x \in Objs /\ x \in DOMAIN Contents
  BY <1>2 DEF Basics, Live, ContentsSound
<1>4. SameKids(obj', obj)
  <2> DEFINE n == 1
  <2>1. n \in Int /\ CountPut(obj', obj, x, n)
    BY <1>1, <1>3 DEF Count, CountPut
  <2> HIDE DEF n
  <2> QED BY <2>1, <1>3, CountIs
<1>5. Contents' = Contents
  BY <1>1, <1>3, <1>4, SameContents
<1>6. Store!Hold(x)
  BY <1>1, <1>3, <1>5 DEF Store!Hold, Holds, Contents
<1> QED BY <1>3, <1>6 DEF StoreStep, Store!Next

(* One reference less that the interpreter has.                            *)
LEMMA Releases ==
  ASSUME IInv, work = "idle", NEW x \in Live, held[x] > 0, Holds(x, -1),
         Contents' = Contents
  PROVE  StoreStep
<1>1. x \in Objs /\ held[x] \in Nat
  BY BasicsAre DEF Basics
<1>2. held[x] + (-1) = held[x] - 1
  BY <1>1
<1>3. held' = [held EXCEPT ![x] = held[x] - 1] /\ collected' = FALSE
  BY <1>2 DEF Holds
<1>4. Store!Release(x)
  BY <1>3 DEF Store!Release, Contents
<1> QED BY <1>1, <1>4 DEF StoreStep, Store!Next

LEMMA DropRefines == ASSUME IInv, NEW x \in Known, drop(x) PROVE StoreStep
<1>1. work = "idle" /\ held[x] > 0 /\ Holds(x, -1) /\ UNCHANGED <<obj, after>>
  BY DEF drop, memory
<1>2. x \in Live
  BY <1>1, IdleIs
<1>3. Contents' = Contents
  BY <1>1 DEF Contents, Live
<1> QED BY <1>1, <1>2, <1>3, Releases

LEMMA DelFnRefines ==
  ASSUME IInv, NEW f \in Funs, del_fn(f)
  PROVE  StoreStep
<1> DEFINE kid == obj[f].kid
           less == [kid EXCEPT ![sup] = None, ![exp] = None]
<1>1. /\ work = "idle" /\ held[f] > 0 /\ Holds(f, -1)
      /\ after' = [call |-> "return", f |-> f, i |-> sup, kid |-> kid]
  BY DEF del_fn
<1>2. Basics /\ f \in gc_set /\ f \in Live /\ after = Nothing /\ ContentsSound
  BY <1>1, IdleIs, ContentsAre DEF Basics
<1>3. kid = Kids[f] /\ \A x \in Live : obj[x].kid = Kids[x]
  BY <1>2, KidsAre DEF Basics
<1>4. Unlinking(f, kid, less)
  BY <1>2, <1>3 DEF del_fn, Unlinking
<1> HIDE DEF kid, less
<1>5. Live' = Live /\ Objects(obj') /\ Kids' = [Kids EXCEPT ![f] = less]
  BY <1>2, <1>4, UnlinkingIs
<1>6. \A x \in Live \ {f} : obj'[x].kid = obj[x].kid
  <2>1. \A x \in Live : obj'[x].kid = Kids'[x]
    BY <1>5 DEF Kids, KidsOf, Live
  <2>2. DOMAIN Kids = Live
    BY DEF Kids, KidsOf, Live
  <2> QED BY <1>3, <1>5, <2>1, <2>2
<1>7. Contents' = [x \in Live |-> IF x = f THEN kid ELSE Kids[x]]
  BY <1>1, <1>3, <1>5, <1>6 DEF Contents
<1>8. Contents = [x \in Live |-> Kids[x]]
  BY <1>2 DEF ContentsSound, Kids, KidsOf, Live
<1>9. Contents' = Contents
  BY <1>3, <1>7, <1>8
<1> QED BY <1>1, <1>2, <1>9, Releases

LEMMA NameFnRefines ==
  ASSUME IInv, NEW f \in Funs, NEW i \in Values, NEW v \in Known, name_fn(f, i, v)
  PROVE  StoreStep
<1> DEFINE k == obj[f].kid
           n == [k EXCEPT ![i] = None]
           b == [k EXCEPT ![i] = v]
<1>1. /\ work = "idle" /\ obj' = [obj EXCEPT ![f].kid[i] = None] /\ collected' = FALSE
      /\ after' = [call |-> "bind", f |-> f, i |-> i, kid |-> b] /\ held' = held
  BY DEF name_fn
<1>2. Basics /\ f \in Live /\ v \in Live /\ after = Nothing /\ ContentsSound
  BY <1>1, IdleIs, ContentsAre DEF Basics
<1>3. /\ k = Kids[f] /\ k \in [1 .. Size -> Live \cup {None}] /\ i \in 1 .. Size
      /\ \A x \in Live : obj[x].kid = Kids[x]
  <2>1. /\ k = Kids[f] /\ k \in [1 .. Size -> Live \cup {None}]
        /\ \A x \in Live : obj[x].kid = Kids[x]
    BY <1>2, KidsAre DEF Basics
  <2>2. i \in 1 .. Size
    BY ReferencesAssumption DEF Values
  <2> QED BY <2>1, <2>2
<1>4. n \in [1 .. Size -> Live \cup {None}]
  BY <1>3
<1>5. KidPut(obj', obj, f, n)
  BY <1>1 DEF KidPut
<1>6. b = [k EXCEPT ![i] = v]
  OBVIOUS
<1> HIDE DEF k, n, b
<1>7. Live' = Live /\ Objects(obj') /\ Kids' = [Kids EXCEPT ![f] = n]
  <2>1. Objects(obj) /\ f \in DOMAIN obj /\ n \in [1 .. Size -> DOMAIN obj \cup {None}]
    BY <1>2, <1>4 DEF Basics, Live
  <2>2. /\ DOMAIN obj' = DOMAIN obj /\ Objects(obj')
        /\ KidsOf(obj') = [KidsOf(obj) EXCEPT ![f] = n]
    BY ONLY <2>1, <1>5, KidIs
  <2> QED BY <2>2 DEF Live, Kids
<1>8. \A x \in Live \ {f} : obj'[x].kid = Kids[x]
  <2>1. \A x \in Live : obj'[x].kid = Kids'[x]
    BY <1>7 DEF Kids, KidsOf, Live
  <2>2. DOMAIN Kids = Live
    BY DEF Kids, KidsOf, Live
  <2> QED BY <1>7, <2>1, <2>2
<1>9. Contents' = [x \in Live |-> IF x = f THEN b ELSE Kids[x]]
  BY <1>1, <1>7, <1>8 DEF Contents
<1>10. Contents = [x \in Live |-> Kids[x]] /\ DOMAIN Contents = Live
  BY <1>2 DEF ContentsSound, Kids, KidsOf, Live
<1>11. Contents' = [Contents EXCEPT ![f][i] = v]
  <2>1. [Contents EXCEPT ![f][i] = v] = [Contents EXCEPT ![f] = [Contents[f] EXCEPT ![i] = v]]
    OBVIOUS
  <2>2. Contents[f] = k
    BY <1>2, <1>3, <1>10
  <2> QED BY <1>2, <1>6, <1>9, <1>10, <2>1, <2>2
<1>12. f \in Objs /\ v \in Objs /\ i \in Store!Slots
  BY <1>2, <1>3 DEF Basics, Store!Slots
<1>13. Store!Assign(f, i, v)
  BY <1>1, <1>2, <1>10, <1>11 DEF Store!Assign, Contents
<1> QED BY <1>12, <1>13 DEF StoreStep, Store!Next

LEMMA StepRefines == IInv /\ IInv' /\ [Next]_vars => StoreStep
<1> SUFFICES ASSUME IInv, IInv', [Next]_vars PROVE StoreStep
  OBVIOUS
<1>1. ASSUME NEW x \in Objs \ Live, NEW kid \in [1 .. Size -> Known \cup {None}], object(x, kid)
      PROVE  StoreStep
  BY <1>1, ObjectRefines
<1>2. ASSUME NEW x \in Objs \ Live, NEW s \in Funs \cup {None}, NEW e \in Data, new_fn(x, s, e)
      PROVE  StoreStep
  BY <1>2, NewFnRefines
<1>3. ASSUME NEW x \in Known, keep(x) \/ drop(x) PROVE StoreStep
  BY <1>3, KeepRefines, DropRefines
<1>4. ASSUME NEW f \in Funs, NEW i \in Values, NEW v \in Known, name_fn(f, i, v) PROVE StoreStep
  BY <1>4, NameFnRefines
<1>5. ASSUME NEW f \in Funs, del_fn(f) PROVE StoreStep
  BY <1>5, DelFnRefines
<1>6. CASE gc_collect \/ object_delete \/ freed
  BY <1>6, GcCollectRefines, ObjectDeleteRefines, FreedRefines
<1>7. CASE deleted
  BY <1>7, DeletedStays DEF StoreStep
<1>8. CASE mark_next \/ marked \/ unmark_next \/ sweep_next
  BY <1>8, MarkNextStays, MarkedStays, UnmarkNextStays, SweepNextStays DEF StoreStep
<1>9. CASE gc_pass \/ check \/ unmarked \/ sweep \/ swept
  BY <1>9, ReadingStays DEF StoreStep
<1>10. CASE UNCHANGED vars
  BY <1>10 DEF vars, StoreStep, Observed, Contents, Live
<1> QED BY <1>1, <1>2, <1>3, <1>4, <1>5, <1>6, <1>7, <1>8, <1>9, <1>10 DEF Next, Step

(* Whatever the two ways to reclaim memory do, step by step, the           *)
(* interpreter sees a store: nothing that it can reach is freed, no        *)
(* reference but the one it assigns changes, even while del_fn has taken a *)
(* function apart, and after gc_collect nothing is left that it cannot     *)
(* reach.                                                                  *)
THEOREM NothingReachableIsLost == Spec => ImplementsStore
<1>1. Init => Store!Init
  BY DEF Init, Store!Init, Live, Nothing
<1>2. IInv /\ IInv' /\ [Next]_vars => [Store!Next]_Store!svars
  BY StepRefines DEF StoreStep, Observed, Contents, Store!svars
<1> QED BY <1>1, <1>2, InvariantHolds, PTL DEF Spec, ImplementsStore, Store!Spec
=============================================================================
