----------------------------- MODULE Words_proofs -----------------------------
(***************************************************************************)
(* What the proofs about words rest on: induction and recursion on the     *)
(* natural numbers, powers, and division.                                  *)
(***************************************************************************)
EXTENDS Words, SequencesExt, SequenceTheorems, WellFoundedInduction, TLAPS

(* Induction, from the fact that every set of numbers has a least one.     *)
Less == {p \in Nat \X Nat : p[1] < p[2]}

LEMMA LessIsWellFounded == IsWellFoundedOn(Less, Nat)
<1>1. IsWellFoundedOn(OpToRel(<, Nat), Nat)
  BY NatLessThanWellFounded
<1> QED BY <1>1, Zenon DEF OpToRel, Less

LEMMA LeastNumber ==
  ASSUME NEW T, T \subseteq Nat, T # {}
  PROVE  \E n \in T : \A m \in T : n <= m
<1>1. PICK n \in T : \A m \in T : <<m, n>> \notin Less
  BY LessIsWellFounded, WFMin
<1>2. ASSUME NEW m \in T PROVE n <= m
  <2>1. m \in Nat /\ n \in Nat
    BY <1>2
  <2>2. ~(m < n)
    <3>1. <<m, n>> \notin Less
      BY <1>1, <1>2
    <3>2. <<m, n>> \in Nat \X Nat /\ <<m, n>>[1] = m /\ <<m, n>>[2] = n
      BY <2>1
    <3> QED BY <3>1, <3>2 DEF Less
  <2> QED BY <2>1, <2>2
<1> QED BY <1>2

(* What holds of 0 and of the successor of each number that it holds of.   *)
LEMMA Induction ==
  ASSUME NEW n \in Nat, NEW T, 0 \in T, \A k \in 0 .. n - 1 : k \in T => k + 1 \in T
  PROVE  0 .. n \subseteq T
<1> DEFINE C == {k \in 0 .. n : k \notin T}
<1> SUFFICES ASSUME C # {} PROVE FALSE
  OBVIOUS
<1>1. C \subseteq Nat
  OBVIOUS
<1>2. PICK k \in C : \A m \in C : k <= m
  BY <1>1, LeastNumber
<1>3. k \in 0 .. n /\ k # 0 /\ k - 1 \in 0 .. n - 1 /\ k - 1 \notin C
  BY <1>2
<1>4. k - 1 \in T /\ (k - 1) + 1 = k
  BY <1>3
<1> QED BY <1>2, <1>3, <1>4

(* So a function may be defined step by step.                              *)
Steps(n, S, a, g) == n \in Nat /\ a \in S /\ g \in [(1 .. n) \X S -> S]
Stepwise(n, S, a, g, f) ==
  f \in [0 .. n -> S] /\ f[0] = a /\ \A i \in 1 .. n : f[i] = g[<<i, f[i - 1]>>]

LEMMA Recursion == \A n, S, a, g : Steps(n, S, a, g) => \E f : Stepwise(n, S, a, g, f)
<1> SUFFICES ASSUME NEW n, NEW S, NEW a, NEW g, Steps(n, S, a, g)
             PROVE  \E f : Stepwise(n, S, a, g, f)
  OBVIOUS
<1>0. n \in Nat /\ a \in S /\ g \in [(1 .. n) \X S -> S]
  BY DEF Steps
<1> DEFINE Begins(k, f) == f[0] = a /\ \A i \in 1 .. k : f[i] = g[<<i, f[i - 1]>>]
           T == {k \in 0 .. n : \E f \in [0 .. k -> S] : Begins(k, f)}
<1>1. 0 \in T
  <2> DEFINE f == [i \in 0 .. 0 |-> a]
  <2>1. f \in [0 .. 0 -> S] /\ f[0] = a
    BY <1>0
  <2>2. Begins(0, f)
    BY <2>1
  <2> HIDE DEF f
  <2>3. \E h \in [0 .. 0 -> S] : Begins(0, h)
    BY <2>1, <2>2
  <2>4. 0 \in 0 .. n
    BY <1>0
  <2> QED BY <2>3, <2>4
<1>2. ASSUME NEW k \in 0 .. n - 1, k \in T PROVE k + 1 \in T
  <2>1. PICK f \in [0 .. k -> S] : Begins(k, f)
    BY <1>2
  <2>2. k \in Nat /\ k + 1 \in 1 .. n /\ f[k] \in S
    BY <1>0, <2>1
  <2>3. <<k + 1, f[k]>> \in (1 .. n) \X S
    BY <2>2
  <2> DEFINE h == [i \in 0 .. k + 1 |-> IF i = k + 1 THEN g[<<k + 1, f[k]>>] ELSE f[i]]
  <2>4. h \in [0 .. k + 1 -> S]
    BY <1>0, <2>1, <2>2, <2>3
  <2>5. h[k + 1] = g[<<k + 1, f[k]>>] /\ \A i \in 0 .. k : h[i] = f[i]
    BY <2>2
  <2> HIDE DEF h
  <2>6. ASSUME NEW i \in 1 .. k + 1 PROVE h[i] = g[<<i, h[i - 1]>>]
    <3>1. i - 1 \in 0 .. k /\ h[i - 1] = f[i - 1]
      BY <2>2, <2>5
    <3>2. CASE i = k + 1
      BY <2>2, <2>5, <3>1, <3>2
    <3>3. CASE i # k + 1
      <4>1. i \in 1 .. k /\ h[i] = f[i]
        BY <2>2, <2>5, <3>3
      <4> QED BY <2>1, <3>1, <4>1
    <3> QED BY <3>2, <3>3
  <2>7. h[0] = a
    BY <2>1, <2>2, <2>5
  <2> QED BY <2>2, <2>4, <2>6, <2>7
<1>3. n \in T
  <2> HIDE DEF T
  <2>1. 0 .. n \subseteq T
    BY <1>0, <1>1, <1>2, Induction
  <2> QED BY <1>0, <2>1
<1> QED BY <1>3 DEF Stepwise
-----------------------------------------------------------------------------
(* Powers and divisions.                                                   *)

LEMMA BaseIs == Half \in Nat /\ Half >= 2 /\ Base = 2 * Half /\ Base \in Nat /\ Base >= 4
                /\ Ones = Base - 1 /\ Ones \in Word /\ 0 \in Word /\ 1 \in Word /\ Word \subseteq Int
BY HalfAssumption DEF Base, Ones, Word

LEMMA PowersAre ==
  ASSUME NEW b \in Nat, NEW n \in Nat
  PROVE  \E p : /\ p \in [0 .. n -> Nat] /\ p[0] = 1 /\ p[n] = Power(b, n)
                /\ \A i \in 1 .. n : p[i] = b * p[i - 1]
<1> DEFINE g == [q \in (1 .. n) \X Nat |-> b * q[2]]
           p == CHOOSE q : q = [i \in 0 .. n |-> IF i = 0 THEN 1 ELSE b * q[i - 1]]
<1>1. g \in [(1 .. n) \X Nat -> Nat] /\ \A i \in 1 .. n, x \in Nat : g[<<i, x>>] = b * x
  OBVIOUS
<1> HIDE DEF g
<1>2. PICK f \in [0 .. n -> Nat] : f[0] = 1 /\ \A i \in 1 .. n : f[i] = g[<<i, f[i - 1]>>]
  <2>1. Steps(n, Nat, 1, g)
    BY <1>1 DEF Steps
  <2>2. \E f : Stepwise(n, Nat, 1, g, f)
    BY ONLY <2>1, Recursion
  <2> QED BY <2>2 DEF Stepwise
<1>3. f = [i \in 0 .. n |-> IF i = 0 THEN 1 ELSE b * f[i - 1]]
  <2>1. \A i \in 1 .. n : f[i] = b * f[i - 1]
    <3> TAKE i \in 1 .. n
    <3>1. f[i - 1] \in Nat
      BY <1>2
    <3> QED BY <1>1, <1>2, <3>1
  <2> QED BY <1>2, <2>1
<1>4. p = [i \in 0 .. n |-> IF i = 0 THEN 1 ELSE b * p[i - 1]]
  BY <1>3, Zenon
<1>5. Power(b, n) = p[n]
  BY DEF Power
<1> HIDE DEF p
<1>6. p[0] = 1 /\ \A i \in 1 .. n : p[i] = b * p[i - 1]
  <2>1. \A i \in 0 .. n : p[i] = IF i = 0 THEN 1 ELSE b * p[i - 1]
    BY ONLY <1>4
  <2>2. 0 \in 0 .. n /\ \A i \in 1 .. n : i \in 0 .. n /\ i # 0
    OBVIOUS
  <2> QED BY ONLY <2>1, <2>2
<1>7. \A i \in 0 .. n : p[i] \in Nat
  <2> DEFINE T == {i \in 0 .. n : p[i] \in Nat}
  <2>1. 0 \in T
    BY <1>6
  <2>2. ASSUME NEW k \in 0 .. n - 1, k \in T PROVE k + 1 \in T
    <3>1. k + 1 \in 1 .. n /\ k + 1 \in 0 .. n /\ (k + 1) - 1 = k /\ p[k] \in Nat
      BY <2>2
    <3> QED BY <1>6, <3>1
  <2> HIDE DEF T
  <2>3. 0 .. n \subseteq T
    BY <2>1, <2>2, Induction
  <2> QED BY <2>3 DEF T
<1>8. p \in [0 .. n -> Nat]
  BY <1>4, <1>7
<1> QED BY <1>5, <1>6, <1>8

LEMMA PowerIs ==
  ASSUME NEW b \in Nat, NEW n \in Nat
  PROVE  /\ Power(b, n) \in Nat /\ Power(b, 0) = 1
         /\ Power(b, n + 1) = b * Power(b, n)
<1>1. PICK p : /\ p \in [0 .. n -> Nat] /\ p[0] = 1 /\ p[n] = Power(b, n)
               /\ \A i \in 1 .. n : p[i] = b * p[i - 1]
  BY PowersAre
<1>2. PICK q : /\ q \in [0 .. n + 1 -> Nat] /\ q[0] = 1 /\ q[n + 1] = Power(b, n + 1)
               /\ \A i \in 1 .. n + 1 : q[i] = b * q[i - 1]
  <2>1. n + 1 \in Nat
    OBVIOUS
  <2> QED BY <2>1, PowersAre
<1>3. Power(b, 0) = 1
  BY PowersAre
<1> DEFINE T == {i \in 0 .. n : q[i] = p[i]}
<1>4. 0 \in T
  BY <1>1, <1>2
<1>5. ASSUME NEW k \in 0 .. n - 1, k \in T PROVE k + 1 \in T
  <2>1. k + 1 \in 1 .. n /\ k + 1 \in 1 .. n + 1 /\ k + 1 \in 0 .. n /\ (k + 1) - 1 = k /\ q[k] = p[k]
    BY <1>5
  <2> QED BY <1>1, <1>2, <2>1
<1> HIDE DEF T
<1>6. n \in T
  <2>1. 0 .. n \subseteq T
    BY <1>4, <1>5, Induction
  <2> QED BY <2>1
<1>7. q[n] = p[n] /\ (n + 1) - 1 = n /\ n + 1 \in 1 .. n + 1
  BY <1>6 DEF T
<1>8. Power(b, n + 1) = b * Power(b, n)
  BY <1>1, <1>2, <1>7
<1>9. Power(b, n) \in Nat
  BY <1>1
<1> QED BY <1>3, <1>8, <1>9

LEMMA PowerGrows ==
  ASSUME NEW b \in Nat, b >= 1, NEW n \in Nat, NEW k \in 0 .. n
  PROVE  Power(b, k) <= Power(b, n)
<1> DEFINE T == {i \in 0 .. n - k : Power(b, k) <= Power(b, k + i)}
<1>1. k \in Nat /\ n - k \in Nat /\ Power(b, k) \in Nat
  BY PowerIs
<1>2. 0 \in T
  BY <1>1
<1>3. ASSUME NEW i \in 0 .. n - k - 1, i \in T PROVE i + 1 \in T
  <2> DEFINE x == Power(b, k + i)
             y == Power(b, k)
  <2>1. k + i \in Nat /\ k + (i + 1) = (k + i) + 1 /\ i + 1 \in 0 .. n - k
    BY <1>1
  <2>2. x \in Nat /\ Power(b, (k + i) + 1) = b * x
    BY <2>1, PowerIs
  <2>3. y <= x /\ y \in Nat
    BY <1>1, <1>3
  <2> HIDE DEF x, y
  <2>4. y <= b * x
    <3>1. x <= b * x
      BY <2>2
    <3>2. b * x \in Nat
      BY <2>2
    <3> QED BY <2>2, <2>3, <3>1, <3>2
  <2>5. y <= Power(b, k + (i + 1))
    BY <2>1, <2>2, <2>4
  <2> QED BY <2>1, <2>5 DEF y
<1> HIDE DEF T
<1>4. n - k \in T
  <2>1. 0 .. n - k \subseteq T
    BY <1>1, <1>2, <1>3, Induction
  <2> QED BY <1>1, <2>1
<1>5. k + (n - k) = n
  BY <1>1
<1> QED BY <1>4, <1>5 DEF T

LEMMA PowersMultiply ==
  ASSUME NEW b \in Nat, NEW m \in Nat, NEW n \in Nat
  PROVE  Power(b, m + n) = Power(b, m) * Power(b, n)
<1> DEFINE T == {i \in 0 .. n : Power(b, m + i) = Power(b, m) * Power(b, i)}
<1>1. \A i \in Nat : Power(b, i) \in Nat /\ Power(b, 0) = 1 /\ Power(b, i + 1) = b * Power(b, i)
  BY PowerIs
<1>2. 0 \in T
  BY <1>1
<1>3. ASSUME NEW k \in 0 .. n - 1, k \in T PROVE k + 1 \in T
  <2> DEFINE x == Power(b, m + k)
             y == Power(b, k)
             z == Power(b, m)
  <2>1. k \in Nat /\ m + k \in Nat /\ k + 1 \in 0 .. n /\ m + (k + 1) = (m + k) + 1
    OBVIOUS
  <2>2. Power(b, (m + k) + 1) = b * x /\ Power(b, k + 1) = b * y /\ x \in Nat /\ y \in Nat /\ z \in Nat
    BY <1>1, <2>1
  <2>3. x = z * y
    BY <1>3
  <2> HIDE DEF x, y, z
  <2>4. b * x = z * (b * y)
    BY <2>2, <2>3
  <2> QED BY <2>1, <2>2, <2>4 DEF z
<1> HIDE DEF T
<1>4. 0 .. n \subseteq T
  BY <1>2, <1>3, Induction
<1> QED BY <1>4 DEF T

LEMMA Divided ==
  ASSUME NEW a \in Nat, NEW b \in Nat \ {0}, NEW q \in Nat, NEW r \in 0 .. b - 1, a = q * b + r
  PROVE  (a \div b) = q /\ (a % b) = r
<1> DEFINE x == a \div b
           y == a % b
<1>1. x \in Int /\ y \in 0 .. b - 1 /\ a = b * x + y
  OBVIOUS
<1> HIDE DEF x, y
<1>2. (q - x) * b = y - r
  <2>1. (q - x) * b = q * b - b * x
    BY <1>1
  <2>2. q * b \in Int /\ b * x \in Int
    BY <1>1
  <2> QED BY <1>1, <2>1, <2>2
<1>3. ~(q - x >= 1)
  <2> SUFFICES ASSUME q - x >= 1 PROVE FALSE
    OBVIOUS
  <2>1. (q - x) * b >= b
    BY <1>1
  <2> QED BY <1>1, <1>2, <2>1
<1>4. ~(q - x <= -1)
  <2> SUFFICES ASSUME q - x <= -1 PROVE FALSE
    OBVIOUS
  <2>1. (q - x) * b <= -b
    BY <1>1
  <2> QED BY <1>1, <1>2, <2>1
<1>5. q = x
  BY <1>1, <1>3, <1>4
<1>6. r = y
  BY <1>1, <1>2, <1>5
<1> QED BY <1>5, <1>6 DEF x, y

(* The powers of two that a word has, and their complements.               *)
LEMMA TwosAre ==
  /\ Bits \in Nat /\ Bits >= 1 /\ Power(2, 0) = 1 /\ Power(2, Bits) = Base
  /\ \A s \in Nat : Power(2, s) \in Nat /\ Power(2, s) >= 1 /\ Power(2, s + 1) = 2 * Power(2, s)
  /\ \A s \in 0 .. Bits : Power(2, s) * Power(2, Bits - s) = Base /\ Power(2, Bits - s) \in Nat
<1>1. Bits \in Nat /\ Bits >= 1 /\ Half = Power(2, Bits - 1)
  BY WidthAssumption
<1>2. \A s \in Nat : Power(2, s) \in Nat /\ Power(2, 0) = 1 /\ Power(2, s + 1) = 2 * Power(2, s)
  BY PowerIs
<1>3. Power(2, Bits) = Base
  <2>1. Bits - 1 \in Nat /\ (Bits - 1) + 1 = Bits
    BY <1>1
  <2>2. Power(2, (Bits - 1) + 1) = 2 * Power(2, Bits - 1)
    BY <1>2, <2>1
  <2> QED BY <1>1, <2>1, <2>2, BaseIs
<1>4. \A s \in Nat : Power(2, s) >= 1
  <2> TAKE s \in Nat
  <2>1. Power(2, 0) <= Power(2, s)
    <3>1. 2 \in Nat /\ 2 >= 1 /\ 0 \in 0 .. s
      OBVIOUS
    <3> QED BY <3>1, PowerGrows
  <2> QED BY <1>2, <2>1
<1>5. ASSUME NEW s \in 0 .. Bits
      PROVE  Power(2, s) * Power(2, Bits - s) = Base /\ Power(2, Bits - s) \in Nat
  <2>1. s \in Nat /\ Bits - s \in Nat /\ s + (Bits - s) = Bits /\ 2 \in Nat
    BY <1>1
  <2>2. Power(2, s + (Bits - s)) = Power(2, s) * Power(2, Bits - s)
    BY <2>1, PowersMultiply
  <2> QED BY <1>2, <1>3, <2>1, <2>2
<1> QED BY <1>1, <1>2, <1>3, <1>4, <1>5

LEMMA BasePowersAre ==
  /\ Power(Base, 0) = 1
  /\ \A i \in Nat : Power(Base, i) \in Nat /\ Power(Base, i) >= 1
                    /\ Power(Base, i + 1) = Base * Power(Base, i)
<1>1. \A i \in Nat : Power(Base, i) \in Nat /\ Power(Base, 0) = 1 /\ Power(Base, i + 1) = Base * Power(Base, i)
  BY PowerIs, BaseIs
<1>2. \A i \in Nat : Power(Base, i) >= 1
  <2> TAKE i \in Nat
  <2>1. Power(Base, 0) <= Power(Base, i)
    <3>1. Base \in Nat /\ Base >= 1 /\ 0 \in 0 .. i
      BY BaseIs
    <3> QED BY <3>1, PowerGrows
  <2> QED BY <1>1, <2>1
<1> QED BY <1>1, <1>2

-----------------------------------------------------------------------------
(* A sequence of sequences, and all their elements in a row: the k-th      *)
(* sequence is what follows the first s[k - 1] elements.                   *)
Laid(ss, t, s) ==
  /\ s \in [0 .. Len(ss) -> Nat] /\ s[0] = 0 /\ s[Len(ss)] = Len(t)
  /\ \A k \in 1 .. Len(ss) :
       /\ s[k] = s[k - 1] + Len(ss[k]) /\ s[k] <= Len(t)
       /\ \A j \in 1 .. Len(ss[k]) : t[s[k - 1] + j] = ss[k][j]

Joined(S, ss, f) ==
  /\ ss \in Seq(Seq(S)) /\ f \in [0 .. Len(ss) -> Seq(S)] /\ f[0] = <<>>
  /\ \A i \in 1 .. Len(ss) : f[i] = f[i - 1] \o ss[i]

LEMMA JoinedIs ==
  \A S, ss, f : Joined(S, ss, f) => Laid(ss, f[Len(ss)], [i \in 0 .. Len(ss) |-> Len(f[i])])
<1> SUFFICES ASSUME NEW S, NEW ss, NEW f, Joined(S, ss, f)
             PROVE  Laid(ss, f[Len(ss)], [i \in 0 .. Len(ss) |-> Len(f[i])])
  OBVIOUS
<1> DEFINE n == Len(ss)
<1>1. /\ n \in Nat /\ f \in [0 .. n -> Seq(S)] /\ f[0] = <<>>
      /\ \A i \in 1 .. n : ss[i] \in Seq(S) /\ f[i] = f[i - 1] \o ss[i]
  BY LenProperties, ElementOfSeq DEF Joined
<1> HIDE DEF n
<1>2. \A i \in 0 .. n : f[i] \in Seq(S) /\ Len(f[i]) \in Nat
  BY <1>1, LenProperties
<1>3. ASSUME NEW i \in 1 .. n
      PROVE  /\ i - 1 \in 0 .. n /\ i \in 0 .. n /\ Len(ss[i]) \in Nat
             /\ Len(f[i]) = Len(f[i - 1]) + Len(ss[i])
             /\ \A j \in 1 .. Len(f[i - 1]) : f[i][j] = f[i - 1][j]
             /\ \A j \in 1 .. Len(ss[i]) : f[i][Len(f[i - 1]) + j] = ss[i][j]
  <2>1. i - 1 \in 0 .. n /\ i \in 0 .. n
    BY <1>1
  <2> DEFINE u == f[i - 1]
             v == ss[i]
             w == f[i]
             a == Len(u)
             b == Len(v)
  <2>2. u \in Seq(S) /\ v \in Seq(S) /\ w = u \o v
    BY <1>1, <1>2, <2>1
  <2> HIDE DEF u, v, w
  <2>3. a \in Nat /\ b \in Nat
    BY <2>2, LenProperties
  <2>4. Len(w) = a + b /\ \A j \in 1 .. a + b : w[j] = IF j <= a THEN u[j] ELSE v[j - a]
    BY <2>2, ConcatProperties
  <2> HIDE DEF a, b
  <2>5. \A j \in 1 .. a : w[j] = u[j]
    <3> TAKE j \in 1 .. a
    <3>1. j \in 1 .. a + b /\ j <= a
      BY <2>3
    <3> QED BY <2>4, <3>1
  <2>6. \A j \in 1 .. b : w[a + j] = v[j]
    <3> TAKE j \in 1 .. b
    <3>1. a + j \in 1 .. a + b /\ ~(a + j <= a) /\ (a + j) - a = j
      BY <2>3
    <3> QED BY <2>4, <3>1
  <2> QED BY <2>1, <2>3, <2>4, <2>5, <2>6 DEF u, v, w, a, b
<1> DEFINE T == {k \in 0 .. n : \A i \in 0 .. k : /\ Len(f[i]) <= Len(f[k])
                                                  /\ \A j \in 1 .. Len(f[i]) : f[k][j] = f[i][j]}
<1>4. 0 \in T
  BY <1>1, <1>2
<1>5. ASSUME NEW k \in 0 .. n - 1, k \in T
      PROVE  k + 1 \in T
  <2>1. k + 1 \in 1 .. n /\ k + 1 \in 0 .. n /\ (k + 1) - 1 = k /\ k \in 0 .. n
    BY <1>1
  <2>2. /\ Len(ss[k + 1]) \in Nat /\ Len(f[k + 1]) = Len(f[k]) + Len(ss[k + 1])
        /\ \A j \in 1 .. Len(f[k]) : f[k + 1][j] = f[k][j]
    <3> DEFINE m == k + 1
    <3>1. m \in 1 .. n /\ m - 1 = k
      BY <2>1
    <3> HIDE DEF m
    <3>2. /\ Len(ss[m]) \in Nat /\ Len(f[m]) = Len(f[m - 1]) + Len(ss[m])
          /\ \A j \in 1 .. Len(f[m - 1]) : f[m][j] = f[m - 1][j]
      BY <1>3, <3>1
    <3> QED BY <3>1, <3>2 DEF m
  <2>3. ASSUME NEW i \in 0 .. k + 1
        PROVE  Len(f[i]) <= Len(f[k + 1]) /\ \A j \in 1 .. Len(f[i]) : f[k + 1][j] = f[i][j]
    <3>1. CASE i = k + 1
      BY <1>2, <2>1, <3>1
    <3>2. CASE i # k + 1
      <4>1. i \in 0 .. k /\ i \in 0 .. n
        BY <1>1, <2>1, <2>3, <3>2
      <4>2. Len(f[i]) <= Len(f[k]) /\ \A j \in 1 .. Len(f[i]) : f[k][j] = f[i][j]
        BY <1>5, <4>1
      <4>3. Len(f[i]) \in Nat /\ Len(f[k]) \in Nat
        BY <1>2, <2>1, <4>1
      <4> DEFINE a == Len(f[i])
                 b == Len(f[k])
                 c == Len(ss[k + 1])
      <4>4. a \in Nat /\ b \in Nat /\ c \in Nat /\ a <= b /\ Len(f[k + 1]) = b + c
        BY <2>2, <4>2, <4>3
      <4>5. \A j \in 1 .. a : j \in 1 .. b
        <5> HIDE DEF a, b
        <5> QED BY <4>4
      <4>6. \A j \in 1 .. a : f[k + 1][j] = f[i][j]
        BY <2>2, <4>2, <4>5
      <4>7. a <= Len(f[k + 1])
        <5> HIDE DEF a, b, c
        <5> QED BY <4>4
      <4> QED BY <4>6, <4>7
    <3> QED BY <3>1, <3>2
  <2> QED BY <2>1, <2>3
<1> HIDE DEF T
<1>6. n \in T
  <2>1. 0 .. n \subseteq T
    BY <1>1, <1>4, <1>5, Induction
  <2> QED BY <1>1, <2>1
<1> DEFINE t == f[n]
           s == [i \in 0 .. n |-> Len(f[i])]
<1>7. s \in [0 .. n -> Nat] /\ s[0] = 0 /\ s[n] = Len(t)
  <2>1. Len(f[0]) = 0
    BY <1>1
  <2>2. 0 \in 0 .. n /\ n \in 0 .. n
    BY <1>1
  <2> QED BY <1>2, <2>1, <2>2
<1>8. ASSUME NEW k \in 1 .. n
      PROVE  /\ s[k] = s[k - 1] + Len(ss[k]) /\ s[k] <= Len(t)
             /\ \A j \in 1 .. Len(ss[k]) : t[s[k - 1] + j] = ss[k][j]
  <2>1. k - 1 \in 0 .. n /\ k \in 0 .. n /\ Len(f[k]) = Len(f[k - 1]) + Len(ss[k])
    BY <1>3
  <2>2. s[k] = Len(f[k]) /\ s[k - 1] = Len(f[k - 1])
    BY <2>1
  <2>3. Len(f[k]) <= Len(t) /\ \A j \in 1 .. Len(f[k]) : t[j] = f[k][j]
    BY <1>6, <2>1 DEF T
  <2>4. ASSUME NEW j \in 1 .. Len(ss[k])
        PROVE  t[s[k - 1] + j] = ss[k][j]
    <3>1. f[k][Len(f[k - 1]) + j] = ss[k][j]
      BY <1>3
    <3>2. Len(ss[k]) \in Nat /\ Len(f[k - 1]) \in Nat
      BY <1>2, <1>3, <2>1
    <3>3. Len(f[k - 1]) + j \in 1 .. Len(f[k])
      <4> DEFINE a == Len(f[k - 1])
                 b == Len(ss[k])
      <4>1. a \in Nat /\ b \in Nat /\ j \in 1 .. b /\ Len(f[k]) = a + b
        BY <2>1, <2>4, <3>2
      <4> HIDE DEF a, b
      <4>2. a + j \in 1 .. a + b
        BY <4>1
      <4> QED BY <4>1, <4>2 DEF a
    <3> QED BY <2>2, <2>3, <3>1, <3>3
  <2> QED BY <2>1, <2>2, <2>3, <2>4
<1> HIDE DEF s, t
<1>9. Laid(ss, t, s)
  BY <1>7, <1>8 DEF Laid, n
<1> QED BY <1>9 DEF s, t, n

LEMMA Flattened ==
  \A S, ss : ss \in Seq(Seq(S)) => /\ FlattenSeq(ss) \in Seq(S)
                                   /\ \E s : Laid(ss, FlattenSeq(ss), s)
<1> SUFFICES ASSUME NEW S, NEW ss \in Seq(Seq(S))
             PROVE  FlattenSeq(ss) \in Seq(S) /\ \E s : Laid(ss, FlattenSeq(ss), s)
  OBVIOUS
<1> DEFINE n == Len(ss)
           g == [q \in (1 .. n) \X Seq(S) |-> q[2] \o ss[q[1]]]
<1>1. n \in Nat /\ \A i \in 1 .. n : ss[i] \in Seq(S)
  BY LenProperties, ElementOfSeq
<1>2. /\ g \in [(1 .. n) \X Seq(S) -> Seq(S)]
      /\ \A i \in 1 .. n, x \in Seq(S) : g[<<i, x>>] = x \o ss[i]
  <2> HIDE DEF n
  <2>1. \A i \in 1 .. n, x \in Seq(S) : x \o ss[i] \in Seq(S)
    BY <1>1, ConcatProperties
  <2> QED BY <2>1
<1> HIDE DEF g
<1>3. PICK f : Stepwise(n, Seq(S), <<>>, g, f)
  <2>1. Steps(n, Seq(S), <<>>, g)
    BY <1>1, <1>2 DEF Steps
  <2> HIDE DEF n
  <2> QED BY ONLY <2>1, Recursion
<1>4. f \in [0 .. n -> Seq(S)] /\ f[0] = <<>> /\ \A i \in 1 .. n : f[i] = f[i - 1] \o ss[i]
  <2>1. f \in [0 .. n -> Seq(S)] /\ f[0] = <<>> /\ \A i \in 1 .. n : f[i] = g[<<i, f[i - 1]>>]
    BY <1>3 DEF Stepwise
  <2>2. \A i \in 1 .. n : f[i - 1] \in Seq(S)
    <3> HIDE DEF n
    <3>1. \A i \in 1 .. n : i - 1 \in 0 .. n
      BY <1>1
    <3> QED BY <2>1, <3>1
  <2> QED BY <1>2, <2>1, <2>2
<1>5. Laid(ss, f[n], [i \in 0 .. n |-> Len(f[i])])
  <2>1. Joined(S, ss, f)
    BY <1>4 DEF Joined
  <2> QED BY ONLY <2>1, JoinedIs
<1>6. FlattenSeq(ss) = f[n]
  <2>1. CASE n = 0
    <3>1. FlattenSeq(ss) = ss /\ ss = <<>>
      BY <2>1 DEF FlattenSeq
    <3> QED BY <1>4, <2>1, <3>1
  <2>2. CASE n # 0
    <3> DEFINE q == CHOOSE q : q = [i \in 1 .. n |-> IF i = 1 THEN ss[i] ELSE q[i - 1] \o ss[i]]
               h == [i \in 1 .. n |-> f[i]]
    <3>1. FlattenSeq(ss) = q[n]
      BY <2>2 DEF FlattenSeq
    <3> HIDE DEF n
    <3>2. h = [i \in 1 .. n |-> IF i = 1 THEN ss[i] ELSE h[i - 1] \o ss[i]]
      <4>1. ASSUME NEW i \in 1 .. n
            PROVE  f[i] = IF i = 1 THEN ss[i] ELSE h[i - 1] \o ss[i]
        <5>0. f[i] = f[i - 1] \o ss[i] /\ ss[i] \in Seq(S) /\ i \in 1 .. n /\ n \in Nat
          BY <1>1, <1>4
        <5>1. CASE i = 1
          <6>1. f[i - 1] = <<>>
            BY <1>4, <5>1
          <6> QED BY <5>0, <5>1, <6>1, ConcatEmptySeq
        <5>2. CASE i # 1
          <6>1. i - 1 \in 1 .. n
            BY <5>0, <5>2
          <6>2. h[i - 1] = f[i - 1]
            BY <6>1
          <6> QED BY <5>0, <5>2, <6>2
        <5> QED BY <5>1, <5>2
      <4> QED BY <4>1
    <3>3. q = [i \in 1 .. n |-> IF i = 1 THEN ss[i] ELSE q[i - 1] \o ss[i]]
      <4> HIDE DEF h
      <4> QED BY <3>2, Zenon
    <3> HIDE DEF q
    <3> DEFINE T == {k \in 0 .. n : k = 0 \/ q[k] = f[k]}
    <3>4. 0 \in T
      BY <1>1
    <3>5. ASSUME NEW k \in 0 .. n - 1, k \in T
          PROVE  k + 1 \in T
      <4>1. k + 1 \in 1 .. n /\ k + 1 \in 0 .. n /\ (k + 1) - 1 = k
        BY <1>1
      <4>2. q[k + 1] = IF k + 1 = 1 THEN ss[k + 1] ELSE q[(k + 1) - 1] \o ss[k + 1]
        BY <3>3, <4>1
      <4>3. f[k + 1] = f[k] \o ss[k + 1]
        BY <1>4, <4>1
      <4>4. CASE k = 0
        <5>1. f[k + 1] = <<>> \o ss[k + 1] /\ ss[k + 1] \in Seq(S)
          BY <1>1, <1>4, <4>1, <4>3, <4>4
        <5>2. f[k + 1] = ss[k + 1]
          BY <5>1, ConcatEmptySeq
        <5>3. q[k + 1] = ss[k + 1]
          BY <4>2, <4>4
        <5> QED BY <4>1, <5>2, <5>3
      <4>5. CASE k # 0
        <5>1. q[k] = f[k] /\ k + 1 # 1
          BY <3>5, <4>5
        <5>2. q[k + 1] = f[k] \o ss[k + 1]
          BY <4>1, <4>2, <5>1
        <5> QED BY <4>1, <4>3, <5>2
      <4> QED BY <4>4, <4>5
    <3> HIDE DEF T
    <3>6. 0 .. n \subseteq T
      BY <1>1, <3>4, <3>5, Induction
    <3>7. q[n] = f[n]
      <4>1. n \in T /\ n # 0
        BY <1>1, <2>2, <3>6 DEF n
      <4> QED BY <4>1 DEF T
    <3> QED BY <3>1, <3>7
  <2> QED BY <2>1, <2>2
<1>7. f[n] \in Seq(S)
  BY <1>1, <1>4
<1> QED BY <1>5, <1>6, <1>7
===============================================================================
