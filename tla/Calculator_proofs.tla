-------------------------- MODULE Calculator_proofs ---------------------------
(***************************************************************************)
(* Sums, products, shifts and the bits of numbers are exact, and what is   *)
(* printed is read again, whatever the sizes and signs of the numbers and  *)
(* the width of words.                                                     *)
(***************************************************************************)
EXTENDS Calculator, Words_proofs, SequenceTheorems

(* datastructures.c:1457: "Can add to the carry because only one of these   *)
(* two adds will overflow".  So no bit of a sum is lost on the way from a   *)
(* word to the next.                                                        *)
CarriesExact ==
  \A x, y \in Word, carry \in 0 .. 1 :
    /\ Add(x, y, carry).word \in Word /\ Add(x, y, carry).carry \in 0 .. 1
    /\ Add(x, y, carry).word + Base * Add(x, y, carry).carry = x + y + carry

(* The highest bit of a word, and the others. *)
LEMMA Split ==
  ASSUME NEW a \in Word
  PROVE  /\ a \div Half = IF a >= Half THEN 1 ELSE 0
         /\ a % Half = IF a >= Half THEN a - Half ELSE a
<1>1. /\ Half \in Nat \ {0}
      /\ a \in 0 .. 2 * Half - 1
  BY HalfAssumption DEF Word, Base
<1>2. /\ a \div Half \in 0 .. 1
      /\ a % Half \in 0 .. Half - 1
      /\ a = Half * (a \div Half) + (a % Half)
  BY <1>1
<1>3. CASE a \div Half = 0
  BY <1>1, <1>2, <1>3
<1>4. CASE a \div Half = 1
  BY <1>1, <1>2, <1>4
<1> QED
  BY <1>2, <1>3, <1>4

(* The carry that adc works out from the highest bits and from the sum of   *)
(* the others is the carry of the whole addition (datastructures.c:1417).   *)
LEMMA AdcExact ==
  ASSUME NEW x \in Word, NEW y \in Word
  PROVE  /\ adc(x, y).word \in Word
         /\ adc(x, y).carry \in 0 .. 1
         /\ adc(x, y).word + Base * adc(x, y).carry = x + y
<1> DEFINE low == (x % Half) + (y % Half)
<1>1. Half \in Nat \ {0} /\ x \in 0 .. 2 * Half - 1 /\ y \in 0 .. 2 * Half - 1
  BY HalfAssumption DEF Word, Base
<1>2. /\ x % Half = IF x >= Half THEN x - Half ELSE x
      /\ y % Half = IF y >= Half THEN y - Half ELSE y
      /\ x \div Half = IF x >= Half THEN 1 ELSE 0
      /\ y \div Half = IF y >= Half THEN 1 ELSE 0
  BY Split
<1>3. low \in Word
  BY <1>1, <1>2 DEF Word, Base
<1>4. low \div Half = IF low >= Half THEN 1 ELSE 0
  BY <1>3, Split
<1>5. (x + y) % Base = IF x + y >= Base THEN x + y - Base ELSE x + y
  BY <1>1 DEF Base
<1>6. /\ adc(x, y).word = (x + y) % Base
      /\ adc(x, y).carry = IF (x \div Half) + (y \div Half) + (low \div Half) >= 2
                           THEN 1 ELSE 0
  BY DEF adc
<1>7. adc(x, y).carry = IF x + y >= Base THEN 1 ELSE 0
  <2> HIDE DEF low
  <2>1. low = (IF x >= Half THEN x - Half ELSE x) + (IF y >= Half THEN y - Half ELSE y)
    BY <1>2 DEF low
  <2> QED
    BY <1>1, <1>2, <1>4, <1>6, <2>1 DEF Base
<1> QED
  BY <1>1, <1>5, <1>6, <1>7 DEF Word, Base

(* Of the two additions to a word only one can have a carry: after a first  *)
(* one with a carry the word is 0 (datastructures.c:1457).                  *)
THEOREM CarriesAreExact == CarriesExact
<1> SUFFICES ASSUME NEW x \in Word, NEW y \in Word, NEW carry \in 0 .. 1
             PROVE  /\ Add(x, y, carry).word \in Word /\ Add(x, y, carry).carry \in 0 .. 1
                    /\ Add(x, y, carry).word + Base * Add(x, y, carry).carry
                         = x + y + carry
  BY DEF CarriesExact
<1> DEFINE s == adc(x, carry)
           t == adc(s.word, y)
<1>1. Half \in Nat \ {0} /\ Base = 2 * Half
  BY HalfAssumption DEF Base
<1>2. carry \in Word
  BY <1>1 DEF Word
<1>3. s.word \in Word /\ s.carry \in 0 .. 1 /\ s.word + Base * s.carry = x + carry
  BY <1>2, AdcExact
<1>4. t.word \in Word /\ t.carry \in 0 .. 1 /\ t.word + Base * t.carry = s.word + y
  BY <1>3, AdcExact
<1>5. x \in Int /\ y \in Int /\ s.word \in Int /\ t.word \in Int
  BY <1>3, <1>4 DEF Word
<1>6. Add(x, y, carry).word = t.word /\ Add(x, y, carry).carry = s.carry + t.carry
  BY DEF Add
<1> HIDE DEF s, t
<1>7. CASE s.carry = 0
  BY <1>1, <1>3, <1>4, <1>5, <1>7, <1>6
<1>8. CASE s.carry = 1
  <2>1. s.word = 0
    BY <1>1, <1>3, <1>8 DEF Word
  <2>2. t.carry = 0 /\ t.word = y
    BY <1>1, <1>4, <2>1 DEF Word
  <2> QED
    BY <1>1, <1>3, <1>5, <1>8, <1>6, <2>1, <2>2
<1> QED
  BY <1>3, <1>7, <1>8

-----------------------------------------------------------------------------
(* The sums of the words and the carries between them.                     *)
SumOf(xs, ys, carry, c, s) ==
  /\ s \in Seq(Word) /\ Len(s) = Len(xs)
  /\ c[0] = carry
  /\ \A i \in 0 .. Len(xs) : c[i] \in 0 .. 1
  /\ \A i \in 1 .. Len(xs) : s[i] + Base * c[i] = xs[i] + ys[i] + c[i - 1]

LEMMA CarriesAre ==
  ASSUME NEW xs \in Seq(Word), NEW ys \in Seq(Word), Len(ys) = Len(xs), NEW carry \in 0 .. 1
  PROVE  /\ Carries(xs, ys, carry) \in [0 .. Len(xs) -> 0 .. 1]
         /\ Carries(xs, ys, carry)[0] = carry
         /\ \A i \in 1 .. Len(xs) :
              Carries(xs, ys, carry)[i] = Add(xs[i], ys[i], Carries(xs, ys, carry)[i - 1]).carry
<1> DEFINE n == Len(xs)
           g == [p \in (1 .. n) \X (0 .. 1) |-> Add(xs[p[1]], ys[p[1]], p[2]).carry]
<1>1. n \in Nat /\ \A i \in 1 .. n : xs[i] \in Word /\ ys[i] \in Word
  OBVIOUS
<1>2. \A i \in 1 .. n, c \in 0 .. 1 : Add(xs[i], ys[i], c).carry \in 0 .. 1
  BY <1>1, CarriesAreExact DEF CarriesExact
<1>3. g \in [(1 .. n) \X (0 .. 1) -> 0 .. 1]
  BY <1>2
<1>4. \A i \in 1 .. n, c \in 0 .. 1 : g[<<i, c>>] = Add(xs[i], ys[i], c).carry
  OBVIOUS
<1> HIDE DEF g
<1>5. PICK f \in [0 .. n -> 0 .. 1] : f[0] = carry /\ \A i \in 1 .. n : f[i] = g[<<i, f[i - 1]>>]
  <2>1. Steps(n, 0 .. 1, carry, g)
    BY <1>1, <1>3 DEF Steps
  <2>2. \E f : Stepwise(n, 0 .. 1, carry, g, f)
    BY ONLY <2>1, Recursion
  <2> QED BY <2>2 DEF Stepwise
<1>6. \A i \in 1 .. n : f[i] = Add(xs[i], ys[i], f[i - 1]).carry
  <2> TAKE i \in 1 .. n
  <2>1. f[i - 1] \in 0 .. 1
    BY <1>1, <1>5
  <2> QED BY <1>4, <1>5, <2>1
<1>7. f = [i \in 0 .. n |-> IF i = 0 THEN carry ELSE Add(xs[i], ys[i], f[i - 1]).carry]
  BY <1>1, <1>5, <1>6
<1> DEFINE c == Carries(xs, ys, carry)
<1>8. c = [i \in 0 .. n |-> IF i = 0 THEN carry ELSE Add(xs[i], ys[i], c[i - 1]).carry]
  BY <1>7, Zenon DEF Carries
<1>9. c[0] = carry /\ \A i \in 1 .. n : c[i] = Add(xs[i], ys[i], c[i - 1]).carry
  BY <1>1, <1>8
<1> HIDE DEF c
<1>10. \A i \in 0 .. n : c[i] \in 0 .. 1
  <2> DEFINE T == {i \in 0 .. n : c[i] \in 0 .. 1}
  <2>1. 0 \in T
    BY <1>1, <1>9
  <2>2. ASSUME NEW k \in 0 .. n - 1, k \in T PROVE k + 1 \in T
    <3>1. k + 1 \in 1 .. n /\ (k + 1) - 1 = k
      BY <1>1
    <3> QED BY <1>2, <1>9, <2>2, <3>1
  <2> HIDE DEF T
  <2>3. 0 .. n \subseteq T
    BY <1>1, <2>1, <2>2, Induction
  <2> QED BY <2>3 DEF T
<1>11. c \in [0 .. n -> 0 .. 1]
  BY <1>8, <1>10
<1> QED BY <1>9, <1>11 DEF c

LEMMA SumIs ==
  ASSUME NEW xs \in Seq(Word), NEW ys \in Seq(Word), Len(ys) = Len(xs), NEW carry \in 0 .. 1
  PROVE  SumOf(xs, ys, carry, Carries(xs, ys, carry), Sum(xs, ys, carry))
<1> DEFINE n == Len(xs)
           c == Carries(xs, ys, carry)
           s == Sum(xs, ys, carry)
<1>1. n \in Nat /\ \A i \in 1 .. n : xs[i] \in Word /\ ys[i] \in Word
  OBVIOUS
<1>2. /\ c \in [0 .. n -> 0 .. 1] /\ c[0] = carry
      /\ \A i \in 1 .. n : c[i] = Add(xs[i], ys[i], c[i - 1]).carry
  BY CarriesAre
<1>3. s = [i \in 1 .. n |-> Add(xs[i], ys[i], c[i - 1]).word]
  BY DEF Sum
<1> HIDE DEF c, s
<1>4. \A i \in 1 .. n, d \in 0 .. 1 :
        Add(xs[i], ys[i], d).word \in Word
        /\ Add(xs[i], ys[i], d).word + Base * Add(xs[i], ys[i], d).carry = xs[i] + ys[i] + d
  BY <1>1, CarriesAreExact DEF CarriesExact
<1>5. \A i \in 1 .. n : c[i - 1] \in 0 .. 1
  BY <1>1, <1>2
<1>6. s \in Seq(Word) /\ Len(s) = n
  BY <1>1, <1>3, <1>4, <1>5
<1>7. \A i \in 1 .. n : s[i] + Base * c[i] = xs[i] + ys[i] + c[i - 1]
  BY <1>2, <1>3, <1>4, <1>5
<1> QED BY <1>2, <1>6, <1>7 DEF SumOf, c, s

(* What numbers are worth.                                                 *)
Worth(n, top, v) ==
  /\ v[0] = top
  /\ \A i \in 0 .. Len(n) - 1 : v[i] \in Int
  /\ \A i \in 1 .. Len(n) - 1 : v[i] = v[i - 1] * Base + n[Len(n) - i]

LEMMA UnderIs ==
  ASSUME NEW n \in Seq(Word), Len(n) >= 1, NEW top \in Int
  PROVE  Worth(n, top, Under(n, top))
<1> DEFINE m == Len(n) - 1
           g == [p \in (1 .. m) \X Int |-> p[2] * Base + n[Len(n) - p[1]]]
<1>1. m \in Nat /\ Len(n) = m + 1 /\ \A i \in 1 .. m : n[Len(n) - i] \in Int
  <2>1. Len(n) \in Nat /\ \A i \in 1 .. Len(n) : n[i] \in Word
    OBVIOUS
  <2>2. \A i \in 1 .. m : Len(n) - i \in 1 .. Len(n)
    BY <2>1
  <2>3. \A i \in 1 .. m : n[Len(n) - i] \in Int
    BY <2>1, <2>2, BaseIs
  <2> QED BY <2>1, <2>3
<1>2. \A i \in 1 .. m, u \in Int : g[<<i, u>>] = u * Base + n[Len(n) - i]
  OBVIOUS
<1>3. g \in [(1 .. m) \X Int -> Int]
  <2>1. \A i \in 1 .. m, u \in Int : u * Base + n[Len(n) - i] \in Int
    BY <1>1, BaseIs
  <2> QED BY <2>1
<1> HIDE DEF g, m
<1>4. PICK f \in [0 .. m -> Int] : f[0] = top /\ \A i \in 1 .. m : f[i] = g[<<i, f[i - 1]>>]
  <2>1. Steps(m, Int, top, g)
    BY <1>1, <1>3 DEF Steps
  <2>2. \E f : Stepwise(m, Int, top, g, f)
    BY ONLY <2>1, Recursion
  <2> QED BY <2>2 DEF Stepwise
<1>5. \A i \in 1 .. m : f[i] = f[i - 1] * Base + n[Len(n) - i]
  <2> TAKE i \in 1 .. m
  <2>1. f[i - 1] \in Int
    BY <1>1, <1>4
  <2> QED BY <1>2, <1>4, <2>1
<1>6. f = [i \in 0 .. m |-> IF i = 0 THEN top ELSE f[i - 1] * Base + n[Len(n) - i]]
  BY <1>1, <1>4, <1>5 DEF m
<1> DEFINE v == Under(n, top)
<1>7. v = [i \in 0 .. m |-> IF i = 0 THEN top ELSE v[i - 1] * Base + n[Len(n) - i]]
  BY <1>6, Zenon DEF Under, m
<1>8. v[0] = top /\ \A i \in 1 .. m : v[i] = v[i - 1] * Base + n[Len(n) - i]
  <2> HIDE DEF v
  <2>1. \A i \in 0 .. m : v[i] = IF i = 0 THEN top ELSE v[i - 1] * Base + n[Len(n) - i]
    BY ONLY <1>7
  <2>2. 0 \in 0 .. m /\ \A i \in 1 .. m : i \in 0 .. m /\ i # 0
    BY <1>1
  <2> QED BY ONLY <2>1, <2>2
<1> HIDE DEF v
<1>9. \A i \in 0 .. m : v[i] \in Int
  <2> DEFINE T == {i \in 0 .. m : v[i] \in Int}
  <2>1. 0 \in T
    BY <1>1, <1>8
  <2>2. ASSUME NEW k \in 0 .. m - 1, k \in T PROVE k + 1 \in T
    <3>1. k + 1 \in 1 .. m /\ k + 1 \in 0 .. m /\ (k + 1) - 1 = k /\ v[k] \in Int
      BY <1>1, <2>2
    <3>2. v[k + 1] = v[k] * Base + n[Len(n) - (k + 1)] /\ n[Len(n) - (k + 1)] \in Int
      BY <1>1, <1>8, <3>1
    <3>3. v[k + 1] \in Int
      BY <3>1, <3>2, BaseIs
    <3> QED BY <3>1, <3>3
  <2> HIDE DEF T
  <2>3. 0 .. m \subseteq T
    BY <1>1, <2>1, <2>2, Induction
  <2> QED BY <2>3 DEF T
<1> QED BY <1>1, <1>8, <1>9 DEF Worth, v, m

Balanced(u, v, w, x, y, z, c, d) ==
  /\ {u, v, w, x, y, z, c, d} \subseteq Int
  /\ w = u + v + c /\ z + Base * c = x + y + d

LEMMA NextWorth ==
  \A u, v, w, x, y, z, c, d :
    Balanced(u, v, w, x, y, z, c, d) =>
      w * Base + z = (u * Base + x) + (v * Base + y) + d
<1> SUFFICES ASSUME NEW u, NEW v, NEW w, NEW x, NEW y, NEW z, NEW c, NEW d,
                    Balanced(u, v, w, x, y, z, c, d)
             PROVE  w * Base + z = (u * Base + x) + (v * Base + y) + d
  OBVIOUS
<1> DEFINE B == Base
<1>0. /\ B \in Int /\ u \in Int /\ v \in Int /\ w \in Int /\ x \in Int
      /\ y \in Int /\ z \in Int /\ c \in Int /\ d \in Int
      /\ w = u + v + c /\ z + B * c = x + y + d
  BY BaseIs DEF Balanced
<1> HIDE DEF B
<1>1. w * B = u * B + v * B + B * c
  BY ONLY <1>0
<1> DEFINE wb == w * B
           ub == u * B
           vb == v * B
           bc == B * c
<1>2. wb \in Int /\ ub \in Int /\ vb \in Int /\ bc \in Int
  BY <1>0
<1>3. wb = ub + vb + bc /\ z + bc = x + y + d
  BY <1>0, <1>1
<1> HIDE DEF wb, ub, vb, bc
<1>4. wb + z = (ub + x) + (vb + y) + d
  BY <1>0, <1>2, <1>3
<1> QED BY <1>4 DEF wb, ub, vb, B

(* Word by word, a sum is worth what the two numbers are worth together    *)
(* with the carry into the word.                                           *)
LEMMA SumWorth ==
  ASSUME NEW xs \in Seq(Word), NEW ys \in Seq(Word), NEW s, NEW c, NEW carry,
         Len(xs) >= 1, Len(ys) = Len(xs), SumOf(xs, ys, carry, c, s),
         NEW a \in Int, NEW b \in Int, NEW u, NEW v, NEW w,
         Worth(xs, a, u), Worth(ys, b, v), Worth(s, a + b + c[Len(xs) - 1], w)
  PROVE  \A i \in 0 .. Len(xs) - 1 : w[i] = u[i] + v[i] + c[Len(xs) - 1 - i]
<1> DEFINE n == Len(xs)
           T == {i \in 0 .. n - 1 : w[i] = u[i] + v[i] + c[n - 1 - i]}
<1>1. n \in Nat /\ n - 1 \in Nat /\ Len(ys) = n /\ Len(s) = n
  BY DEF SumOf
<1> HIDE DEF n
<1>2. /\ u[0] = a /\ v[0] = b /\ w[0] = a + b + c[n - 1]
      /\ \A i \in 0 .. n - 1 : u[i] \in Int /\ v[i] \in Int /\ w[i] \in Int
      /\ \A i \in 1 .. n - 1 : /\ u[i] = u[i - 1] * Base + xs[n - i]
                               /\ v[i] = v[i - 1] * Base + ys[n - i]
                               /\ w[i] = w[i - 1] * Base + s[n - i]
  BY <1>1 DEF Worth, n
<1>3. \A i \in 1 .. n : xs[i] \in Int /\ ys[i] \in Int /\ s[i] \in Int
  <2>1. \A i \in 1 .. n : xs[i] \in Word /\ ys[i] \in Word
    BY <1>1 DEF n
  <2>2. s \in Seq(Word)
    BY DEF SumOf
  <2>3. \A i \in 1 .. n : s[i] \in Word
    BY <1>1, <2>2
  <2> QED BY <2>1, <2>3, BaseIs
<1>4. /\ \A i \in 0 .. n : c[i] \in 0 .. 1
      /\ \A i \in 1 .. n : s[i] + Base * c[i] = xs[i] + ys[i] + c[i - 1]
  BY DEF SumOf, n
<1>5. 0 \in T
  BY <1>1, <1>2, <1>4
<1>6. ASSUME NEW k \in 0 .. n - 1 - 1, k \in T PROVE k + 1 \in T
  <2> DEFINE j == n - (k + 1)
  <2>1. k + 1 \in 1 .. n - 1 /\ k + 1 \in 0 .. n - 1 /\ k \in 0 .. n - 1 /\ (k + 1) - 1 = k
        /\ j \in 1 .. n /\ j \in 0 .. n /\ j - 1 \in 0 .. n /\ j = n - 1 - k
        /\ n - 1 - (k + 1) = j - 1
    BY <1>1
  <2> HIDE DEF j
  <2>2. w[k] = u[k] + v[k] + c[j]
    BY <1>6, <2>1
  <2>3. /\ u[k + 1] = u[k] * Base + xs[j]
        /\ v[k + 1] = v[k] * Base + ys[j]
        /\ w[k + 1] = w[k] * Base + s[j]
    BY <1>2, <2>1 DEF j
  <2>4. s[j] + Base * c[j] = xs[j] + ys[j] + c[j - 1]
    BY <1>4, <2>1
  <2>5. u[k] \in Int /\ v[k] \in Int /\ w[k] \in Int /\ Base \in Int
    BY <1>2, <2>1, BaseIs
  <2>6. xs[j] \in Int /\ ys[j] \in Int /\ s[j] \in Int
    BY <1>3, <2>1
  <2>7. c[j] \in Int /\ c[j - 1] \in Int
    BY <1>4, <2>1
  <2>8. w[k] * Base + s[j] = (u[k] * Base + xs[j]) + (v[k] * Base + ys[j]) + c[j - 1]
    <3>1. Balanced(u[k], v[k], w[k], xs[j], ys[j], s[j], c[j], c[j - 1])
      BY <2>2, <2>4, <2>5, <2>6, <2>7 DEF Balanced
    <3> QED BY ONLY <3>1, NextWorth
  <2>9. w[k + 1] = u[k + 1] + v[k + 1] + c[j - 1]
    BY ONLY <2>3, <2>8
  <2> QED BY <2>1, <2>9
<1> HIDE DEF T
<1>7. 0 .. n - 1 \subseteq T
  BY <1>1, <1>5, <1>6, Induction
<1> QED BY <1>7 DEF T, n

(* Words that only repeat a sign are worth no more than the sign.          *)
Repeated(n, s, w, v, d) ==
  /\ n \in Seq(Word) /\ d \in 0 .. Len(n) - 1
  /\ (s = 0 /\ w = 0) \/ (s = -1 /\ w = Ones)
  /\ Worth(n, s, v)
  /\ \A i \in Len(n) - d .. Len(n) - 1 : n[i] = w

LEMMA SignRepeated == \A n, s, w, v, d : Repeated(n, s, w, v, d) => v[d] = s
<1> SUFFICES ASSUME NEW n, NEW s, NEW w, NEW v, NEW d, Repeated(n, s, w, v, d)
             PROVE  v[d] = s
  OBVIOUS
<1> USE DEF Repeated
<1> DEFINE T == {i \in 0 .. d : v[i] = s}
<1>1. Len(n) \in Nat /\ d \in Nat /\ d <= Len(n) - 1
  OBVIOUS
<1>2. 0 \in T
  BY <1>1 DEF Worth
<1>3. ASSUME NEW k \in 0 .. d - 1, k \in T PROVE k + 1 \in T
  <2>1. k + 1 \in 0 .. d /\ k + 1 \in 1 .. Len(n) - 1 /\ (k + 1) - 1 = k
        /\ Len(n) - (k + 1) \in Len(n) - d .. Len(n) - 1
    BY <1>1
  <2>2. v[k + 1] = v[k] * Base + n[Len(n) - (k + 1)]
    BY <2>1 DEF Worth
  <2>3. v[k] = s /\ n[Len(n) - (k + 1)] = w
    BY <1>3, <2>1
  <2>4. s * Base + w = s
    BY BaseIs
  <2> QED BY <2>1, <2>2, <2>3, <2>4
<1> HIDE DEF T
<1>4. 0 .. d \subseteq T
  BY <1>1, <1>2, <1>3, Induction
<1> QED BY <1>1, <1>4 DEF T

(* Above the words that two numbers share, only what is there on top       *)
(* matters.                                                                *)
Alike(n, m, s, t, v, w) ==
  /\ n \in Seq(Word) /\ m \in Seq(Word) /\ Len(m) >= 1 /\ Len(m) <= Len(n)
  /\ \A i \in 1 .. Len(m) - 1 : m[i] = n[i]
  /\ Worth(n, s, v) /\ Worth(m, t, w)
  /\ v[Len(n) - Len(m)] = t

LEMMA SameBelow ==
  \A n, m, s, t, v, w : Alike(n, m, s, t, v, w) => v[Len(n) - 1] = w[Len(m) - 1]
<1> SUFFICES ASSUME NEW n, NEW m, NEW s, NEW t, NEW v, NEW w, Alike(n, m, s, t, v, w)
             PROVE  v[Len(n) - 1] = w[Len(m) - 1]
  OBVIOUS
<1> USE DEF Alike
<1> DEFINE l == Len(m) - 1
           d == Len(n) - Len(m)
           T == {i \in 0 .. l : v[d + i] = w[i]}
<1>1. l \in Nat /\ d \in Nat /\ Len(n) = d + l + 1 /\ Len(m) = l + 1
  OBVIOUS
<1> HIDE DEF l, d
<1>2. 0 \in T
  BY <1>1 DEF Worth, d
<1>3. ASSUME NEW k \in 0 .. l - 1, k \in T PROVE k + 1 \in T
  <2>1. /\ k + 1 \in 0 .. l /\ k + 1 \in 1 .. Len(m) - 1 /\ (k + 1) - 1 = k
        /\ d + (k + 1) \in 1 .. Len(n) - 1 /\ d + (k + 1) - 1 = d + k
        /\ Len(n) - (d + (k + 1)) = Len(m) - (k + 1)
        /\ Len(m) - (k + 1) \in 1 .. Len(m) - 1
    BY <1>1
  <2>2. v[d + (k + 1)] = v[d + k] * Base + n[Len(n) - (d + (k + 1))]
    <3>1. \A i \in 1 .. Len(n) - 1 : v[i] = v[i - 1] * Base + n[Len(n) - i]
      BY DEF Worth
    <3> DEFINE j == d + (k + 1)
    <3>2. j \in 1 .. Len(n) - 1 /\ j - 1 = d + k
      BY <1>1, <2>1
    <3> HIDE DEF j
    <3>3. v[j] = v[j - 1] * Base + n[Len(n) - j]
      BY <3>1, <3>2
    <3> QED BY <3>2, <3>3 DEF j
  <2>3. w[k + 1] = w[k] * Base + m[Len(m) - (k + 1)]
    BY <2>1 DEF Worth
  <2>4. n[Len(n) - (d + (k + 1))] = m[Len(m) - (k + 1)]
    BY <2>1
  <2>5. v[d + k] = w[k]
    BY <1>3
  <2> QED BY <2>1, <2>2, <2>3, <2>4, <2>5
<1> HIDE DEF T
<1>4. 0 .. l \subseteq T
  BY <1>1, <1>2, <1>3, Induction
<1>5. l \in T /\ d + l = Len(n) - 1
  BY <1>1, <1>4
<1> QED BY <1>5 DEF T, l

-----------------------------------------------------------------------------
(* Numbers with a sign word, and what the sign word is worth.              *)
Top(n) == IF Sgn(n) # 0 THEN -1 ELSE 0

WordOf(t) == IF t = -1 THEN Ones ELSE 0

LEMMA WellFormedIs ==
  ASSUME NEW n, WellFormed(n)
  PROVE  /\ n \in Seq(Word) /\ Len(n) \in Nat /\ Len(n) >= 2
         /\ Sgn(n) = n[Len(n)] /\ Sgn(n) = WordOf(Top(n)) /\ Top(n) \in {-1, 0}
         /\ Sgn(n) \in {0, Ones} /\ Sgn(n) \in Word
         /\ Worth(n, Top(n), Under(n, Top(n)))
         /\ Value(n) = Under(n, Top(n))[Len(n) - 1] /\ Value(n) \in Int
<1>1. n \in Seq(Word) /\ Len(n) \in Nat /\ Len(n) >= 2 /\ Sgn(n) \in {0, Ones}
  BY DEF WellFormed
<1>2. Sgn(n) = n[Len(n)] /\ Sgn(n) = WordOf(Top(n)) /\ Top(n) \in {-1, 0}
  BY <1>1, BaseIs DEF Sgn, Last, WordOf, Top
<1>3. Worth(n, Top(n), Under(n, Top(n)))
  <2>1. Top(n) \in Int /\ Len(n) >= 1
    BY <1>1, <1>2
  <2> QED BY <1>1, <2>1, UnderIs
<1>4. Value(n) = Under(n, Top(n))[Len(n) - 1]
  BY DEF Value, Top
<1>5. Under(n, Top(n))[Len(n) - 1] \in Int
  <2>1. Len(n) - 1 \in 0 .. Len(n) - 1
    BY <1>1
  <2> QED BY <1>3, <2>1 DEF Worth
<1> QED BY <1>1, <1>2, <1>3, <1>4, <1>5, BaseIs

(* Trim leaves words out where all that follow them are the sign word. *)
Trimmed(n, w, m) ==
  /\ m = SubSeq(n, 1, Len(m)) /\ m \in Seq(Word) /\ Len(m) \in 2 .. Len(n)
  /\ (\A i \in 1 .. Len(m) : m[i] = n[i]) /\ (\A i \in Len(m) .. Len(n) : n[i] = w)

LEMMA TrimKeeps ==
  ASSUME NEW n \in Seq(Word), Len(n) >= 2, NEW w \in {0, Ones}, n[Len(n)] = w
  PROVE  Trimmed(n, w, Trim(n, w))
<1> DEFINE T == {s \in 2 .. Len(n) : \A i \in s .. Len(n) - 1 : n[i] = w}
           Fits(s) == s \in 2 .. Len(n) /\ (\A i \in s .. Len(n) - 1 : n[i] = w)
                      /\ (s = 2 \/ n[s - 1] # w)
           size == CHOOSE s \in 2 .. Len(n) :
                     /\ \A i \in s .. Len(n) - 1 : n[i] = w
                     /\ s = 2 \/ n[s - 1] # w
           m == Trim(n, w)
<1>1. Len(n) \in Nat /\ \A i \in 1 .. Len(n) : n[i] \in Word
  OBVIOUS
<1>2. \E s : Fits(s)
  <2>1. T \subseteq Nat /\ Len(n) \in T
    BY <1>1
  <2>2. PICK s \in T : \A r \in T : s <= r
    BY <2>1, LeastNumber
  <2>3. s \in 2 .. Len(n) /\ \A i \in s .. Len(n) - 1 : n[i] = w
    BY <2>2
  <2>4. s = 2 \/ n[s - 1] # w
    <3> SUFFICES ASSUME s # 2, n[s - 1] = w PROVE FALSE
      OBVIOUS
    <3>1. s - 1 \in 2 .. Len(n) /\ ~(s <= s - 1)
      BY <1>1, <2>3
    <3>2. ASSUME NEW i \in s - 1 .. Len(n) - 1 PROVE n[i] = w
      <4>1. i = s - 1 \/ i \in s .. Len(n) - 1
        BY <1>1, <2>3
      <4> QED BY <2>3, <4>1
    <3>3. s - 1 \in T
      BY <3>1, <3>2
    <3> QED BY <2>2, <3>1, <3>3
  <2> QED BY <2>3, <2>4
<1>3. Fits(size)
  BY <1>2
<1>4. m = SubSeq(n, 1, size)
  BY DEF Trim
<1> HIDE DEF size, m, T
<1>5. size \in 2 .. Len(n) /\ \A i \in size .. Len(n) - 1 : n[i] = w
  BY <1>3
<1>6. m \in Seq(Word) /\ Len(m) = size /\ \A i \in 1 .. size : m[i] = n[i]
  BY <1>1, <1>4, <1>5, SubSeqProperties
<1>7. \A i \in size .. Len(n) : n[i] = w
  <2>1. \A i \in size .. Len(n) : i = Len(n) \/ i \in size .. Len(n) - 1
    BY <1>1, <1>5
  <2> QED BY <1>5, <2>1
<1> QED BY <1>4, <1>5, <1>6, <1>7 DEF Trimmed, m

(* A repeated sign can be left out. *)
LEMMA TrimIs ==
  ASSUME NEW n \in Seq(Word), Len(n) >= 2, NEW w \in {0, Ones}, n[Len(n)] = w
  PROVE  /\ WellFormed(Trim(n, w)) /\ Sgn(Trim(n, w)) = w
         /\ Value(Trim(n, w)) = Under(n, IF w # 0 THEN -1 ELSE 0)[Len(n) - 1]
<1> DEFINE m == Trim(n, w)
           size == Len(m)
           t == IF w # 0 THEN -1 ELSE 0
<1>1. Len(n) \in Nat /\ \A i \in 1 .. Len(n) : n[i] \in Word
  OBVIOUS
<1>2. Trimmed(n, w, m)
  BY TrimKeeps
<1> HIDE DEF m
<1>3. m \in Seq(Word) /\ size \in 2 .. Len(n) /\ (\A i \in 1 .. size : m[i] = n[i])
      /\ \A i \in size .. Len(n) : n[i] = w
  BY <1>2 DEF Trimmed
<1> HIDE DEF size
<1>5. size \in 2 .. Len(n) /\ \A i \in size .. Len(n) - 1 : n[i] = w
  BY <1>1, <1>3
<1>6. m \in Seq(Word) /\ Len(m) = size /\ \A i \in 1 .. size : m[i] = n[i]
  BY <1>3 DEF size
<1>7. m[size] = w
  <2>1. size \in 1 .. size /\ size \in size .. Len(n)
    BY <1>1, <1>5
  <2> QED BY <1>3, <2>1
<1>8. WellFormed(m) /\ Sgn(m) = w
  BY <1>5, <1>6, <1>7 DEF WellFormed, Sgn, Last
<1>9. Top(m) = t /\ t \in Int
  BY <1>8 DEF Top
<1>10. Worth(n, t, Under(n, t)) /\ Worth(m, t, Under(m, t))
  BY <1>5, <1>6, <1>9, UnderIs
<1>11. Under(n, t)[Len(n) - Len(m)] = t
  <2>1. Len(n) - size \in 0 .. Len(n) - 1 /\ Len(n) - (Len(n) - size) = size
    BY <1>1, <1>5
  <2>2. (t = 0 /\ w = 0) \/ (t = -1 /\ w = Ones)
    BY BaseIs
  <2> HIDE DEF t
  <2>3. Repeated(n, t, w, Under(n, t), Len(n) - size)
    BY <1>5, <1>10, <2>1, <2>2 DEF Repeated
  <2>4. Under(n, t)[Len(n) - size] = t
    BY ONLY <2>3, SignRepeated
  <2> QED BY <1>6, <2>4
<1>12. Under(n, t)[Len(n) - 1] = Under(m, t)[Len(m) - 1]
  <2> HIDE DEF t
  <2>1. Len(m) >= 1 /\ Len(m) <= Len(n) /\ \A i \in 1 .. Len(m) - 1 : m[i] = n[i]
    BY <1>1, <1>5, <1>6
  <2>2. Alike(n, m, t, t, Under(n, t), Under(m, t))
    BY <1>6, <1>10, <1>11, <2>1 DEF Alike
  <2> QED BY ONLY <2>2, SameBelow
<1>13. Value(m) = Under(m, t)[Len(m) - 1]
  BY <1>8, <1>9, WellFormedIs
<1> QED BY <1>8, <1>12, <1>13 DEF m

(* A sign word can be put on top. *)
LEMMA AppendIs ==
  ASSUME NEW n \in Seq(Word), Len(n) >= 1, NEW t \in {-1, 0}
  PROVE  /\ WellFormed(Append(n, WordOf(t))) /\ Sgn(Append(n, WordOf(t))) = WordOf(t)
         /\ Value(Append(n, WordOf(t))) = Under(n, t * Base + n[Len(n)])[Len(n) - 1]
<1> DEFINE w == WordOf(t)
           m == Append(n, w)
           u == t * Base + n[Len(n)]
<1>1. Len(n) \in Nat /\ (\A i \in 1 .. Len(n) : n[i] \in Word) /\ w \in Word /\ w \in {0, Ones}
  BY BaseIs DEF WordOf
<1>2. /\ m \in Seq(Word) /\ Len(m) = Len(n) + 1 /\ m[Len(n) + 1] = w
      /\ \A i \in 1 .. Len(n) : m[i] = n[i]
  BY <1>1, AppendProperties
<1> HIDE DEF m
<1>3. WellFormed(m) /\ Sgn(m) = w
  BY <1>1, <1>2 DEF WellFormed, Sgn, Last
<1>4. Top(m) = t /\ t \in Int /\ u \in Int
  <2>1. n[Len(n)] \in Int
    <3>1. Len(n) \in 1 .. Len(n)
      BY <1>1
    <3> QED BY <1>1, <3>1, BaseIs
  <2> QED BY <1>3, <2>1, BaseIs DEF Top, WordOf
<1>5. Worth(m, t, Under(m, t)) /\ Worth(n, u, Under(n, u))
  BY <1>1, <1>2, <1>4, UnderIs
<1>6. Under(m, t)[Len(m) - Len(n)] = u
  <2>1. Len(m) - Len(n) = 1 /\ 1 \in 1 .. Len(m) - 1 /\ 1 - 1 = 0 /\ Len(m) - 1 = Len(n)
    BY <1>1, <1>2
  <2>2. Under(m, t)[1] = Under(m, t)[0] * Base + m[Len(n)]
    BY <1>5, <2>1 DEF Worth
  <2>3. Under(m, t)[0] = t /\ m[Len(n)] = n[Len(n)]
    BY <1>1, <1>2, <1>5 DEF Worth
  <2> QED BY <2>1, <2>2, <2>3
<1>7. Under(m, t)[Len(m) - 1] = Under(n, u)[Len(n) - 1]
  <2> HIDE DEF u
  <2>1. Len(n) <= Len(m) /\ \A i \in 1 .. Len(n) - 1 : n[i] = m[i]
    BY <1>1, <1>2
  <2>2. Alike(m, n, t, u, Under(m, t), Under(n, u))
    BY <1>2, <1>5, <1>6, <2>1 DEF Alike
  <2> QED BY ONLY <2>2, SameBelow
<1> QED BY <1>3, <1>4, <1>7, WellFormedIs DEF m

(* The sign of a sum is kept: with the carry into the word of the signs,   *)
(* their sum is -2, -1, 0 or 1, and where that is not a sign it goes under *)
(* a new one.                                                              *)
Summed(s, t1, t2, c, d) ==
  /\ s \in Seq(Word) /\ Len(s) >= 2
  /\ t1 \in {-1, 0} /\ t2 \in {-1, 0} /\ c \in 0 .. 1 /\ d \in 0 .. 1
  /\ s[Len(s)] + Base * d = WordOf(t1) + WordOf(t2) + c

SignBit(t) == IF t = -1 THEN 1 ELSE 0

LEMMA HighBitIs == \A t \in {-1, 0} : HighBit(WordOf(t)) = SignBit(t) /\ WordOf(t) \in Word
<1>1. HighBit(Ones) = 1 /\ HighBit(0) = 0
  BY BaseIs, Split DEF HighBit
<1> QED BY <1>1, BaseIs DEF WordOf, SignBit

LEMMA SignKeptIs ==
  \A s, t1, t2, c, d : Summed(s, t1, t2, c, d) =>
    LET k == SignKept(s, HighBit(WordOf(t1)), HighBit(WordOf(t2)))
    IN  WellFormed(k) /\ Value(k) = Under(s, t1 + t2 + c)[Len(s) - 1]
<1> SUFFICES ASSUME NEW s, NEW t1, NEW t2, NEW c, NEW d, Summed(s, t1, t2, c, d)
             PROVE  /\ WellFormed(SignKept(s, HighBit(WordOf(t1)), HighBit(WordOf(t2))))
                    /\ Value(SignKept(s, HighBit(WordOf(t1)), HighBit(WordOf(t2))))
                         = Under(s, t1 + t2 + c)[Len(s) - 1]
  OBVIOUS
<1> DEFINE l == s[Len(s)]
           k == SignKept(s, SignBit(t1), SignBit(t2))
           top == t1 + t2 + c
           V == Under(s, top)[Len(s) - 1]
<1>1. /\ s \in Seq(Word) /\ Len(s) \in Nat /\ Len(s) >= 2 /\ Len(s) >= 1 /\ Last(s) = l
      /\ l \in Word
  BY BaseIs DEF Summed, Last
<1>2. /\ t1 \in {-1, 0} /\ t2 \in {-1, 0} /\ c \in 0 .. 1 /\ d \in 0 .. 1
      /\ l + Base * d = WordOf(t1) + WordOf(t2) + c
  BY DEF Summed
<1>3. HighBit(WordOf(t1)) = SignBit(t1) /\ HighBit(WordOf(t2)) = SignBit(t2)
  BY <1>2, HighBitIs
<1>4. l \in 0 .. Base - 1
  BY <1>1 DEF Word
<1> HIDE DEF l
<1>5. ASSUME l \in {0, Ones}, k = Trim(s, l), top = IF l # 0 THEN -1 ELSE 0
      PROVE  WellFormed(k) /\ Value(k) = V
  <2> HIDE DEF k, top
  <2>1. s[Len(s)] = l
    BY DEF l
  <2>2. WellFormed(Trim(s, l)) /\ Value(Trim(s, l)) = Under(s, IF l # 0 THEN -1 ELSE 0)[Len(s) - 1]
    BY <1>1, <1>5, <2>1, TrimIs
  <2> QED BY <1>5, <2>2
<1>6. ASSUME NEW t \in {-1, 0}, k = Append(s, WordOf(t)), top = t * Base + l
      PROVE  WellFormed(k) /\ Value(k) = V
  <2> HIDE DEF k, top
  <2>1. /\ WellFormed(Append(s, WordOf(t)))
        /\ Value(Append(s, WordOf(t))) = Under(s, t * Base + s[Len(s)])[Len(s) - 1]
    BY <1>1, AppendIs
  <2> QED BY <1>6, <2>1 DEF l
<1>7. k = IF SignBit(t1) = 1 /\ SignBit(t2) = 1 /\ l # Ones THEN Append(s, Ones)
          ELSE IF SignBit(t1) = 0 /\ SignBit(t2) = 0 /\ l # 0 THEN Append(s, 0)
          ELSE Trim(s, l)
  BY <1>1 DEF SignKept
<1> SUFFICES WellFormed(k) /\ Value(k) = V
  BY <1>3
<1>0. top = t1 + t2 + c
  OBVIOUS
<1> HIDE DEF k, V, top
<1>8. WordOf(0) = 0 /\ WordOf(-1) = Ones /\ SignBit(0) = 0 /\ SignBit(-1) = 1
  BY DEF WordOf, SignBit
<1>9. CASE t1 = 0 /\ t2 = 0
  <2>1. l = c /\ top = c
    <3>1. l + Base * d = c /\ top = c
      BY <1>0, <1>2, <1>8, <1>9
    <3>2. d # 1
      BY <1>2, <1>4, <3>1, BaseIs
    <3> QED BY <1>2, <1>4, <3>1, <3>2, BaseIs
  <2>2. CASE c = 0
    <3>1. k = Trim(s, l) /\ l \in {0, Ones} /\ top = IF l # 0 THEN -1 ELSE 0
      BY <1>7, <1>8, <1>9, <2>1, <2>2
    <3> QED BY <1>5, <3>1
  <2>3. CASE c = 1
    <3>1. k = Append(s, WordOf(0))
      BY <1>7, <1>8, <1>9, <2>1, <2>3
    <3>2. top = 0 * Base + l
      BY <1>4, <2>1, <2>3, BaseIs
    <3> QED BY <1>6, <3>1, <3>2
  <2> QED BY <1>2, <2>2, <2>3
<1>10. CASE t1 = -1 /\ t2 = -1
  <2>1. l = Base - 2 + c /\ top = c - 2
    BY <1>0, <1>2, <1>4, <1>8, <1>10, BaseIs
  <2>2. CASE c = 1
    <3>1. l = Ones /\ Ones # 0 /\ top = -1
      BY <2>1, <2>2, BaseIs
    <3>2. k = Trim(s, l)
      BY <1>7, <1>8, <1>10, <3>1
    <3> QED BY <1>5, <3>1, <3>2
  <2>3. CASE c = 0
    <3>1. l # Ones
      BY <2>1, <2>3, BaseIs
    <3>2. k = Append(s, WordOf(-1))
      BY <1>7, <1>8, <1>10, <3>1
    <3>3. top = (-1) * Base + l
      BY <1>4, <2>1, <2>3, BaseIs
    <3> QED BY <1>6, <3>2, <3>3
  <2> QED BY <1>2, <2>2, <2>3
<1>11. CASE t1 # t2
  <2>1. l + Base * d = Base - 1 + c /\ top = c - 1
    BY <1>0, <1>2, <1>8, <1>11, BaseIs
  <2>2. l \in {0, Ones} /\ top = IF l # 0 THEN -1 ELSE 0
    BY <1>2, <1>4, <2>1, BaseIs
  <2>3. k = Trim(s, l)
    BY <1>2, <1>7, <1>8, <1>11
  <2> QED BY <1>5, <2>2, <2>3
<1> QED BY <1>2, <1>9, <1>10, <1>11

(* What a sum is worth, under the sum of what is worth its operands' signs *)
(* and the carry into their word.                                          *)
Added(xs, ys, carry, a, b) ==
  /\ xs \in Seq(Word) /\ ys \in Seq(Word) /\ Len(xs) >= 2 /\ Len(ys) = Len(xs)
  /\ carry \in 0 .. 1 /\ a \in Int /\ b \in Int

LEMMA SumUnder ==
  \A xs, ys, carry, a, b : Added(xs, ys, carry, a, b) =>
    /\ SumOf(xs, ys, carry, Carries(xs, ys, carry), Sum(xs, ys, carry))
    /\ Under(Sum(xs, ys, carry), a + b + Carries(xs, ys, carry)[Len(xs) - 1])[Len(xs) - 1]
         = Under(xs, a)[Len(xs) - 1] + Under(ys, b)[Len(xs) - 1] + carry
<1> SUFFICES ASSUME NEW xs, NEW ys, NEW carry, NEW a, NEW b, Added(xs, ys, carry, a, b)
             PROVE  /\ SumOf(xs, ys, carry, Carries(xs, ys, carry), Sum(xs, ys, carry))
                    /\ Under(Sum(xs, ys, carry), a + b + Carries(xs, ys, carry)[Len(xs) - 1])
                         [Len(xs) - 1]
                         = Under(xs, a)[Len(xs) - 1] + Under(ys, b)[Len(xs) - 1] + carry
  OBVIOUS
<1> DEFINE n == Len(xs)
           c == Carries(xs, ys, carry)
           s == Sum(xs, ys, carry)
           top == a + b + c[n - 1]
<1>1. /\ xs \in Seq(Word) /\ ys \in Seq(Word) /\ n \in Nat /\ n >= 2 /\ n >= 1 /\ Len(ys) = n
      /\ carry \in 0 .. 1 /\ a \in Int /\ b \in Int
  BY DEF Added
<1>2. SumOf(xs, ys, carry, c, s)
  BY <1>1, SumIs
<1>3. s \in Seq(Word) /\ Len(s) = n /\ c[n - 1] \in 0 .. 1 /\ c[0] = carry
  <2>1. n - 1 \in 0 .. n
    BY <1>1
  <2> HIDE DEF c, s
  <2> QED BY <1>2, <2>1 DEF SumOf
<1> HIDE DEF c, s, n
<1>4. top \in Int
  BY <1>1, <1>3
<1>5. Worth(xs, a, Under(xs, a)) /\ Worth(ys, b, Under(ys, b)) /\ Worth(s, top, Under(s, top))
  <2> HIDE DEF top
  <2> QED BY <1>1, <1>3, <1>4, UnderIs DEF n
<1>6. \A i \in 0 .. n - 1 : Under(s, top)[i] = Under(xs, a)[i] + Under(ys, b)[i] + c[n - 1 - i]
  BY <1>1, <1>2, <1>5, SumWorth DEF n
<1>7. Under(s, top)[n - 1] = Under(xs, a)[n - 1] + Under(ys, b)[n - 1] + c[0]
  <2> HIDE DEF top
  <2>1. n - 1 \in 0 .. n - 1 /\ n - 1 - (n - 1) = 0
    BY <1>1
  <2> QED BY <1>6, <2>1
<1> QED BY <1>2, <1>3, <1>7 DEF n, c, s

(* Words of the sign between a number and its sign word change nothing.    *)
LEMMA PaddedIs ==
  ASSUME NEW n, WellFormed(n), NEW d \in Nat
  PROVE  LET m == n \o Const(Ones * HighBit(Sgn(n)), d)
         IN  WellFormed(m) /\ Len(m) = Len(n) + d /\ Sgn(m) = Sgn(n) /\ Value(m) = Value(n)
<1> DEFINE w == Ones * HighBit(Sgn(n))
           p == Const(w, d)
           m == n \o p
<1>1. /\ n \in Seq(Word) /\ Len(n) \in Nat /\ Len(n) >= 2 /\ Sgn(n) = n[Len(n)]
      /\ Sgn(n) = WordOf(Top(n)) /\ Top(n) \in {-1, 0} /\ Top(n) \in Int
      /\ Worth(n, Top(n), Under(n, Top(n))) /\ Value(n) = Under(n, Top(n))[Len(n) - 1]
      /\ Sgn(n) \in {0, Ones} /\ Sgn(n) \in Word
  BY WellFormedIs
<1>2. w = Sgn(n)
  <2>1. HighBit(Sgn(n)) = SignBit(Top(n))
    BY <1>1, HighBitIs
  <2> QED BY <1>1, <2>1, BaseIs DEF SignBit, WordOf
<1> HIDE DEF w
<1>3. p \in Seq(Word) /\ Len(p) = d /\ \A i \in 1 .. d : p[i] = w
  BY <1>1, <1>2 DEF Const
<1> HIDE DEF p
<1>4. /\ m \in Seq(Word) /\ Len(m) = Len(n) + d
      /\ \A i \in 1 .. Len(n) : m[i] = n[i]
      /\ \A i \in Len(n) + 1 .. Len(n) + d : m[i] = w
  <2>1. m \in Seq(Word) /\ Len(m) = Len(n) + d
    BY <1>1, <1>3, ConcatProperties
  <2>2. \A i \in 1 .. Len(m) : m[i] = IF i <= Len(n) THEN n[i] ELSE p[i - Len(n)]
    BY <1>1, <1>3, ConcatProperties
  <2> HIDE DEF m
  <2>3. ASSUME NEW i \in 1 .. Len(n) PROVE m[i] = n[i]
    BY <1>1, <2>1, <2>2
  <2>4. ASSUME NEW i \in Len(n) + 1 .. Len(n) + d PROVE m[i] = w
    <3>1. i \in 1 .. Len(m) /\ ~(i <= Len(n)) /\ i - Len(n) \in 1 .. d
      BY <1>1, <2>1
    <3> QED BY <1>3, <2>2, <3>1
  <2> QED BY <2>1, <2>3, <2>4
<1> HIDE DEF m
<1>5. \A i \in Len(n) .. Len(n) + d : m[i] = Sgn(n)
  <2> TAKE i \in Len(n) .. Len(n) + d
  <2>1. CASE i = Len(n)
    <3>1. i \in 1 .. Len(n)
      BY <1>1, <2>1
    <3> QED BY <1>1, <1>4, <2>1, <3>1
  <2>2. CASE i # Len(n)
    <3>1. i \in Len(n) + 1 .. Len(n) + d
      BY <1>1, <2>2
    <3> QED BY <1>2, <1>4, <3>1
  <2> QED BY <2>1, <2>2
<1>6. WellFormed(m) /\ Sgn(m) = Sgn(n)
  <2>1. m[Len(m)] = Sgn(n) /\ Len(m) >= 2
    <3>1. Len(m) \in Len(n) .. Len(n) + d
      BY <1>1, <1>4
    <3> QED BY <1>1, <1>4, <1>5, <3>1
  <2>2. Last(m) = Sgn(n)
    BY <2>1 DEF Last
  <2> QED BY <1>1, <1>4, <2>1, <2>2 DEF WellFormed, Sgn
<1>7. Top(m) = Top(n)
  BY <1>6 DEF Top
<1>8. Worth(m, Top(n), Under(m, Top(n))) /\ Value(m) = Under(m, Top(n))[Len(m) - 1]
  BY <1>6, <1>7, WellFormedIs
<1> DEFINE t == Top(n)
           u == Under(m, t)
           v == Under(n, t)
<1>9. u[d] = t
  <2>1. /\ d \in 0 .. Len(m) - 1
        /\ \A i \in Len(m) - d .. Len(m) - 1 : m[i] = Sgn(n)
    BY <1>1, <1>4, <1>5
  <2>2. (t = 0 /\ Sgn(n) = 0) \/ (t = -1 /\ Sgn(n) = Ones)
    BY <1>1 DEF WordOf
  <2> HIDE DEF t
  <2>3. Repeated(m, t, Sgn(n), Under(m, t), d)
    BY <1>4, <1>8, <2>1, <2>2 DEF Repeated, t
  <2> QED BY ONLY <2>3, SignRepeated
<1>10. u[Len(m) - 1] = v[Len(n) - 1]
  <2>1. /\ Len(n) >= 1 /\ Len(n) <= Len(m) /\ Len(m) - Len(n) = d
        /\ \A i \in 1 .. Len(n) - 1 : n[i] = m[i]
    BY <1>1, <1>4
  <2> HIDE DEF t
  <2>2. Alike(m, n, t, t, Under(m, t), Under(n, t))
    BY <1>1, <1>4, <1>8, <1>9, <2>1 DEF Alike, t
  <2> QED BY ONLY <2>2, SameBelow
<1> QED BY <1>1, <1>4, <1>6, <1>8, <1>10 DEF m, p, w

LEMMA SameSizeIs ==
  ASSUME NEW n, WellFormed(n), NEW m, WellFormed(m), Len(n) = Len(m)
  PROVE  LET k == SignKept(Sum(n, m, 0), HighBit(Sgn(n)), HighBit(Sgn(m)))
         IN  WellFormed(k) /\ Value(k) = Value(n) + Value(m)
<1> DEFINE l == Len(n)
           c == Carries(n, m, 0)
           s == Sum(n, m, 0)
           t == Top(n)
           u == Top(m)
<1>1. /\ n \in Seq(Word) /\ m \in Seq(Word) /\ l \in Nat /\ l >= 2 /\ Len(m) = l
      /\ t \in {-1, 0} /\ u \in {-1, 0} /\ t \in Int /\ u \in Int
      /\ Sgn(n) = WordOf(t) /\ Sgn(m) = WordOf(u) /\ n[l] = WordOf(t) /\ m[l] = WordOf(u)
      /\ Value(n) = Under(n, t)[l - 1] /\ Value(m) = Under(m, u)[l - 1]
      /\ Value(n) \in Int /\ Value(m) \in Int
  BY WellFormedIs
<1> HIDE DEF l, t, u
<1>2. /\ SumOf(n, m, 0, c, s)
      /\ Under(s, t + u + c[l - 1])[l - 1] = Under(n, t)[l - 1] + Under(m, u)[l - 1] + 0
  <2>1. Added(n, m, 0, t, u)
    BY <1>1 DEF Added, l
  <2> QED BY ONLY <2>1, SumUnder DEF l
<1> HIDE DEF c, s
<1>3. /\ s \in Seq(Word) /\ Len(s) = l
      /\ \A i \in 0 .. l : c[i] \in 0 .. 1
      /\ \A i \in 1 .. l : s[i] + Base * c[i] = n[i] + m[i] + c[i - 1]
  BY <1>2 DEF SumOf, l
<1>4. Summed(s, t, u, c[l - 1], c[l])
  <2>1. l \in 1 .. l /\ l - 1 \in 0 .. l /\ l \in 0 .. l
    BY <1>1
  <2>2. s[l] + Base * c[l] = n[l] + m[l] + c[l - 1]
    BY <1>3, <2>1
  <2> QED BY <1>1, <1>3, <2>1, <2>2 DEF Summed
<1> DEFINE k == SignKept(s, HighBit(WordOf(t)), HighBit(WordOf(u)))
<1>5. WellFormed(k) /\ Value(k) = Under(s, t + u + c[l - 1])[Len(s) - 1]
  BY ONLY <1>4, SignKeptIs
<1> HIDE DEF k
<1>6. Value(k) = Value(n) + Value(m)
  BY <1>1, <1>2, <1>3, <1>5
<1> QED BY <1>1, <1>5, <1>6 DEF k, s

LEMMA AddIs ==
  ASSUME NEW n, WellFormed(n), NEW m, WellFormed(m)
  PROVE  WellFormed(num_add(n, m)) /\ Value(num_add(n, m)) = Value(n) + Value(m)
<1> DEFINE n1 == Longer(n, m)
           n2 == Shorter(n, m)
           d == Len(n1) - Len(n2)
           p == n2 \o Const(Ones * HighBit(Sgn(n2)), d)
           r == SignKept(Sum(n1, p, 0), HighBit(Sgn(n1)), HighBit(Sgn(n2)))
<1>1. num_add(n, m) = r
  BY DEF num_add
<1>2. Len(n) \in Nat /\ Len(m) \in Nat /\ Value(n) \in Int /\ Value(m) \in Int
  BY WellFormedIs
<1>3. /\ WellFormed(n1) /\ WellFormed(n2) /\ Len(n1) \in Nat /\ Len(n2) \in Nat
      /\ Len(n1) >= Len(n2) /\ d \in Nat
      /\ Value(n1) + Value(n2) = Value(n) + Value(m)
  BY <1>2 DEF Longer, Shorter
<1> HIDE DEF n1, n2
<1>4. /\ WellFormed(p) /\ Len(p) = Len(n2) + d /\ Sgn(p) = Sgn(n2) /\ Value(p) = Value(n2)
  BY <1>3, PaddedIs
<1>5. Len(n1) = Len(p)
  <2> HIDE DEF p
  <2> QED BY <1>3, <1>4
<1> HIDE DEF p, d
<1>6. WellFormed(r) /\ Value(r) = Value(n1) + Value(p)
  BY <1>3, <1>4, <1>5, SameSizeIs
<1> HIDE DEF r
<1> QED BY <1>1, <1>3, <1>4, <1>6

(* The sign is that of what is on top. *)
Bounded(n, top, v) == n \in Seq(Word) /\ Len(n) >= 1 /\ top \in Int /\ Worth(n, top, v)

LEMMA SignOfWorth ==
  \A n, top, v : Bounded(n, top, v) =>
    v[Len(n) - 1] \in Int /\ (v[Len(n) - 1] < 0 <=> top < 0)
<1> SUFFICES ASSUME NEW n, NEW top, NEW v, Bounded(n, top, v)
             PROVE  v[Len(n) - 1] \in Int /\ (v[Len(n) - 1] < 0 <=> top < 0)
  OBVIOUS
<1> DEFINE l == Len(n) - 1
           T == {i \in 0 .. l : v[i] < 0 <=> top < 0}
<1>1. /\ Len(n) = l + 1 /\ l \in Nat /\ top \in Int /\ v[0] = top
      /\ \A i \in 0 .. l : v[i] \in Int
      /\ \A i \in 1 .. l : v[i] = v[i - 1] * Base + n[Len(n) - i]
  BY DEF Bounded, Worth
<1>2. \A i \in 1 .. Len(n) : n[i] \in 0 .. Base - 1
  <2>1. \A i \in 1 .. Len(n) : n[i] \in Word
    BY DEF Bounded
  <2> QED BY <2>1 DEF Word
<1> HIDE DEF l
<1>3. 0 \in T
  BY <1>1
<1>4. ASSUME NEW k \in 0 .. l - 1, k \in T PROVE k + 1 \in T
  <2> DEFINE w == n[Len(n) - (k + 1)]
             x == v[k]
             b == Base
  <2>1. k + 1 \in 1 .. l /\ k + 1 \in 0 .. l /\ k \in 0 .. l /\ (k + 1) - 1 = k
        /\ Len(n) - (k + 1) \in 1 .. Len(n)
    BY <1>1
  <2>2. v[k + 1] = x * b + w /\ w \in 0 .. b - 1 /\ x \in Int /\ (x < 0 <=> top < 0) /\ b \in Nat /\ b >= 1
    BY <1>1, <1>2, <1>4, <2>1, BaseIs
  <2> HIDE DEF w, x, b
  <2>3. x * b + w < 0 <=> x < 0
    <3>1. CASE x < 0
      <4>1. (x + 1) * b <= 0
        BY <2>2, <3>1
      <4>2. (x + 1) * b = x * b + b
        BY <2>2
      <4>3. x * b \in Int
        BY <2>2
      <4> QED BY <2>2, <3>1, <4>1, <4>2, <4>3
    <3>2. CASE ~(x < 0)
      <4>1. x * b >= 0 /\ x * b \in Int
        BY <2>2, <3>2
      <4> QED BY <2>2, <3>2, <4>1
    <3> QED BY <3>1, <3>2
  <2> QED BY <2>1, <2>2, <2>3
<1> HIDE DEF T
<1>5. 0 .. l \subseteq T
  BY <1>1, <1>3, <1>4, Induction
<1>6. l \in T /\ l \in 0 .. l
  BY <1>1, <1>5
<1> QED BY <1>1, <1>6 DEF T, l

LEMMA SignIs ==
  ASSUME NEW n, WellFormed(n)
  PROVE  Sgn(n) # 0 <=> Value(n) < 0
<1>1. /\ n \in Seq(Word) /\ Len(n) \in Nat /\ Len(n) >= 1 /\ Top(n) \in {-1, 0} /\ Top(n) \in Int
      /\ Worth(n, Top(n), Under(n, Top(n))) /\ Value(n) = Under(n, Top(n))[Len(n) - 1]
  BY WellFormedIs
<1>2. Bounded(n, Top(n), Under(n, Top(n)))
  BY <1>1 DEF Bounded
<1>3. Value(n) < 0 <=> Top(n) < 0
  <2>1. Under(n, Top(n))[Len(n) - 1] < 0 <=> Top(n) < 0
    BY ONLY <1>2, SignOfWorth
  <2> QED BY <1>1, <2>1
<1> QED BY <1>3 DEF Top
-----------------------------------------------------------------------------
(* Negating.                                                               *)
LEMMA InvertedIs ==
  ASSUME NEW n, WellFormed(n)
  PROVE  /\ WellFormed(Inverted(n)) /\ Len(Inverted(n)) = Len(n)
         /\ Top(Inverted(n)) = -1 - Top(n) /\ Value(Inverted(n)) = -1 - Value(n)
         /\ \A i \in 1 .. Len(n) : Inverted(n)[i] = Ones - n[i]
<1> DEFINE l == Len(n)
           m == Inverted(n)
           t == Top(n)
           v == Under(n, t)
           w == Under(m, -1 - t)
           T == {i \in 0 .. l - 1 : w[i] = -1 - v[i]}
<1>1. /\ n \in Seq(Word) /\ l \in Nat /\ l >= 2 /\ Sgn(n) = n[l] /\ t \in {-1, 0} /\ t \in Int
      /\ Sgn(n) = WordOf(t) /\ Worth(n, t, v) /\ Value(n) = v[l - 1]
  BY WellFormedIs
<1>2. DOMAIN n = 1 .. l /\ \A i \in 1 .. l : n[i] \in 0 .. Base - 1
  <2>1. DOMAIN n = 1 .. l /\ \A i \in 1 .. l : n[i] \in Word
    BY <1>1
  <2> QED BY <2>1 DEF Word
<1>3. m = [i \in 1 .. l |-> Ones - n[i]]
  BY <1>2 DEF Inverted
<1> HIDE DEF m, l
<1>4. m \in Seq(Word) /\ Len(m) = l /\ \A i \in 1 .. l : m[i] = Ones - n[i]
  <2>1. \A i \in 1 .. l : Ones - n[i] \in Word
    BY <1>2, BaseIs DEF Word
  <2> QED BY <1>1, <1>3, <2>1
<1>5. m[l] = WordOf(-1 - t) /\ -1 - t \in {-1, 0} /\ -1 - t \in Int
  <2>1. l \in 1 .. l
    BY <1>1
  <2>2. m[l] = Ones - WordOf(t)
    BY <1>1, <1>4, <2>1
  <2> HIDE DEF t
  <2> QED BY <1>1, <2>2, BaseIs DEF WordOf
<1> HIDE DEF t
<1>6. WellFormed(m) /\ Sgn(m) = WordOf(-1 - t) /\ Top(m) = -1 - t
  <2>1. Last(m) = WordOf(-1 - t)
    BY <1>4, <1>5 DEF Last
  <2>2. WordOf(-1 - t) \in {0, Ones}
    BY DEF WordOf
  <2> QED BY <1>1, <1>4, <1>5, <2>1, <2>2, BaseIs DEF WellFormed, Sgn, Top, WordOf
<1>7. Worth(m, -1 - t, w) /\ Value(m) = w[l - 1]
  BY <1>4, <1>6, WellFormedIs
<1> HIDE DEF v, w
<1>8. 0 \in T
  BY <1>1, <1>7 DEF Worth
<1>9. ASSUME NEW k \in 0 .. l - 1 - 1, k \in T PROVE k + 1 \in T
  <2> DEFINE x == v[k]
             b == Base
             y == n[l - (k + 1)]
             j == k + 1
  <2>1. j \in 1 .. l - 1 /\ j \in 0 .. l - 1 /\ j - 1 = k /\ k \in 0 .. l - 1 /\ l - j \in 1 .. l
    BY <1>1
  <2>2. v[j] = x * b + y /\ w[j] = (-1 - x) * b + (b - 1 - y) /\ x \in Int /\ y \in Int /\ b \in Int
    <3> HIDE DEF j, x
    <3>1. v[j] = v[k] * Base + n[l - j] /\ w[j] = w[k] * Base + m[l - j] /\ v[k] \in Int
      BY <1>1, <1>4, <1>7, <2>1 DEF Worth, l
    <3>2. w[k] = -1 - x
      BY <1>9 DEF x
    <3>3. m[l - j] = Ones - n[l - j] /\ n[l - j] \in Int
      BY <1>2, <1>4, <2>1
    <3> QED BY <3>1, <3>2, <3>3, BaseIs DEF x, j
  <2> HIDE DEF x, b, y, j
  <2>3. (-1 - x) * b + (b - 1 - y) = -1 - (x * b + y)
    BY ONLY <2>2
  <2> QED BY <2>1, <2>2, <2>3 DEF j
<1> HIDE DEF T
<1>10. 0 .. l - 1 \subseteq T
  BY <1>1, <1>8, <1>9, Induction
<1>11. w[l - 1] = -1 - v[l - 1]
  <2>1. l - 1 \in 0 .. l - 1
    BY <1>1
  <2> QED BY <1>10, <2>1 DEF T
<1> QED BY <1>1, <1>4, <1>6, <1>7, <1>11 DEF m, l, t

LEMMA ZerosAre ==
  ASSUME NEW l \in Nat, l >= 2
  PROVE  /\ Const(0, l) \in Seq(Word) /\ Len(Const(0, l)) = l
         /\ \A i \in 1 .. l : Const(0, l)[i] = 0
         /\ Under(Const(0, l), 0)[l - 1] = 0
<1> DEFINE z == Const(0, l)
<1>1. z \in Seq(Word) /\ Len(z) = l /\ \A i \in 1 .. l : z[i] = 0
  BY BaseIs DEF Const
<1> HIDE DEF z
<1>2. Worth(z, 0, Under(z, 0))
  BY <1>1, UnderIs
<1>3. Repeated(z, 0, 0, Under(z, 0), l - 1)
  BY <1>1, <1>2 DEF Repeated
<1>4. Under(z, 0)[l - 1] = 0
  BY ONLY <1>3, SignRepeated
<1> QED BY <1>1, <1>4 DEF z

(* A carry reaches the sign word if and only if all the others are 0.      *)
Negated(n, m, c, d) ==
  /\ m \in Seq(Word) /\ Len(m) = Len(n) /\ c \in 0 .. 1 /\ d \in 0 .. 1
  /\ c = 1 <=> \A i \in 1 .. Len(n) - 1 : n[i] = 0
  /\ c = 1 => \A i \in 1 .. Len(n) - 1 : m[i] = 0
  /\ m[Len(n)] + Base * d = WordOf(-1 - Top(n)) + c
  /\ Under(m, -1 - Top(n) + c)[Len(n) - 1] = -Value(n)

LEMMA NegatedIs ==
  ASSUME NEW n, WellFormed(n)
  PROVE  \E c, d : Negated(n, num_negate(n), c, d)
<1> DEFINE l == Len(n)
           x == Inverted(n)
           z == Const(0, l)
           m == num_negate(n)
           c == Carries(x, z, 1)
           t == -1 - Top(n)
<1>1. l \in Nat /\ l >= 2 /\ Value(n) \in Int /\ Top(n) \in {-1, 0}
      /\ \A i \in 1 .. l : n[i] \in 0 .. Base - 1
  <2>1. l \in Nat /\ l >= 2 /\ Value(n) \in Int /\ Top(n) \in {-1, 0} /\ n \in Seq(Word)
    BY WellFormedIs
  <2>2. \A i \in 1 .. l : n[i] \in Word
    BY <2>1
  <2> QED BY <2>1, <2>2 DEF Word
<1>2. /\ WellFormed(x) /\ Len(x) = l /\ Top(x) = t /\ Value(x) = -1 - Value(n)
      /\ \A i \in 1 .. l : x[i] = Ones - n[i]
  BY InvertedIs
<1>3. m = Sum(x, z, 1)
  BY DEF num_negate
<1> HIDE DEF l, x, m
<1>4. /\ x \in Seq(Word) /\ t \in {-1, 0} /\ t \in Int /\ x[l] = WordOf(t)
      /\ Value(x) = Under(x, t)[l - 1]
  BY <1>2, WellFormedIs
<1>5. z \in Seq(Word) /\ Len(z) = l /\ (\A i \in 1 .. l : z[i] = 0) /\ Under(z, 0)[l - 1] = 0
  BY <1>1, ZerosAre
<1> HIDE DEF z, t
<1>6. /\ SumOf(x, z, 1, c, m)
      /\ Under(m, t + 0 + c[l - 1])[l - 1] = Under(x, t)[l - 1] + Under(z, 0)[l - 1] + 1
  <2>1. Added(x, z, 1, t, 0)
    BY <1>1, <1>2, <1>4, <1>5 DEF Added
  <2>2. /\ SumOf(x, z, 1, Carries(x, z, 1), Sum(x, z, 1))
        /\ Under(Sum(x, z, 1), t + 0 + Carries(x, z, 1)[Len(x) - 1])[Len(x) - 1]
             = Under(x, t)[Len(x) - 1] + Under(z, 0)[Len(x) - 1] + 1
    BY ONLY <2>1, SumUnder
  <2> QED BY <1>2, <1>3, <2>2
<1> HIDE DEF c
<1>7. /\ m \in Seq(Word) /\ Len(m) = l /\ c[0] = 1
      /\ \A i \in 0 .. l : c[i] \in 0 .. 1
      /\ \A i \in 1 .. l : m[i] + Base * c[i] = x[i] + z[i] + c[i - 1]
  BY <1>2, <1>6 DEF SumOf
<1>8. \A i \in 1 .. l : m[i] \in 0 .. Base - 1
  <2>1. \A i \in 1 .. l : m[i] \in Word
    BY <1>7
  <2> QED BY <2>1 DEF Word
<1> DEFINE T == {i \in 0 .. l - 1 : /\ c[i] = 1 <=> \A j \in 1 .. i : n[j] = 0
                                    /\ c[i] = 1 => \A j \in 1 .. i : m[j] = 0}
<1>9. 0 \in T
  <2>1. 0 \in 0 .. l - 1 /\ \A j \in 1 .. 0 : FALSE
    BY <1>1
  <2> QED BY <1>7, <2>1
<1>10. ASSUME NEW k \in 0 .. l - 1 - 1, k \in T PROVE k + 1 \in T
  <2> DEFINE i == k + 1
  <2>1. i \in 1 .. l /\ i \in 0 .. l - 1 /\ i - 1 = k /\ i \in 0 .. l /\ k \in 0 .. l
        /\ \A j \in 1 .. i : j = i \/ j \in 1 .. k
    BY <1>1
  <2>0. i \in 1 .. i /\ \A j \in 1 .. k : j \in 1 .. i
    BY <2>1
  <2> HIDE DEF i
  <2>2. m[i] + Base * c[i] = Base - 1 - n[i] + c[k]
    <3>1. m[i] + Base * c[i] = x[i] + z[i] + c[k]
      BY <1>7, <2>1
    <3>2. x[i] = Base - 1 - n[i] /\ z[i] = 0 /\ n[i] \in Int /\ c[k] \in Int
      BY <1>1, <1>2, <1>5, <1>7, <2>1, BaseIs
    <3> QED BY <3>1, <3>2, BaseIs
  <2>3. m[i] \in 0 .. Base - 1 /\ n[i] \in 0 .. Base - 1 /\ c[i] \in 0 .. 1 /\ c[k] \in 0 .. 1
    BY <1>1, <1>7, <1>8, <2>1
  <2>4. c[i] = 1 => c[k] = 1 /\ n[i] = 0 /\ m[i] = 0
    BY <2>2, <2>3, BaseIs
  <2>5. c[k] = 1 /\ n[i] = 0 => c[i] = 1
    <3>1. ASSUME c[k] = 1, n[i] = 0, c[i] = 0 PROVE FALSE
      <4>1. m[i] = Base
        BY <2>2, <2>3, <3>1, BaseIs
      <4> QED BY <2>3, <4>1, BaseIs
    <3> QED BY <2>3, <3>1
  <2>6. /\ c[k] = 1 <=> \A j \in 1 .. k : n[j] = 0
        /\ c[k] = 1 => \A j \in 1 .. k : m[j] = 0
    BY <1>10
  <2>7. c[i] = 1 <=> \A j \in 1 .. i : n[j] = 0
    BY <2>0, <2>1, <2>4, <2>5, <2>6
  <2>8. c[i] = 1 => \A j \in 1 .. i : m[j] = 0
    BY <2>1, <2>4, <2>6
  <2> QED BY <2>1, <2>7, <2>8 DEF i
<1> HIDE DEF T
<1>11. l - 1 \in T
  <2>1. 0 .. l - 1 \subseteq T
    BY <1>1, <1>9, <1>10, Induction
  <2>2. l - 1 \in 0 .. l - 1
    BY <1>1
  <2> QED BY <2>1, <2>2
<1>12. m[l] + Base * c[l] = WordOf(t) + c[l - 1]
  <2>1. l \in 1 .. l /\ l - 1 \in 0 .. l
    BY <1>1
  <2>2. m[l] + Base * c[l] = x[l] + z[l] + c[l - 1] /\ z[l] = 0 /\ c[l - 1] \in 0 .. 1
    BY <1>5, <1>7, <2>1
  <2>3. WordOf(t) \in Int
    BY BaseIs DEF WordOf
  <2> QED BY <1>4, <2>2, <2>3
<1>13. Under(m, t + c[l - 1])[l - 1] = -Value(n)
  <2>1. c[l - 1] \in 0 .. 1
    BY <1>1, <1>7
  <2>2. t + 0 + c[l - 1] = t + c[l - 1]
    BY <1>4, <2>1
  <2>3. Under(x, t)[l - 1] + Under(z, 0)[l - 1] + 1 = -Value(n)
    BY <1>1, <1>2, <1>4, <1>5
  <2> QED BY <1>6, <2>2, <2>3
<1>14. Negated(n, m, c[l - 1], c[l])
  <2>1. c[l - 1] \in 0 .. 1 /\ c[l] \in 0 .. 1
    BY <1>1, <1>7
  <2> QED BY <1>7, <1>11, <1>12, <1>13, <2>1 DEF Negated, T, l, t
<1> QED BY <1>14 DEF m

(* But for the lowest numbers, a negated number has a sign word.           *)
LEMMA NegateIs ==
  ASSUME NEW n, WellFormed(n), ~Lowest(n)
  PROVE  WellFormed(num_negate(n)) /\ Value(num_negate(n)) = -Value(n)
<1> DEFINE l == Len(n)
           m == num_negate(n)
           t == -1 - Top(n)
<1>1. PICK c, d : Negated(n, m, c, d)
  BY NegatedIs
<1>2. /\ n \in Seq(Word) /\ l \in Nat /\ l >= 2 /\ Top(n) \in {-1, 0} /\ Sgn(n) = WordOf(Top(n))
  BY WellFormedIs
<1> HIDE DEF m
<1>3. /\ m \in Seq(Word) /\ Len(m) = l /\ c \in 0 .. 1 /\ d \in 0 .. 1
      /\ m[l] + Base * d = WordOf(t) + c
      /\ Under(m, t + c)[l - 1] = -Value(n)
  BY <1>1 DEF Negated
<1>4. t \in {-1, 0} /\ (t = 0 => c = 0)
  <2>1. t \in {-1, 0} /\ (t = 0 => Top(n) = -1)
    BY <1>2
  <2>2. Top(n) = -1 => Negative(n)
    BY <1>2 DEF Negative, Top
  <2>3. Negative(n) => c # 1
    BY <1>1 DEF Negated, Lowest
  <2> QED BY <1>3, <2>1, <2>2, <2>3
<1> HIDE DEF t, l
<1>5. m[l] \in 0 .. Base - 1
  <2>1. m[l] \in Word
    BY <1>2, <1>3
  <2> QED BY <2>1 DEF Word
<1>6. m[l] = WordOf(t + c) /\ t + c \in {-1, 0}
  <2>1. CASE t = 0
    <3>1. c = 0 /\ m[l] + Base * d = 0
      BY <1>3, <1>4, <2>1 DEF WordOf
    <3>2. d # 1
      BY <1>5, <3>1, BaseIs
    <3> QED BY <1>3, <1>5, <2>1, <3>1, <3>2, BaseIs DEF WordOf
  <2>2. CASE t = -1
    <3>1. m[l] + Base * d = Base - 1 + c
      BY <1>3, <2>2, BaseIs DEF WordOf
    <3>2. (c = 1 /\ m[l] = 0) \/ (c = 0 /\ m[l] = Base - 1)
      BY <1>3, <1>5, <3>1, BaseIs
    <3> QED BY <2>2, <3>2, BaseIs DEF WordOf
  <2> QED BY <1>4, <2>1, <2>2
<1> DEFINE u == t + c
<1>7. Last(m) = WordOf(u) /\ u \in {-1, 0}
  BY <1>3, <1>6 DEF Last
<1>8. Under(m, u)[l - 1] = -Value(n)
  BY <1>3
<1> HIDE DEF u
<1>9. WellFormed(m) /\ Top(m) = u
  BY <1>2, <1>3, <1>7, BaseIs DEF WellFormed, Sgn, Top, WordOf, l
<1> QED BY <1>3, <1>8, <1>9, WellFormedIs DEF m

LEMMA LowestIs ==
  ASSUME NEW n, WellFormed(n), Lowest(n)
  PROVE  LET m == num_negate(n)
         IN  /\ m \in Seq(Word) /\ Len(m) = Len(n) /\ Sgn(m) = 1 /\ m[Len(n)] = 1
             /\ \A i \in 1 .. Len(n) - 1 : m[i] = 0
             /\ Under(m, 1)[Len(n) - 1] = -Value(n)
<1> DEFINE l == Len(n)
           m == num_negate(n)
<1>1. PICK c, d : Negated(n, m, c, d)
  BY NegatedIs
<1>2. l \in Nat /\ l >= 2 /\ Top(n) = -1
  <2>1. l \in Nat /\ l >= 2
    BY WellFormedIs
  <2> QED BY <2>1 DEF Lowest, Negative, Top
<1> HIDE DEF m
<1>3. c = 1 /\ \A i \in 1 .. l - 1 : m[i] = 0
  BY <1>1 DEF Negated, Lowest
<1>4. /\ m \in Seq(Word) /\ Len(m) = l /\ d \in 0 .. 1
      /\ m[l] + Base * d = WordOf(-1 - Top(n)) + c
      /\ Under(m, -1 - Top(n) + c)[l - 1] = -Value(n)
  BY <1>1 DEF Negated
<1>5. -1 - Top(n) = 0 /\ -1 - Top(n) + c = 1 /\ WordOf(-1 - Top(n)) = 0
  BY <1>2, <1>3 DEF WordOf
<1>6. m[l] + Base * d = 1
  <2>1. m[l] + Base * d = 0 + 1
    BY <1>3, <1>4, <1>5
  <2> QED BY <2>1
<1>7. m[l] = 1
  <2>1. m[l] \in Word
    BY <1>2, <1>4
  <2>2. m[l] \in 0 .. Base - 1
    BY <2>1 DEF Word
  <2>3. d # 1
    BY <1>6, <2>2, BaseIs
  <2> QED BY <1>4, <1>6, <2>2, <2>3, BaseIs
<1>8. Sgn(m) = 1
  BY <1>4, <1>7 DEF Sgn, Last
<1>9. Under(m, 1)[l - 1] = -Value(n)
  BY <1>4, <1>5
<1> QED BY <1>3, <1>4, <1>7, <1>8, <1>9 DEF m

(* A number with as many words as the lowest one that is taken from it, or *)
(* fewer, is not the lesser one: below the sign words nothing is carried.  *)
TopWord(a) == IF a = 1 THEN 1 ELSE WordOf(a)

Crossed(xs, ys, a, b) ==
  /\ xs \in Seq(Word) /\ ys \in Seq(Word) /\ Len(xs) >= 2 /\ Len(ys) = Len(xs)
  /\ <<a, b>> \in {<<0, 1>>, <<-1, 1>>, <<1, 0>>, <<1, -1>>}
  /\ xs[Len(xs)] = TopWord(a) /\ ys[Len(xs)] = TopWord(b)
  /\ \A i \in 1 .. Len(xs) - 1 : xs[i] = 0 \/ ys[i] = 0

LEMMA CrossedIs ==
  \A xs, ys, a, b : Crossed(xs, ys, a, b) =>
    /\ Sgn(SignKept(Sum(xs, ys, 0), HighBit(Sgn(xs)), HighBit(Sgn(ys)))) = 0
    /\ Under(xs, a)[Len(xs) - 1] + Under(ys, b)[Len(xs) - 1] >= 0
<1> SUFFICES ASSUME NEW xs, NEW ys, NEW a, NEW b, Crossed(xs, ys, a, b)
             PROVE  /\ Sgn(SignKept(Sum(xs, ys, 0), HighBit(Sgn(xs)), HighBit(Sgn(ys)))) = 0
                    /\ Under(xs, a)[Len(xs) - 1] + Under(ys, b)[Len(xs) - 1] >= 0
  OBVIOUS
<1> DEFINE l == Len(xs)
           c == Carries(xs, ys, 0)
           s == Sum(xs, ys, 0)
<1>1. /\ xs \in Seq(Word) /\ ys \in Seq(Word) /\ l \in Nat /\ l >= 2 /\ Len(ys) = l
      /\ xs[l] = TopWord(a) /\ ys[l] = TopWord(b)
      /\ \A i \in 1 .. l - 1 : xs[i] = 0 \/ ys[i] = 0
  BY DEF Crossed
<1>2. a \in Int /\ b \in Int /\ a \in {-1, 0, 1} /\ b \in {-1, 0, 1}
      /\ ((a = 0 /\ b = 1) \/ (a = -1 /\ b = 1) \/ (a = 1 /\ b = 0) \/ (a = 1 /\ b = -1))
  BY DEF Crossed
<1>3. /\ SumOf(xs, ys, 0, c, s)
      /\ Under(s, a + b + c[l - 1])[l - 1] = Under(xs, a)[l - 1] + Under(ys, b)[l - 1] + 0
  <2>1. Added(xs, ys, 0, a, b)
    BY <1>1, <1>2 DEF Added
  <2> QED BY ONLY <2>1, SumUnder
<1> HIDE DEF c, s
<1>4. /\ s \in Seq(Word) /\ Len(s) = l /\ c[0] = 0
      /\ \A i \in 0 .. l : c[i] \in 0 .. 1
      /\ \A i \in 1 .. l : s[i] + Base * c[i] = xs[i] + ys[i] + c[i - 1]
  BY <1>3 DEF SumOf
<1> HIDE DEF l
<1>5. \A i \in 1 .. l : xs[i] \in 0 .. Base - 1 /\ ys[i] \in 0 .. Base - 1 /\ s[i] \in 0 .. Base - 1
  <2>1. \A i \in 1 .. l : xs[i] \in Word /\ ys[i] \in Word /\ s[i] \in Word
    BY <1>1, <1>4 DEF l
  <2> QED BY <2>1 DEF Word
<1> DEFINE T == {i \in 0 .. l - 1 : c[i] = 0}
<1>6. 0 \in T
  BY <1>1, <1>4
<1>7. ASSUME NEW k \in 0 .. l - 1 - 1, k \in T PROVE k + 1 \in T
  <2> DEFINE i == k + 1
  <2>1. i \in 1 .. l - 1 /\ i \in 1 .. l /\ i \in 0 .. l - 1 /\ i - 1 = k /\ i \in 0 .. l
    BY <1>1
  <2> HIDE DEF i
  <2>2. s[i] + Base * c[i] = xs[i] + ys[i] + c[k] /\ c[k] = 0 /\ c[i] \in 0 .. 1
    BY <1>4, <1>7, <2>1
  <2>3. xs[i] + ys[i] + c[k] \in 0 .. Base - 1 /\ s[i] \in 0 .. Base - 1
    <3>1. xs[i] \in 0 .. Base - 1 /\ ys[i] \in 0 .. Base - 1 /\ s[i] \in 0 .. Base - 1
      BY <1>5, <2>1
    <3>2. xs[i] = 0 \/ ys[i] = 0
      BY <1>1, <2>1
    <3> QED BY <2>2, <3>1, <3>2, BaseIs
  <2>4. c[i] # 1
    <3> SUFFICES ASSUME c[i] = 1 PROVE FALSE
      OBVIOUS
    <3>1. s[i] + Base \in 0 .. Base - 1
      BY <2>2, <2>3, BaseIs
    <3> QED BY <2>3, <3>1, BaseIs
  <2> QED BY <2>1, <2>2, <2>4 DEF i
<1> HIDE DEF T
<1>8. c[l - 1] = 0
  <2>0. l - 1 \in Nat
    BY <1>1
  <2>1. 0 .. l - 1 \subseteq T
    BY <1>6, <1>7, <2>0, Induction
  <2>2. l - 1 \in 0 .. l - 1
    BY <1>1
  <2> QED BY <2>1, <2>2 DEF T
<1>9. Under(xs, a)[l - 1] + Under(ys, b)[l - 1] >= 0
  <2> DEFINE top == a + b
  <2>1. top \in Int /\ top >= 0 /\ a + b + c[l - 1] = top
    BY <1>2, <1>8
  <2>2. Under(s, top)[l - 1] = Under(xs, a)[l - 1] + Under(ys, b)[l - 1]
    <3>1. /\ Under(xs, a)[l - 1] \in Int /\ Under(ys, b)[l - 1] \in Int
      <4>1. Worth(xs, a, Under(xs, a)) /\ Worth(ys, b, Under(ys, b))
        BY <1>1, <1>2, UnderIs DEF l
      <4>2. l - 1 \in 0 .. l - 1
        BY <1>1
      <4> QED BY <1>1, <4>1, <4>2 DEF Worth, l
    <3> QED BY <1>3, <2>1, <3>1 DEF l
  <2> HIDE DEF top
  <2>3. Bounded(s, top, Under(s, top))
    <3>1. Len(s) >= 1
      BY <1>1, <1>4
    <3> QED BY <1>4, <2>1, <3>1, UnderIs DEF Bounded
  <2>4. Under(s, top)[Len(s) - 1] \in Int /\ (Under(s, top)[Len(s) - 1] < 0 <=> top < 0)
    BY ONLY <2>3, SignOfWorth
  <2> QED BY <1>4, <2>1, <2>2, <2>4
<1>10. s[l] + Base * c[l] = xs[l] + ys[l] /\ s[l] \in 0 .. Base - 1 /\ c[l] \in 0 .. 1
  <2>1. l \in 1 .. l /\ l \in 0 .. l
    BY <1>1
  <2>2. s[l] + Base * c[l] = xs[l] + ys[l] + c[l - 1]
    BY <1>4, <2>1
  <2> QED BY <1>4, <1>5, <1>8, <2>1, <2>2
<1>11. /\ HighBit(0) = 0 /\ HighBit(1) = 0 /\ HighBit(Ones) = 1
       /\ WordOf(0) = 0 /\ WordOf(-1) = Ones
  <2>1. HighBit(0) = 0 /\ HighBit(1) = 0 /\ HighBit(Ones) = 1
    BY BaseIs, Split DEF HighBit
  <2> QED BY <2>1 DEF WordOf
<1>12. Sgn(xs) = TopWord(a) /\ Sgn(ys) = TopWord(b) /\ Last(s) = s[l]
  BY <1>1, <1>4 DEF Sgn, Last, l
<1> DEFINE k == SignKept(s, HighBit(Sgn(xs)), HighBit(Sgn(ys)))
<1>13. Sgn(k) = 0
  <2>1. CASE (a = 0 /\ b = 1) \/ (a = 1 /\ b = 0)
    <3>1. HighBit(Sgn(xs)) = 0 /\ HighBit(Sgn(ys)) = 0 /\ xs[l] + ys[l] = 1
      BY <1>1, <1>11, <1>12, <2>1 DEF TopWord
    <3>2. s[l] + Base * c[l] = 1
      BY <1>10, <3>1
    <3>3. c[l] # 1
      BY <1>10, <3>2, BaseIs
    <3>4. s[l] = 1
      BY <1>10, <3>2, <3>3, BaseIs
    <3>5. k = Append(s, WordOf(0))
      BY <1>11, <1>12, <3>1, <3>4 DEF SignKept
    <3>6. Len(s) >= 1
      BY <1>1, <1>4
    <3> HIDE DEF k
    <3> QED BY <1>4, <1>11, <3>5, <3>6, AppendIs
  <2>2. CASE (a = -1 /\ b = 1) \/ (a = 1 /\ b = -1)
    <3>1. /\ xs[l] + ys[l] = Base
          /\ (HighBit(Sgn(xs)) = 1 /\ HighBit(Sgn(ys)) = 0)
             \/ (HighBit(Sgn(xs)) = 0 /\ HighBit(Sgn(ys)) = 1)
      <4>1. CASE a = -1 /\ b = 1
        BY <1>1, <1>11, <1>12, <4>1, BaseIs DEF TopWord
      <4>2. CASE a = 1 /\ b = -1
        BY <1>1, <1>11, <1>12, <4>2, BaseIs DEF TopWord
      <4> QED BY <2>2, <4>1, <4>2
    <3>2. s[l] + Base * c[l] = Base
      BY <1>10, <3>1
    <3>3. c[l] # 0
      BY <1>10, <3>2, BaseIs
    <3>4. s[l] = 0
      BY <1>10, <3>2, <3>3, BaseIs
    <3>5. k = Trim(s, 0)
      BY <1>12, <3>1, <3>4 DEF SignKept
    <3> HIDE DEF k
    <3>6. Len(s) >= 2 /\ s[Len(s)] = 0 /\ 0 \in {0, Ones}
      BY <1>1, <1>4, <3>4
    <3> QED BY <1>4, <3>5, <3>6, TrimIs
  <2> QED BY <1>2, <2>1, <2>2
<1> QED BY <1>9, <1>13 DEF l, s

(* More words, and the lowest number's negation has a sign word, as if it  *)
(* had had one on top.                                                     *)
LEMMA WidenedIs ==
  ASSUME NEW m \in Seq(Word), Len(m) >= 2, NEW d \in Nat, d >= 1
  PROVE  LET q == m \o Const(0, d)
         IN  WellFormed(q) /\ Len(q) = Len(m) + d /\ Sgn(q) = 0
             /\ Value(q) = Under(m, m[Len(m)])[Len(m) - 1]
<1> DEFINE l == Len(m)
           q == m \o Const(0, d)
           a == Append(m, 0)
           z == Const(0, d)
           y == Const(0, d - 1)
           x == a \o y
<1>1. l \in Nat /\ l >= 2 /\ l >= 1 /\ (\A i \in 1 .. l : m[i] \in Word) /\ d - 1 \in Nat
  OBVIOUS
<1>2. WellFormed(a) /\ Sgn(a) = 0 /\ Value(a) = Under(m, m[l])[l - 1]
  <2>1. /\ WellFormed(Append(m, WordOf(0))) /\ Sgn(Append(m, WordOf(0))) = WordOf(0)
        /\ Value(Append(m, WordOf(0))) = Under(m, 0 * Base + m[l])[l - 1]
    BY <1>1, AppendIs
  <2>2. 0 * Base + m[l] = m[l] /\ WordOf(0) = 0
    <3>1. m[l] \in Int
      <4>1. l \in 1 .. l
        BY <1>1
      <4> QED BY <1>1, <4>1, BaseIs
    <3> QED BY <3>1, BaseIs DEF WordOf
  <2> QED BY <2>1, <2>2
<1>3. a \in Seq(Word) /\ Len(a) = l + 1 /\ a[l + 1] = 0 /\ \A i \in 1 .. l : a[i] = m[i]
  BY <1>1, BaseIs, AppendProperties
<1>4. /\ z \in Seq(Word) /\ Len(z) = d /\ \A i \in 1 .. d : z[i] = 0
      /\ y \in Seq(Word) /\ Len(y) = d - 1 /\ \A i \in 1 .. d - 1 : y[i] = 0
  BY <1>1, BaseIs DEF Const
<1>5. WellFormed(x) /\ Len(x) = l + 1 + (d - 1) /\ Sgn(x) = 0 /\ Value(x) = Value(a)
  <2>1. Ones * HighBit(Sgn(a)) = 0
    BY <1>2, BaseIs, Split DEF HighBit
  <2> HIDE DEF a
  <2> QED BY <1>1, <1>2, <1>3, <2>1, PaddedIs
<1> HIDE DEF a, y, z, l
<1>6. q = x
  <2>0. q = m \o z /\ Len(m) = l
    BY DEF z, l
  <2>1. q \in Seq(Word) /\ Len(q) = l + d
    BY <1>4, <2>0, ConcatProperties
  <2>2. x \in Seq(Word) /\ Len(x) = l + 1 + (d - 1)
    <3>1. a \in Seq(Word) /\ y \in Seq(Word)
      BY <1>3, <1>4
    <3>2. x \in Seq(Word) /\ Len(x) = Len(a) + Len(y)
      BY <3>1, ConcatProperties
    <3> QED BY <1>3, <1>4, <3>2
  <2>a. \A i \in 1 .. Len(q) : q[i] = IF i <= l THEN m[i] ELSE z[i - l]
    BY <1>4, <2>0, ConcatProperties
  <2>b. \A i \in 1 .. Len(x) : x[i] = IF i <= l + 1 THEN a[i] ELSE y[i - (l + 1)]
    BY <1>3, <1>4, ConcatProperties
  <2> HIDE DEF q, x
  <2>3. Len(q) = Len(x) /\ Len(q) = l + d /\ Len(x) = l + d
    BY <1>1, <2>1, <2>2
  <2>4. ASSUME NEW i \in 1 .. l + d PROVE q[i] = x[i]
    <3>1. CASE i <= l
      <4>1. i \in 1 .. l /\ i \in 1 .. l + d /\ i <= l + 1
        BY <1>1, <3>1
      <4>2. q[i] = m[i] /\ x[i] = a[i]
        BY <2>3, <2>a, <2>b, <3>1, <4>1
      <4> QED BY <1>3, <4>1, <4>2
    <3>2. CASE i = l + 1
      <4>1. ~(i <= l) /\ i - l = 1 /\ 1 \in 1 .. d /\ i <= l + 1
        BY <1>1, <3>2
      <4>2. q[i] = z[i - l] /\ x[i] = a[i]
        BY <2>3, <2>a, <2>b, <4>1
      <4> QED BY <1>3, <1>4, <3>2, <4>1, <4>2
    <3>3. CASE i > l + 1
      <4>1. ~(i <= l) /\ i - l \in 1 .. d /\ ~(i <= l + 1) /\ i - (l + 1) \in 1 .. d - 1
        BY <1>1, <3>3
      <4>2. q[i] = z[i - l] /\ x[i] = y[i - (l + 1)]
        BY <2>3, <2>a, <2>b, <4>1
      <4> QED BY <1>4, <4>1, <4>2
    <3> QED BY <1>1, <3>1, <3>2, <3>3
  <2> QED BY <2>1, <2>2, <2>3, <2>4, SeqEqual
<1> HIDE DEF q, x
<1>7. l + 1 + (d - 1) = l + d
  BY <1>1
<1>8. WellFormed(q) /\ Len(q) = l + d /\ Sgn(q) = 0 /\ Value(q) = Under(m, m[l])[l - 1]
  BY <1>2, <1>5, <1>6, <1>7
<1> QED BY <1>8 DEF q, l

LEMMA LeIs ==
  ASSUME NEW n1, WellFormed(n1), NEW n2, WellFormed(n2)
  PROVE  num_le(n1, n2) # 0 <=> Value(n1) < Value(n2)
<1> DEFINE m == num_negate(n2)
           l == Len(n2)
           r == num_add(n1, m)
<1>1. /\ l \in Nat /\ l >= 2 /\ Len(n1) \in Nat /\ Value(n1) \in Int /\ Value(n2) \in Int
      /\ n1 \in Seq(Word)
  BY WellFormedIs
<1>2. num_le(n1, n2) = Sgn(r)
  BY DEF num_le
<1>3. CASE ~Lowest(n2)
  <2>1. WellFormed(m) /\ Value(m) = -Value(n2)
    BY <1>3, NegateIs
  <2> HIDE DEF m
  <2>2. WellFormed(r) /\ Value(r) = Value(n1) + Value(m)
    BY <2>1, AddIs
  <2> HIDE DEF r
  <2>3. Sgn(r) # 0 <=> Value(r) < 0
    BY <2>2, SignIs
  <2> QED BY <1>1, <1>2, <2>1, <2>2, <2>3
<1>4. CASE Lowest(n2)
  <2>1. /\ m \in Seq(Word) /\ Len(m) = l /\ Sgn(m) = 1 /\ m[l] = 1
        /\ \A i \in 1 .. l - 1 : m[i] = 0
        /\ Under(m, 1)[l - 1] = -Value(n2)
    BY <1>4, LowestIs
  <2>0. HighBit(Sgn(m)) = 0 /\ HighBit(0) = 0
    BY <2>1, BaseIs, Split DEF HighBit
  <2> DEFINE w == Ones * HighBit(Sgn(m))
  <2>w. w = 0
    BY <2>0, BaseIs
  <2> HIDE DEF m, l, w
  <2>2. CASE Len(n1) > l
    <3> DEFINE d == Len(n1) - l
               q == m \o Const(0, d)
    <3>1. r = SignKept(Sum(n1, q, 0), HighBit(Sgn(n1)), HighBit(Sgn(m)))
      <4>1. Longer(n1, m) = n1 /\ Shorter(n1, m) = m
        BY <1>1, <2>1, <2>2 DEF Longer, Shorter
      <4> QED BY <2>w, <2>1, <4>1 DEF num_add, w
    <3>2. d \in Nat /\ d >= 1
      BY <1>1, <2>2
    <3>3. WellFormed(q) /\ Len(q) = l + d /\ Sgn(q) = 0 /\ Value(q) = Under(m, m[l])[l - 1]
      <4> HIDE DEF d
      <4> QED BY <1>1, <2>1, <3>2, WidenedIs
    <3> HIDE DEF q
    <3>4. Len(n1) = Len(q) /\ Value(q) = -Value(n2)
      BY <1>1, <2>1, <3>3
    <3>5. WellFormed(r) /\ Value(r) = Value(n1) + Value(q)
      <4>1. r = SignKept(Sum(n1, q, 0), HighBit(Sgn(n1)), HighBit(Sgn(q)))
        BY <2>0, <3>1, <3>3
      <4> HIDE DEF r
      <4> QED BY <3>3, <3>4, <4>1, SameSizeIs
    <3> HIDE DEF r
    <3>6. Sgn(r) # 0 <=> Value(r) < 0
      BY <3>5, SignIs
    <3> QED BY <1>1, <1>2, <3>4, <3>5, <3>6
  <2>3. CASE Len(n1) <= l
    <3> DEFINE d == l - Len(n1)
               p == n1 \o Const(Ones * HighBit(Sgn(n1)), d)
               t == Top(n1)
    <3>1. d \in Nat
      BY <1>1, <2>3
    <3>2. /\ WellFormed(p) /\ Len(p) = Len(n1) + d /\ Sgn(p) = Sgn(n1) /\ Value(p) = Value(n1)
      <4> HIDE DEF d
      <4> QED BY <3>1, PaddedIs
    <3>3. Top(p) = t
      BY <3>2 DEF Top
    <3>4. r = SignKept(Sum(m, p, 0), HighBit(Sgn(m)), HighBit(Sgn(n1)))
          \/ (p = n1 /\ r = SignKept(Sum(n1, m, 0), HighBit(Sgn(n1)), HighBit(Sgn(m))))
      <4>1. CASE Len(n1) < l
        <5>1. Longer(n1, m) = m /\ Shorter(n1, m) = n1
          BY <2>1, <4>1 DEF Longer, Shorter
        <5> QED BY <2>1, <5>1 DEF num_add
      <4>2. CASE Len(n1) = l
        <5>1. Longer(n1, m) = n1 /\ Shorter(n1, m) = m /\ Len(n1) - Len(m) = 0 /\ d = 0
          BY <1>1, <2>1, <4>2 DEF Longer, Shorter
        <5>2. Const(w, 0) = <<>> /\ Const(Ones * HighBit(Sgn(n1)), 0) = <<>>
          BY DEF Const
        <5>3. m \o <<>> = m /\ n1 \o <<>> = n1
          BY <1>1, <2>1
        <5>4. p = n1
          BY <5>1, <5>2, <5>3
        <5>5. r = SignKept(Sum(n1, m \o Const(w, Len(n1) - Len(m)), 0), HighBit(Sgn(n1)), HighBit(Sgn(m)))
          BY <5>1 DEF num_add, w
        <5>6. Const(w, Len(n1) - Len(m)) = <<>>
          BY <5>1, <5>2
        <5> QED BY <5>3, <5>4, <5>5, <5>6
      <4> QED BY <1>1, <2>3, <4>1, <4>2
    <3> HIDE DEF p
    <3>5. /\ p \in Seq(Word) /\ Len(p) = l /\ p[l] = WordOf(t) /\ t \in {-1, 0}
          /\ Value(n1) = Under(p, t)[l - 1]
      <4>1. Len(p) = l
        BY <1>1, <3>2
      <4> QED BY <3>2, <3>3, <4>1, WellFormedIs
    <3> HIDE DEF t
    <3>6. p[l] = TopWord(t) /\ m[l] = TopWord(1)
      BY <2>1, <3>5 DEF TopWord
    <3> HIDE DEF r
    <3>7. Sgn(r) = 0 /\ Under(m, 1)[l - 1] + Under(p, t)[l - 1] >= 0
      <4>1. CASE r = SignKept(Sum(m, p, 0), HighBit(Sgn(m)), HighBit(Sgn(n1)))
        <5>1. Crossed(m, p, 1, t)
          BY <1>1, <2>1, <3>5, <3>6 DEF Crossed
        <5>2. /\ Sgn(SignKept(Sum(m, p, 0), HighBit(Sgn(m)), HighBit(Sgn(p)))) = 0
              /\ Under(m, 1)[Len(m) - 1] + Under(p, t)[Len(m) - 1] >= 0
          BY ONLY <5>1, CrossedIs
        <5> QED BY <2>1, <3>2, <4>1, <5>2
      <4>2. CASE p = n1 /\ r = SignKept(Sum(n1, m, 0), HighBit(Sgn(n1)), HighBit(Sgn(m)))
        <5>1. Crossed(p, m, t, 1)
          BY <1>1, <2>1, <3>5, <3>6 DEF Crossed
        <5>2. /\ Sgn(SignKept(Sum(p, m, 0), HighBit(Sgn(p)), HighBit(Sgn(m)))) = 0
              /\ Under(p, t)[Len(p) - 1] + Under(m, 1)[Len(p) - 1] >= 0
          BY ONLY <5>1, CrossedIs
        <5>3. Under(p, t)[l - 1] \in Int /\ Under(m, 1)[l - 1] \in Int
          BY <1>1, <2>1, <3>5
        <5> QED BY <3>5, <4>2, <5>2, <5>3
      <4> QED BY <3>4, <4>1, <4>2
    <3> QED BY <1>1, <1>2, <2>1, <3>5, <3>7
  <2> QED BY <1>1, <2>2, <2>3
<1> QED BY <1>3, <1>4
-----------------------------------------------------------------------------
(* Numbers that are made from words and texts.                             *)

(* Text of so many digits is worth less than that power of the radix.      *)
RadixDigits(ds, i, j) ==
  /\ i \in Nat /\ j \in Nat /\ i <= j
  /\ \A k \in i + 1 .. j : ds[k] \in 0 .. Radix - 1

Spelled(ds, i, j, v) ==
  /\ v[i] = 0 /\ v[j] = ValueOf(ds, i, j) /\ \A k \in i .. j : v[k] \in Nat
  /\ \A k \in i + 1 .. j : v[k] = v[k - 1] * Radix + ds[k]

LEMMA ValueOfIs ==
  \A ds, i, j : RadixDigits(ds, i, j) => \E v : Spelled(ds, i, j, v)
<1> SUFFICES ASSUME NEW ds, NEW i, NEW j, RadixDigits(ds, i, j)
             PROVE  \E v : Spelled(ds, i, j, v)
  OBVIOUS
<1> DEFINE n == j - i
           g == [q \in (1 .. n) \X Nat |-> q[2] * Radix + ds[i + q[1]]]
           v == CHOOSE u : u = [k \in i .. j |-> IF k = i THEN 0 ELSE u[k - 1] * Radix + ds[k]]
<1>1. /\ i \in Nat /\ j \in Nat /\ n \in Nat /\ j = i + n /\ Radix \in Nat /\ Radix >= 2
      /\ \A k \in i + 1 .. j : ds[k] \in 0 .. Radix - 1
  BY DigitsAssumption DEF RadixDigits
<1> HIDE DEF n
<1>2. g \in [(1 .. n) \X Nat -> Nat] /\ \A k \in 1 .. n, x \in Nat : g[<<k, x>>] = x * Radix + ds[i + k]
  <2>1. \A k \in 1 .. n, x \in Nat : x * Radix + ds[i + k] \in Nat
    <3> TAKE k \in 1 .. n, x \in Nat
    <3>1. i + k \in i + 1 .. j
      BY <1>1
    <3>2. ds[i + k] \in Nat /\ x * Radix \in Nat
      BY <1>1, <3>1
    <3> QED BY <3>2
  <2> QED BY <2>1
<1> HIDE DEF g
<1>3. PICK f \in [0 .. n -> Nat] : f[0] = 0 /\ \A k \in 1 .. n : f[k] = g[<<k, f[k - 1]>>]
  <2>1. Steps(n, Nat, 0, g)
    BY <1>1, <1>2 DEF Steps
  <2>2. \E f : Stepwise(n, Nat, 0, g, f)
    BY ONLY <2>1, Recursion
  <2> QED BY <2>2 DEF Stepwise
<1> DEFINE h == [k \in i .. j |-> f[k - i]]
<1>4. h = [k \in i .. j |-> IF k = i THEN 0 ELSE h[k - 1] * Radix + ds[k]]
  <2>1. ASSUME NEW k \in i .. j PROVE h[k] = IF k = i THEN 0 ELSE h[k - 1] * Radix + ds[k]
    <3>1. CASE k = i
      <4>1. k - i = 0 /\ h[k] = f[k - i]
        BY <1>1, <3>1
      <4> QED BY <1>3, <3>1, <4>1
    <3>2. CASE k # i
      <4>1. k - i \in 1 .. n /\ k - 1 \in i .. j /\ (k - i) - 1 = (k - 1) - i /\ i + (k - i) = k
            /\ (k - i) - 1 \in 0 .. n
        BY <1>1, <3>2
      <4>2. h[k] = f[k - i] /\ h[k - 1] = f[(k - i) - 1]
        BY <4>1
      <4>3. f[k - i] = g[<<k - i, f[(k - i) - 1]>>] /\ f[(k - i) - 1] \in Nat
        BY <1>3, <4>1
      <4>4. f[k - i] = f[(k - i) - 1] * Radix + ds[k]
        BY <1>2, <4>1, <4>3
      <4> QED BY <3>2, <4>2, <4>4
    <3> QED BY <3>1, <3>2
  <2>2. h = [k \in i .. j |-> h[k]]
    OBVIOUS
  <2> HIDE DEF h
  <2> QED BY <2>1, <2>2
<1> HIDE DEF h
<1>5. v = [k \in i .. j |-> IF k = i THEN 0 ELSE v[k - 1] * Radix + ds[k]]
  BY <1>4, Zenon
<1>6. ValueOf(ds, i, j) = v[j]
  BY DEF ValueOf
<1> HIDE DEF v
<1>7. \A k \in i .. j : v[k] = IF k = i THEN 0 ELSE v[k - 1] * Radix + ds[k]
  BY ONLY <1>5
<1>8. v[i] = 0 /\ \A k \in i + 1 .. j : v[k] = v[k - 1] * Radix + ds[k]
  <2>1. i \in i .. j /\ \A k \in i + 1 .. j : k \in i .. j /\ k # i
    BY <1>1
  <2> QED BY <1>7, <2>1
<1> DEFINE T == {k \in 0 .. n : v[i + k] \in Nat}
<1>9. 0 \in T
  <2>1. i + 0 = i /\ 0 \in 0 .. n
    BY <1>1
  <2> QED BY <1>8, <2>1
<1>10. ASSUME NEW k \in 0 .. n - 1, k \in T PROVE k + 1 \in T
  <2> DEFINE x == v[i + k]
             d == ds[i + (k + 1)]
  <2>1. k + 1 \in 0 .. n /\ i + (k + 1) \in i + 1 .. j /\ (i + (k + 1)) - 1 = i + k
    BY <1>1
  <2>2. v[i + (k + 1)] = x * Radix + d
    BY <1>8, <2>1
  <2>3. x \in Nat /\ d \in Nat
    BY <1>1, <1>10, <2>1
  <2> HIDE DEF x, d
  <2>4. x * Radix + d \in Nat
    <3>1. x * Radix \in Nat
      BY <1>1, <2>3
    <3> QED BY <2>3, <3>1
  <2> QED BY <2>1, <2>2, <2>4
<1> HIDE DEF T
<1>11. \A k \in i .. j : v[k] \in Nat
  <2>1. 0 .. n \subseteq T
    BY <1>1, <1>9, <1>10, Induction
  <2> TAKE k \in i .. j
  <2>2. k - i \in 0 .. n /\ i + (k - i) = k
    BY <1>1
  <2> QED BY <2>1, <2>2 DEF T
<1>12. Spelled(ds, i, j, v)
  BY <1>6, <1>8, <1>11 DEF Spelled
<1> QED BY <1>12

LEMMA DigitsBelow ==
  \A ds, i, j : RadixDigits(ds, i, j) => ValueOf(ds, i, j) \in 0 .. Power(Radix, j - i) - 1
<1> SUFFICES ASSUME NEW ds, NEW i, NEW j, RadixDigits(ds, i, j)
             PROVE  ValueOf(ds, i, j) \in 0 .. Power(Radix, j - i) - 1
  OBVIOUS
<1> DEFINE n == j - i
<1>1. /\ i \in Nat /\ j \in Nat /\ n \in Nat /\ j = i + n /\ Radix \in Nat /\ Radix >= 2
      /\ \A k \in i + 1 .. j : ds[k] \in 0 .. Radix - 1
  BY DigitsAssumption DEF RadixDigits
<1> HIDE DEF n
<1>2. PICK v : Spelled(ds, i, j, v)
  BY ValueOfIs
<1>3. v[i] = 0 /\ v[j] = ValueOf(ds, i, j) /\ \A k \in i .. j : v[k] \in Nat
  BY <1>2 DEF Spelled
<1>4. \A k \in i + 1 .. j : v[k] = v[k - 1] * Radix + ds[k]
  BY <1>2 DEF Spelled
<1> DEFINE T == {k \in 0 .. n : v[i + k] \in 0 .. Power(Radix, k) - 1}
<1>5. 0 \in T
  <2>1. v[i + 0] = 0
    BY <1>1, <1>3
  <2>2. Power(Radix, 0) = 1 /\ 0 \in 0 .. n
    BY <1>1, PowerIs
  <2>3. v[i + 0] \in 0 .. Power(Radix, 0) - 1
    BY <2>1, <2>2
  <2> QED BY <2>2, <2>3
<1>6. ASSUME NEW k \in 0 .. n - 1, k \in T PROVE k + 1 \in T
  <2> DEFINE x == v[i + k]
             d == ds[i + (k + 1)]
             P == Power(Radix, k)
             R == Radix
  <2>1. k \in Nat /\ k + 1 \in 0 .. n /\ i + (k + 1) \in i .. j /\ i + (k + 1) \in i + 1 .. j
        /\ i + (k + 1) # i /\ (i + (k + 1)) - 1 = i + k
    BY <1>1
  <2>2. v[i + (k + 1)] = x * R + d
    BY <1>4, <2>1
  <2>3. P \in Nat /\ Power(Radix, k + 1) = R * P
    BY <1>1, <2>1, PowerIs
  <2>4. x \in 0 .. P - 1 /\ d \in 0 .. R - 1 /\ R \in Nat
    BY <1>1, <1>6, <2>1
  <2> HIDE DEF x, d, P, R
  <2>5. x * R + d \in 0 .. R * P - 1
    <3>1. x * R \in Nat /\ R * P \in Nat /\ d \in Nat /\ x \in Nat
      BY <2>3, <2>4
    <3>2. (P - 1 - x) * R >= 0
      BY <2>3, <2>4
    <3>3. (P - 1 - x) * R = R * P - R - x * R
      BY <2>3, <2>4
    <3> QED BY <2>3, <2>4, <3>1, <3>2, <3>3
  <2> QED BY <2>1, <2>2, <2>3, <2>5
<1> HIDE DEF T
<1>7. n \in T
  <2>1. 0 .. n \subseteq T
    BY <1>1, <1>5, <1>6, Induction
  <2> QED BY <1>1, <2>1
<1> QED BY <1>1, <1>3, <1>7 DEF T, n

LEMMA TextIs ==
  ASSUME NEW str \in Texts
  PROVE  WellFormed(str_to_num(str))
<1> DEFINE ds == str.digits
           length == Len(ds)
           size == length \div Digits
           word(i) == ValueOf(ds, length - i * Digits, length - (i - 1) * Digits)
           words == [i \in 1 .. size |-> word(i)]
           c == ValueOf(ds, 0, length % Digits)
           high == IF c # 0 \/ size = 0 THEN <<c>> ELSE <<>>
           num == words \o high \o <<0>>
<1>1. length \in Nat /\ \A k \in 1 .. length : ds[k] \in 0 .. Radix - 1
  <2>1. PICK n \in 1 .. MaxDigits : ds \in [1 .. n -> 0 .. Radix - 1]
    BY DEF Texts
  <2>2. n \in Nat
    BY TextsAssumption
  <2> HIDE DEF ds
  <2>3. ds \in Seq(0 .. Radix - 1) /\ Len(ds) = n
    <3>1. ds \in Seq(0 .. Radix - 1)
      BY <2>1, <2>2, SeqDef
    <3>2. DOMAIN ds = 1 .. Len(ds) /\ DOMAIN ds = 1 .. n /\ Len(ds) \in Nat
      BY <2>1, <3>1, LenProperties
    <3>3. n \in 1 .. Len(ds)
      BY <2>2, <3>2
    <3>4. Len(ds) \in 1 .. n
      BY <3>2, <3>3
    <3> DEFINE len == Len(ds)
    <3>5. len \in Nat /\ n \in 1 .. len /\ len \in 1 .. n
      BY <3>2, <3>3, <3>4
    <3> HIDE DEF len
    <3>6. len = n
      BY <2>2, <3>5
    <3> QED BY <3>1, <3>6 DEF len
  <2> QED BY <2>1, <2>2, <2>3
<1>2. str_to_num(str) = IF str.neg THEN num_negate(num) ELSE num
  BY DEF str_to_num
<1> HIDE DEF ds, length
<1>3. Radix \in Nat /\ Radix >= 2 /\ Digits \in Nat /\ Power(Radix, Digits) = Base
  BY DigitsAssumption
<1>4. Digits # 0
  BY <1>3, PowerIs, BaseIs
<1>5. size \in Nat /\ length % Digits \in 0 .. Digits - 1 /\ length = Digits * size + (length % Digits)
  BY <1>1, <1>3, <1>4
<1>6. \A i \in 1 .. size : word(i) \in Word
  <2> TAKE i \in 1 .. size
  <2> DEFINE a == length - i * Digits
             b == length - (i - 1) * Digits
  <2>1. a \in Nat /\ b \in Nat /\ a <= b /\ b <= length /\ b - a = Digits
    <3> DEFINE e == length % Digits
               D == Digits
               r == size - i
    <3>1. D \in Nat /\ e \in Nat /\ size \in Nat /\ i \in Nat /\ i >= 1 /\ r \in Nat
          /\ length = D * size + e /\ size = i + r
      BY <1>3, <1>5
    <3> HIDE DEF D, e, r, size
    <3>2. length = i * D + r * D + e
      BY ONLY <3>1
    <3>3. i * D \in Nat /\ r * D \in Nat /\ (i - 1) * D = i * D - D /\ (i - 1) * D >= 0
      BY ONLY <3>1
    <3> QED BY <3>1, <3>2, <3>3 DEF D
  <2> HIDE DEF a, b
  <2>2. RadixDigits(ds, a, b)
    <3>1. \A k \in a + 1 .. b : k \in 1 .. length
      BY <1>1, <2>1
    <3> QED BY <1>1, <2>1, <3>1 DEF RadixDigits
  <2>3. ValueOf(ds, a, b) \in 0 .. Power(Radix, b - a) - 1
    BY ONLY <2>2, DigitsBelow
  <2> QED BY <1>3, <2>1, <2>3 DEF Word, a, b
<1>7. c \in Word
  <2> DEFINE b == length % Digits
  <2>1. b \in 0 .. Digits /\ b \in Nat /\ b <= length
    <3>1. Digits * size \in Nat
      BY <1>3, <1>5
    <3> QED BY <1>1, <1>3, <1>5, <3>1
  <2> HIDE DEF b
  <2>2. RadixDigits(ds, 0, b)
    <3>1. \A k \in 0 + 1 .. b : k \in 1 .. length
      BY <1>1, <2>1
    <3> QED BY <1>1, <2>1, <3>1 DEF RadixDigits
  <2>3. ValueOf(ds, 0, b) \in 0 .. Power(Radix, b - 0) - 1
    BY ONLY <2>2, DigitsBelow
  <2>4. Power(Radix, b) <= Base /\ Power(Radix, b) \in Nat /\ b - 0 = b
    <3>1. Power(Radix, b) <= Power(Radix, Digits)
      BY <1>3, <2>1, PowerGrows
    <3> QED BY <1>3, <2>1, <3>1, PowerIs
  <2> QED BY <2>3, <2>4, BaseIs DEF Word, b
<1> HIDE DEF word, c, size
<1>8. words \in Seq(Word) /\ Len(words) = size
  BY <1>5, <1>6
<1>9. high \in Seq(Word) /\ Len(high) \in Nat /\ (size = 0 => Len(high) = 1)
  BY <1>7
<1>10. <<0>> \in Seq(Word) /\ Len(<<0>>) = 1 /\ <<0>>[1] = 0
  BY BaseIs
<1> HIDE DEF words, high
<1>11. words \o high \in Seq(Word) /\ Len(words \o high) = size + Len(high)
  BY <1>8, <1>9, ConcatProperties
<1> DEFINE low == words \o high
<1> HIDE DEF low
<1>12. num = low \o <<0>> /\ low \in Seq(Word) /\ Len(low) = size + Len(high)
  BY <1>11 DEF low
<1>13. num \in Seq(Word) /\ Len(num) = Len(low) + 1 /\ num[Len(low) + 1] = 0
  <2>1. num \in Seq(Word) /\ Len(num) = Len(low) + Len(<<0>>)
    BY <1>10, <1>12, ConcatProperties
  <2>2. Len(low) + 1 \in 1 .. Len(low) + Len(<<0>>) /\ ~(Len(low) + 1 <= Len(low))
        /\ (Len(low) + 1) - Len(low) = 1
    BY <1>10, <1>12
  <2>3. (low \o <<0>>)[Len(low) + 1] = <<0>>[(Len(low) + 1) - Len(low)]
    BY <1>10, <1>12, <2>2, ConcatProperties
  <2> QED BY <1>10, <1>12, <2>1, <2>2, <2>3
<1> HIDE DEF num
<1>14. Len(num) >= 2
  BY <1>5, <1>9, <1>12, <1>13
<1>15. WellFormed(num) /\ Sgn(num) = 0
  BY <1>13, <1>14 DEF WellFormed, Sgn, Last
<1>16. WellFormed(num_negate(num))
  BY <1>15, NegateIs DEF Lowest, Negative
<1> QED BY <1>2, <1>15, <1>16

LEMMA MadeAre == \A n \in Made : WellFormed(n)
<1>1. ASSUME NEW w \in Word PROVE WellFormed(word_to_num(w))
  <2>1. <<w, 0>> \in Seq(Word) /\ Len(<<w, 0>>) = 2 /\ <<w, 0>>[2] = 0
    BY BaseIs
  <2> QED BY <2>1 DEF WellFormed, Sgn, Last, word_to_num
<1> QED BY <1>1, TextIs DEF Made
-----------------------------------------------------------------------------
(* One more bit of a number. *)
LEMMA OneMoreBit ==
  ASSUME NEW w \in Nat, NEW s \in Nat
  PROVE  /\ BitOf(w, s) \in {0, 1}
         /\ (w % Power(2, s + 1)) = (w % Power(2, s)) + Power(2, s) * BitOf(w, s)
         /\ (w % Power(2, s)) \in 0 .. Power(2, s) - 1
<1> DEFINE X == Power(2, s)
           q == w \div X
           r == w % X
           d == q \div 2
           b == q % 2
<1>1. X \in Nat /\ X >= 1 /\ Power(2, s + 1) = 2 * X
  BY TwosAre
<1> HIDE DEF X
<1>2. q \in Nat /\ r \in 0 .. X - 1 /\ w = X * q + r
  BY <1>1
<1> HIDE DEF q, r
<1>3. d \in Nat /\ b \in {0, 1} /\ q = 2 * d + b
  BY <1>2
<1> HIDE DEF d, b
<1>4. w = d * (2 * X) + (X * b + r)
  <2>1. X * q = d * (2 * X) + X * b
    BY <1>1, <1>2, <1>3
  <2>2. X * q \in Int /\ d * (2 * X) \in Int /\ X * b \in Int
    BY <1>1, <1>2, <1>3
  <2> QED BY <1>2, <2>1, <2>2
<1>5. X * b + r \in 0 .. 2 * X - 1
  <2>1. CASE b = 0
    BY <1>1, <1>2, <2>1
  <2>2. CASE b = 1
    BY <1>1, <1>2, <2>2
  <2> QED BY <1>3, <2>1, <2>2
<1>6. (w % (2 * X)) = X * b + r
  <2> DEFINE y == X * b + r
             z == 2 * X
  <2>1. z \in Nat \ {0} /\ y \in 0 .. z - 1 /\ w = d * z + y
    BY <1>1, <1>4, <1>5
  <2> HIDE DEF y, z
  <2>2. (w % z) = y
    BY <1>3, <2>1, Divided
  <2> QED BY <2>2 DEF y, z
<1>7. BitOf(w, s) = b
  BY DEF BitOf, b, q, X
<1>8. (w % Power(2, s)) = r
  BY DEF r, X
<1>9. X * b + r = r + X * b
  <2>1. X * b \in Int /\ r \in Int
    BY <1>1, <1>2, <1>3
  <2> QED BY <2>1
<1>10. (w % Power(2, s + 1)) = r + X * b
  BY <1>1, <1>6, <1>9
<1> QED BY <1>2, <1>3, <1>7, <1>8, <1>10 DEF X
-----------------------------------------------------------------------------
(* What the words of a number are worth from the lowest on.                *)
P(i) == Power(Base, i)

LEMMA PIs ==
  /\ P(0) = 1
  /\ \A i \in Nat : P(i) \in Nat /\ P(i) >= 1 /\ P(i + 1) = Base * P(i)
  /\ \A i, j \in Nat : P(i + j) = P(i) * P(j)
<1>1. \A i, j \in Nat : P(i + j) = P(i) * P(j)
  BY BaseIs, PowersMultiply DEF P
<1> QED BY <1>1, BasePowersAre DEF P

Low(n) ==
  LET v[k \in 0 .. Len(n)] == IF k = 0 THEN 0 ELSE v[k - 1] + n[k] * P(k - 1)
  IN  v

LEMMA LowIs ==
  ASSUME NEW n \in Seq(Word)
  PROVE  /\ Low(n)[0] = 0
         /\ \A k \in 0 .. Len(n) : Low(n)[k] \in Nat /\ Low(n)[k] <= P(k) - 1
         /\ \A k \in 1 .. Len(n) : Low(n)[k] = Low(n)[k - 1] + n[k] * P(k - 1)
<1> DEFINE l == Len(n)
           g == [q \in (1 .. l) \X Nat |-> q[2] + n[q[1]] * P(q[1] - 1)]
           v == Low(n)
<1>1. l \in Nat /\ \A k \in 1 .. l : n[k] \in 0 .. Base - 1
  <2>1. l \in Nat /\ \A k \in 1 .. l : n[k] \in Word
    OBVIOUS
  <2> QED BY <2>1 DEF Word
<1>2. \A k \in 1 .. l : P(k - 1) \in Nat /\ P(k - 1) >= 1 /\ P(k) = Base * P(k - 1)
  <2> TAKE k \in 1 .. l
  <2> DEFINE j == k - 1
  <2>1. j \in Nat /\ j + 1 = k
    BY <1>1
  <2> HIDE DEF j
  <2>2. Power(Base, j) \in Nat /\ Power(Base, j) >= 1 /\ Power(Base, j + 1) = Base * Power(Base, j)
    BY <2>1, BasePowersAre
  <2> QED BY <2>1, <2>2 DEF P, j
<1>3. g \in [(1 .. l) \X Nat -> Nat]
      /\ \A k \in 1 .. l, x \in Nat : g[<<k, x>>] = x + n[k] * P(k - 1)
  <2>1. \A k \in 1 .. l, x \in Nat : x + n[k] * P(k - 1) \in Nat
    <3> TAKE k \in 1 .. l, x \in Nat
    <3>1. n[k] \in Nat /\ P(k - 1) \in Nat
      BY <1>1, <1>2
    <3>2. n[k] * P(k - 1) \in Nat
      BY <3>1
    <3> QED BY <3>2
  <2> QED BY <2>1
<1> HIDE DEF g, l
<1>4. PICK f \in [0 .. l -> Nat] : f[0] = 0 /\ \A k \in 1 .. l : f[k] = g[<<k, f[k - 1]>>]
  <2>1. Steps(l, Nat, 0, g)
    BY <1>1, <1>3 DEF Steps
  <2>2. \E f : Stepwise(l, Nat, 0, g, f)
    BY ONLY <2>1, Recursion
  <2> QED BY <2>2 DEF Stepwise
<1>5. f = [k \in 0 .. l |-> IF k = 0 THEN 0 ELSE f[k - 1] + n[k] * P(k - 1)]
  <2>1. \A k \in 1 .. l : f[k] = f[k - 1] + n[k] * P(k - 1)
    <3> TAKE k \in 1 .. l
    <3>1. f[k - 1] \in Nat
      BY <1>1, <1>4
    <3> QED BY <1>3, <1>4, <3>1
  <2> QED BY <1>1, <1>4, <2>1
<1>6. v = [k \in 0 .. l |-> IF k = 0 THEN 0 ELSE v[k - 1] + n[k] * P(k - 1)]
  BY <1>5, Zenon DEF Low, l
<1> HIDE DEF v
<1>7. v[0] = 0 /\ \A k \in 1 .. l : v[k] = v[k - 1] + n[k] * P(k - 1)
  <2>1. \A k \in 0 .. l : v[k] = IF k = 0 THEN 0 ELSE v[k - 1] + n[k] * P(k - 1)
    BY ONLY <1>6
  <2>2. 0 \in 0 .. l /\ \A k \in 1 .. l : k \in 0 .. l /\ k # 0
    BY <1>1
  <2> QED BY ONLY <2>1, <2>2
<1> DEFINE T == {k \in 0 .. l : v[k] \in Nat /\ v[k] <= P(k) - 1}
<1>8. 0 \in T
  <2>1. P(0) = 1
    BY BasePowersAre DEF P
  <2>2. v[0] \in Nat /\ v[0] <= P(0) - 1 /\ 0 \in 0 .. l
    BY <1>1, <1>7, <2>1
  <2> QED BY <2>2
<1>9. ASSUME NEW k \in 0 .. l - 1, k \in T PROVE k + 1 \in T
  <2> DEFINE x == v[k]
             p == P(k)
             w == n[k + 1]
             b == Base
  <2>1. k + 1 \in 1 .. l /\ k + 1 \in 0 .. l /\ (k + 1) - 1 = k
    BY <1>1
  <2>2. v[k + 1] = x + w * p /\ P(k + 1) = b * p /\ p \in Nat /\ p >= 1 /\ w \in 0 .. b - 1
        /\ x \in Nat /\ x <= p - 1 /\ b \in Nat
    BY <1>1, <1>2, <1>7, <1>9, <2>1, BaseIs
  <2> HIDE DEF x, p, w, b
  <2>3. x + w * p \in Nat /\ x + w * p <= b * p - 1
    <3>1. (b - 1 - w) * p >= 0
      BY <2>2
    <3>2. (b - 1 - w) * p = b * p - p - w * p
      BY <2>2
    <3>3. w * p \in Nat /\ b * p \in Nat
      BY <2>2
    <3> QED BY <2>2, <3>1, <3>2, <3>3
  <2> QED BY <2>1, <2>2, <2>3
<1> HIDE DEF T
<1>10. 0 .. l \subseteq T
  BY <1>1, <1>8, <1>9, Induction
<1> QED BY <1>7, <1>10 DEF T, v, l

LEMMA LowGrows ==
  ASSUME NEW n \in Seq(Word), NEW k \in 0 .. Len(n), NEW j \in 0 .. k
  PROVE  Low(n)[j] <= Low(n)[k]
<1> DEFINE l == Len(n)
           v == Low(n)
           T == {d \in 0 .. k - j : v[j] <= v[j + d]}
<1>1. l \in Nat /\ k \in Nat /\ k <= l /\ j \in Nat /\ j <= k /\ k - j \in Nat
  OBVIOUS
<1>2. \A i \in 1 .. l : n[i] \in Nat
  <2>1. \A i \in 1 .. l : n[i] \in Word
    OBVIOUS
  <2> QED BY <2>1, BaseIs DEF Word
<1>3. /\ \A i \in 0 .. l : v[i] \in Nat
      /\ \A i \in 1 .. l : v[i] = v[i - 1] + n[i] * P(i - 1)
  BY LowIs
<1> HIDE DEF v, l
<1>4. 0 \in T
  BY <1>1, <1>3
<1>5. ASSUME NEW d \in 0 .. k - j - 1, d \in T PROVE d + 1 \in T
  <2> DEFINE i == j + d
  <2>1. i \in Nat /\ i + 1 \in 1 .. l /\ i \in 0 .. l /\ i + 1 \in 0 .. l /\ (i + 1) - 1 = i
        /\ j \in 0 .. l /\ d + 1 \in 0 .. k - j /\ j + (d + 1) = i + 1
    BY <1>1
  <2>2. v[j] <= v[i]
    BY <1>5
  <2> HIDE DEF i
  <2>3. v[i + 1] = v[i] + n[i + 1] * P(i) /\ v[i] \in Nat /\ v[i + 1] \in Nat /\ v[j] \in Nat
    BY <1>3, <2>1
  <2>4. n[i + 1] * P(i) \in Nat
    <3>1. n[i + 1] \in Nat /\ P(i) \in Nat
      BY <1>2, <2>1, BasePowersAre DEF P
    <3> QED BY <3>1
  <2>5. v[j] <= v[i + 1]
    BY <2>2, <2>3, <2>4
  <2> QED BY <2>1, <2>5
<1> HIDE DEF T
<1>6. k - j \in T
  <2>1. 0 .. k - j \subseteq T
    BY <1>1, <1>4, <1>5, Induction
  <2> QED BY <1>1, <2>1
<1>7. j + (k - j) = k
  BY <1>1
<1> QED BY <1>6, <1>7 DEF T, v

LEMMA UnderLow ==
  ASSUME NEW n \in Seq(Word), Len(n) >= 1, NEW top \in Int
  PROVE  Under(n, top)[Len(n) - 1] = Low(n)[Len(n) - 1] + top * P(Len(n) - 1)
<1> DEFINE l == Len(n) - 1
           v == Low(n)
           u == Under(n, top)
           all == v[l] + top * P(l)
           T == {i \in 0 .. l : u[i] * P(l - i) + v[l - i] = all}
<1>1. l \in Nat /\ Len(n) = l + 1 /\ \A i \in 1 .. Len(n) : n[i] \in Int
  <2>1. Len(n) \in Nat /\ \A i \in 1 .. Len(n) : n[i] \in Word
    OBVIOUS
  <2>2. \A i \in 1 .. Len(n) : n[i] \in Int
    BY <2>1, BaseIs
  <2>3. l \in Nat /\ Len(n) = l + 1
    BY <2>1
  <2> QED BY <2>2, <2>3
<1>2. /\ \A i \in 0 .. Len(n) : v[i] \in Nat
      /\ \A i \in 1 .. Len(n) : v[i] = v[i - 1] + n[i] * P(i - 1)
  BY LowIs
<1>3. /\ u[0] = top
      /\ \A i \in 0 .. l : u[i] \in Int
      /\ \A i \in 1 .. l : u[i] = u[i - 1] * Base + n[Len(n) - i]
  <2>1. Worth(n, top, u)
    BY UnderIs
  <2> HIDE DEF u
  <2> QED BY <2>1 DEF Worth
<1>4. \A i \in Nat : P(i) \in Nat /\ P(i + 1) = Base * P(i) /\ P(0) = 1
  BY BasePowersAre DEF P
<1> HIDE DEF l, v, u
<1>5. 0 \in T
  <2>1. l - 0 = l /\ l \in 0 .. Len(n) /\ 0 \in 0 .. l
    BY <1>1
  <2>2. P(l) \in Int /\ v[l] \in Int
    <3>1. P(l) \in Nat
      BY <1>1, <1>4
    <3>2. v[l] \in Nat
      BY <1>2, <2>1
    <3> HIDE DEF P
    <3> QED BY <3>1, <3>2
  <2>3. top * P(l) \in Int
    BY <2>2
  <2>4. u[0] * P(l - 0) + v[l - 0] = all
    BY <1>3, <2>1, <2>2, <2>3
  <2> QED BY <2>1, <2>4
<1> HIDE DEF all
<1>6. ASSUME NEW k \in 0 .. l - 1, k \in T PROVE k + 1 \in T
  <2> DEFINE j == l - (k + 1)
             x == u[k]
             b == Base
             p == P(j)
             w == n[j + 1]
             y == v[j]
  <2>1. j \in Nat /\ j + 1 \in 1 .. Len(n) /\ j \in 0 .. Len(n) /\ (j + 1) - 1 = j /\ l - k = j + 1
        /\ k \in 0 .. l /\ k + 1 \in 1 .. l /\ k + 1 \in 0 .. l /\ (k + 1) - 1 = k
        /\ Len(n) - (k + 1) = j + 1
    BY <1>1
  <2>2. x * P(j + 1) + v[j + 1] = all
    BY <1>6, <2>1
  <2>3. u[k + 1] = x * b + w /\ P(j + 1) = b * p /\ v[j + 1] = y + w * p
    <3> HIDE DEF j
    <3> QED BY <1>2, <1>3, <1>4, <2>1
  <2>4. x \in Int /\ b \in Int /\ p \in Int /\ w \in Int /\ y \in Int
    <3> HIDE DEF j
    <3>1. x \in Int
      BY <1>3, <2>1
    <3>2. b \in Int
      BY BaseIs
    <3>3. p \in Int
      BY <1>4, <2>1
    <3>4. w \in Int
      BY <1>1, <2>1
    <3>5. y \in Int
      BY <1>2, <2>1
    <3> QED BY <3>1, <3>2, <3>3, <3>4, <3>5
  <2>5. u[k + 1] * p + y = all
    <3> HIDE DEF x, b, p, w, y, j
    <3>1. (x * b + w) * p = x * (b * p) + w * p
      BY <2>4
    <3>2. x * (b * p) \in Int /\ w * p \in Int
      BY <2>4
    <3>3. all = x * (b * p) + (y + w * p)
      BY <2>2, <2>3
    <3> QED BY <2>3, <2>4, <3>1, <3>2, <3>3
  <2> QED BY <2>1, <2>5
<1> HIDE DEF T
<1>7. l \in T
  <2>1. 0 .. l \subseteq T
    BY <1>1, <1>5, <1>6, Induction
  <2> QED BY <1>1, <2>1
<1>8. u[l] * P(0) + v[0] = all /\ v[0] = 0 /\ P(0) = 1 /\ u[l] \in Int
  <2>1. u[l] * P(l - l) + v[l - l] = all /\ l - l = 0 /\ l \in 0 .. l
    BY <1>1, <1>7 DEF T
  <2>2. v[0] = 0
    BY LowIs DEF v
  <2>3. P(0) = 1
    BY BasePowersAre DEF P
  <2> QED BY <1>3, <2>1, <2>2, <2>3
<1>9. u[l] = all
  <2>1. u[l] * 1 + 0 = all
    BY <1>8
  <2> QED BY <1>8, <2>1
<1> QED BY <1>9 DEF u, all, v, l

(* Words that two numbers share add the same to what they are worth.       *)
Shared(x, y, j, k) ==
  /\ x \in Seq(Word) /\ y \in Seq(Word) /\ j \in Nat /\ k \in Nat
  /\ j <= k /\ k <= Len(x) /\ k <= Len(y)
  /\ \A i \in j + 1 .. k : x[i] = y[i]

LEMMA LowShared ==
  \A x, y, j, k : Shared(x, y, j, k) => Low(x)[k] - Low(x)[j] = Low(y)[k] - Low(y)[j]
<1> SUFFICES ASSUME NEW x, NEW y, NEW j, NEW k, Shared(x, y, j, k)
             PROVE  Low(x)[k] - Low(x)[j] = Low(y)[k] - Low(y)[j]
  OBVIOUS
<1> DEFINE v == Low(x)
           w == Low(y)
           T == {d \in 0 .. k - j : v[j + d] - v[j] = w[j + d] - w[j]}
<1>1. /\ x \in Seq(Word) /\ y \in Seq(Word) /\ j \in Nat /\ k \in Nat /\ k - j \in Nat
      /\ Len(x) \in Nat /\ Len(y) \in Nat /\ k <= Len(x) /\ k <= Len(y)
      /\ \A i \in j + 1 .. k : x[i] = y[i]
  BY DEF Shared
<1>2. /\ \A i \in 0 .. Len(x) : v[i] \in Nat
      /\ \A i \in 1 .. Len(x) : v[i] = v[i - 1] + x[i] * P(i - 1)
  BY <1>1, LowIs
<1>3. /\ \A i \in 0 .. Len(y) : w[i] \in Nat
      /\ \A i \in 1 .. Len(y) : w[i] = w[i - 1] + y[i] * P(i - 1)
  BY <1>1, LowIs
<1> HIDE DEF v, w
<1>4. v[j] \in Int /\ w[j] \in Int
  <2>1. j \in 0 .. Len(x) /\ j \in 0 .. Len(y)
    BY <1>1
  <2> QED BY <1>2, <1>3, <2>1
<1>5. 0 \in T
  BY <1>1, <1>4
<1>6. ASSUME NEW d \in 0 .. k - j - 1, d \in T PROVE d + 1 \in T
  <2> DEFINE i == j + d
             z == x[i + 1] * P(i)
  <2>1. /\ i \in Nat /\ i + 1 \in 1 .. Len(x) /\ i + 1 \in 1 .. Len(y) /\ i + 1 \in j + 1 .. k
        /\ i \in 0 .. Len(x) /\ i \in 0 .. Len(y) /\ (i + 1) - 1 = i
        /\ d + 1 \in 0 .. k - j /\ j + (d + 1) = i + 1
    BY <1>1
  <2>2. v[i] - v[j] = w[i] - w[j]
    BY <1>6
  <2> HIDE DEF i
  <2>3. x[i + 1] = y[i + 1]
    BY <1>1, <2>1
  <2>4. v[i + 1] = v[i] + z /\ w[i + 1] = w[i] + z
    BY <1>2, <1>3, <2>1, <2>3
  <2>5. z \in Int
    <3>1. x[i + 1] \in Word
      BY <1>1, <2>1
    <3>2. x[i + 1] \in Int
      BY <3>1, BaseIs
    <3>3. P(i) \in Nat
      BY <2>1, PIs
    <3> QED BY <3>2, <3>3
  <2> HIDE DEF z
  <2>6. v[i] \in Int /\ w[i] \in Int
    BY <1>2, <1>3, <2>1
  <2>7. v[i + 1] - v[j] = w[i + 1] - w[j]
    BY <1>4, <2>2, <2>4, <2>5, <2>6
  <2> QED BY <2>1, <2>7
<1> HIDE DEF T
<1>7. k - j \in T
  <2>1. 0 .. k - j \subseteq T
    BY <1>1, <1>5, <1>6, Induction
  <2> QED BY <1>1, <2>1
<1>8. j + (k - j) = k
  BY <1>1
<1> QED BY <1>7, <1>8 DEF T, v, w

N(n) == Low(n)[Len(n)]

LEMMA NIs ==
  ASSUME NEW n \in Seq(Word)
  PROVE  N(n) \in Nat /\ N(n) <= P(Len(n)) - 1
<1>1. Len(n) \in 0 .. Len(n)
  OBVIOUS
<1> QED BY <1>1, LowIs DEF N

(* A number that is added to the words of another from the i-th on, where  *)
(* the sum has room below the end of its words.                            *)
Placed(r, i, n) ==
  /\ r \in Seq(Word) /\ n \in Seq(Word) /\ i \in Nat /\ Len(n) >= 1
  /\ i + Len(n) <= Len(r)

Fits(r, i, n) == Placed(r, i, n) /\ N(r) + P(i) * N(n) <= P(i + Len(n)) - 1

(* One word more of both, and the carry out of it. *)
Carried(v, w, z, x, y, s, c, d, p, q, b) ==
  /\ {v, w, z, x, y, s, c, d, p, q, b} \subseteq Int
  /\ v + c * p = w + z /\ s + b * d = x + y + c /\ q = b * p

LEMMA CarriedOn ==
  \A v, w, z, x, y, s, c, d, p, q, b : Carried(v, w, z, x, y, s, c, d, p, q, b) =>
    (v + s * p) + d * q = (w + x * p) + (z + y * p)
<1> SUFFICES ASSUME NEW v, NEW w, NEW z, NEW x, NEW y, NEW s, NEW c, NEW d, NEW p, NEW q, NEW b,
                    Carried(v, w, z, x, y, s, c, d, p, q, b)
             PROVE  (v + s * p) + d * q = (w + x * p) + (z + y * p)
  OBVIOUS
<1>1. /\ v \in Int /\ w \in Int /\ z \in Int /\ x \in Int /\ y \in Int /\ s \in Int
      /\ c \in Int /\ d \in Int /\ p \in Int /\ b \in Int
      /\ v + c * p = w + z /\ s + b * d = x + y + c /\ q = b * p
  BY DEF Carried
<1>2. d * q = (b * d) * p
  BY <1>1
<1>3. (s + b * d) * p = (x + y + c) * p
  BY <1>1
<1>4. (s + b * d) * p = s * p + (b * d) * p
  <2> DEFINE e == b * d
  <2>1. e \in Int
    BY <1>1
  <2> HIDE DEF e
  <2>2. (s + e) * p = s * p + e * p
    BY <1>1, <2>1
  <2> QED BY <2>2 DEF e
<1>5. (x + y + c) * p = x * p + y * p + c * p
  BY <1>1
<1> DEFINE sp == s * p
           xp == x * p
           yp == y * p
           cp == c * p
           dq == d * q
<1>6. sp \in Int /\ xp \in Int /\ yp \in Int /\ cp \in Int /\ dq \in Int
  BY <1>1
<1>7. sp + dq = xp + yp + cp /\ v + cp = w + z
  BY <1>1, <1>2, <1>3, <1>4, <1>5
<1> HIDE DEF sp, xp, yp, cp, dq
<1>8. (v + sp) + dq = (w + xp) + (z + yp)
  BY <1>1, <1>6, <1>7
<1> QED BY <1>8 DEF sp, xp, yp, dq

(* What AddedAt does: the window's words are those of a sum.               *)
Window(r, i, n, q, c) ==
  /\ q \in Seq(Word) /\ Len(q) = Len(r)
  /\ c[0] = 0 /\ \A j \in 0 .. Len(n) : c[j] \in 0 .. 1
  /\ \A j \in 1 .. Len(n) : q[i + j] + Base * c[j] = r[i + j] + n[j] + c[j - 1]
  /\ \A j \in 1 .. i : q[j] = r[j]
  /\ \A j \in i + Len(n) + 1 .. Len(r) : q[j] = r[j]

LEMMA AddedAtWindow ==
  \A r, i, n : Placed(r, i, n) => \E c : Window(r, i, n, AddedAt(r, i, n), c)
<1> SUFFICES ASSUME NEW r, NEW i, NEW n, Placed(r, i, n)
             PROVE  \E c : Window(r, i, n, AddedAt(r, i, n), c)
  OBVIOUS
<1> DEFINE l == Len(n)
           L == Len(r)
           m == SubSeq(r, i + 1, i + l)
           s == Sum(m, n, 0)
           c == Carries(m, n, 0)
           q == AddedAt(r, i, n)
<1>1. /\ r \in Seq(Word) /\ n \in Seq(Word) /\ i \in Nat /\ l \in Nat /\ l >= 1 /\ L \in Nat
      /\ i + l <= L
  BY DEF Placed
<1>2. DOMAIN r = 1 .. L /\ \A j \in 1 .. L : r[j] \in Word
  BY <1>1
<1>3. m \in Seq(Word) /\ Len(m) = l /\ \A j \in 1 .. l : m[j] = r[i + j]
  <2>1. \A j \in i + 1 .. i + l : j \in 1 .. L
    BY <1>1
  <2>2. \A j \in i + 1 .. i + l : r[j] \in Word
    BY <1>2, <2>1
  <2>3. i + 1 \in 1 .. L /\ i + l \in i + 1 .. L /\ (i + l) - (i + 1) + 1 = l
    BY <1>1
  <2> HIDE DEF l, L
  <2>4. m \in Seq(Word) /\ Len(m) = (i + l) - (i + 1) + 1
        /\ \A j \in 1 .. (i + l) - (i + 1) + 1 : m[j] = r[(i + 1) + j - 1]
    BY <1>1, <1>2, <2>1, <2>3, SubSeqProperties DEF L
  <2>5. \A j \in 1 .. l : (i + 1) + j - 1 = i + j
    BY <1>1
  <2> QED BY <2>3, <2>4, <2>5
<1>4. SumOf(m, n, 0, c, s)
  <2> HIDE DEF m
  <2>1. 0 \in 0 .. 1
    OBVIOUS
  <2> QED BY <1>1, <1>3, <2>1, SumIs DEF l
<1>5. q = [j \in DOMAIN r |-> IF j \in i + 1 .. i + l THEN s[j - i] ELSE r[j]]
  BY DEF AddedAt
<1> HIDE DEF q, s, m, c, l, L
<1>6. /\ s \in Seq(Word) /\ Len(s) = l
      /\ c[0] = 0
      /\ \A j \in 0 .. l : c[j] \in 0 .. 1
      /\ \A j \in 1 .. l : s[j] + Base * c[j] = m[j] + n[j] + c[j - 1]
  BY <1>3, <1>4 DEF SumOf
<1>7. \A j \in 1 .. L : q[j] = IF j \in i + 1 .. i + l THEN s[j - i] ELSE r[j]
  BY <1>2, <1>5
<1>8. q \in Seq(Word) /\ Len(q) = L
  <2>1. \A j \in 1 .. l : s[j] \in Word
    BY <1>1, <1>6
  <2>2. \A j \in i + 1 .. i + l : j - i \in 1 .. l
    BY <1>1
  <2>3. q = [j \in 1 .. L |-> IF j \in i + 1 .. i + l THEN s[j - i] ELSE r[j]]
    BY <1>2, <1>5
  <2>4. \A j \in 1 .. L : (IF j \in i + 1 .. i + l THEN s[j - i] ELSE r[j]) \in Word
    BY <1>2, <2>1, <2>2
  <2>5. q \in [1 .. L -> Word]
    BY <2>3, <2>4
  <2>6. q \in Seq(Word)
    BY <1>1, <2>5, SeqDef
  <2> QED BY <1>1, <2>5, <2>6, LenProperties
<1>9. ASSUME NEW j \in 1 .. l
      PROVE  q[i + j] + Base * c[j] = r[i + j] + n[j] + c[j - 1]
  <2>1. i + j \in 1 .. L /\ i + j \in i + 1 .. i + l /\ (i + j) - i = j
    BY <1>1
  <2>2. q[i + j] = s[j]
    BY <1>7, <2>1
  <2>3. s[j] + Base * c[j] = m[j] + n[j] + c[j - 1] /\ m[j] = r[i + j]
    BY <1>3, <1>6
  <2> QED BY <2>2, <2>3
<1>10. ASSUME NEW j \in 1 .. i PROVE q[j] = r[j]
  <2>1. j \in 1 .. L /\ j \notin i + 1 .. i + l
    BY <1>1
  <2> QED BY <1>7, <2>1
<1>11. ASSUME NEW j \in i + l + 1 .. L PROVE q[j] = r[j]
  <2>1. j \in 1 .. L /\ j \notin i + 1 .. i + l
    BY <1>1
  <2> QED BY <1>7, <2>1
<1>12. Window(r, i, n, q, c)
  BY <1>6, <1>8, <1>9, <1>10, <1>11 DEF Window, l, L
<1> QED BY <1>12 DEF q

LEMMA AddedAtIs ==
  \A r, i, n : Fits(r, i, n) =>
    /\ AddedAt(r, i, n) \in Seq(Word) /\ Len(AddedAt(r, i, n)) = Len(r)
    /\ N(AddedAt(r, i, n)) = N(r) + P(i) * N(n)
<1> SUFFICES ASSUME NEW r, NEW i, NEW n, Fits(r, i, n)
             PROVE  /\ AddedAt(r, i, n) \in Seq(Word) /\ Len(AddedAt(r, i, n)) = Len(r)
                    /\ N(AddedAt(r, i, n)) = N(r) + P(i) * N(n)
  OBVIOUS
<1> DEFINE l == Len(n)
           L == Len(r)
           q == AddedAt(r, i, n)
           u == Low(q)
           v == Low(r)
           w == Low(n)
<1>1. PICK c : Window(r, i, n, q, c)
  <2>1. Placed(r, i, n)
    BY DEF Fits
  <2> QED BY <2>1, AddedAtWindow
<1>2. /\ r \in Seq(Word) /\ n \in Seq(Word) /\ i \in Nat /\ l \in Nat /\ l >= 1 /\ L \in Nat
      /\ i + l <= L /\ N(r) + P(i) * N(n) <= P(i + l) - 1
  BY DEF Fits, Placed
<1> HIDE DEF q
<1>3. /\ q \in Seq(Word) /\ Len(q) = L
      /\ c[0] = 0
      /\ \A j \in 0 .. l : c[j] \in 0 .. 1
      /\ \A j \in 1 .. l : q[i + j] + Base * c[j] = r[i + j] + n[j] + c[j - 1]
      /\ \A j \in 1 .. i : q[j] = r[j]
      /\ \A j \in i + l + 1 .. L : q[j] = r[j]
  BY <1>1 DEF Window
<1>4. /\ u[0] = 0 /\ \A k \in 0 .. L : u[k] \in Nat
      /\ \A k \in 1 .. L : u[k] = u[k - 1] + q[k] * P(k - 1)
  BY <1>3, LowIs
<1>5. /\ v[0] = 0 /\ \A k \in 0 .. L : v[k] \in Nat
      /\ \A k \in 1 .. L : v[k] = v[k - 1] + r[k] * P(k - 1)
  BY <1>2, LowIs
<1>6. /\ w[0] = 0 /\ \A k \in 0 .. l : w[k] \in Nat
      /\ \A k \in 1 .. l : w[k] = w[k - 1] + n[k] * P(k - 1)
  BY <1>2, LowIs
<1>7. N(q) = u[L] /\ N(r) = v[L] /\ N(n) = w[l]
  BY <1>3 DEF N
<1>8. (\A k \in 1 .. L : q[k] \in Int /\ r[k] \in Int) /\ \A k \in 1 .. l : n[k] \in Int
  <2>1. (\A k \in 1 .. L : q[k] \in Word /\ r[k] \in Word) /\ \A k \in 1 .. l : n[k] \in Word
    BY <1>2, <1>3
  <2> QED BY <2>1, BaseIs
<1> HIDE DEF l, L, u, v, w
<1>9. u[i] = v[i]
  <2>1. Shared(q, r, 0, i)
    <3>1. 0 <= i /\ i <= Len(q) /\ i <= Len(r) /\ 0 \in Nat /\ \A j \in 0 + 1 .. i : j \in 1 .. i
      BY <1>2, <1>3 DEF L
    <3> QED BY <1>2, <1>3, <3>1 DEF Shared
  <2>2. u[i] - u[0] = v[i] - v[0]
    BY <2>1, LowShared DEF u, v
  <2>3. i \in 0 .. L
    BY <1>2
  <2> QED BY <1>4, <1>5, <2>2, <2>3
<1> DEFINE I == P(i)
           T == {j \in 0 .. l : u[i + j] + c[j] * P(i + j) = v[i + j] + I * w[j]}
<1>10. I \in Nat /\ \A j \in Nat : P(j) \in Nat /\ P(j) >= 1 /\ P(i + j) = I * P(j)
  BY <1>2, PIs
<1>11. 0 \in T
  <2>1. i + 0 = i /\ i \in 0 .. L /\ 0 \in 0 .. l
    BY <1>2
  <2>2. c[0] * P(i) = 0
    <3>1. P(i) \in Nat
      BY <1>10
    <3> QED BY <1>3, <3>1
  <2>3. I * w[0] = 0
    BY <1>6, <1>10
  <2>4. u[i] \in Nat /\ v[i] \in Nat
    BY <1>4, <1>5, <2>1
  <2>5. u[i + 0] + c[0] * P(i + 0) = v[i + 0] + I * w[0]
    BY <1>9, <2>1, <2>2, <2>3, <2>4
  <2> QED BY <2>1, <2>5
<1>12. ASSUME NEW j \in 0 .. l - 1, j \in T PROVE j + 1 \in T
  <2> DEFINE e == i + j
             p == P(e)
             o == P(j)
             t == P(e + 1)
             z == I * w[j]
             x == r[e + 1]
             y == n[j + 1]
             s == q[e + 1]
  <2>1. /\ j \in Nat /\ e \in Nat /\ e + 1 \in 1 .. L /\ e \in 0 .. L /\ (e + 1) - 1 = e
        /\ j + 1 \in 1 .. l /\ j + 1 \in 0 .. l /\ (j + 1) - 1 = j /\ i + (j + 1) = e + 1
        /\ j \in 0 .. l
    BY <1>2
  <2>2. u[e] + c[j] * p = v[e] + z
    BY <1>12
  <2> HIDE DEF e
  <2>3. s + Base * c[j + 1] = x + y + c[j]
    BY <1>3, <2>1
  <2>4. p \in Nat /\ t = Base * p /\ p = I * o /\ o \in Nat
    <3>1. p \in Nat /\ t = Base * p
      BY <2>1, PIs
    <3>2. p = I * o /\ o \in Nat
      BY <1>10, <2>1 DEF e
    <3> QED BY <3>1, <3>2
  <2> HIDE DEF p, o, t, I
  <2>5. u[e + 1] = u[e] + s * p /\ v[e + 1] = v[e] + x * p /\ w[j + 1] = w[j] + y * o
    BY <1>4, <1>5, <1>6, <2>1 DEF p, o
  <2>6. u[e] \in Int /\ v[e] \in Int /\ w[j] \in Int
    BY <1>4, <1>5, <1>6, <2>1
  <2>7. x \in Int /\ y \in Int /\ s \in Int
    BY <1>8, <2>1
  <2>8. c[j] \in Int /\ c[j + 1] \in Int
    BY <1>3, <2>1
  <2>9. z \in Int
    BY <1>10, <2>6
  <2> HIDE DEF x, y, s, z
  <2>10. (u[e] + s * p) + c[j + 1] * t = (v[e] + x * p) + (z + y * p)
    <3>1. Base \in Int /\ p \in Int /\ t \in Int
      BY <2>4, BaseIs
    <3>2. Carried(u[e], v[e], z, x, y, s, c[j], c[j + 1], p, t, Base)
      BY <2>2, <2>3, <2>4, <2>6, <2>7, <2>8, <2>9, <3>1 DEF Carried
    <3> QED BY ONLY <3>2, CarriedOn
  <2>11. I * w[j + 1] = z + y * p
    <3> DEFINE a == w[j]
    <3> HIDE DEF a
    <3>1. a \in Int /\ I \in Int /\ y \in Int /\ o \in Int
      BY <1>10, <2>4, <2>6, <2>7 DEF a
    <3>2. I * (a + y * o) = I * a + y * (I * o)
      BY ONLY <3>1
    <3> QED BY <2>4, <2>5, <3>2 DEF a, z
  <2>12. u[e + 1] + c[j + 1] * P(e + 1) = v[e + 1] + I * w[j + 1]
    BY <2>5, <2>10, <2>11 DEF t
  <2> QED BY <2>1, <2>12
<1> HIDE DEF T
<1>13. l \in T
  <2>1. 0 .. l \subseteq T
    BY <1>2, <1>11, <1>12, Induction
  <2> QED BY <1>2, <2>1
<1> DEFINE k == i + l
           a == I * w[l]
           p == P(k)
<1>14. u[k] + c[l] * p = v[k] + a
  BY <1>13 DEF T
<1>15. /\ k \in Nat /\ k \in 0 .. L /\ L \in 0 .. L /\ l \in 0 .. l /\ k <= L
       /\ p \in Nat /\ p >= 1 /\ a \in Nat
  <2>1. k \in Nat /\ k \in 0 .. L /\ L \in 0 .. L /\ l \in 0 .. l /\ k <= L
    BY <1>2
  <2>2. w[l] \in Nat
    BY <1>6, <2>1
  <2>3. a \in Nat
    BY <1>10, <2>2
  <2>4. p \in Nat /\ p >= 1
    BY <2>1, PIs
  <2> QED BY <2>1, <2>3, <2>4
<1>16. v[L] + a <= p - 1
  BY <1>2, <1>7
<1> HIDE DEF k, a, p, I
<1>17. v[k] <= v[L] /\ v[k] \in Nat /\ v[L] \in Nat /\ u[k] \in Nat /\ u[L] \in Nat
  <2>1. v[k] <= v[L]
    BY <1>2, <1>15, LowGrows DEF v, L
  <2> QED BY <1>4, <1>5, <1>15, <2>1
<1>18. u[k] = v[k] + a
  <2>1. c[l] \in {0, 1}
    BY <1>3, <1>15
  <2>2. c[l] # 1
    <3> SUFFICES ASSUME c[l] = 1 PROVE FALSE
      OBVIOUS
    <3>1. u[k] + p = v[k] + a
      BY <1>14, <1>15
    <3> QED BY <1>15, <1>16, <1>17, <3>1
  <2>3. c[l] = 0
    BY <2>1, <2>2
  <2>4. c[l] * p = 0
    BY <1>15, <2>3
  <2> QED BY <1>14, <1>17, <2>4
<1>19. u[L] - u[k] = v[L] - v[k]
  <2>1. Shared(q, r, k, L)
    BY <1>2, <1>3, <1>15 DEF Shared, L, k
  <2> QED BY <2>1, LowShared DEF u, v
<1>20. u[L] = v[L] + a
  BY <1>15, <1>17, <1>18, <1>19
<1> QED BY <1>3, <1>7, <1>20 DEF q, a, I, L
-----------------------------------------------------------------------------
(* Numbers that are shifted by less than a word.                           *)

LEMMA WordShifted ==
  ASSUME NEW w \in Word, NEW s \in 0 .. Bits - 1
  PROVE  LET h   == w \div Power(2, Bits - s)
             low == (w * Power(2, s)) % Base
         IN  /\ h \in 0 .. Power(2, s) - 1 /\ low \in 0 .. Base - Power(2, s)
             /\ low + Base * h = w * Power(2, s) /\ (s = 0 => h = 0)
<1> DEFINE Q == Power(2, Bits - s)
           S == Power(2, s)
           B == Base
           h == w \div Q
           r == w % Q
           low == (w * S) % B
<1>1. S \in Nat /\ S >= 1 /\ Q \in Nat /\ Q >= 1 /\ S * Q = B /\ (s = 0 => Q = B)
  <2>1. Bits \in Nat /\ s \in Nat /\ s \in 0 .. Bits /\ Bits - s \in Nat /\ Bits - 0 = Bits
    BY TwosAre
  <2>2. S \in Nat /\ S >= 1 /\ Q \in Nat /\ Q >= 1
    BY <2>1, TwosAre
  <2>3. S * Q = B
    BY <2>1, TwosAre
  <2>4. s = 0 => Q = B
    BY <2>1, TwosAre
  <2> QED BY <2>2, <2>3, <2>4
<1>2. w \in 0 .. B - 1 /\ B \in Nat /\ B >= 4
  BY BaseIs DEF Word
<1> HIDE DEF Q, S, B
<1>3. h \in Nat /\ r \in 0 .. Q - 1 /\ w = Q * h + r
  BY <1>1, <1>2
<1> HIDE DEF h, r
<1>4. h <= S - 1
  <2> SUFFICES ASSUME h >= S PROVE FALSE
    BY <1>1, <1>3
  <2>1. Q * (h - S) >= 0
    BY <1>1, <1>3
  <2>2. Q * (h - S) = Q * h - B
    <3>1. Q * (h - S) = Q * h - S * Q
      BY <1>1, <1>3
    <3> QED BY <1>1, <3>1
  <2>3. Q * h \in Int
    BY <1>1, <1>3
  <2> QED BY <1>2, <1>3, <2>1, <2>2, <2>3
<1>5. w * S = h * B + r * S
  <2>1. (Q * h + r) * S = h * (S * Q) + r * S
    BY <1>1, <1>3
  <2> QED BY <1>1, <1>3, <2>1
<1>6. r * S \in 0 .. B - S
  <2>1. r * S \in Nat /\ (Q - 1 - r) * S >= 0
    BY <1>1, <1>3
  <2>2. (Q - 1 - r) * S = S * Q - S - r * S
    BY <1>1, <1>3
  <2> QED BY <1>1, <1>2, <2>1, <2>2
<1> DEFINE y == r * S
           z == w * S
<1>7. y \in 0 .. B - S /\ z = h * B + y
  BY <1>5, <1>6
<1>8. z \in Nat
  BY <1>1, <1>2
<1> HIDE DEF y, z
<1>9. (z % B) = y
  <2>1. y \in 0 .. B - 1 /\ B \in Nat \ {0} /\ y \in Nat
    BY <1>1, <1>2, <1>7
  <2> QED BY <1>3, <1>7, <1>8, <2>1, Divided
<1>10. low = y
  BY <1>9 DEF z
<1>11. low + B * h = w * S
  <2>1. h * B = B * h /\ h * B \in Int
    BY <1>2, <1>3
  <2>2. y \in Int
    BY <1>7
  <2>3. y + B * h = z
    BY <1>7, <2>1, <2>2
  <2> QED BY <1>10, <2>3 DEF z
<1>12. s = 0 => h = 0
  <2> SUFFICES ASSUME s = 0, h >= 1 PROVE FALSE
    BY <1>3
  <2>1. B * h >= B /\ B * h \in Nat
    BY <1>2, <1>3
  <2>2. w = B * h + r
    BY <1>1, <1>3
  <2> QED BY <1>2, <1>3, <2>1, <2>2
<1>13. h \in 0 .. S - 1 /\ low \in 0 .. B - S
  BY <1>3, <1>4, <1>7, <1>10
<1> QED BY <1>11, <1>12, <1>13 DEF h, low, S, B, Q

(* A word, and the bits of the word below it that reach it; h is what the  *)
(* word itself loses.                                                      *)
ShiftedBy(n, s, q, h) ==
  /\ q \in Seq(Word) /\ Len(q) = Len(n)
  /\ h[0] = 0 /\ \A j \in 0 .. Len(n) : h[j] \in Nat
  /\ \A j \in 1 .. Len(n) : q[j] + Base * h[j] = n[j] * Power(2, s) + h[j - 1]

LEMMA ShiftedWords ==
  ASSUME NEW n \in Seq(Word), NEW s \in 0 .. Bits - 1
  PROVE  \E h : ShiftedBy(n, s, Shifted(n, s), h)
<1> DEFINE l == Len(n)
           Q == Power(2, Bits - s)
           S == Power(2, s)
           h == [j \in 0 .. l |-> IF j = 0 THEN 0 ELSE n[j] \div Q]
           low(j) == (n[j] * S) % Base
           q == Shifted(n, s)
<1>1. l \in Nat /\ DOMAIN n = 1 .. l /\ \A j \in 1 .. l : n[j] \in Word
  OBVIOUS
<1>2. q = [j \in 1 .. l |-> (IF j = 1 \/ s = 0 THEN 0 ELSE n[j - 1] \div Q) + low(j)]
  BY <1>1 DEF Shifted
<1>3. h[0] = 0 /\ \A j \in 1 .. l : h[j] = n[j] \div Q
  <2> HIDE DEF l, Q
  <2>1. 0 \in 0 .. l /\ \A j \in 1 .. l : j \in 0 .. l /\ j # 0
    BY <1>1
  <2>2. \A j \in 0 .. l : h[j] = IF j = 0 THEN 0 ELSE n[j] \div Q
    OBVIOUS
  <2> HIDE DEF h
  <2>3. h[0] = 0
    BY <2>1, <2>2
  <2>4. \A j \in 1 .. l : h[j] = n[j] \div Q
    BY <2>1, <2>2, Zenon
  <2> QED BY <2>3, <2>4
<1>4. S \in Nat /\ S >= 1 /\ Base \in Nat
  <2>1. s \in Nat
    BY TwosAre
  <2> QED BY <2>1, TwosAre, BaseIs
<1> HIDE DEF h, q, S, Q, low
<1>5. \A j \in 1 .. l : /\ h[j] \in 0 .. S - 1 /\ low(j) \in 0 .. Base - S
                        /\ low(j) + Base * h[j] = n[j] * S /\ (s = 0 => h[j] = 0)
  <2> TAKE j \in 1 .. l
  <2>1. n[j] \in Word
    BY <1>1
  <2> DEFINE w == n[j]
  <2> HIDE DEF w
  <2>2. w \in Word
    BY <2>1 DEF w
  <2>3. LET k == w \div Power(2, Bits - s)
            y == (w * Power(2, s)) % Base
        IN  /\ k \in 0 .. Power(2, s) - 1 /\ y \in 0 .. Base - Power(2, s)
            /\ y + Base * k = w * Power(2, s) /\ (s = 0 => k = 0)
    BY ONLY <2>2, WordShifted, s \in 0 .. Bits - 1
  <2>4. h[j] = w \div Power(2, Bits - s) /\ low(j) = (w * Power(2, s)) % Base
    BY <1>3 DEF w, low, Q, S
  <2> QED BY <2>3, <2>4 DEF w, S
<1>6. \A j \in 0 .. l : h[j] \in 0 .. S - 1
  <2> TAKE j \in 0 .. l
  <2>1. j = 0 \/ j \in 1 .. l
    BY <1>1
  <2> QED BY <1>3, <1>4, <1>5, <2>1
<1>7. \A j \in 1 .. l : q[j] = h[j - 1] + low(j)
  <2> TAKE j \in 1 .. l
  <2>1. q[j] = (IF j = 1 \/ s = 0 THEN 0 ELSE n[j - 1] \div Q) + low(j)
    BY <1>2
  <2>2. CASE j = 1
    <3>1. j - 1 = 0
      BY <2>2
    <3> QED BY <1>3, <2>1, <2>2, <3>1
  <2>3. CASE j # 1
    <3>1. j - 1 \in 1 .. l
      BY <1>1, <2>3
    <3>2. h[j - 1] = n[j - 1] \div Q /\ (s = 0 => h[j - 1] = 0)
      BY <1>3, <1>5, <3>1
    <3> QED BY <2>1, <2>3, <3>2
  <2> QED BY <2>2, <2>3
<1>8. \A j \in 1 .. l : q[j] \in Word
  <2> TAKE j \in 1 .. l
  <2>1. h[j - 1] \in 0 .. S - 1
    <3>1. j - 1 \in 0 .. l
      BY <1>1
    <3> QED BY <1>6, <3>1
  <2>2. low(j) \in 0 .. Base - S
    BY <1>5
  <2> QED BY <1>4, <1>7, <2>1, <2>2 DEF Word
<1>9. q \in Seq(Word) /\ Len(q) = l
  <2> DEFINE d == 1 .. l
  <2>1. q = [j \in 1 .. l |-> q[j]]
    BY <1>2
  <2>2. q \in [1 .. l -> Word]
    BY <1>8, <2>1
  <2>3. q \in Seq(Word)
    BY <1>1, <2>2, SeqDef
  <2> QED BY <1>1, <2>2, <2>3, LenProperties
<1>10. \A j \in 1 .. l : q[j] + Base * h[j] = n[j] * S + h[j - 1]
  <2> TAKE j \in 1 .. l
  <2>1. q[j] = h[j - 1] + low(j)
    BY <1>7
  <2>2. low(j) + Base * h[j] = n[j] * S
    BY <1>5
  <2>3. h[j - 1] \in Int /\ h[j] \in Int /\ low(j) \in Int
    <3>1. j - 1 \in 0 .. l
      BY <1>1
    <3> QED BY <1>5, <1>6, <3>1
  <2>4. Base * h[j] \in Int
    BY <2>3, BaseIs
  <2> DEFINE z == Base * h[j]
             y == n[j] * S
  <2> HIDE DEF z, y
  <2>5. q[j] + z = y + h[j - 1]
    <3>1. low(j) + z = y /\ z \in Int
      BY <2>2, <2>4 DEF y, z
    <3> QED BY <2>1, <2>3, <3>1
  <2> QED BY <2>5 DEF y, z
<1>11. \A j \in 0 .. l : h[j] \in Nat
  BY <1>4, <1>6
<1>12. ShiftedBy(n, s, q, h)
  BY <1>3, <1>9, <1>10, <1>11 DEF ShiftedBy, S
<1> QED BY <1>12 DEF q

(* A number with room for it is multiplied when it is shifted.             *)
Room(n, s) ==
  n \in Seq(Word) /\ s \in 0 .. Bits - 1 /\ Power(2, s) * N(n) <= P(Len(n)) - 1

LEMMA ShiftedIs ==
  \A n, s : Room(n, s) =>
    /\ Shifted(n, s) \in Seq(Word) /\ Len(Shifted(n, s)) = Len(n)
    /\ N(Shifted(n, s)) = Power(2, s) * N(n)
<1> SUFFICES ASSUME NEW n, NEW s, Room(n, s)
             PROVE  /\ Shifted(n, s) \in Seq(Word) /\ Len(Shifted(n, s)) = Len(n)
                    /\ N(Shifted(n, s)) = Power(2, s) * N(n)
  OBVIOUS
<1> DEFINE l == Len(n)
           S == Power(2, s)
           q == Shifted(n, s)
           u == Low(q)
           w == Low(n)
<1>1. n \in Seq(Word) /\ s \in 0 .. Bits - 1 /\ l \in Nat /\ S * N(n) <= P(l) - 1
  BY DEF Room
<1>2. PICK h : ShiftedBy(n, s, q, h)
  BY <1>1, ShiftedWords
<1> HIDE DEF q
<1>3. /\ q \in Seq(Word) /\ Len(q) = l
      /\ h[0] = 0 /\ \A j \in 0 .. l : h[j] \in Nat
      /\ \A j \in 1 .. l : q[j] + Base * h[j] = n[j] * S + h[j - 1]
  BY <1>2 DEF ShiftedBy
<1>4. /\ u[0] = 0 /\ \A k \in 0 .. l : u[k] \in Nat
      /\ \A k \in 1 .. l : u[k] = u[k - 1] + q[k] * P(k - 1)
  BY <1>3, LowIs
<1>5. /\ w[0] = 0 /\ \A k \in 0 .. l : w[k] \in Nat
      /\ \A k \in 1 .. l : w[k] = w[k - 1] + n[k] * P(k - 1)
  BY <1>1, LowIs
<1>6. N(q) = u[l] /\ N(n) = w[l]
  BY <1>3 DEF N
<1>7. \A k \in 1 .. l : q[k] \in Int /\ n[k] \in Int
  <2>1. \A k \in 1 .. l : q[k] \in Word /\ n[k] \in Word
    BY <1>1, <1>3
  <2> QED BY <2>1, BaseIs
<1>8. S \in Nat
  <2>1. s \in Nat
    BY <1>1, TwosAre
  <2> QED BY <2>1, TwosAre
<1> HIDE DEF l, u, w, S
<1> DEFINE T == {j \in 0 .. l : u[j] + h[j] * P(j) = S * w[j]}
<1>9. 0 \in T
  <2>1. S * w[0] = 0
    BY <1>5, <1>8
  <2>2. h[0] * P(0) = 0
    <3>1. P(0) = 1
      BY PIs
    <3> QED BY <1>3, <3>1
  <2>3. 0 \in 0 .. l
    BY <1>1
  <2> QED BY <1>4, <2>1, <2>2, <2>3
<1>10. ASSUME NEW j \in 0 .. l - 1, j \in T PROVE j + 1 \in T
  <2> DEFINE p == P(j)
             t == P(j + 1)
             z == S * w[j]
             y == n[j + 1]
             x == y * S
             e == q[j + 1]
  <2>1. /\ j \in Nat /\ j + 1 \in 1 .. l /\ j + 1 \in 0 .. l /\ (j + 1) - 1 = j /\ j \in 0 .. l
    BY <1>1
  <2>2. u[j] + h[j] * p = z
    BY <1>10
  <2>3. e + Base * h[j + 1] = x + h[j]
    BY <1>3, <2>1
  <2>4. p \in Nat /\ t = Base * p /\ t \in Nat
    <3>1. p \in Nat /\ t = Base * p
      BY <2>1, PIs
    <3>2. t \in Nat
      BY <2>1, PIs
    <3> QED BY <3>1, <3>2
  <2> HIDE DEF p, t
  <2>5. u[j + 1] = u[j] + e * p /\ w[j + 1] = w[j] + y * p
    BY <1>4, <1>5, <2>1 DEF p
  <2>6. u[j] \in Int /\ w[j] \in Int
    BY <1>4, <1>5, <2>1
  <2>7. y \in Int /\ e \in Int
    BY <1>7, <2>1
  <2>8. h[j] \in Int /\ h[j + 1] \in Int
    BY <1>3, <2>1
  <2>9. z \in Int /\ x \in Int
    <3> HIDE DEF y
    <3> QED BY <1>8, <2>6, <2>7
  <2> HIDE DEF y, e
  <2>10. (u[j] + e * p) + h[j + 1] * t = (z + x * p) + (0 + 0 * p)
    <3> HIDE DEF x, z
    <3>1. Base \in Int /\ p \in Int /\ t \in Int /\ 0 \in Int
      BY <2>4, BaseIs
    <3>2. u[j] + h[j] * p = z + 0
      BY <2>2, <2>9
    <3>3. e + Base * h[j + 1] = x + 0 + h[j]
      BY <2>3, <2>9
    <3>4. Carried(u[j], z, 0, x, 0, e, h[j], h[j + 1], p, t, Base)
      BY <2>4, <2>6, <2>7, <2>8, <2>9, <3>1, <3>2, <3>3 DEF Carried
    <3> QED BY ONLY <3>4, CarriedOn
  <2>11. (z + x * p) + (0 + 0 * p) = S * w[j + 1]
    <3> DEFINE a == w[j]
    <3> HIDE DEF a
    <3>1. a \in Int /\ S \in Int /\ y \in Int /\ p \in Int
      BY <1>8, <2>4, <2>6, <2>7 DEF a
    <3>2. S * (a + y * p) = S * a + (y * S) * p
      BY ONLY <3>1
    <3>3. 0 * p = 0
      BY <3>1
    <3>4. S * a \in Int /\ (y * S) * p \in Int
      BY <3>1
    <3>5. (S * a + (y * S) * p) + (0 + 0 * p) = S * (a + y * p)
      BY <3>2, <3>3, <3>4
    <3> QED BY <2>5, <3>5 DEF a
  <2>12. u[j + 1] + h[j + 1] * P(j + 1) = S * w[j + 1]
    BY <2>5, <2>10, <2>11 DEF t
  <2> QED BY <2>1, <2>12
<1> HIDE DEF T
<1>11. l \in T
  <2>1. 0 .. l \subseteq T
    BY <1>1, <1>9, <1>10, Induction
  <2> QED BY <1>1, <2>1
<1> DEFINE p == P(l)
           a == S * w[l]
<1>12. u[l] + h[l] * p = a
  BY <1>11 DEF T
<1>13. a <= p - 1 /\ p \in Nat /\ p >= 1 /\ a \in Int /\ u[l] \in Nat /\ h[l] \in Nat
  <2>1. l \in 0 .. l
    BY <1>1
  <2>2. p \in Nat /\ p >= 1
    BY <1>1, PIs
  <2>3. w[l] \in Nat
    BY <1>5, <2>1
  <2>4. a \in Int
    BY <1>8, <2>3
  <2>5. u[l] \in Nat /\ h[l] \in Nat
    BY <1>3, <1>4, <2>1
  <2>6. a <= p - 1
    BY <1>1, <1>6
  <2> QED BY <2>2, <2>4, <2>5, <2>6
<1> HIDE DEF p, a
<1>14. h[l] = 0
  <2> SUFFICES ASSUME h[l] >= 1 PROVE FALSE
    BY <1>13
  <2>1. h[l] * p >= p /\ h[l] * p \in Int
    BY <1>13
  <2> QED BY <1>12, <1>13, <2>1
<1>15. u[l] = a
  <2>1. h[l] * p = 0
    BY <1>13, <1>14
  <2> QED BY <1>12, <1>13, <2>1
<1> QED BY <1>3, <1>6, <1>15 DEF q, a, l, S
-----------------------------------------------------------------------------
(* The product after some bits of the second number.                       *)

LowBits(n, k) ==
  Low(n)[k \div Bits] + P(k \div Bits) * (n[(k \div Bits) + 1] % Power(2, k % Bits))

LEMMA LowBitsStart ==
  ASSUME NEW n \in Seq(Word), Len(n) >= 1
  PROVE  /\ LowBits(n, 0) = 0
         /\ LowBits(n, Bits * (Len(n) - 1)) = Low(n)[Len(n) - 1]
<1>1. ASSUME NEW i \in 0 .. Len(n) - 1 PROVE LowBits(n, Bits * i) = Low(n)[i]
  <2> DEFINE k == Bits * i
             w == n[i + 1]
             b == Bits
  <2>1. b \in Nat /\ b >= 1 /\ i \in Nat /\ i + 1 \in 1 .. Len(n) /\ Len(n) \in Nat
    BY TwosAre
  <2>2. w \in Nat /\ Low(n)[i] \in Nat
    <3>1. w \in Word /\ i \in 0 .. Len(n)
      BY <2>1
    <3> HIDE DEF w
    <3> QED BY <3>1, LowIs, BaseIs DEF Word
  <2>3. (k \div b) = i /\ (k % b) = 0
    <3>1. k = i * b + 0 /\ k \in Nat /\ 0 \in 0 .. b - 1 /\ b \in Nat \ {0} /\ 0 \in Nat
      BY <2>1
    <3> HIDE DEF k, b
    <3> QED BY ONLY <2>1, <3>1, Divided
  <2>4. LowBits(n, k) = Low(n)[i] + P(i) * (w % 1)
    <3>1. Power(2, 0) = 1
      BY TwosAre
    <3> HIDE DEF k
    <3> QED BY <2>3, <3>1 DEF LowBits, b
  <2>5. (w % 1) = 0
    <3> HIDE DEF w
    <3> QED BY <2>2
  <2>6. P(i) * 0 = 0
    <3>1. P(i) \in Nat
      BY <2>1, PIs
    <3> QED BY <3>1
  <2> QED BY <2>2, <2>4, <2>5, <2>6
<1>2. 0 \in 0 .. Len(n) - 1 /\ Len(n) - 1 \in 0 .. Len(n) - 1 /\ Bits * 0 = 0
  BY TwosAre
<1>3. Low(n)[0] = 0
  BY LowIs
<1>4. LowBits(n, 0) = 0
  BY <1>1, <1>2, <1>3
<1>5. LowBits(n, Bits * (Len(n) - 1)) = Low(n)[Len(n) - 1]
  BY <1>1, <1>2
<1> QED BY <1>4, <1>5

(* The word and the bit in it that a turn is about.                        *)
Turned(n, k, i, s) ==
  /\ n \in Seq(Word) /\ Len(n) >= 1 /\ k \in Nat
  /\ i \in Nat /\ i + 1 <= Len(n) - 1 /\ s \in 0 .. Bits - 1 /\ k = i * Bits + s

LEMMA TurnedIs ==
  ASSUME NEW n \in Seq(Word), Len(n) >= 1, NEW k \in 0 .. Bits * (Len(n) - 1) - 1
  PROVE  Turned(n, k, k \div Bits, k % Bits)
<1> DEFINE b == Bits
           l == Len(n) - 1
           i == k \div b
           s == k % b
<1>1. b \in Nat /\ b >= 1 /\ l \in Nat
  BY TwosAre
<1> HIDE DEF b, l
<1>2. k \in Nat /\ k <= b * l - 1 /\ b * l \in Int
  BY <1>1 DEF b, l
<1>3. i \in Nat /\ s \in 0 .. b - 1 /\ k = b * i + s
  BY <1>1, <1>2
<1> HIDE DEF i, s
<1>4. i + 1 <= l
  <2> SUFFICES ASSUME i >= l PROVE FALSE
    BY <1>1, <1>3
  <2>1. b * (i - l) >= 0
    BY <1>1, <1>3
  <2>2. b * (i - l) = b * i - b * l
    BY <1>1, <1>3
  <2>3. b * i \in Int /\ b * l \in Int
    BY <1>1, <1>3
  <2> QED BY <1>2, <1>3, <2>1, <2>2, <2>3
<1>5. b * i = i * b
  BY <1>1, <1>3
<1>6. k = i * b + s
  BY <1>3, <1>5
<1>7. Len(n) >= 1 /\ i + 1 <= Len(n) - 1 /\ k \in Nat /\ i \in Nat
  BY <1>2, <1>3, <1>4 DEF l
<1> QED BY <1>3, <1>6, <1>7 DEF Turned, b, i, s

LEMMA LowBitsNext ==
  \A n, k, i, s : Turned(n, k, i, s) =>
    /\ (k \div Bits) = i /\ (k % Bits) = s /\ Bit(n, k) \in {0, 1}
    /\ LowBits(n, k) \in Nat /\ LowBits(n, k + 1) <= P(i + 1) - 1
    /\ LowBits(n, k + 1) = LowBits(n, k) + P(i) * (Power(2, s) * Bit(n, k))
<1> SUFFICES ASSUME NEW n, NEW k, NEW i, NEW s, Turned(n, k, i, s)
             PROVE  /\ (k \div Bits) = i /\ (k % Bits) = s /\ Bit(n, k) \in {0, 1}
                    /\ LowBits(n, k) \in Nat /\ LowBits(n, k + 1) <= P(i + 1) - 1
                    /\ LowBits(n, k + 1) = LowBits(n, k) + P(i) * (Power(2, s) * Bit(n, k))
  OBVIOUS
<1> DEFINE b == Bits
           B == Base
           S == Power(2, s)
           w == n[i + 1]
           v == Low(n)[i]
           I == P(i)
           y == w % S
           x == w % Power(2, s + 1)
           d == BitOf(w, s)
<1>1. /\ n \in Seq(Word) /\ Len(n) \in Nat /\ k \in Nat /\ i \in Nat /\ i + 1 <= Len(n) - 1
      /\ s \in 0 .. b - 1 /\ k = i * b + s /\ s \in Nat /\ b \in Nat \ {0} /\ b >= 1
  <2>1. /\ n \in Seq(Word) /\ k \in Nat /\ i \in Nat /\ i + 1 <= Len(n) - 1
        /\ s \in 0 .. b - 1 /\ k = i * b + s
    BY DEF Turned
  <2>2. b \in Nat \ {0} /\ b >= 1
    BY TwosAre
  <2> HIDE DEF b
  <2>3. Len(n) \in Nat /\ s \in Nat
    BY <2>1, <2>2
  <2> QED BY <2>1, <2>2, <2>3
<1>2. i \in 0 .. Len(n) /\ i + 1 \in 1 .. Len(n) /\ (i + 1) - 1 = i /\ i + 2 \in 1 .. Len(n)
      /\ i + 1 \in Nat /\ (i + 1) + 1 = i + 2
  BY <1>1
<1>3. w \in 0 .. B - 1 /\ w \in Nat /\ B \in Nat /\ B >= 4
  <2>1. w \in Word
    BY <1>1, <1>2
  <2> HIDE DEF w
  <2> QED BY <2>1, BaseIs DEF Word
<1>4. /\ v \in Nat /\ v <= I - 1 /\ Low(n)[i + 1] = v + w * I
  BY <1>1, <1>2, LowIs
<1>5. I \in Nat /\ I >= 1 /\ P(i + 1) = B * I
  BY <1>1, PIs
<1>6. S \in Nat /\ S >= 1 /\ Power(2, s + 1) = 2 * S /\ Power(2, b) = B
  BY <1>1, TwosAre
<1> HIDE DEF b, B, w, v, I
<1>7. (k \div b) = i /\ (k % b) = s
  BY ONLY <1>1, Divided
<1>8. LowBits(n, k) = v + I * y /\ Bit(n, k) = d
  BY <1>7 DEF LowBits, Bit, b, w, v, I
<1>9. d \in {0, 1} /\ x = y + S * d /\ y \in 0 .. S - 1
  BY <1>1, <1>3, OneMoreBit
<1>10. x \in 0 .. B - 1 /\ LowBits(n, k + 1) = v + I * x
  <2>1. CASE s + 1 < b
    <3> DEFINE Z == Power(2, s + 1)
    <3>1. x \in 0 .. Z - 1 /\ Z \in Nat
      <4>1. Z \in Nat /\ Z >= 1
        BY <1>6
      <4> HIDE DEF Z
      <4> QED BY <1>3, <4>1 DEF Z
    <3>2. Z <= B
      <4>1. s + 1 \in 0 .. b /\ 2 \in Nat /\ 2 >= 1
        BY <1>1
      <4> QED BY <1>1, <1>6, <4>1, PowerGrows
    <3>3. x \in 0 .. B - 1
      <4> HIDE DEF x, Z
      <4> QED BY <1>3, <3>1, <3>2
    <3>4. ((k + 1) \div b) = i /\ ((k + 1) % b) = s + 1
      <4> DEFINE m == k + 1
                 r == s + 1
      <4>1. m \in Nat /\ r \in Nat /\ r \in 0 .. b - 1 /\ m = i * b + r
        <5>1. i * b \in Int
          BY <1>1
        <5> QED BY <1>1, <2>1, <5>1
      <4> HIDE DEF m, r
      <4>2. (m \div b) = i /\ (m % b) = r
        BY ONLY <1>1, <4>1, Divided
      <4> QED BY <4>2 DEF m, r
    <3>5. LowBits(n, k + 1) = v + I * x
      BY <3>4 DEF LowBits, b, w, v, I
    <3> QED BY <3>3, <3>5
  <2>2. CASE s + 1 = b
    <3>1. x = w
      <4>1. Power(2, s + 1) = B
        BY <1>6, <2>2
      <4>2. (w % B) = w
        BY <1>3
      <4> QED BY <4>1, <4>2
    <3>2. ((k + 1) \div b) = i + 1 /\ ((k + 1) % b) = 0
      <4> DEFINE m == k + 1
                 j == i + 1
      <4>1. m \in Nat /\ j \in Nat /\ 0 \in Nat /\ 0 \in 0 .. b - 1 /\ m = j * b + 0
        <5>1. i * b \in Int /\ (i + 1) * b = i * b + b
          BY <1>1
        <5> QED BY <1>1, <2>2, <5>1
      <4> HIDE DEF m, j
      <4>2. (m \div b) = j /\ (m % b) = 0
        BY ONLY <1>1, <4>1, Divided
      <4> QED BY <4>2 DEF m, j
    <3> DEFINE z == n[i + 2]
    <3>3. z \in Nat
      <4>1. z \in Word
        BY <1>1, <1>2
      <4> HIDE DEF z
      <4> QED BY <4>1, BaseIs DEF Word
    <3>4. LowBits(n, k + 1) = Low(n)[i + 1] + P(i + 1) * (z % 1)
      <4>1. Power(2, 0) = 1
        BY TwosAre
      <4> QED BY <1>2, <3>2, <4>1 DEF LowBits, b
    <3> HIDE DEF z
    <3>5. (z % 1) = 0
      BY <3>3
    <3>6. P(i + 1) * 0 = 0
      <4>1. P(i + 1) \in Nat
        BY <1>2, PIs
      <4> QED BY <4>1
    <3>7. w * I \in Int /\ w * I = I * w
      BY <1>3, <1>5
    <3>8. LowBits(n, k + 1) = v + I * w
      BY <1>4, <3>4, <3>5, <3>6, <3>7
    <3> QED BY <1>3, <3>1, <3>8
  <2> QED BY <1>1, <2>1, <2>2
<1> HIDE DEF x, y, d, S
<1>11. LowBits(n, k) \in Nat
  <2>1. I * y \in Nat
    BY <1>5, <1>6, <1>9
  <2> QED BY <1>4, <1>8, <2>1
<1>12. LowBits(n, k + 1) <= P(i + 1) - 1
  <2>1. (B - 1 - x) * I >= 0
    BY <1>3, <1>5, <1>10
  <2>2. (B - 1 - x) * I = B * I - I - I * x
    BY <1>3, <1>5, <1>10
  <2>3. B * I \in Int /\ I * x \in Int
    BY <1>3, <1>5, <1>10
  <2> QED BY <1>4, <1>5, <1>10, <2>1, <2>2, <2>3
<1>13. LowBits(n, k + 1) = LowBits(n, k) + I * (S * d)
  <2>1. S * d \in Int /\ y \in Int
    BY <1>6, <1>9
  <2> DEFINE e == S * d
  <2> HIDE DEF e
  <2>2. I * (y + e) = I * y + I * e /\ I * y \in Int /\ I * e \in Int
    BY <1>5, <2>1 DEF e
  <2>3. x = y + e
    BY <1>9 DEF e
  <2>4. LowBits(n, k + 1) = (v + I * y) + I * e
    BY <1>4, <1>10, <2>2, <2>3
  <2> QED BY <1>8, <2>4 DEF e
<1> QED BY <1>7, <1>8, <1>9, <1>11, <1>12, <1>13 DEF b, I, S

Factors(n1, n2) ==
  /\ n1 \in Seq(Word) /\ n2 \in Seq(Word) /\ Len(n1) >= 2 /\ Len(n2) >= 2
  /\ N(n1) <= P(Len(n1) - 1)

Turns(n2) == Bits * (Len(n2) - 1)

Partial(n1, n2, r) == r \in Seq(Word) /\ Len(r) = Len(n1) + Len(n2) - 1

LEMMA TurnKeeps ==
  \A n1, n2 : Factors(n1, n2) =>
    \A r, k : Partial(n1, n2, r) /\ k \in 0 .. Turns(n2) - 1 =>
      Partial(n1, n2, Turn(n1, n2, r, k))
<1> SUFFICES ASSUME NEW n1, NEW n2, Factors(n1, n2), NEW r, NEW k,
                    Partial(n1, n2, r), k \in 0 .. Turns(n2) - 1
             PROVE  Partial(n1, n2, Turn(n1, n2, r, k))
  OBVIOUS
<1> DEFINE i == k \div Bits
           s == k % Bits
           q == Shifted(n1, s)
<1>1. /\ n1 \in Seq(Word) /\ n2 \in Seq(Word) /\ Len(n1) \in Nat /\ Len(n2) \in Nat
      /\ Len(n1) >= 2 /\ Len(n2) >= 2 /\ r \in Seq(Word) /\ Len(r) = Len(n1) + Len(n2) - 1
  BY DEF Factors, Partial
<1>2. Turned(n2, k, i, s)
  BY <1>1, TurnedIs DEF Turns
<1> HIDE DEF i, s
<1>3. i \in Nat /\ i + 1 <= Len(n2) - 1 /\ s \in 0 .. Bits - 1
  BY <1>2 DEF Turned
<1>4. q \in Seq(Word) /\ Len(q) = Len(n1)
  <2>1. PICK h : ShiftedBy(n1, s, q, h)
    BY <1>1, <1>3, ShiftedWords
  <2> QED BY <2>1 DEF ShiftedBy
<1> HIDE DEF q
<1>5. Placed(r, i, q)
  <2>1. i + Len(n1) <= Len(r) /\ Len(n1) >= 1
    BY <1>1, <1>3
  <2> QED BY <1>1, <1>3, <1>4, <2>1 DEF Placed
<1>6. PICK c : Window(r, i, q, AddedAt(r, i, q), c)
  BY <1>5, AddedAtWindow
<1>7. Partial(n1, n2, AddedAt(r, i, q))
  BY <1>1, <1>6 DEF Window, Partial
<1> QED BY <1>7 DEF Turn, i, s, q

LEMMA TurnIs ==
  \A n1, n2 : Factors(n1, n2) =>
    \A r, k : /\ Partial(n1, n2, r) /\ k \in 0 .. Turns(n2) - 1
              /\ N(r) = N(n1) * LowBits(n2, k)
              => N(Turn(n1, n2, r, k)) = N(n1) * LowBits(n2, k + 1)
<1> SUFFICES ASSUME NEW n1, NEW n2, Factors(n1, n2), NEW r, NEW k,
                    Partial(n1, n2, r), k \in 0 .. Turns(n2) - 1,
                    N(r) = N(n1) * LowBits(n2, k)
             PROVE  N(Turn(n1, n2, r, k)) = N(n1) * LowBits(n2, k + 1)
  OBVIOUS
<1> DEFINE i == k \div Bits
           s == k % Bits
           l == Len(n1)
           q == Shifted(n1, s)
           A == N(n1)
           S == Power(2, s)
           I == P(i)
           p == P(l - 1)
           x == LowBits(n2, k)
           y == LowBits(n2, k + 1)
           d == Bit(n2, k)
<1>1. /\ n1 \in Seq(Word) /\ n2 \in Seq(Word) /\ l \in Nat /\ Len(n2) \in Nat
      /\ l >= 2 /\ Len(n2) >= 2 /\ r \in Seq(Word) /\ Len(r) = l + Len(n2) - 1
      /\ A <= p /\ N(r) = A * x
  BY DEF Factors, Partial
<1>2. Turned(n2, k, i, s)
  BY <1>1, TurnedIs DEF Turns
<1> HIDE DEF i, s, l
<1>3. i \in Nat /\ i + 1 <= Len(n2) - 1 /\ s \in 0 .. Bits - 1
  BY <1>2 DEF Turned
<1>4. d \in {0, 1} /\ x \in Nat /\ y <= P(i + 1) - 1 /\ y = x + I * (S * d)
  BY <1>2, LowBitsNext
<1>5. /\ A \in Nat
      /\ p \in Nat /\ p >= 1 /\ P(l) = Base * p
      /\ I \in Nat /\ P(i + 1) \in Nat
      /\ P((l - 1) + (i + 1)) = p * P(i + 1)
  <2>1. A \in Nat
    BY <1>1, NIs
  <2>2. l - 1 \in Nat /\ (l - 1) + 1 = l /\ i + 1 \in Nat /\ i \in Nat
    BY <1>1, <1>3
  <2>3. p \in Nat /\ p >= 1 /\ P(l) = Base * p
    BY <2>2, PIs
  <2>4. I \in Nat /\ P(i + 1) \in Nat
    BY <2>2, PIs
  <2>5. P((l - 1) + (i + 1)) = p * P(i + 1)
    BY <2>2, PIs
  <2> QED BY <2>1, <2>3, <2>4, <2>5
<1>6. S \in Nat /\ S >= 1 /\ S <= Half
  <2>1. s \in Nat /\ Bits - 1 \in Nat /\ s \in 0 .. Bits - 1
    BY <1>3, TwosAre
  <2>2. S \in Nat /\ S >= 1
    BY <2>1, TwosAre
  <2>3. S <= Power(2, Bits - 1)
    <3>1. 2 \in Nat /\ 2 >= 1
      OBVIOUS
    <3> QED BY <2>1, <3>1, PowerGrows
  <2> QED BY <2>2, <2>3, WidthAssumption
<1>7. Turn(n1, n2, r, k) = IF d = 0 THEN r ELSE AddedAt(r, i, q)
  BY DEF Turn, i, s
<1> HIDE DEF A, S, I, p, x, y, d
<1>8. CASE d = 0
  <2>1. I * (S * 0) = 0
    BY <1>5, <1>6
  <2>2. y = x
    BY <1>4, <1>8, <2>1
  <2> QED BY <1>1, <1>7, <1>8, <2>2 DEF A, y
<1>9. CASE d = 1
  <2>1. S * A <= P(l) - 1
    <3>1. (Half - S) * A >= 0 /\ Half * (p - A) >= 0
      <4>1. Half - S \in Nat /\ p - A \in Nat /\ Half \in Nat
        BY <1>1, <1>5, <1>6, BaseIs
      <4> QED BY <1>5, <4>1
    <3>2. (Half - S) * A = Half * A - S * A /\ Half * (p - A) = Half * p - Half * A
      BY <1>5, <1>6, BaseIs
    <3>3. Half * A \in Int /\ S * A \in Int /\ Half * p \in Int
      BY <1>5, <1>6, BaseIs
    <3>4. Base * p = Half * p + Half * p /\ Half * p >= 1
      BY <1>5, BaseIs
    <3> DEFINE ha == Half * A
               sa == S * A
               hp == Half * p
    <3>5. sa <= hp /\ P(l) = hp + hp /\ hp >= 1 /\ hp \in Int /\ sa \in Int
      BY <1>5, <3>1, <3>2, <3>3, <3>4
    <3> HIDE DEF sa, hp
    <3>6. sa <= P(l) - 1
      BY <3>5
    <3> QED BY <3>6 DEF sa
  <2>2. Room(n1, s)
    BY <1>1, <1>3, <2>1 DEF Room, S, A, l
  <2>3. q \in Seq(Word) /\ Len(q) = l /\ N(q) = S * A
    BY <2>2, ShiftedIs DEF S, A, l
  <2> HIDE DEF q
  <2>4. A * x + I * (S * A) = A * y
    <3> DEFINE e == I * S
    <3>1. I * (S * 1) = e /\ I * (S * A) = A * e /\ e \in Nat
      BY <1>5, <1>6
    <3> HIDE DEF e
    <3>2. y = x + e
      BY <1>4, <1>9, <3>1
    <3>3. A * (x + e) = A * x + A * e
      BY <1>4, <1>5, <3>1
    <3> QED BY <3>1, <3>2, <3>3
  <2>5. N(r) + I * N(q) = A * y
    BY <1>1, <2>3, <2>4
  <2>6. A * y <= P(i + l) - 1
    <3> DEFINE t == P(i + 1)
    <3>1. t \in Nat /\ y <= t - 1 /\ y \in Nat
      <4>1. I * (S * d) \in Nat
        BY <1>5, <1>6, <1>9
      <4> QED BY <1>4, <1>5, <4>1
    <3>2. P(i + l) = p * t
      <4>1. (l - 1) + (i + 1) = i + l
        BY <1>1, <1>3
      <4> QED BY <1>5, <4>1
    <3> HIDE DEF t
    <3>3. (p - A) * y >= 0 /\ p * (t - 1 - y) >= 0
      BY <1>1, <1>5, <3>1
    <3>4. (p - A) * y = p * y - A * y /\ p * (t - 1 - y) = p * t - p - p * y
      BY <1>1, <1>5, <3>1
    <3>5. p * y \in Int /\ A * y \in Int /\ p * t \in Int
      BY <1>5, <3>1
    <3> QED BY <1>5, <3>2, <3>3, <3>4, <3>5
  <2>7. Fits(r, i, q)
    <3>1. i + l <= Len(r) /\ l >= 1
      BY <1>1, <1>3
    <3>2. Placed(r, i, q)
      BY <1>1, <1>3, <2>3, <3>1 DEF Placed
    <3> QED BY <2>3, <2>5, <2>6, <3>2 DEF Fits, I
  <2>8. N(AddedAt(r, i, q)) = N(r) + P(i) * N(q)
    BY <2>7, AddedAtIs
  <2>9. N(AddedAt(r, i, q)) = A * y
    BY <2>5, <2>8 DEF I
  <2> QED BY <1>7, <1>9, <2>9 DEF A, y
<1> QED BY <1>4, <1>8, <1>9

LEMMA ZeroIs == \A l \in Nat : Const(0, l) \in Seq(Word) /\ Len(Const(0, l)) = l /\ N(Const(0, l)) = 0
<1> SUFFICES ASSUME NEW l \in Nat
             PROVE  Const(0, l) \in Seq(Word) /\ Len(Const(0, l)) = l /\ N(Const(0, l)) = 0
  OBVIOUS
<1> DEFINE z == Const(0, l)
           v == Low(z)
           T == {k \in 0 .. l : v[k] = 0}
<1>1. z \in Seq(Word) /\ Len(z) = l /\ \A i \in 1 .. l : z[i] = 0
  BY BaseIs DEF Const
<1> HIDE DEF z
<1>2. v[0] = 0 /\ \A k \in 1 .. l : v[k] = v[k - 1] + z[k] * P(k - 1)
  BY <1>1, LowIs
<1> HIDE DEF v
<1>3. 0 \in T
  BY <1>2
<1>4. ASSUME NEW k \in 0 .. l - 1, k \in T PROVE k + 1 \in T
  <2>1. k \in Nat /\ k + 1 \in 1 .. l /\ k + 1 \in 0 .. l /\ (k + 1) - 1 = k
    OBVIOUS
  <2>2. v[k + 1] = v[k] + z[k + 1] * P(k) /\ v[k] = 0 /\ z[k + 1] = 0
    BY <1>1, <1>2, <1>4, <2>1
  <2>3. 0 * P(k) = 0
    <3>1. P(k) \in Nat
      BY <2>1, PIs
    <3> QED BY <3>1
  <2> QED BY <2>1, <2>2, <2>3
<1> HIDE DEF T
<1>5. l \in T
  <2>1. 0 .. l \subseteq T
    BY <1>3, <1>4, Induction
  <2> QED BY <2>1
<1>6. v[l] = 0
  BY <1>5 DEF T
<1> QED BY <1>1, <1>6 DEF z, v, N

LEMMA ProductIs ==
  \A n1, n2 : Factors(n1, n2) =>
    /\ Partial(n1, n2, Product(n1, n2))
    /\ N(Product(n1, n2)) = N(n1) * Low(n2)[Len(n2) - 1]
<1> SUFFICES ASSUME NEW n1, NEW n2, Factors(n1, n2)
             PROVE  /\ Partial(n1, n2, Product(n1, n2))
                    /\ N(Product(n1, n2)) = N(n1) * Low(n2)[Len(n2) - 1]
  OBVIOUS
<1> DEFINE n == Turns(n2)
           L == Len(n1) + Len(n2) - 1
           S == {r \in Seq(Word) : Len(r) = L}
           a == Const(0, L)
           g == [q \in (1 .. n) \X S |-> Turn(n1, n2, q[2], q[1] - 1)]
           p == CHOOSE q : q = [k \in 0 .. n |-> IF k = 0 THEN a ELSE Turn(n1, n2, q[k - 1], k - 1)]
<1>1. /\ n1 \in Seq(Word) /\ n2 \in Seq(Word) /\ Len(n1) \in Nat /\ Len(n2) \in Nat
      /\ Len(n1) >= 2 /\ Len(n2) >= 2 /\ L \in Nat
  BY DEF Factors
<1>2. n \in Nat
  <2> DEFINE l == Len(n2) - 1
  <2>1. l \in Nat /\ Bits \in Nat
    BY <1>1, TwosAre
  <2> HIDE DEF l
  <2>2. Bits * l \in Nat
    BY <2>1
  <2> QED BY <2>2 DEF Turns, l
<1>3. \A r : r \in S <=> Partial(n1, n2, r)
  BY DEF Partial
<1>4. a \in S /\ N(a) = 0
  BY <1>1, ZeroIs
<1> HIDE DEF L, S, a
<1>5. \A k \in 1 .. n, r \in S : Turn(n1, n2, r, k - 1) \in S
  <2> TAKE k \in 1 .. n, r \in S
  <2>1. k - 1 \in 0 .. n - 1
    BY <1>2
  <2> QED BY <1>3, <2>1, TurnKeeps
<1>6. g \in [(1 .. n) \X S -> S] /\ \A k \in 1 .. n, r \in S : g[<<k, r>>] = Turn(n1, n2, r, k - 1)
  <2> HIDE DEF n
  <2> QED BY <1>5
<1> HIDE DEF g, n
<1>7. PICK f \in [0 .. n -> S] : f[0] = a /\ \A k \in 1 .. n : f[k] = g[<<k, f[k - 1]>>]
  <2>1. Steps(n, S, a, g)
    BY <1>2, <1>4, <1>6 DEF Steps
  <2>2. \E f : Stepwise(n, S, a, g, f)
    BY ONLY <2>1, Recursion
  <2> QED BY <2>2 DEF Stepwise
<1>8. f = [k \in 0 .. n |-> IF k = 0 THEN a ELSE Turn(n1, n2, f[k - 1], k - 1)]
  <2>1. \A k \in 1 .. n : f[k] = Turn(n1, n2, f[k - 1], k - 1)
    <3> TAKE k \in 1 .. n
    <3>1. f[k - 1] \in S
      BY <1>2, <1>7
    <3> QED BY <1>6, <1>7, <3>1
  <2> QED BY <1>2, <1>7, <2>1
<1>9. p = [k \in 0 .. n |-> IF k = 0 THEN a ELSE Turn(n1, n2, p[k - 1], k - 1)]
  BY <1>8, Zenon
<1>10. Product(n1, n2) = p[n]
  BY DEF Product, Turns, n, a, L
<1> HIDE DEF p
<1>11. p[0] = a /\ \A k \in 1 .. n : p[k] = Turn(n1, n2, p[k - 1], k - 1)
  <2>1. \A k \in 0 .. n : p[k] = IF k = 0 THEN a ELSE Turn(n1, n2, p[k - 1], k - 1)
    BY ONLY <1>9
  <2>2. 0 \in 0 .. n /\ \A k \in 1 .. n : k \in 0 .. n /\ k # 0
    BY <1>2
  <2> QED BY ONLY <2>1, <2>2
<1> DEFINE T == {k \in 0 .. n : p[k] \in S /\ N(p[k]) = N(n1) * LowBits(n2, k)}
<1>12. 0 \in T
  <2>1. LowBits(n2, 0) = 0
    BY <1>1, LowBitsStart
  <2>2. N(n1) \in Nat
    BY <1>1, NIs
  <2>3. N(n1) * 0 = 0
    BY <2>2
  <2> QED BY <1>2, <1>4, <1>11, <2>1, <2>3
<1>13. ASSUME NEW k \in 0 .. n - 1, k \in T PROVE k + 1 \in T
  <2>1. k + 1 \in 1 .. n /\ k + 1 \in 0 .. n /\ (k + 1) - 1 = k
    BY <1>2
  <2>2. p[k + 1] = Turn(n1, n2, p[k], k)
    BY <1>11, <2>1
  <2>3. p[k] \in S /\ N(p[k]) = N(n1) * LowBits(n2, k)
    BY <1>13
  <2>4. k \in 0 .. Turns(n2) - 1 /\ Partial(n1, n2, p[k])
    BY <1>3, <2>3 DEF n
  <2>5. N(Turn(n1, n2, p[k], k)) = N(n1) * LowBits(n2, k + 1)
    BY <2>3, <2>4, TurnIs
  <2>6. Partial(n1, n2, Turn(n1, n2, p[k], k))
    BY <2>4, TurnKeeps
  <2> QED BY <1>3, <2>1, <2>2, <2>5, <2>6
<1> HIDE DEF T
<1>14. n \in T
  <2>1. 0 .. n \subseteq T
    BY <1>2, <1>12, <1>13, Induction
  <2> QED BY <1>2, <2>1
<1>15. LowBits(n2, n) = Low(n2)[Len(n2) - 1]
  BY <1>1, LowBitsStart DEF n, Turns
<1> QED BY <1>3, <1>10, <1>14, <1>15 DEF T
-----------------------------------------------------------------------------
(* Words with the same bits are the same word.                             *)

LEMMA SameBits ==
  ASSUME NEW x \in Word, NEW y \in Word, \A k \in 0 .. Bits - 1 : BitOf(x, k) = BitOf(y, k)
  PROVE  x = y
<1> DEFINE b == Bits
           T == {k \in 0 .. b : (x % Power(2, k)) = (y % Power(2, k))}
<1>1. b \in Nat /\ Power(2, 0) = 1 /\ Power(2, b) = Base
  BY TwosAre
<1>2. x \in Nat /\ y \in Nat /\ x \in 0 .. Base - 1 /\ y \in 0 .. Base - 1
  BY BaseIs DEF Word
<1>3. 0 \in T
  <2>1. (x % 1) = 0 /\ (y % 1) = 0
    BY <1>2
  <2> QED BY <1>1, <2>1
<1>4. ASSUME NEW k \in 0 .. b - 1, k \in T PROVE k + 1 \in T
  <2>1. k \in Nat /\ k + 1 \in 0 .. b /\ k \in 0 .. Bits - 1
    BY <1>1
  <2>2. BitOf(x, k) = BitOf(y, k)
    BY <2>1
  <2>3. (x % Power(2, k)) = (y % Power(2, k))
    BY <1>4
  <2>4. (x % Power(2, k + 1)) = (x % Power(2, k)) + Power(2, k) * BitOf(x, k)
    BY <1>2, <2>1, OneMoreBit
  <2>5. (y % Power(2, k + 1)) = (y % Power(2, k)) + Power(2, k) * BitOf(y, k)
    BY <1>2, <2>1, OneMoreBit
  <2>6. (x % Power(2, k + 1)) = (y % Power(2, k + 1))
    BY <2>2, <2>3, <2>4, <2>5
  <2> QED BY <2>1, <2>6
<1> HIDE DEF T
<1>5. b \in T
  <2>1. 0 .. b \subseteq T
    BY <1>1, <1>3, <1>4, Induction
  <2> QED BY <1>1, <2>1
<1>6. (x % Base) = (y % Base)
  BY <1>1, <1>5 DEF T
<1>7. (x % Base) = x /\ (y % Base) = y
  BY <1>2, BaseIs
<1> QED BY <1>6, <1>7

LEMMA FromBitsIs ==
  ASSUME NEW w \in Word, NEW f, \A k \in 0 .. Bits - 1 : BitOf(w, k) = f[k]
  PROVE  FromBits(f) = w
<1> DEFINE x == FromBits(f)
<1>1. x \in Word /\ \A k \in 0 .. Bits - 1 : BitOf(x, k) = f[k]
  BY DEF FromBits
<1> HIDE DEF x
<1>2. \A k \in 0 .. Bits - 1 : BitOf(x, k) = BitOf(w, k)
  BY <1>1
<1>3. x = w
  BY <1>1, <1>2, SameBits
<1> QED BY <1>3 DEF x

LEMMA BitsOfSigns ==
  ASSUME NEW k \in 0 .. Bits - 1
  PROVE  BitOf(0, k) = 0 /\ BitOf(Ones, k) = 1
<1> DEFINE X == Power(2, k)
           Y == Power(2, Bits - (k + 1))
           q == 2 * Y - 1
<1>1. X \in Nat /\ X >= 1 /\ Y \in Nat /\ Y >= 1 /\ (2 * X) * Y = Base
  <2>1. Bits \in Nat /\ k \in Nat /\ k + 1 \in 0 .. Bits /\ Bits - (k + 1) \in Nat
    BY TwosAre
  <2>2. X \in Nat /\ X >= 1 /\ Power(2, k + 1) = 2 * X
    BY <2>1, TwosAre
  <2>3. Y \in Nat /\ Y >= 1
    BY <2>1, TwosAre
  <2>4. Power(2, k + 1) * Y = Base
    BY <2>1, TwosAre
  <2> QED BY <2>2, <2>3, <2>4
<1> HIDE DEF X, Y
<1>2. (0 \div X) = 0 /\ (0 % 2) = 0
  BY <1>1
<1>3. BitOf(0, k) = 0
  BY <1>2 DEF BitOf, X
<1>4. q \in Nat /\ (q % 2) = 1
  <2>1. q = 2 * (Y - 1) + 1 /\ Y - 1 \in Nat
    BY <1>1
  <2> QED BY <1>1, <2>1
<1>5. Ones = q * X + (X - 1)
  <2>1. q * X = (2 * X) * Y - X
    BY <1>1
  <2>2. q * X \in Int
    BY <1>1, <1>4
  <2> QED BY <1>1, <2>1, <2>2, BaseIs
<1>6. (Ones \div X) = q
  <2> DEFINE r == X - 1
  <2>1. r \in Nat /\ r \in 0 .. X - 1 /\ X \in Nat \ {0} /\ Ones \in Nat /\ Ones = q * X + r
    BY <1>1, <1>5, BaseIs
  <2> HIDE DEF r, q
  <2> QED BY <1>4, <2>1, Divided
<1>7. BitOf(Ones, k) = 1
  BY <1>4, <1>6 DEF BitOf, X
<1> QED BY <1>3, <1>7

LEMMA XorIs ==
  ASSUME NEW x \in {0, Ones}, NEW y \in {0, Ones}
  PROVE  Xor(x, y) = IF x = y THEN 0 ELSE Ones
<1> DEFINE f == [k \in 0 .. Bits - 1 |-> IF BitOf(x, k) = BitOf(y, k) THEN 0 ELSE 1]
           w == IF x = y THEN 0 ELSE Ones
<1>1. w \in Word
  BY BaseIs
<1>2. ASSUME NEW k \in 0 .. Bits - 1 PROVE BitOf(w, k) = f[k]
  <2>1. BitOf(0, k) = 0 /\ BitOf(Ones, k) = 1
    BY BitsOfSigns
  <2>2. f[k] = IF BitOf(x, k) = BitOf(y, k) THEN 0 ELSE 1
    OBVIOUS
  <2>3. CASE x = y
    BY <2>1, <2>2, <2>3
  <2>4. CASE x # y
    <3>1. BitOf(x, k) # BitOf(y, k)
      BY <2>1, <2>4
    <3> QED BY <2>1, <2>2, <2>4, <3>1
  <2> QED BY <2>3, <2>4
<1> HIDE DEF w
<1>3. FromBits(f) = w
  <2> HIDE DEF f
  <2> QED BY <1>1, <1>2, FromBitsIs
<1> QED BY <1>3 DEF Xor, w
-----------------------------------------------------------------------------
(* Factors and products.                                                   *)

LEMMA TopIs ==
  ASSUME NEW n \in Seq(Word), Len(n) >= 1
  PROVE  LET l == Len(n) - 1
         IN  /\ l \in Nat /\ P(l) \in Nat /\ P(l) >= 1
             /\ Low(n)[l] \in Nat /\ Low(n)[l] <= P(l) - 1
             /\ N(n) = Low(n)[l] + n[Len(n)] * P(l) /\ n[Len(n)] \in Nat
             /\ Under(n, 0)[l] = Low(n)[l] /\ Under(n, 1)[l] = Low(n)[l] + P(l)
<1> DEFINE l == Len(n) - 1
           v == Low(n)[l]
           w == n[Len(n)]
<1>1. l \in Nat /\ l \in 0 .. Len(n) /\ Len(n) \in 1 .. Len(n) /\ Len(n) \in Nat
  OBVIOUS
<1>2. P(l) \in Nat /\ P(l) >= 1
  BY <1>1, PIs
<1>3. v \in Nat /\ v <= P(l) - 1
  BY <1>1, LowIs
<1>4. N(n) = v + w * P(l)
  BY <1>1, LowIs DEF N
<1>5. w \in Nat
  <2>1. w \in Word
    BY <1>1
  <2> HIDE DEF w
  <2> QED BY <2>1, BaseIs DEF Word
<1>6. Under(n, 0)[l] = v + 0 * P(l) /\ Under(n, 1)[l] = v + 1 * P(l)
  <2>1. 0 \in Int /\ 1 \in Int
    OBVIOUS
  <2> QED BY <2>1, UnderLow
<1>7. 0 * P(l) = 0 /\ 1 * P(l) = P(l)
  BY <1>2
<1>8. v + 0 = v
  BY <1>3
<1> QED BY <1>1, <1>2, <1>3, <1>4, <1>5, <1>6, <1>7, <1>8

LEMMA PositiveIs ==
  ASSUME NEW n, WellFormed(n), Sgn(n) = 0
  PROVE  /\ Value(n) = N(n) /\ N(n) = Low(n)[Len(n) - 1]
         /\ N(n) \in Nat /\ N(n) <= P(Len(n) - 1)
<1> DEFINE l == Len(n) - 1
           v == Low(n)[l]
<1>1. n \in Seq(Word) /\ Len(n) \in Nat /\ Len(n) >= 2 /\ n[Len(n)] = 0 /\ Value(n) = Under(n, Top(n))[l]
  BY WellFormedIs
<1>2. Top(n) = 0
  BY DEF Top
<1>3. /\ P(l) \in Nat /\ v \in Nat /\ v <= P(l) - 1
      /\ N(n) = v + 0 * P(l) /\ Under(n, 0)[l] = v
  BY <1>1, TopIs
<1> HIDE DEF v, l
<1>4. N(n) = v /\ v <= P(l)
  BY <1>3
<1> QED BY <1>1, <1>2, <1>3, <1>4 DEF v, l

Positive(v) == IF v < 0 THEN -v ELSE v

LEMMA MagnitudeIs ==
  ASSUME NEW n, WellFormed(n)
  PROVE  LET m == Magnitude(n)
         IN  /\ m \in Seq(Word) /\ Len(m) >= 2
             /\ N(m) = Positive(Value(n)) /\ N(m) <= P(Len(m) - 1)
             /\ ~Lowest(n) => Low(m)[Len(m) - 1] = N(m)
<1>1. n \in Seq(Word) /\ Len(n) \in Nat /\ Len(n) >= 2 /\ Value(n) \in Int /\ (Sgn(n) # 0 <=> Value(n) < 0)
  BY WellFormedIs, SignIs
<1>2. CASE Sgn(n) = 0
  <2>1. Magnitude(n) = n
    BY <1>2 DEF Magnitude
  <2>2. Positive(Value(n)) = Value(n)
    BY <1>1, <1>2 DEF Positive
  <2> QED BY <1>1, <1>2, <2>1, <2>2, PositiveIs
<1>3. CASE Sgn(n) # 0 /\ ~Lowest(n)
  <2> DEFINE m == num_negate(n)
  <2>1. Magnitude(n) = m
    BY <1>3 DEF Magnitude
  <2>2. WellFormed(m) /\ Value(m) = -Value(n)
    BY <1>3, NegateIs
  <2> HIDE DEF m
  <2>3. m \in Seq(Word) /\ Len(m) >= 2 /\ (Sgn(m) # 0 <=> Value(m) < 0)
    BY <2>2, WellFormedIs, SignIs
  <2>4. Sgn(m) = 0
    BY <1>1, <1>3, <2>2, <2>3
  <2>5. Positive(Value(n)) = Value(m)
    BY <1>1, <1>3, <2>2 DEF Positive
  <2> QED BY <2>1, <2>2, <2>3, <2>4, <2>5, PositiveIs
<1>4. CASE Sgn(n) # 0 /\ Lowest(n)
  <2> DEFINE m == num_negate(n)
             l == Len(n) - 1
             v == Low(m)[l]
  <2>1. Magnitude(n) = m
    BY <1>4 DEF Magnitude
  <2>2. /\ m \in Seq(Word) /\ Len(m) = Len(n) /\ m[Len(n)] = 1
        /\ Under(m, 1)[l] = -Value(n) /\ \A i \in 1 .. Len(n) - 1 : m[i] = 0
    BY <1>4, LowestIs
  <2> HIDE DEF m
  <2>3. /\ N(m) = v + 1 * P(l) /\ Under(m, 1)[l] = v + P(l)
        /\ v \in Nat /\ P(l) \in Nat
    BY <1>1, <2>2, TopIs
  <2>4. v = 0
    <3> DEFINE z == Const(0, Len(n))
    <3>1. z \in Seq(Word) /\ Len(z) = Len(n) /\ N(z) = 0
      BY <1>1, ZeroIs
    <3>2. \A i \in 1 .. Len(n) : z[i] = 0
      BY <1>1 DEF Const
    <3> HIDE DEF z
    <3>3. Low(z)[Len(n)] = 0
      BY <3>1 DEF N
    <3>4. Low(z)[l] <= 0 /\ Low(z)[l] \in Nat
      <4>1. l \in 0 .. Len(n) /\ Len(n) \in 0 .. Len(n)
        BY <1>1
      <4>2. Low(z)[l] <= Low(z)[Len(n)]
        BY <3>1, <4>1, LowGrows
      <4>3. Low(z)[l] \in Nat
        BY <3>1, <4>1, LowIs
      <4> QED BY <3>3, <4>2, <4>3
    <3>5. Shared(m, z, 0, l)
      <4>1. 0 \in Nat /\ l \in Nat /\ 0 <= l /\ l <= Len(m) /\ l <= Len(z)
            /\ \A i \in 0 + 1 .. l : i \in 1 .. Len(n) - 1 /\ i \in 1 .. Len(n)
        BY <1>1, <2>2, <3>1
      <4>2. \A i \in 0 + 1 .. l : m[i] = z[i]
        BY <2>2, <3>2, <4>1
      <4> QED BY <2>2, <3>1, <4>1, <4>2 DEF Shared
    <3>6. v - Low(m)[0] = Low(z)[l] - Low(z)[0]
      BY <3>5, LowShared
    <3>7. Low(m)[0] = 0 /\ Low(z)[0] = 0
      BY <2>2, <3>1, LowIs
    <3> QED BY <2>3, <3>4, <3>6, <3>7
  <2> HIDE DEF v
  <2>5. N(m) = P(l) /\ -Value(n) = P(l)
    BY <2>2, <2>3, <2>4
  <2>6. Positive(Value(n)) = P(l)
    BY <1>1, <1>4, <2>5 DEF Positive
  <2>7. N(m) <= P(Len(m) - 1)
    BY <2>2, <2>3, <2>5
  <2> QED BY <1>1, <1>4, <2>1, <2>2, <2>5, <2>6, <2>7
<1> QED BY <1>2, <1>3, <1>4

(* A product has room for its words, and a sign word of 0.                 *)
LEMMA ProductWorth ==
  \A n1, n2 : Factors(n1, n2) =>
    LET p == Product(n1, n2)
    IN  WellFormed(p) /\ Sgn(p) = 0 /\ Value(p) = N(n1) * Low(n2)[Len(n2) - 1]
<1> SUFFICES ASSUME NEW n1, NEW n2, Factors(n1, n2)
             PROVE  LET p == Product(n1, n2)
                    IN  WellFormed(p) /\ Sgn(p) = 0 /\ Value(p) = N(n1) * Low(n2)[Len(n2) - 1]
  OBVIOUS
<1> DEFINE p == Product(n1, n2)
           A == N(n1)
           B == Low(n2)[Len(n2) - 1]
           a == P(Len(n1) - 1)
           b == P(Len(n2) - 1)
           l == Len(p) - 1
           c == P(l)
           v == Low(p)[l]
           w == p[Len(p)]
<1>1. /\ n1 \in Seq(Word) /\ n2 \in Seq(Word) /\ Len(n1) \in Nat /\ Len(n2) \in Nat
      /\ Len(n1) >= 2 /\ Len(n2) >= 2 /\ A <= a
  BY DEF Factors
<1>2. p \in Seq(Word) /\ Len(p) = Len(n1) + Len(n2) - 1 /\ N(p) = A * B
  BY ProductIs DEF Partial
<1> HIDE DEF p
<1>3. Len(p) \in Nat /\ Len(p) >= 3 /\ l = (Len(n1) - 1) + (Len(n2) - 1)
  BY <1>1, <1>2
<1>4. A \in Nat /\ a \in Nat /\ a >= 1 /\ b \in Nat /\ b >= 1 /\ B \in Nat /\ B <= b - 1
  <2>1. A \in Nat
    BY <1>1, NIs
  <2>2. a \in Nat /\ a >= 1
    BY <1>1, TopIs
  <2>3. b \in Nat /\ b >= 1 /\ B \in Nat /\ B <= b - 1
    BY <1>1, TopIs
  <2> QED BY <2>1, <2>2, <2>3
<1>5. c = a * b
  <2> DEFINE i == Len(n1) - 1
             j == Len(n2) - 1
  <2>1. i \in Nat /\ j \in Nat /\ l = i + j
    BY <1>1, <1>3
  <2> HIDE DEF i, j, l
  <2>2. P(i + j) = P(i) * P(j)
    BY <2>1, PIs
  <2> QED BY <2>1, <2>2 DEF i, j
<1>6. c \in Nat /\ v \in Nat /\ N(p) = v + w * c /\ w \in Nat /\ Under(p, 0)[l] = v
  <2>1. Len(p) >= 1
    BY <1>3
  <2> QED BY <1>2, <2>1, TopIs
<1> HIDE DEF A, B, a, b, c, v, w
<1>7. A * B <= c - 1
  <2>1. (a - A) * B >= 0 /\ a * (b - 1 - B) >= 0
    <3>1. a - A \in Nat /\ b - 1 - B \in Nat
      BY <1>1, <1>4
    <3> QED BY <1>4, <3>1
  <2>2. (a - A) * B = a * B - A * B /\ a * (b - 1 - B) = a * b - a - a * B
    BY <1>4
  <2>3. a * B \in Int /\ A * B \in Int /\ a * b \in Int
    BY <1>4
  <2> QED BY <1>4, <1>5, <2>1, <2>2, <2>3
<1>8. w = 0
  <2> SUFFICES ASSUME w >= 1 PROVE FALSE
    BY <1>6
  <2>1. w * c >= c /\ w * c \in Int
    BY <1>6
  <2> QED BY <1>2, <1>4, <1>6, <1>7, <2>1
<1>9. v = A * B
  <2>1. 0 * c = 0
    BY <1>6
  <2> QED BY <1>2, <1>6, <1>8, <2>1
<1>10. WellFormed(p) /\ Sgn(p) = 0
  BY <1>2, <1>3, <1>8 DEF WellFormed, Sgn, Last, w
<1>11. Value(p) = v
  <2>1. Top(p) = 0
    BY <1>10 DEF Top
  <2> QED BY <1>6, <1>10, <2>1, WellFormedIs
<1> QED BY <1>9, <1>10, <1>11 DEF p, A, B

LEMMA WithSignIs ==
  ASSUME NEW p, WellFormed(p), Sgn(p) = 0, NEW w \in {0, Ones}
  PROVE  /\ WellFormed(WithSign(p, w))
         /\ Value(WithSign(p, w)) = IF w = 0 THEN Value(p) ELSE -Value(p)
<1>1. p \in Seq(Word) /\ Len(p) \in Nat /\ Len(p) >= 2 /\ p[Len(p)] = 0 /\ Top(p) = 0
      /\ Value(p) = Under(p, 0)[Len(p) - 1] /\ Value(p) \in Nat
  BY WellFormedIs, PositiveIs DEF Top
<1>2. CASE w = 0
  <2>1. WithSign(p, w) = Trim(p, 0)
    BY <1>2 DEF WithSign
  <2>2. WellFormed(Trim(p, 0)) /\ Value(Trim(p, 0)) = Under(p, 0)[Len(p) - 1]
    BY <1>1, TrimIs
  <2> QED BY <1>1, <1>2, <2>1, <2>2
<1>3. CASE w = Ones
  <2> DEFINE m == num_negate(p)
  <2>0. Ones # 0
    BY BaseIs
  <2>1. WithSign(p, w) = Trim(m, Ones)
    BY <1>3, <2>0 DEF WithSign
  <2>2. WellFormed(m) /\ Value(m) = -Value(p)
    BY NegateIs DEF Lowest, Negative
  <2> HIDE DEF m
  <2>3. m \in Seq(Word) /\ Len(m) \in Nat /\ Len(m) >= 2 /\ m[Len(m)] = Sgn(m) /\ Sgn(m) \in {0, Ones}
        /\ Value(m) = Under(m, Top(m))[Len(m) - 1] /\ (Sgn(m) # 0 <=> Value(m) < 0)
    BY <2>2, WellFormedIs, SignIs
  <2>4. CASE Sgn(m) = Ones
    <3>1. WellFormed(Trim(m, Ones)) /\ Value(Trim(m, Ones)) = Under(m, -1)[Len(m) - 1]
      BY <2>0, <2>3, <2>4, TrimIs
    <3>2. Top(m) = -1
      BY <2>0, <2>4 DEF Top
    <3> QED BY <1>3, <2>0, <2>1, <2>2, <2>3, <3>1, <3>2
  <2>5. CASE Sgn(m) = 0
    <3> DEFINE l == Len(m) - 1
    <3>1. Value(m) = 0 /\ Value(p) = 0
      BY <1>1, <2>2, <2>3, <2>5
    <3>2. Low(m)[l] = 0
      BY <2>2, <2>5, <3>1, PositiveIs
    <3>3. m[l] = 0
      <4> DEFINE a == P(l - 1)
                 x == m[l]
                 y == Low(m)[l - 1]
      <4>1. l \in 1 .. Len(m) /\ l - 1 \in Nat /\ l - 1 \in 0 .. Len(m)
        BY <2>3
      <4>2. Low(m)[l] = y + x * a
        BY <2>3, <4>1, LowIs
      <4>3. y \in Nat
        BY <2>3, <4>1, LowIs
      <4>4. a \in Nat /\ a >= 1
        BY <4>1, PIs
      <4>5. x \in Nat
        <5>1. x \in Word
          BY <2>3, <4>1
        <5> HIDE DEF x
        <5> QED BY <5>1, BaseIs DEF Word
      <4> HIDE DEF a, x, y
      <4>6. x * a = 0 /\ x * a \in Nat
        <5>1. x * a \in Nat
          BY <4>4, <4>5
        <5> QED BY <3>2, <4>2, <4>3, <5>1
      <4>7. x = 0
        BY <4>4, <4>5, <4>6
      <4> QED BY <4>7 DEF x
    <3>4. Trim(m, Ones) = m
      <4> DEFINE Fits2(s) == (\A i \in s .. Len(m) - 1 : m[i] = Ones) /\ (s = 2 \/ m[s - 1] # Ones)
                 size == CHOOSE s \in 2 .. Len(m) :
                           /\ \A i \in s .. Len(m) - 1 : m[i] = Ones
                           /\ s = 2 \/ m[s - 1] # Ones
      <4>1. Len(m) \in 2 .. Len(m) /\ Fits2(Len(m))
        BY <2>0, <2>3, <3>3
      <4>2. size \in 2 .. Len(m) /\ Fits2(size)
        BY <4>1
      <4>3. Trim(m, Ones) = SubSeq(m, 1, size)
        BY DEF Trim
      <4> HIDE DEF size
      <4>4. size = Len(m)
        <5> SUFFICES ASSUME size # Len(m) PROVE FALSE
          OBVIOUS
        <5>1. l \in size .. Len(m) - 1
          BY <2>3, <4>2
        <5>2. m[l] = Ones
          BY <4>2, <5>1
        <5> QED BY <2>0, <3>3, <5>2
      <4>5. SubSeq(m, 1, Len(m)) = m
        <5> DEFINE q == SubSeq(m, 1, Len(m))
        <5>1. q \in Seq(Word) /\ Len(q) = Len(m) /\ \A i \in 1 .. Len(m) : q[i] = m[i]
          <6>1. \A i \in 1 .. Len(m) : m[i] \in Word
            BY <2>3
          <6> QED BY <2>3, <6>1, SubSeqProperties
        <5> HIDE DEF q
        <5>2. q = m
          BY <2>3, <5>1, SeqEqual
        <5> QED BY <5>2 DEF q
      <4> QED BY <4>3, <4>4, <4>5
    <3> QED BY <1>3, <2>0, <2>1, <2>2, <3>1, <3>4
  <2> QED BY <2>3, <2>4, <2>5
<1> QED BY <1>2, <1>3

LEMMA SignsMultiply ==
  ASSUME NEW a \in Int, NEW b \in Int
  PROVE  a * b = IF a < 0 <=> b < 0 THEN Positive(a) * Positive(b) ELSE -(Positive(a) * Positive(b))
<1>1. (-a) * (-b) = a * b /\ (-a) * b = -(a * b) /\ a * (-b) = -(a * b) /\ a * b \in Int
  OBVIOUS
<1> DEFINE x == -a
           y == -b
           z == a * b
<1>2. x * y = z /\ x * b = -z /\ a * y = -z /\ z \in Int
  BY <1>1
<1>3. -(-z) = z
  BY <1>2
<1> HIDE DEF z
<1>4. Positive(a) = (IF a < 0 THEN x ELSE a) /\ Positive(b) = IF b < 0 THEN y ELSE b
  BY DEF Positive
<1> HIDE DEF x, y
<1>5. z = IF a < 0 <=> b < 0 THEN Positive(a) * Positive(b) ELSE -(Positive(a) * Positive(b))
  <2>1. CASE a < 0 /\ b < 0
    <3>1. Positive(a) * Positive(b) = x * y
      BY <1>4, <2>1
    <3> QED BY <1>2, <2>1, <3>1
  <2>2. CASE a < 0 /\ ~(b < 0)
    <3>1. Positive(a) * Positive(b) = x * b
      BY <1>4, <2>2
    <3> QED BY <1>2, <1>3, <2>2, <3>1
  <2>3. CASE ~(a < 0) /\ b < 0
    <3>1. Positive(a) * Positive(b) = a * y
      BY <1>4, <2>3
    <3> QED BY <1>2, <1>3, <2>3, <3>1
  <2>4. CASE ~(a < 0) /\ ~(b < 0)
    <3>1. Positive(a) * Positive(b) = z
      BY <1>4, <2>4 DEF z
    <3> QED BY <2>4, <3>1
  <2> QED BY <2>1, <2>2, <2>3, <2>4
<1> QED BY <1>5 DEF z

LEMMA ZeroWordsAre ==
  WellFormed(<<0, 0>>) /\ Value(<<0, 0>>) = 0
<1>1. Const(0, 2) = <<0, 0>>
  BY DEF Const
<1>2. WellFormed(<<0, 0>>) /\ Sgn(<<0, 0>>) = 0
  BY BaseIs DEF WellFormed, Sgn, Last
<1>3. N(<<0, 0>>) = 0
  <2>1. 2 \in Nat
    OBVIOUS
  <2>2. N(Const(0, 2)) = 0
    BY <2>1, ZeroIs
  <2> QED BY <1>1, <2>2
<1> QED BY <1>2, <1>3, PositiveIs

(* A number that counts as zero is zero, unless it is a lowest one.        *)
LEMMA IsZeroIs ==
  ASSUME NEW n, WellFormed(n), IsZero(n), ~(Lowest(n) /\ Len(n) = 2)
  PROVE  Value(n) = 0
<1>1. n \in Seq(Word) /\ Len(n) = 2 /\ n[1] = 0
  BY WellFormedIs DEF IsZero
<1>2. Sgn(n) = 0
  <2>1. ~Lowest(n)
    BY <1>1
  <2>2. \A i \in 1 .. Len(n) - 1 : n[i] = 0
    BY <1>1
  <2> QED BY <2>1, <2>2 DEF Lowest, Negative
<1>3. n = <<0, 0>>
  <2>1. n[2] = 0
    BY <1>1, <1>2, WellFormedIs
  <2>2. <<0, 0>> \in Seq(Word) /\ Len(<<0, 0>>) = 2
    BY BaseIs
  <2> QED BY <1>1, <2>1, <2>2, SeqEqual
<1> QED BY <1>3, ZeroWordsAre

LEMMA ShorterIs ==
  ASSUME NEW x, WellFormed(x), NEW y, WellFormed(y)
  PROVE  LET n1 == Shorter(y, x)
             n2 == Longer(y, x)
         IN  WellFormed(n1) /\ WellFormed(n2) /\ Value(n1) * Value(n2) = Value(x) * Value(y)
<1>1. Value(x) \in Int /\ Value(y) \in Int
  BY WellFormedIs
<1>2. Value(y) * Value(x) = Value(x) * Value(y)
  BY <1>1
<1> QED BY <1>2 DEF Shorter, Longer

LEMMA MulIs ==
  ASSUME NEW n1, WellFormed(n1), NEW n2, WellFormed(n2), ~Spoils(n1, n2)
  PROVE  LET r == IF IsZero(n1) THEN <<0, 0>>
                  ELSE WithSign(Product(Magnitude(n1), Magnitude(n2)), Xor(Sgn(n1), Sgn(n2)))
         IN  WellFormed(r) /\ Value(r) = Value(n1) * Value(n2)
<1> DEFINE m1 == Magnitude(n1)
           m2 == Magnitude(n2)
           p == Product(m1, m2)
           w == Xor(Sgn(n1), Sgn(n2))
           a == Value(n1)
           b == Value(n2)
<1>1. /\ a \in Int /\ b \in Int /\ Sgn(n1) \in {0, Ones} /\ Sgn(n2) \in {0, Ones}
      /\ (Sgn(n1) # 0 <=> a < 0) /\ (Sgn(n2) # 0 <=> b < 0)
  BY WellFormedIs, SignIs
<1>2. ~Lowest(n2) /\ ~(Lowest(n1) /\ Len(n1) = 2)
  BY DEF Spoils
<1>3. CASE IsZero(n1)
  <2>1. a = 0
    BY <1>2, <1>3, IsZeroIs
  <2>2. a * b = 0
    BY <1>1, <2>1
  <2> QED BY <1>3, <2>2, ZeroWordsAre
<1>4. CASE ~IsZero(n1)
  <2>1. /\ m1 \in Seq(Word) /\ Len(m1) >= 2 /\ N(m1) = Positive(a) /\ N(m1) <= P(Len(m1) - 1)
        /\ m2 \in Seq(Word) /\ Len(m2) >= 2 /\ Low(m2)[Len(m2) - 1] = Positive(b)
    BY <1>2, MagnitudeIs
  <2> HIDE DEF m1, m2
  <2>2. Factors(m1, m2)
    BY <2>1 DEF Factors
  <2>3. WellFormed(p) /\ Sgn(p) = 0 /\ Value(p) = Positive(a) * Positive(b)
    BY <2>1, <2>2, ProductWorth
  <2>4. w = IF a < 0 <=> b < 0 THEN 0 ELSE Ones
    <3>1. w = IF Sgn(n1) = Sgn(n2) THEN 0 ELSE Ones
      BY <1>1, XorIs
    <3>2. Sgn(n1) = Sgn(n2) <=> (a < 0 <=> b < 0)
      BY <1>1
    <3> QED BY <3>1, <3>2
  <2>5. a * b = IF a < 0 <=> b < 0 THEN Positive(a) * Positive(b) ELSE -(Positive(a) * Positive(b))
    BY <1>1, SignsMultiply
  <2> HIDE DEF p, w, a, b
  <2>6. w \in {0, Ones} /\ Ones # 0
    BY <2>4, BaseIs
  <2>7. /\ WellFormed(WithSign(p, w))
        /\ Value(WithSign(p, w)) = IF w = 0 THEN Value(p) ELSE -Value(p)
    BY <2>3, <2>6, WithSignIs
  <2>8. Value(WithSign(p, w)) = a * b
    BY <2>3, <2>4, <2>5, <2>6, <2>7
  <2> QED BY <1>4, <2>7, <2>8 DEF p, w, a, b, m1, m2
<1> QED BY <1>3, <1>4

LEMMA MulSameIs ==
  ASSUME NEW n, WellFormed(n), ~Negative(n)
  PROVE  Value(num_mul_same(n)) = Value(n) * Value(n)
<1> DEFINE p == Product(n, n)
           a == Value(n)
<1>1. n \in Seq(Word) /\ Len(n) >= 2 /\ Sgn(n) = 0 /\ a \in Int /\ ~Lowest(n)
  BY WellFormedIs DEF Negative, Lowest
<1>2. CASE IsZero(n)
  <2>1. a = 0
    BY <1>1, <1>2, IsZeroIs
  <2>2. a * a = 0
    BY <1>1, <2>1
  <2> QED BY <1>2, <2>2, ZeroWordsAre DEF num_mul_same
<1>3. CASE ~IsZero(n)
  <2>1. a = N(n) /\ N(n) = Low(n)[Len(n) - 1] /\ N(n) <= P(Len(n) - 1)
    BY <1>1, PositiveIs
  <2>2. Factors(n, n)
    BY <1>1, <2>1 DEF Factors
  <2>3. WellFormed(p) /\ Sgn(p) = 0 /\ Value(p) = a * a
    BY <2>1, <2>2, ProductWorth
  <2> HIDE DEF p, a
  <2>4. Value(WithSign(p, 0)) = Value(p)
    BY <2>3, WithSignIs
  <2>5. num_mul_same(n) = WithSign(p, 0)
    BY <1>3 DEF num_mul_same, p
  <2> QED BY <2>3, <2>4, <2>5 DEF a
<1> QED BY <1>2, <1>3
-----------------------------------------------------------------------------
(* Printing, and reading what was printed.                                 *)

(* The digits after the i-th are the m lowest of w, the highest one first. *)
Expanded(ds, i, m, w) ==
  /\ i \in Nat /\ m \in Nat /\ w \in Nat
  /\ \A k \in 1 .. m : ds[i + k] = (w \div Power(Radix, m - k)) % Radix

RadixPower(q) == Power(Radix, q)

LEMMA RadixPowersAre ==
  /\ Radix \in Nat /\ Radix >= 2 /\ Digits \in Nat /\ Digits >= 1
  /\ RadixPower(0) = 1 /\ RadixPower(Digits) = Base
  /\ \A q \in Nat : /\ RadixPower(q) \in Nat /\ RadixPower(q) >= 1
                    /\ RadixPower(q + 1) = Radix * RadixPower(q)
<1>1. Radix \in Nat /\ Radix >= 2 /\ Digits \in Nat /\ RadixPower(Digits) = Base
  BY DigitsAssumption DEF RadixPower
<1>2. \A q \in Nat : /\ RadixPower(q) \in Nat /\ RadixPower(0) = 1
                     /\ RadixPower(q + 1) = Radix * RadixPower(q)
  BY <1>1, PowerIs DEF RadixPower
<1>3. \A q \in Nat : RadixPower(q) >= 1
  <2> TAKE q \in Nat
  <2>1. Power(Radix, 0) <= Power(Radix, q)
    <3>1. 0 \in 0 .. q /\ Radix >= 1 /\ Radix \in Nat
      BY <1>1
    <3> QED BY <3>1, PowerGrows
  <2>2. RadixPower(0) = 1 /\ 0 \in Nat
    BY <1>2
  <2>3. RadixPower(q) \in Nat
    BY <1>2
  <2> QED BY <2>1, <2>2, <2>3 DEF RadixPower
<1>4. Digits >= 1
  <2>1. Digits # 0
    BY <1>1, <1>2, BaseIs
  <2> QED BY <1>1, <2>1
<1>5. RadixPower(0) = 1
  <2>1. 0 \in Nat
    OBVIOUS
  <2> QED BY <1>2, <2>1
<1> QED BY <1>1, <1>2, <1>3, <1>4, <1>5

(* One more digit of a number. *)
LEMMA OneMoreDigit ==
  ASSUME NEW w \in Nat, NEW R \in Nat, R >= 1, NEW X \in Nat, X >= 1
  PROVE  /\ (w % (R * X)) = ((w \div X) % R) * X + (w % X)
         /\ ((w \div X) % R) \in 0 .. R - 1 /\ (w % X) \in 0 .. X - 1
<1> DEFINE q == w \div X
           r == w % X
           d == q \div R
           b == q % R
<1>1. q \in Nat /\ r \in 0 .. X - 1 /\ w = X * q + r
  OBVIOUS
<1> HIDE DEF q, r
<1>2. d \in Nat /\ b \in 0 .. R - 1 /\ q = R * d + b
  BY <1>1
<1> HIDE DEF d, b
<1> DEFINE z == R * X
           y == b * X + r
<1>3. z \in Nat \ {0} /\ y \in 0 .. z - 1
  <2>1. z \in Nat /\ z >= 1
    <3>1. \A i, j \in Nat : i >= 1 /\ j >= 1 => i * j \in Nat /\ i * j >= 1
      OBVIOUS
    <3> QED BY <3>1
  <2>2. b * X \in Nat /\ (R - 1 - b) * X >= 0
    BY <1>2
  <2>3. (R - 1 - b) * X = z - X - b * X
    BY <1>2
  <2> DEFINE p == b * X
             e == (R - 1 - b) * X
  <2>4. p \in Nat /\ e >= 0 /\ e = z - X - p /\ z \in Nat
    BY <2>1, <2>2, <2>3
  <2> HIDE DEF p, e, z
  <2>5. p + r \in 0 .. z - 1
    BY <1>1, <2>4
  <2> QED BY <2>1, <2>5 DEF p, z
<1>4. w = d * z + y
  <2>1. X * q = d * z + b * X
    BY <1>2
  <2>2. X * q \in Int /\ d * z \in Int /\ b * X \in Int /\ r \in Int
    BY <1>1, <1>2
  <2> QED BY <1>1, <2>1, <2>2
<1> HIDE DEF y, z
<1>5. (w % z) = y
  BY <1>2, <1>3, <1>4, Divided
<1>6. (w % (R * X)) = b * X + r
  BY <1>5 DEF y, z
<1> QED BY <1>1, <1>2, <1>6 DEF q, r, b

(* They are read as these digits of w. *)
LEMMA ExpandedIs ==
  \A ds, i, m, w : Expanded(ds, i, m, w) =>
    /\ RadixDigits(ds, i, i + m)
    /\ ValueOf(ds, i, i + m) = (w % RadixPower(m))
<1> SUFFICES ASSUME NEW ds, NEW i, NEW m, NEW w, Expanded(ds, i, m, w)
             PROVE  RadixDigits(ds, i, i + m) /\ ValueOf(ds, i, i + m) = (w % RadixPower(m))
  OBVIOUS
<1> DEFINE R == Radix
           D(k) == (w \div RadixPower(m - k)) % R
           M(k) == w % RadixPower(k)
<1>1. i \in Nat /\ m \in Nat /\ w \in Nat /\ R \in Nat /\ R >= 2
      /\ \A k \in 1 .. m : ds[i + k] = D(k)
  BY RadixPowersAre DEF Expanded, RadixPower
<1>2. \A k \in 1 .. m : /\ D(k) \in 0 .. R - 1
                        /\ M(m - k + 1) = D(k) * RadixPower(m - k) + M(m - k)
                        /\ RadixPower(m - k + 1) = R * RadixPower(m - k)
  <2> TAKE k \in 1 .. m
  <2> DEFINE q == m - k
             X == RadixPower(q)
  <2>1. q \in Nat
    BY <1>1
  <2> HIDE DEF q
  <2>2. X \in Nat /\ X >= 1 /\ RadixPower(q + 1) = R * X
    BY <2>1, RadixPowersAre
  <2> HIDE DEF X
  <2>3. R >= 1
    BY <1>1
  <2>4. (w % (R * X)) = ((w \div X) % R) * X + (w % X) /\ ((w \div X) % R) \in 0 .. R - 1
    BY <1>1, <2>2, <2>3, OneMoreDigit
  <2> QED BY <2>2, <2>4 DEF q, X
<1>3. M(0) = 0 /\ \A k \in 0 .. m : M(k) \in Nat
  <2>1. \A k \in 0 .. m : RadixPower(k) \in Nat /\ RadixPower(k) >= 1
    BY RadixPowersAre
  <2>2. \A x \in Nat : x >= 1 => (w % x) \in Nat
    BY <1>1
  <2>3. RadixPower(0) = 1 /\ (w % 1) = 0
    BY <1>1, RadixPowersAre
  <2> QED BY <2>1, <2>2, <2>3
<1> HIDE DEF D, M, R
<1>4. RadixDigits(ds, i, i + m)
  <2>1. \A j \in i + 1 .. i + m : j - i \in 1 .. m /\ i + (j - i) = j
    BY <1>1
  <2>2. \A j \in i + 1 .. i + m : ds[j] \in 0 .. R - 1
    BY <1>1, <1>2, <2>1
  <2> QED BY <1>1, <2>2 DEF RadixDigits, R
<1>5. PICK v : Spelled(ds, i, i + m, v)
  BY <1>4, ValueOfIs
<1>6. /\ v[i] = 0 /\ v[i + m] = ValueOf(ds, i, i + m)
      /\ \A k \in 0 .. m : v[i + k] \in Nat
      /\ \A k \in 1 .. m : v[i + k] = v[i + (k - 1)] * R + D(k)
  <2>1. \A k \in 0 .. m : i + k \in i .. i + m
    BY <1>1
  <2>2. \A k \in 1 .. m : i + k \in i + 1 .. i + m /\ (i + k) - 1 = i + (k - 1)
    BY <1>1
  <2> QED BY <1>1, <1>5, <2>1, <2>2 DEF Spelled, R
<1> DEFINE Ok(k) == v[i + k] * RadixPower(m - k) + M(m - k) = M(m)
           T == {k \in 0 .. m : Ok(k)}
<1>7. 0 \in T
  <2>1. i + 0 = i /\ m - 0 = m /\ 0 \in 0 .. m /\ m \in 0 .. m
    BY <1>1
  <2>2. v[i + 0] = 0 /\ RadixPower(m - 0) \in Nat /\ M(m) \in Nat
    BY <1>1, <1>3, <1>6, <2>1, RadixPowersAre
  <2> QED BY <2>1, <2>2
<1>8. ASSUME NEW k \in 0 .. m - 1, k \in T PROVE k + 1 \in T
  <2> DEFINE j == k + 1
             x == v[i + k]
             y == RadixPower(m - j)
             a == M(m - j)
             d == D(j)
             all == M(m)
  <2>1. j \in 1 .. m /\ j \in 0 .. m /\ m - j \in 0 .. m /\ m - j \in Nat /\ j - 1 = k /\ m - j + 1 = m - k
        /\ k \in 0 .. m /\ m - k \in 0 .. m
    BY <1>1
  <2>2. x * RadixPower(m - k) + M(m - k) = all
    BY <1>8
  <2> HIDE DEF j
  <2>3. v[i + j] = x * R + d
    BY <1>6, <2>1
  <2>4. M(m - k) = d * y + a /\ RadixPower(m - k) = R * y /\ d \in 0 .. R - 1
    BY <1>2, <2>1
  <2>5. x \in Nat /\ y \in Nat /\ a \in Nat /\ d \in Nat
    BY <1>1, <1>3, <1>6, <2>1, <2>4, RadixPowersAre
  <2>6. x * (R * y) + (d * y + a) = all
    BY <2>2, <2>4
  <2> HIDE DEF x, y, a, d, all
  <2>7. (x * R + d) * y + a = all
    <3>1. (x * R + d) * y = x * (R * y) + d * y
      BY <1>1, <2>5
    <3>2. x * (R * y) \in Int /\ d * y \in Int
      BY <1>1, <2>5
    <3> QED BY <2>5, <2>6, <3>1, <3>2
  <2>8. Ok(j)
    BY <2>3, <2>7 DEF y, a, all
  <2> HIDE DEF Ok
  <2> QED BY <2>1, <2>8 DEF j
<1> HIDE DEF T
<1>9. m \in T
  <2>1. 0 .. m \subseteq T
    BY <1>1, <1>7, <1>8, Induction
  <2> QED BY <1>1, <2>1
<1>10. v[i + m] = M(m)
  <2>1. m - m = 0 /\ m \in 0 .. m
    BY <1>1
  <2>2. v[i + m] * 1 + 0 = M(m)
    BY <1>3, <1>9, <2>1, RadixPowersAre DEF T
  <2> QED BY <1>6, <2>1, <2>2
<1> QED BY <1>4, <1>6, <1>10 DEF M

LEMMA Tuple ==
  ASSUME NEW S, NEW n \in Nat, NEW f \in [1 .. n -> S]
  PROVE  f \in Seq(S) /\ Len(f) = n
OBVIOUS

(* The digits of a word, and all its digits. *)
LEMMA WordDigits ==
  \A w \in Word :
    /\ uintn_to_str(w) \in Seq(0 .. Radix - 1) /\ Len(uintn_to_str(w)) \in 1 .. Digits
    /\ Expanded(uintn_to_str(w), 0, Len(uintn_to_str(w)), w)
    /\ w \in Nat /\ w < RadixPower(Len(uintn_to_str(w)))
<1> SUFFICES ASSUME NEW w \in Word
             PROVE  /\ uintn_to_str(w) \in Seq(0 .. Radix - 1)
                    /\ Len(uintn_to_str(w)) \in 1 .. Digits
                    /\ Expanded(uintn_to_str(w), 0, Len(uintn_to_str(w)), w)
                    /\ w \in Nat /\ w < RadixPower(Len(uintn_to_str(w)))
  OBVIOUS
<1> DEFINE Size(k) == w < Power(Radix, k) /\ (k = 1 \/ w >= Power(Radix, k - 1))
           n == CHOOSE k \in 1 .. Digits : Size(k)
           d == uintn_to_str(w)
           S == 0 .. Radix - 1
           T == {k \in 1 .. Digits : w < Power(Radix, k)}
<1>1. w \in Nat /\ w < Base /\ Radix \in Nat /\ Radix >= 2 /\ Digits \in Nat /\ Digits >= 1
  BY BaseIs, RadixPowersAre DEF Word
<1>2. Digits \in T /\ T \subseteq Nat
  BY <1>1, RadixPowersAre DEF RadixPower
<1> HIDE DEF T
<1>3. PICK k \in T : \A j \in T : k <= j
  <2>1. T # {}
    BY <1>2
  <2> QED BY <1>2, <2>1, LeastNumber
<1>4. k \in 1 .. Digits /\ Size(k)
  <2>1. k \in 1 .. Digits /\ w < Power(Radix, k)
    BY DEF T
  <2>2. k # 1 => w >= Power(Radix, k - 1)
    <3> HAVE k # 1
    <3>1. k - 1 \in 1 .. Digits /\ ~(k <= k - 1) /\ k - 1 \in Nat
      BY <1>1, <2>1
    <3>2. k - 1 \notin T
      BY <1>3, <3>1
    <3>3. ~(w < Power(Radix, k - 1))
      BY <3>1, <3>2 DEF T
    <3>4. Power(Radix, k - 1) \in Nat
      BY <3>1, RadixPowersAre DEF RadixPower
    <3> QED BY <1>1, <3>3, <3>4
  <2> QED BY <2>1, <2>2
<1>5. n \in 1 .. Digits /\ Size(n)
  <2> HIDE DEF Size
  <2> QED BY <1>4
<1>6. d = [i \in 1 .. n |-> (w \div Power(Radix, n - i)) % Radix]
  BY DEF uintn_to_str
<1> DEFINE e == [i \in 1 .. n |-> (w \div Power(Radix, n - i)) % Radix]
<1>7. n \in Nat /\ w < Power(Radix, n)
  BY <1>1, <1>5
<1> HIDE DEF n, d
<1>8. \A i \in 1 .. n : ((w \div Power(Radix, n - i)) % Radix) \in S
  <2> TAKE i \in 1 .. n
  <2> DEFINE X == Power(Radix, n - i)
  <2>1. n - i \in Nat
    BY <1>7
  <2>2. X \in Nat /\ X >= 1
    BY <2>1, RadixPowersAre DEF RadixPower
  <2> HIDE DEF X
  <2>3. w \div X \in Nat
    BY <1>1, <2>2
  <2>4. \A x \in Nat : (x % Radix) \in S
    BY <1>1
  <2> QED BY <2>3, <2>4 DEF X
<1> HIDE DEF S
<1>9. e \in [1 .. n -> S] /\ \A i \in 1 .. n : e[i] = (w \div Power(Radix, n - i)) % Radix
  BY <1>8
<1> HIDE DEF e
<1>10. d = e /\ d \in Seq(S) /\ Len(d) = n
  <2>1. e \in Seq(S) /\ Len(e) = n
    BY ONLY <1>7, <1>9, Tuple
  <2> QED BY <1>6, <2>1 DEF e
<1>11. Expanded(d, 0, n, w)
  <2>1. \A i \in 1 .. n : 0 + i = i
    OBVIOUS
  <2> QED BY <1>1, <1>7, <1>9, <1>10, <2>1 DEF Expanded
<1> QED BY <1>1, <1>5, <1>7, <1>10, <1>11 DEF d, S, RadixPower

Padded(w) == Const(0, Digits - Len(uintn_to_str(w))) \o uintn_to_str(w)

LEMMA PaddedDigits ==
  \A w \in Word : /\ Padded(w) \in Seq(0 .. Radix - 1) /\ Len(Padded(w)) = Digits
                  /\ Expanded(Padded(w), 0, Digits, w)
<1> SUFFICES ASSUME NEW w \in Word
             PROVE  /\ Padded(w) \in Seq(0 .. Radix - 1) /\ Len(Padded(w)) = Digits
                    /\ Expanded(Padded(w), 0, Digits, w)
  OBVIOUS
<1> DEFINE S == 0 .. Radix - 1
           d == uintn_to_str(w)
           n == Len(d)
           l == Digits - n
           z == Const(0, l)
           p == Padded(w)
<1>1. d \in Seq(S) /\ n \in 1 .. Digits /\ Expanded(d, 0, n, w) /\ w \in Nat /\ w < RadixPower(n)
  BY WordDigits
<1>2. Radix \in Nat /\ Radix >= 2 /\ Digits \in Nat /\ 0 \in S
  BY RadixPowersAre
<1>3. \A i \in 1 .. n : d[i] = (w \div Power(Radix, n - i)) % Radix
  <2>1. \A i \in 1 .. n : 0 + i = i
    OBVIOUS
  <2> QED BY <1>1, <2>1 DEF Expanded
<1> HIDE DEF d, S
<1>4. n \in Nat /\ l \in Nat /\ Digits = l + n
  BY <1>1, <1>2
<1> HIDE DEF l
<1>5. z \in Seq(S) /\ Len(z) = l /\ \A i \in 1 .. l : z[i] = 0
  <2>1. z \in [1 .. l -> S] /\ \A i \in 1 .. l : z[i] = 0
    BY <1>2 DEF Const
  <2> HIDE DEF z
  <2> QED BY <1>4, <2>1, Tuple
<1> HIDE DEF z
<1>6. p = z \o d
  BY DEF Padded, p, z, l, d
<1> HIDE DEF p, n
<1>7. /\ p \in Seq(S) /\ Len(p) = Digits
      /\ \A i \in 1 .. Digits : p[i] = IF i <= l THEN z[i] ELSE d[i - l]
  BY <1>1, <1>4, <1>5, <1>6, ConcatProperties DEF n
<1>8. ASSUME NEW k \in 1 .. Digits
      PROVE  p[0 + k] = (w \div Power(Radix, Digits - k)) % Radix
  <2>0. 0 + k = k
    OBVIOUS
  <2>1. CASE k <= l
    <3>1. Digits - k \in Nat /\ n \in 0 .. Digits - k
      BY <1>1, <1>4, <2>1
    <3> DEFINE X == Power(Radix, Digits - k)
    <3>2. RadixPower(n) <= X /\ X \in Nat /\ RadixPower(n) \in Nat
      <4>1. Radix >= 1
        BY <1>2
      <4> QED BY <1>2, <1>4, <3>1, <4>1, PowerGrows, RadixPowersAre DEF RadixPower
    <3> HIDE DEF X
    <3>3. w < X /\ X >= 1
      BY <1>1, <3>2
    <3>4. (w \div X) = 0
      BY <1>1, <3>2, <3>3
    <3>5. (0 % Radix) = 0
      BY <1>2
    <3>6. p[k] = 0
      BY <1>4, <1>5, <1>7, <2>1
    <3> QED BY <2>0, <3>4, <3>5, <3>6 DEF X
  <2>2. CASE ~(k <= l)
    <3>1. k - l \in 1 .. n /\ n - (k - l) = Digits - k
      BY <1>4, <2>2
    <3>2. p[k] = d[k - l]
      BY <1>7, <2>2
    <3> QED BY <1>3, <2>0, <3>1, <3>2
  <2> QED BY <2>1, <2>2
<1>9. Expanded(p, 0, Digits, w)
  BY <1>1, <1>2, <1>8 DEF Expanded
<1> QED BY <1>7, <1>9 DEF p, S

(* The digits of the words below the highest. *)
LowDigits(n) == FlattenSeq(Reverse([i \in 1 .. Len(n) - 2 |-> Padded(n[i])]))

LEMMA LowDigitsAre ==
  ASSUME NEW n \in Seq(Word), Len(n) >= 2
  PROVE  /\ LowDigits(n) \in Seq(0 .. Radix - 1) /\ Len(LowDigits(n)) = (Len(n) - 2) * Digits
         /\ \A i \in 1 .. Len(n) - 2 :
              Expanded(LowDigits(n), (Len(n) - 2 - i) * Digits, Digits, n[i])
<1> DEFINE S == 0 .. Radix - 1
           m == Len(n) - 2
           a == [i \in 1 .. m |-> Padded(n[i])]
           b == Reverse(a)
           f == LowDigits(n)
<1>1. m \in Nat /\ \A i \in 1 .. m : n[i] \in Word
  <2>1. Len(n) \in Nat /\ \A i \in 1 .. Len(n) : n[i] \in Word
    OBVIOUS
  <2> QED BY <2>1
<1>2. Digits \in Nat /\ Digits >= 1
  BY RadixPowersAre
<1> HIDE DEF m, S
<1>3. \A i \in 1 .. m : /\ Padded(n[i]) \in Seq(S) /\ Len(Padded(n[i])) = Digits
                        /\ Expanded(Padded(n[i]), 0, Digits, n[i])
  BY <1>1, PaddedDigits DEF S
<1>4. a \in Seq(Seq(S)) /\ Len(a) = m /\ \A i \in 1 .. m : a[i] = Padded(n[i])
  <2>1. a \in [1 .. m -> Seq(S)]
    BY <1>3
  <2> HIDE DEF a
  <2>2. a \in Seq(Seq(S)) /\ Len(a) = m
    <3> DEFINE Q == Seq(S)
    <3>1. a \in [1 .. m -> Q]
      BY <2>1
    <3> HIDE DEF Q
    <3>2. a \in Seq(Q) /\ Len(a) = m
      BY ONLY <1>1, <3>1, Tuple
    <3> QED BY <3>2 DEF Q
  <2> QED BY <2>2 DEF a
<1> HIDE DEF a
<1>5. b \in Seq(Seq(S)) /\ Len(b) = m /\ \A k \in 1 .. m : b[k] = Padded(n[m + 1 - k])
  <2>1. b = [k \in 1 .. m |-> a[(m - k) + 1]]
    BY <1>4 DEF Reverse
  <2>2. \A k \in 1 .. m : (m - k) + 1 \in 1 .. m /\ (m - k) + 1 = m + 1 - k
    BY <1>1
  <2>3. \A k \in 1 .. m : b[k] = Padded(n[m + 1 - k])
    <3> TAKE k \in 1 .. m
    <3> DEFINE h == (m - k) + 1
    <3>1. h \in 1 .. m /\ h = m + 1 - k
      BY <2>2
    <3> HIDE DEF b
    <3>2. b[k] = a[h]
      BY <2>1
    <3> HIDE DEF h
    <3>3. a[h] = Padded(n[h])
      BY <1>4, <3>1
    <3> QED BY <3>1, <3>2, <3>3
  <2> DEFINE Q == Seq(S)
  <2>4. b \in [1 .. m -> Q]
    BY <1>3, <2>1, <2>2, <2>3
  <2> HIDE DEF Q, b
  <2>5. b \in Seq(Q) /\ Len(b) = m
    BY ONLY <1>1, <2>4, Tuple
  <2> QED BY <2>3, <2>5 DEF Q
<1>6. f = FlattenSeq(b)
  BY DEF LowDigits, f, b, a, m
<1> HIDE DEF b, f
<1>7. f \in Seq(S) /\ \E s : Laid(b, f, s)
  BY <1>5, <1>6, Flattened
<1>8. PICK s : Laid(b, f, s)
  BY <1>7
<1>9. /\ s[0] = 0 /\ s[m] = Len(f)
      /\ \A k \in 1 .. m : /\ s[k] = s[k - 1] + Digits
                           /\ \A j \in 1 .. Digits : f[s[k - 1] + j] = Padded(n[m + 1 - k])[j]
  <2>1. \A k \in 1 .. m : Len(b[k]) = Digits
    <3> TAKE k \in 1 .. m
    <3>1. m + 1 - k \in 1 .. m
      BY <1>1
    <3> QED BY <1>3, <1>5, <3>1
  <2> QED BY <1>5, <1>8, <2>1 DEF Laid
<1> DEFINE T == {k \in 0 .. m : s[k] = k * Digits}
<1>10. 0 \in T
  BY <1>1, <1>2, <1>9
<1>11. ASSUME NEW k \in 0 .. m - 1, k \in T PROVE k + 1 \in T
  <2> DEFINE h == k + 1
             D == Digits
  <2>1. h \in 1 .. m /\ h \in 0 .. m /\ h - 1 = k /\ k \in Nat
    BY <1>1
  <2>2. D \in Nat /\ s[k] = k * D
    BY <1>2, <1>11
  <2>3. h * D = k * D + D /\ k * D \in Nat
    BY <2>1, <2>2
  <2> HIDE DEF h, D
  <2>4. s[h] = s[k] + D
    BY <1>9, <2>1 DEF D
  <2>5. s[h] = h * D
    BY <2>2, <2>3, <2>4
  <2> QED BY <2>1, <2>5 DEF h, D
<1>12. \A k \in 0 .. m : s[k] = k * Digits
  <2> HIDE DEF T
  <2>1. 0 .. m \subseteq T
    BY <1>1, <1>10, <1>11, Induction
  <2> QED BY <2>1 DEF T
<1> HIDE DEF T
<1>13. ASSUME NEW i \in 1 .. m
       PROVE  Expanded(f, (m - i) * Digits, Digits, n[i])
  <2> DEFINE k == m + 1 - i
             p == (m - i) * Digits
  <2>1. k \in 1 .. m /\ m + 1 - k = i /\ k - 1 = m - i /\ m - i \in 0 .. m
    BY <1>1
  <2>2. p \in Nat
    <3>1. \A x, y \in Nat : x * y \in Nat
      OBVIOUS
    <3> QED BY <1>1, <1>2, <2>1, <3>1
  <2>3. s[k - 1] = p
    BY <1>12, <2>1
  <2> HIDE DEF k, p
  <2>4. \A j \in 1 .. Digits : f[p + j] = Padded(n[i])[j]
    BY <1>9, <2>1, <2>3
  <2>5. /\ n[i] \in Nat
        /\ \A j \in 1 .. Digits : Padded(n[i])[j] = (n[i] \div Power(Radix, Digits - j)) % Radix
    <3>1. Expanded(Padded(n[i]), 0, Digits, n[i])
      BY <1>3
    <3>2. \A j \in 1 .. Digits : 0 + j = j
      OBVIOUS
    <3> QED BY <3>1, <3>2 DEF Expanded
  <2>6. Expanded(f, p, Digits, n[i])
    BY <1>2, <2>2, <2>4, <2>5 DEF Expanded
  <2> QED BY <2>6 DEF p
<1>14. Len(f) = m * Digits
  <2>1. m \in 0 .. m
    BY <1>1
  <2> QED BY <1>9, <1>12, <2>1
<1> QED BY <1>7, <1>13, <1>14 DEF f, m, S

(* What str_to_num makes of digits, before the sign. *)
Unsigned(ds) ==
  LET length == Len(ds)
      size   == length \div Digits
      words  == [i \in 1 .. size |-> ValueOf(ds, length - i * Digits, length - (i - 1) * Digits)]
      c      == ValueOf(ds, 0, length % Digits)
  IN  words \o (IF c # 0 \/ size = 0 THEN <<c>> ELSE <<>>) \o <<0>>

LEMMA UnsignedIs ==
  \A str : str_to_num(str) = IF str.neg THEN num_negate(Unsigned(str.digits))
                             ELSE Unsigned(str.digits)
BY DEF str_to_num, Unsigned

Printed(n) == uintn_to_str(n[Len(n) - 1]) \o LowDigits(n)

(* The text of a number, from its end: a word in Digits digits each, and   *)
(* the highest word.                                                       *)
LEMMA PrintedAre ==
  ASSUME NEW n \in Seq(Word), Len(n) >= 2
  PROVE  \E e \in 1 .. Digits :
           /\ Len(Printed(n)) = e + (Len(n) - 2) * Digits
           /\ ValueOf(Printed(n), 0, e) = n[Len(n) - 1]
           /\ \A i \in 1 .. Len(n) - 2 :
                ValueOf(Printed(n), e + (Len(n) - 2 - i) * Digits,
                        e + (Len(n) - 2 - i) * Digits + Digits) = n[i]
<1> DEFINE S == 0 .. Radix - 1
           m == Len(n) - 2
           top == n[Len(n) - 1]
           d == uintn_to_str(top)
           e == Len(d)
           f == LowDigits(n)
           ds == Printed(n)
<1>1. m \in Nat /\ top \in Word /\ \A i \in 1 .. m : n[i] \in Word
  <2>1. Len(n) \in Nat /\ \A i \in 1 .. Len(n) : n[i] \in Word
    OBVIOUS
  <2> QED BY <2>1
<1>2. Digits \in Nat /\ Digits >= 1 /\ RadixPower(Digits) = Base
  BY RadixPowersAre
<1>3. d \in Seq(S) /\ e \in 1 .. Digits /\ Expanded(d, 0, e, top) /\ top \in Nat /\ top < RadixPower(e)
  BY <1>1, WordDigits
<1>4. /\ f \in Seq(S) /\ Len(f) = m * Digits
      /\ \A i \in 1 .. m : Expanded(f, (m - i) * Digits, Digits, n[i])
  BY LowDigitsAre
<1>5. ds = d \o f
  BY DEF Printed
<1> HIDE DEF m, top, d, f, ds, S
<1>6. /\ ds \in Seq(S) /\ Len(ds) = e + Len(f) /\ e \in Nat /\ Len(f) \in Nat
      /\ \A i \in 1 .. e + Len(f) : ds[i] = IF i <= e THEN d[i] ELSE f[i - e]
  <2>1. d \in Seq(S) /\ f \in Seq(S)
    BY <1>3, <1>4
  <2>2. Len(d) \in Nat /\ Len(f) \in Nat
    BY <2>1, LenProperties
  <2>3. ds \in Seq(S)
    BY <1>5, <2>1, ConcatProperties
  <2>4. Len(ds) = Len(d) + Len(f)
        /\ \A i \in 1 .. Len(d) + Len(f) : ds[i] = IF i <= Len(d) THEN d[i] ELSE f[i - Len(d)]
    BY <1>5, <2>1, ConcatProperties
  <2> QED BY <2>2, <2>3, <2>4
<1> HIDE DEF e
<1>7. ValueOf(ds, 0, e) = top
  <2>1. Expanded(ds, 0, e, top)
    <3>1. \A k \in 1 .. e : ds[0 + k] = d[0 + k]
      <4> TAKE k \in 1 .. e
      <4>1. k \in 1 .. e + Len(f) /\ k <= e /\ 0 + k = k
        BY <1>6
      <4> QED BY <1>6, <4>1
    <3> QED BY <1>3, <3>1 DEF Expanded
  <2>2. ValueOf(ds, 0, 0 + e) = (top % RadixPower(e))
    BY <2>1, ExpandedIs
  <2>3. (top % RadixPower(e)) = top
    <3> DEFINE X == RadixPower(e)
    <3>1. X \in Nat /\ X >= 1
      BY <1>6, RadixPowersAre
    <3>2. top < X
      BY <1>3
    <3> HIDE DEF X
    <3>3. (top % X) = top
      BY <1>3, <3>1, <3>2
    <3> QED BY <3>3 DEF X
  <2>4. 0 + e = e
    BY <1>6
  <2> QED BY <2>2, <2>3, <2>4
<1>8. ASSUME NEW i \in 1 .. m
      PROVE  ValueOf(ds, e + (m - i) * Digits, e + (m - i) * Digits + Digits) = n[i]
  <2> DEFINE D == Digits
             p == (m - i) * D
             w == n[i]
  <2>1. Expanded(f, p, D, w) /\ p \in Nat /\ w \in Nat
    BY <1>4 DEF Expanded
  <2>2. p + D <= Len(f)
    <3> DEFINE x == m - i
               y == i - 1
    <3>1. x \in Nat /\ y \in Nat /\ m = x + y + 1 /\ D \in Nat
      BY <1>1, <1>2
    <3> HIDE DEF x, y, D
    <3>2. m * D = x * D + y * D + D /\ x * D \in Nat /\ y * D \in Nat
      BY ONLY <3>1
    <3> QED BY <1>4, <3>1, <3>2 DEF x, D
  <2> HIDE DEF p, w, D
  <2>3. D \in Nat
    BY <1>2 DEF D
  <2>4. Expanded(ds, e + p, D, w)
    <3>1. \A k \in 1 .. D : ds[e + p + k] = f[p + k]
      <4> TAKE k \in 1 .. D
      <4>1. e + p + k \in 1 .. e + Len(f) /\ ~(e + p + k <= e) /\ (e + p + k) - e = p + k
        BY <1>6, <2>1, <2>2, <2>3
      <4>2. ds[e + p + k] = f[(e + p + k) - e]
        BY <1>6, <4>1
      <4> QED BY <4>1, <4>2
    <3>2. e + p \in Nat /\ D \in Nat /\ w \in Nat
      BY <1>6, <2>1, <2>3
    <3>3. \A k \in 1 .. D : f[p + k] = (w \div Power(Radix, D - k)) % Radix
      BY <2>1 DEF Expanded
    <3>4. \A k \in 1 .. D : ds[e + p + k] = (w \div Power(Radix, D - k)) % Radix
      BY <3>1, <3>3
    <3> QED BY <3>2, <3>4 DEF Expanded
  <2>5. ValueOf(ds, e + p, e + p + D) = (w % RadixPower(D))
    BY <2>4, ExpandedIs
  <2>6. (w % RadixPower(D)) = w
    <3>1. w \in Word /\ RadixPower(D) = Base
      BY <1>1, <1>2 DEF w, D
    <3> QED BY <3>1, BaseIs DEF Word
  <2> QED BY <2>5, <2>6 DEF p, w, D
<1> QED BY <1>3, <1>4, <1>6, <1>7, <1>8 DEF m, top, ds, e

(* The words that are read are those that were printed; a highest one of 0 *)
(* may be left out.                                                        *)
Read(u, n) ==
  /\ n \in Seq(Word) /\ Len(n) >= 2 /\ u \in Seq(Word) /\ Len(u) >= 2
  /\ Len(u) = Len(n) \/ (Len(u) = Len(n) - 1 /\ n[Len(n) - 1] = 0)
  /\ u[Len(u)] = 0 /\ \A i \in 1 .. Len(u) - 1 : u[i] = n[i]

LEMMA ReadWords ==
  ASSUME NEW n \in Seq(Word), Len(n) >= 2
  PROVE  Read(Unsigned(Printed(n)), n)
<1> DEFINE ds == Printed(n)
           length == Len(ds)
           size == length \div Digits
           word(i) == ValueOf(ds, length - i * Digits, length - (i - 1) * Digits)
           words == [i \in 1 .. size |-> word(i)]
           c == ValueOf(ds, 0, length % Digits)
           high == IF c # 0 \/ size = 0 THEN <<c>> ELSE <<>>
           u == Unsigned(ds)
           m == Len(n) - 2
           D == Digits
           top == n[Len(n) - 1]
<1>1. u = words \o high \o <<0>>
  BY DEF Unsigned
<1>2. m \in Nat /\ top \in Word /\ (\A i \in 1 .. m : n[i] \in Word) /\ Len(n) = m + 2
  <2>1. Len(n) \in Nat /\ \A i \in 1 .. Len(n) : n[i] \in Word
    OBVIOUS
  <2> QED BY <2>1
<1>3. D \in Nat /\ D >= 1
  BY RadixPowersAre
<1>4. PICK e \in 1 .. Digits :
           /\ length = e + m * D
           /\ ValueOf(ds, 0, e) = top
           /\ \A i \in 1 .. m : ValueOf(ds, e + (m - i) * D, e + (m - i) * D + D) = n[i]
  BY PrintedAre
<1> HIDE DEF ds, length, u, m, top
<1>5. e \in Nat /\ e >= 1 /\ e <= D
  BY <1>3, <1>4
<1> HIDE DEF D
<1>6. ASSUME NEW i \in 1 .. m PROVE word(i) = n[i]
  <2> DEFINE x == m - i
  <2>1. x \in Nat /\ i \in Nat /\ m = x + i
    BY <1>2
  <2> HIDE DEF x
  <2>2. m * D = x * D + i * D /\ (i - 1) * D = i * D - D /\ x * D \in Nat /\ i * D \in Nat
    BY ONLY <1>3, <2>1
  <2>3. length - i * D = e + x * D /\ length - (i - 1) * D = e + x * D + D
    BY <1>3, <1>4, <1>5, <2>2
  <2>4. ValueOf(ds, e + x * D, e + x * D + D) = n[i]
    BY <1>4 DEF x
  <2> QED BY <2>3, <2>4 DEF D
<1> DEFINE Out == [i \in 1 .. m + 1 |-> IF i <= m THEN n[i] ELSE top]
<1>7. CASE e < D
  <2>1. size = m /\ length % Digits = e
    <3>1. D \in Nat \ {0} /\ e \in 0 .. D - 1 /\ length = m * D + e /\ length \in Nat
      <4>1. m * D \in Nat
        BY <1>2, <1>3
      <4> QED BY <1>3, <1>4, <1>5, <1>7, <4>1
    <3>2. (length \div D) = m /\ (length % D) = e
      BY <1>2, <3>1, Divided
    <3> QED BY <3>2 DEF D
  <2>2. c = top
    BY <1>4, <2>1
  <2> HIDE DEF word, size, c
  <2>3. words \in Seq(Word) /\ Len(words) = m /\ \A i \in 1 .. m : words[i] = n[i]
    <3>1. words \in [1 .. m -> Word] /\ \A i \in 1 .. m : words[i] = n[i]
      BY <1>2, <1>6, <2>1
    <3> HIDE DEF words
    <3> QED BY <1>2, <3>1, Tuple
  <2> HIDE DEF words
  <2>4. CASE high = <<top>>
    <3>1. u = words \o <<top>> \o <<0>>
      BY <1>1, <2>4
    <3>2. u = Append(Append(words, top), 0)
      BY <1>2, <2>3, <3>1, BaseIs
    <3>3. u \in Seq(Word) /\ Len(u) = m + 2 /\ u[m + 2] = 0 /\ u[m + 1] = top /\ \A i \in 1 .. m : u[i] = n[i]
      BY <1>2, <2>3, <3>2, BaseIs
    <3>4. \A i \in 1 .. m + 1 : u[i] = n[i]
      <4>1. n[m + 1] = top
        BY <1>2 DEF top
      <4> QED BY <1>2, <3>3, <4>1
    <3> QED BY <1>2, <3>3, <3>4 DEF Read, u, ds
  <2>5. CASE high = <<>> /\ top = 0 /\ m # 0
    <3>1. u = words \o <<>> \o <<0>>
      BY <1>1, <2>5
    <3>2. u = Append(words, 0)
      BY <1>2, <2>3, <3>1, BaseIs
    <3>3. u \in Seq(Word) /\ Len(u) = m + 1 /\ u[m + 1] = 0 /\ \A i \in 1 .. m : u[i] = n[i]
      BY <1>2, <2>3, <3>2, BaseIs
    <3> QED BY <1>2, <2>5, <3>3 DEF Read, u, ds, top
  <2> QED BY <2>1, <2>2, <2>4, <2>5
<1>8. CASE e = D
  <2>1. size = m + 1 /\ length % Digits = 0
    <3>1. D \in Nat \ {0} /\ 0 \in 0 .. D - 1 /\ length = (m + 1) * D + 0 /\ length \in Nat /\ m + 1 \in Nat
      <4>1. m * D \in Nat /\ (m + 1) * D = m * D + D
        BY <1>2, <1>3
      <4> QED BY <1>2, <1>3, <1>4, <1>5, <1>8, <4>1
    <3>2. (length \div D) = m + 1 /\ (length % D) = 0
      BY <3>1, Divided
    <3> QED BY <3>2 DEF D
  <2>2. c = 0
    <3>1. RadixDigits(ds, 0, 0)
      BY DEF RadixDigits
    <3>2. ValueOf(ds, 0, 0) \in 0 .. Power(Radix, 0 - 0) - 1
      BY ONLY <3>1, DigitsBelow
    <3>3. Power(Radix, 0 - 0) = 1
      BY RadixPowersAre DEF RadixPower
    <3> QED BY <2>1, <3>2, <3>3
  <2>3. word(m + 1) = top
    <3>1. length - (m + 1) * D = 0 /\ length - ((m + 1) - 1) * D = e
      <4>1. m * D \in Nat /\ (m + 1) * D = m * D + D /\ ((m + 1) - 1) * D = m * D
        BY <1>2, <1>3
      <4> QED BY <1>3, <1>4, <1>5, <1>8, <4>1
    <3> DEFINE a == length - (m + 1) * D
               b == length - ((m + 1) - 1) * D
    <3>2. a = 0 /\ b = e
      BY <3>1
    <3>3. word(m + 1) = ValueOf(ds, a, b)
      BY DEF D
    <3> HIDE DEF a, b, word
    <3> QED BY <1>4, <3>2, <3>3
  <2> HIDE DEF word, size, c
  <2>4. words \in Seq(Word) /\ Len(words) = m + 1 /\ \A i \in 1 .. m + 1 : words[i] = n[i]
    <3>1. \A i \in 1 .. m + 1 : word(i) = n[i] /\ word(i) \in Word
      <4> TAKE i \in 1 .. m + 1
      <4>1. CASE i \in 1 .. m
        BY <1>2, <1>6, <4>1
      <4>2. CASE i = m + 1
        <5>1. n[m + 1] = top
          BY <1>2 DEF top
        <5> QED BY <1>2, <2>3, <4>2, <5>1
      <4> QED BY <1>2, <4>1, <4>2
    <3>2. words \in [1 .. m + 1 -> Word] /\ \A i \in 1 .. m + 1 : words[i] = n[i]
      BY <2>1, <3>1
    <3> HIDE DEF words
    <3>3. m + 1 \in Nat
      BY <1>2
    <3> DEFINE k == m + 1
    <3>4. k \in Nat /\ words \in [1 .. k -> Word]
      BY <3>2, <3>3
    <3> HIDE DEF k
    <3>5. words \in Seq(Word) /\ Len(words) = k
      BY <3>4, Tuple
    <3> QED BY <3>2, <3>5 DEF k
  <2> HIDE DEF words
  <2>5. high = <<>>
    BY <1>2, <2>1, <2>2
  <2>6. u = Append(words, 0)
    <3>1. u = words \o <<>> \o <<0>>
      BY <1>1, <2>5
    <3> QED BY <2>4, <3>1, BaseIs
  <2>7. u \in Seq(Word) /\ Len(u) = m + 2 /\ u[m + 2] = 0 /\ \A i \in 1 .. m + 1 : u[i] = n[i]
    BY <1>2, <2>4, <2>6, BaseIs
  <2> QED BY <1>2, <2>7 DEF Read, u, ds
<1> QED BY <1>3, <1>5, <1>7, <1>8

LEMMA ReadValue ==
  \A u, n : Read(u, n) => WellFormed(u) /\ Sgn(u) = 0 /\ Value(u) = Low(n)[Len(n) - 1]
<1> SUFFICES ASSUME NEW u, NEW n, Read(u, n)
             PROVE  WellFormed(u) /\ Sgn(u) = 0 /\ Value(u) = Low(n)[Len(n) - 1]
  OBVIOUS
<1> DEFINE l == Len(u)
           k == l - 1
           h == Len(n) - 1
<1>1. /\ n \in Seq(Word) /\ Len(n) \in Nat /\ Len(n) >= 2 /\ u \in Seq(Word) /\ l \in Nat /\ l >= 2
      /\ k \in Nat /\ h \in Nat /\ l = k + 1 /\ Len(n) = h + 1 /\ k >= 1
      /\ (k = h \/ (h = k + 1 /\ n[h] = 0))
      /\ u[l] = 0 /\ \A i \in 1 .. k : u[i] = n[i]
  BY DEF Read
<1>2. WellFormed(u) /\ Sgn(u) = 0
  BY <1>1 DEF WellFormed, Sgn, Last
<1>3. Value(u) = Low(u)[k]
  BY <1>2, PositiveIs
<1> HIDE DEF k, h, l
<1>4. Low(u)[k] = Low(n)[k]
  <2>1. Shared(u, n, 0, k)
    BY <1>1 DEF Shared, l
  <2>2. Low(u)[k] - Low(u)[0] = Low(n)[k] - Low(n)[0]
    BY ONLY <2>1, LowShared
  <2>3. k \in 0 .. Len(u) /\ k \in 0 .. Len(n)
    BY <1>1 DEF l
  <2>4. Low(u)[k] \in Nat /\ Low(u)[0] = 0
    BY <1>1, <2>3, LowIs
  <2>5. Low(n)[k] \in Nat /\ Low(n)[0] = 0
    BY <1>1, <2>3, LowIs
  <2> QED BY <2>2, <2>4, <2>5
<1>5. Low(n)[k] = Low(n)[h]
  <2>1. CASE k = h
    BY <2>1
  <2>2. CASE h = k + 1 /\ n[h] = 0
    <3>1. h \in 1 .. Len(n) /\ h - 1 = k /\ k \in 0 .. Len(n)
      BY <1>1, <2>2
    <3>2. Low(n)[h] = Low(n)[h - 1] + n[h] * P(h - 1) /\ Low(n)[k] \in Nat
      BY <1>1, <3>1, LowIs
    <3>3. P(k) \in Nat
      BY <1>1, PIs
    <3> QED BY <2>2, <3>1, <3>2, <3>3
  <2> QED BY <1>1, <2>1, <2>2
<1> QED BY <1>2, <1>3, <1>4, <1>5 DEF h

(* Read again, a number's text is worth its magnitude without the last     *)
(* word, which is not 0 for a lowest number only.                          *)
LEMMA ReadsBackIs ==
  ASSUME NEW n, WellFormed(n)
  PROVE  Value(str_to_num(num_to_str(n))) = IF Lowest(n) THEN 0 ELSE Value(n)
<1> DEFINE m == Magnitude(n)
           u == Unsigned(Printed(m))
           l == Len(m) - 1
<1>1. /\ m \in Seq(Word) /\ Len(m) >= 2 /\ N(m) = Positive(Value(n)) /\ N(m) <= P(Len(m) - 1)
      /\ ~Lowest(n) => Low(m)[Len(m) - 1] = N(m)
  BY MagnitudeIs
<1>2. num_to_str(n).neg = (Sgn(n) # 0) /\ num_to_str(n).digits = Printed(m)
  BY DEF num_to_str, Printed, LowDigits, Padded
<1>3. str_to_num(num_to_str(n)) = IF Sgn(n) # 0 THEN num_negate(u) ELSE u
  BY <1>2, UnsignedIs
<1> HIDE DEF m, u
<1>4. WellFormed(u) /\ Sgn(u) = 0 /\ Value(u) = Low(m)[l]
  <2>1. Read(u, m)
    BY <1>1, ReadWords DEF u
  <2> QED BY <2>1, ReadValue
<1>5. Value(n) \in Int /\ (Sgn(n) # 0 <=> Value(n) < 0)
  BY WellFormedIs, SignIs
<1>6. Value(u) = IF Lowest(n) THEN 0 ELSE Positive(Value(n))
  <2>1. CASE Lowest(n)
    <3>1. m = num_negate(n) /\ Sgn(n) # 0
      BY <2>1 DEF m, Magnitude, Lowest, Negative
    <3>2. m[Len(n)] = 1 /\ Len(m) = Len(n)
      BY <2>1, <3>1, LowestIs
    <3>3. Low(m)[l] \in Nat /\ P(l) \in Nat /\ N(m) = Low(m)[l] + m[Len(m)] * P(l)
      <4>1. Len(m) >= 1
        BY <1>1
      <4> QED BY <1>1, <4>1, TopIs
    <3> QED BY <1>1, <1>4, <2>1, <3>2, <3>3
  <2>2. CASE ~Lowest(n)
    BY <1>1, <1>4, <2>2
  <2> QED BY <2>1, <2>2
<1>7. WellFormed(num_negate(u)) /\ Value(num_negate(u)) = -Value(u)
  <2>1. ~Lowest(u)
    BY <1>4 DEF Lowest, Negative
  <2> QED BY <1>4, <2>1, NegateIs
<1> QED BY <1>3, <1>5, <1>6, <1>7 DEF Positive
-----------------------------------------------------------------------------
(* Bits of numbers, and numbers that are shifted in place.                 *)

(* What Tidy leaves: the words below ones that are 0, with one of 0 or of  *)
(* all ones on top.                                                        *)
Tidied(n, t) ==
  /\ n \in Seq(Word) /\ t \in Seq(Word) /\ Len(t) \in 1 .. Len(n)
  /\ (\A i \in 1 .. Len(t) : t[i] = n[i]) /\ (\A i \in Len(t) + 1 .. Len(n) : n[i] = 0)
  /\ \/ t[Len(t)] = 0 /\ (Len(t) = 2 \/ n[Len(t) - 1] # Ones)
     \/ t[Len(t)] = Ones /\ Len(t) < Len(n)

LEMMA TidyIs ==
  ASSUME NEW n \in Seq(Word), Len(n) >= 2, n[Len(n)] = 0
  PROVE  Tidied(n, Tidy(n))
<1> DEFINE s == Trim(n, 0)
           k == Len(s)
           t == Tidy(n)
<1>1. 0 \in {0, Ones} /\ Len(n) \in Nat
  OBVIOUS
<1>2. Trimmed(n, 0, s)
  BY <1>1, TrimKeeps
<1>3. t = IF Len(s) > 2 /\ Sgn(s) = 0 /\ s[Len(s) - 1] = Ones THEN Front(s) ELSE s
  BY DEF Tidy
<1> HIDE DEF s, t
<1>4. /\ s \in Seq(Word) /\ k \in 2 .. Len(n) /\ k \in Nat
      /\ (\A i \in 1 .. k : s[i] = n[i]) /\ (\A i \in k .. Len(n) : n[i] = 0)
  BY <1>1, <1>2 DEF Trimmed
<1>5. Sgn(s) = 0
  <2>1. k \in 1 .. k /\ k \in k .. Len(n)
    BY <1>1, <1>4
  <2> QED BY <1>4, <2>1 DEF Sgn, Last
<1>6. CASE k > 2 /\ s[k - 1] = Ones
  <2>1. t = SubSeq(s, 1, k - 1)
    BY <1>3, <1>5, <1>6 DEF Front
  <2> DEFINE l == k - 1
  <2>2. l \in 1 .. k /\ l \in Nat /\ l < Len(n) /\ l + 1 = k /\ t = SubSeq(s, 1, l)
    BY <1>1, <1>4, <1>6, <2>1
  <2> HIDE DEF l
  <2>3. t \in Seq(Word) /\ Len(t) = l /\ \A i \in 1 .. l : t[i] = s[i]
    <3>1. \A i \in 1 .. l : s[i] \in Word
      BY <1>4, <2>2
    <3> QED BY <1>4, <2>2, <3>1, SubSeqProperties
  <2>4. t[l] = Ones
    BY <1>6, <2>2, <2>3 DEF l
  <2> QED BY <1>1, <1>4, <2>2, <2>3, <2>4 DEF Tidied, t
<1>7. CASE ~(k > 2 /\ s[k - 1] = Ones)
  <2>1. t = s
    BY <1>3, <1>7
  <2>2. s[k] = 0 /\ \A i \in k + 1 .. Len(n) : n[i] = 0
    BY <1>1, <1>4
  <2>3. k = 2 \/ n[k - 1] # Ones
    <3>0. k \in Nat /\ k >= 2
      BY <1>1, <1>4
    <3>1. k = 2 \/ (k > 2 /\ k - 1 \in 1 .. k)
      <4> HIDE DEF k
      <4> QED BY <3>0
    <3>2. k - 1 \in 1 .. k => s[k - 1] = n[k - 1]
      BY <1>4
    <3> QED BY <1>7, <3>1, <3>2
  <2>4. Len(t) = k /\ k \in 1 .. Len(n)
    BY <1>4, <2>1
  <2> HIDE DEF k
  <2> QED BY <1>4, <2>1, <2>2, <2>3, <2>4 DEF Tidied, t
<1> QED BY <1>6, <1>7

(* Words of 0 on top are worth nothing. *)
LEMMA ZerosAbove ==
  \A n, k : n \in Seq(Word) /\ k \in 0 .. Len(n) /\ (\A i \in k + 1 .. Len(n) : n[i] = 0) =>
    N(n) = Low(n)[k]
<1> SUFFICES ASSUME NEW n \in Seq(Word), NEW k \in 0 .. Len(n), \A i \in k + 1 .. Len(n) : n[i] = 0
             PROVE  N(n) = Low(n)[k]
  OBVIOUS
<1> DEFINE l == Len(n)
           z == Const(0, l)
<1>1. l \in Nat /\ k \in Nat /\ k <= l
  OBVIOUS
<1>2. z \in Seq(Word) /\ Len(z) = l /\ N(z) = 0 /\ \A i \in 1 .. l : z[i] = 0
  BY <1>1, ZeroIs DEF Const
<1> HIDE DEF z
<1>3. Shared(n, z, k, l)
  BY <1>1, <1>2 DEF Shared
<1>4. Low(n)[l] - Low(n)[k] = Low(z)[l] - Low(z)[k]
  BY ONLY <1>3, LowShared
<1>5. Low(z)[k] \in Nat /\ Low(z)[k] <= Low(z)[l]
  <2>1. l \in 0 .. Len(z) /\ k \in 0 .. l /\ k \in 0 .. Len(z)
    BY <1>1, <1>2
  <2> QED BY <1>2, <2>1, LowIs, LowGrows
<1>6. Low(n)[k] \in Nat /\ Low(n)[l] \in Nat
  <2>1. l \in 0 .. Len(n)
    BY <1>1
  <2> QED BY <2>1, LowIs
<1> QED BY <1>2, <1>4, <1>5, <1>6 DEF N

(* The words of n above its lowest d are x. *)
Above(n, d, x) ==
  /\ n \in Seq(Word) /\ x \in Seq(Word) /\ d \in Nat /\ Len(n) = d + Len(x)
  /\ \A i \in 1 .. Len(x) : n[d + i] = x[i]

LEMMA AboveIs ==
  \A n, d, x : Above(n, d, x) =>
    \A k \in 0 .. Len(x) : Low(n)[d + k] = Low(n)[d] + P(d) * Low(x)[k]
<1> SUFFICES ASSUME NEW n, NEW d, NEW x, Above(n, d, x)
             PROVE  \A k \in 0 .. Len(x) : Low(n)[d + k] = Low(n)[d] + P(d) * Low(x)[k]
  OBVIOUS
<1> DEFINE l == Len(x)
           D == P(d)
           Ok(k) == Low(n)[d + k] = Low(n)[d] + D * Low(x)[k]
           T == {k \in 0 .. l : Ok(k)}
<1>1. /\ n \in Seq(Word) /\ x \in Seq(Word) /\ d \in Nat /\ l \in Nat /\ Len(n) = d + l
      /\ \A i \in 1 .. l : n[d + i] = x[i]
  BY DEF Above
<1>2. D \in Nat /\ \A k \in Nat : P(d + k) = D * P(k) /\ P(k) \in Nat
  BY <1>1, PIs
<1>3. 0 \in T
  <2>1. d + 0 = d /\ d \in 0 .. Len(n) /\ 0 \in 0 .. l
    BY <1>1
  <2>2. Low(x)[0] = 0 /\ Low(n)[d] \in Nat
    BY <1>1, <2>1, LowIs
  <2>3. D * 0 = 0
    BY <1>2
  <2>4. Ok(0)
    BY <2>1, <2>2, <2>3
  <2> HIDE DEF Ok
  <2> QED BY <2>1, <2>4
<1> HIDE DEF D
<1>4. ASSUME NEW k \in 0 .. l - 1, k \in T PROVE k + 1 \in T
  <2> DEFINE j == k + 1
             a == Low(n)[d]
             v == Low(x)[k]
             w == x[j]
             p == P(k)
  <2>1. j \in 1 .. l /\ j \in 0 .. l /\ j - 1 = k /\ k \in Nat /\ k \in 0 .. l
        /\ d + j \in 1 .. Len(n) /\ (d + j) - 1 = d + k /\ d \in 0 .. Len(n)
    BY <1>1
  <2>2. Low(n)[d + k] = a + D * v
    BY <1>4
  <2> HIDE DEF j
  <2>3. Low(x)[j] = v + w * p
    BY <1>1, <2>1, LowIs
  <2>4. Low(n)[d + j] = Low(n)[d + k] + n[d + j] * P(d + k)
    BY <1>1, <2>1, LowIs
  <2>5. n[d + j] = w /\ P(d + k) = D * p /\ p \in Nat
    BY <1>1, <1>2, <2>1
  <2>6. a \in Nat /\ v \in Nat /\ w \in Nat
    <3>1. \A i \in 1 .. l : x[i] \in Word
      BY <1>1
    <3>2. w \in Word
      BY <2>1, <3>1
    <3> QED BY <1>1, <2>1, <3>2, BaseIs, LowIs DEF Word
  <2> HIDE DEF a, v, w, p
  <2>7. a + D * v + w * (D * p) = a + D * (v + w * p)
    <3>1. D * (v + w * p) = D * v + w * (D * p)
      BY <1>2, <2>5, <2>6
    <3>2. D * v \in Int /\ w * (D * p) \in Int
      BY <1>2, <2>5, <2>6
    <3> QED BY <2>6, <3>1, <3>2
  <2>8. Ok(j)
    BY <2>2, <2>3, <2>4, <2>5, <2>7 DEF a
  <2> HIDE DEF Ok
  <2> QED BY <2>1, <2>8 DEF j
<1> HIDE DEF T
<1>5. 0 .. l \subseteq T
  BY <1>1, <1>3, <1>4, Induction
<1>6. \A k \in 0 .. l : Ok(k)
  BY <1>5 DEF T
<1> QED BY <1>6 DEF D

(* In place of a value whose highest word is all ones there can be another. *)
Filled(v, k) == v < P(k) /\ v >= P(k) - P(k - 1)

LEMMA TidyWorth ==
  \A n, t : Tidied(n, t) => /\ t[Len(t)] = 0 => Value(t) = N(n)
                            /\ t[Len(t)] # 0 => Filled(N(n), Len(t))
<1> SUFFICES ASSUME NEW n, NEW t, Tidied(n, t)
             PROVE  /\ t[Len(t)] = 0 => Value(t) = N(n)
                    /\ t[Len(t)] # 0 => Filled(N(n), Len(t))
  OBVIOUS
<1> DEFINE k == Len(t)
           l == k - 1
           low == Low(t)[l]
           p == P(l)
<1>1. /\ n \in Seq(Word) /\ t \in Seq(Word) /\ k \in 1 .. Len(n) /\ Len(n) \in Nat
      /\ (\A i \in 1 .. k : t[i] = n[i]) /\ (\A i \in k + 1 .. Len(n) : n[i] = 0)
      /\ t[k] \in {0, Ones}
  BY DEF Tidied
<1>2. k \in Nat /\ k >= 1 /\ k <= Len(n) /\ l \in Nat /\ k = l + 1
  <2> DEFINE len == Len(n)
  <2>1. len \in Nat /\ k \in 1 .. len
    BY <1>1
  <2> HIDE DEF len, k
  <2> QED BY <2>1 DEF len
<1>3. N(n) = N(t)
  <2>1. N(n) = Low(n)[k]
    <3>1. k \in 0 .. Len(n)
      BY <1>1, <1>2
    <3> QED BY <1>1, <3>1, ZerosAbove
  <2>2. Shared(n, t, 0, k)
    BY <1>1, <1>2 DEF Shared
  <2>3. Low(n)[k] - Low(n)[0] = Low(t)[k] - Low(t)[0]
    BY ONLY <2>2, LowShared
  <2>4. k \in 0 .. Len(n) /\ k \in 0 .. Len(t)
    BY <1>1, <1>2
  <2>5. Low(n)[0] = 0 /\ Low(n)[k] \in Nat
    BY <1>1, <2>4, LowIs
  <2>6. Low(t)[0] = 0 /\ Low(t)[k] \in Nat
    BY <1>1, <2>4, LowIs
  <2> QED BY <2>1, <2>3, <2>5, <2>6 DEF N
<1>4. /\ p \in Nat /\ p >= 1 /\ low \in Nat /\ low <= p - 1
      /\ N(t) = low + t[k] * p /\ Under(t, 0)[l] = low
  BY <1>1, <1>2, TopIs
<1>5. P(k) = Base * p
  BY <1>2, PIs
<1>6. ASSUME t[k] = 0 PROVE Value(t) = N(n)
  <2>1. Value(t) = Under(t, 0)[l]
    BY <1>6 DEF Value, Sgn, Last
  <2> HIDE DEF p, low, l, k
  <2>2. N(t) = low
    BY <1>4, <1>6
  <2> QED BY <1>3, <1>4, <2>1, <2>2
<1>7. ASSUME t[k] # 0 PROVE Filled(N(n), k)
  <2> HIDE DEF p, low
  <2>1. t[k] * p = Base * p - p /\ Base * p \in Nat
    <3>1. t[k] = Ones
      BY <1>1, <1>7
    <3> QED BY <1>4, <3>1, BaseIs
  <2> DEFINE a == t[k] * p
             b == Base * p
  <2>2. a = b - p /\ b \in Nat /\ N(t) = low + a /\ P(k) = b
    BY <1>4, <1>5, <2>1
  <2> HIDE DEF a, b, k
  <2>3. N(t) < P(k) /\ N(t) >= P(k) - p
    BY <1>4, <2>2
  <2> QED BY <1>3, <2>3 DEF Filled, p, l, k
<1> QED BY <1>6, <1>7

LEMMA ZeroOnTop == \A n : n \in Seq(Word) =>
  /\ Append(n, 0) \in Seq(Word) /\ Len(Append(n, 0)) = Len(n) + 1
  /\ Append(n, 0)[Len(n) + 1] = 0 /\ N(Append(n, 0)) = N(n)
<1> SUFFICES ASSUME NEW n \in Seq(Word)
             PROVE  /\ Append(n, 0) \in Seq(Word) /\ Len(Append(n, 0)) = Len(n) + 1
                    /\ Append(n, 0)[Len(n) + 1] = 0 /\ N(Append(n, 0)) = N(n)
  OBVIOUS
<1> DEFINE l == Len(n)
           a == Append(n, 0)
<1>1. /\ l \in Nat /\ a \in Seq(Word) /\ Len(a) = l + 1 /\ a[l + 1] = 0
      /\ \A i \in 1 .. l : a[i] = n[i]
  BY BaseIs
<1> HIDE DEF a
<1>2. N(a) = Low(a)[l]
  <2>1. l \in 0 .. Len(a) /\ \A i \in l + 1 .. Len(a) : a[i] = 0
    BY <1>1
  <2> QED BY <1>1, <2>1, ZerosAbove
<1>3. Shared(a, n, 0, l)
  BY <1>1 DEF Shared
<1>4. Low(a)[l] - Low(a)[0] = Low(n)[l] - Low(n)[0]
  BY ONLY <1>3, LowShared
<1>5. l \in 0 .. Len(a) /\ l \in 0 .. Len(n)
  BY <1>1
<1>6. Low(a)[0] = 0 /\ Low(a)[l] \in Nat
  BY <1>1, <1>5, LowIs
<1>7. Low(n)[0] = 0 /\ Low(n)[l] \in Nat
  BY <1>5, LowIs
<1> QED BY <1>1, <1>2, <1>4, <1>6, <1>7 DEF N, a

(* There is a word for any bits. *)
LEMMA BitAbove ==
  ASSUME NEW w \in Nat, NEW k \in Nat, NEW j \in 0 .. k - 1, NEW c \in Nat
  PROVE  BitOf(c * Power(2, k) + w, j) = BitOf(w, j)
<1> DEFINE J == Power(2, j)
           M == Power(2, k - (j + 1))
           q == w \div J
           r == w % J
           a == q \div 2
           b == q % 2
           v == c * Power(2, k) + w
           y == c * M
<1>1. j \in Nat /\ j + 1 \in Nat /\ k - (j + 1) \in Nat /\ (j + 1) + (k - (j + 1)) = k
  OBVIOUS
<1>2. J \in Nat /\ J >= 1 /\ M \in Nat /\ Power(2, j + 1) = 2 * J
  BY <1>1, TwosAre
<1>3. Power(2, k) = (2 * J) * M
  <2>0. 2 \in Nat
    OBVIOUS
  <2>1. Power(2, (j + 1) + (k - (j + 1))) = Power(2, j + 1) * Power(2, k - (j + 1))
    BY ONLY <1>1, <2>0, PowersMultiply
  <2> QED BY <1>1, <1>2, <2>1
<1> HIDE DEF J, M
<1>4. q \in Nat /\ r \in 0 .. J - 1 /\ w = J * q + r
  BY <1>2
<1> HIDE DEF q, r
<1>5. a \in Nat /\ b \in 0 .. 1 /\ q = 2 * a + b
  BY <1>4
<1> HIDE DEF a, b
<1>6. y \in Nat
  BY <1>2
<1>7. v = (2 * (a + y) + b) * J + r
  <2>1. c * ((2 * J) * M) = 2 * y * J
    BY <1>2
  <2> HIDE DEF y
  <2>2. J * (2 * a + b) = (2 * a + b) * J /\ (2 * (a + y) + b) * J = (2 * a + b) * J + 2 * y * J
    BY <1>2, <1>5, <1>6
  <2>3. (2 * a + b) * J \in Int /\ 2 * y * J \in Int /\ r \in Int
    BY <1>2, <1>4, <1>5, <1>6
  <2> QED BY <1>3, <1>4, <1>5, <2>1, <2>2, <2>3
<1> HIDE DEF v, y
<1>8. (v \div J) = 2 * (a + y) + b
  <2> DEFINE z == 2 * (a + y) + b
  <2>1. z \in Nat /\ J \in Nat \ {0} /\ v = z * J + r
    BY <1>2, <1>5, <1>6, <1>7
  <2> HIDE DEF z
  <2>2. v \in Nat
    <3>1. z * J \in Nat
      BY <1>2, <2>1
    <3> QED BY <1>4, <2>1, <3>1
  <2>3. (v \div J) = z
    BY <1>4, <2>1, <2>2, Divided
  <2> QED BY <2>3 DEF z
<1>9. ((2 * (a + y) + b) % 2) = b
  BY <1>5, <1>6
<1> QED BY <1>8, <1>9 DEF BitOf, J, q, b, v

LEMMA BitsExist ==
  ASSUME NEW f, \A k \in 0 .. Bits - 1 : f[k] \in 0 .. 1
  PROVE  FromBits(f) \in Word /\ \A k \in 0 .. Bits - 1 : BitOf(FromBits(f), k) = f[k]
<1> DEFINE Ok(k) == \E w \in 0 .. Power(2, k) - 1 : \A j \in 0 .. k - 1 : BitOf(w, j) = f[j]
           T == {k \in 0 .. Bits : Ok(k)}
<1>1. Bits \in Nat /\ Power(2, 0) = 1 /\ Power(2, Bits) = Base
  BY TwosAre
<1>2. 0 \in T
  <2>1. 0 \in 0 .. Power(2, 0) - 1 /\ 0 \in 0 .. Bits /\ 0 .. 0 - 1 = {}
    BY <1>1
  <2> QED BY <2>1
<1>3. ASSUME NEW k \in 0 .. Bits - 1, k \in T PROVE k + 1 \in T
  <2> DEFINE K == Power(2, k)
             l == k + 1
  <2>1. k \in Nat /\ l \in Nat /\ l \in 0 .. Bits
    BY <1>1
  <2>2. K \in Nat /\ K >= 1 /\ Power(2, l) = 2 * K
    BY <2>1, TwosAre
  <2>3. PICK w \in 0 .. K - 1 : \A j \in 0 .. k - 1 : BitOf(w, j) = f[j]
    BY <1>3
  <2>4. PICK c \in 0 .. 1 : c = f[k]
    OBVIOUS
  <2> DEFINE v == c * K + w
  <2> HIDE DEF K
  <2>5. v \in 0 .. 2 * K - 1 /\ v \in Nat /\ w \in Nat /\ c \in Nat
    <3>1. c = 0 \/ c = 1
      BY <2>4
    <3>2. 0 * K = 0 /\ 1 * K = K
      BY <2>2
    <3> QED BY <2>2, <2>3, <3>1, <3>2
  <2>6. ASSUME NEW j \in 0 .. l - 1 PROVE BitOf(v, j) = f[j]
    <3>1. CASE j = k
      <4>1. K \in Nat \ {0} /\ w \in 0 .. K - 1 /\ v = c * K + w
        BY <2>2, <2>3
      <4> HIDE DEF v
      <4>2. (v \div K) = c
        BY <2>5, <4>1, Divided
      <4>3. (c % 2) = c
        BY <2>4
      <4> QED BY <2>4, <3>1, <4>2, <4>3 DEF BitOf, K
    <3>2. CASE j # k
      <4>1. j \in 0 .. k - 1
        BY <2>1, <3>2
      <4>2. BitOf(c * Power(2, k) + w, j) = BitOf(w, j)
        BY <2>1, <2>5, <4>1, BitAbove
      <4> QED BY <2>3, <4>1, <4>2 DEF K
    <3> QED BY <3>1, <3>2
  <2> HIDE DEF v
  <2>7. Ok(l)
    BY <2>2, <2>5, <2>6
  <2> HIDE DEF Ok
  <2> QED BY <2>1, <2>7 DEF l
<1> HIDE DEF T
<1>4. Bits \in T
  <2>1. 0 .. Bits \subseteq T
    BY <1>1, <1>2, <1>3, Induction
  <2> QED BY <1>1, <2>1
<1>5. \E w \in Word : \A k \in 0 .. Bits - 1 : BitOf(w, k) = f[k]
  BY <1>1, <1>4 DEF T, Word
<1> QED BY <1>5 DEF FromBits

LEMMA BitIs == \A w \in Word, k \in 0 .. Bits - 1 : BitOf(w, k) \in 0 .. 1
<1> TAKE w \in Word, k \in 0 .. Bits - 1
<1> DEFINE X == Power(2, k)
<1>1. w \in Nat /\ k \in Nat
  BY BaseIs, TwosAre DEF Word
<1>2. X \in Nat /\ X >= 1
  BY <1>1, TwosAre
<1> HIDE DEF X
<1>3. w \div X \in Nat
  BY <1>1, <1>2
<1>4. \A x \in Nat : (x % 2) \in 0 .. 1
  OBVIOUS
<1> QED BY <1>3, <1>4 DEF BitOf, X

(* The bits that two words have in common, and those of two signs. *)
LEMMA AndIs ==
  /\ \A x, y \in Word : And(x, y) \in Word
  /\ \A x, y \in {0, Ones} : And(x, y) = IF x = Ones /\ y = Ones THEN Ones ELSE 0
<1>1. ASSUME NEW x \in Word, NEW y \in Word PROVE And(x, y) \in Word
  <2> DEFINE f == [k \in 0 .. Bits - 1 |-> BitOf(x, k) * BitOf(y, k)]
  <2>1. \A k \in 0 .. Bits - 1 : f[k] \in 0 .. 1
    <3> TAKE k \in 0 .. Bits - 1
    <3>1. BitOf(x, k) \in 0 .. 1 /\ BitOf(y, k) \in 0 .. 1
      BY BitIs
    <3>2. \A a, b \in 0 .. 1 : a * b \in 0 .. 1
      OBVIOUS
    <3>3. BitOf(x, k) * BitOf(y, k) \in 0 .. 1
      BY <3>1, <3>2
    <3> QED BY <3>3
  <2>2. And(x, y) = FromBits(f)
    BY DEF And
  <2> HIDE DEF f
  <2> QED BY <2>1, <2>2, BitsExist
<1>2. ASSUME NEW x \in {0, Ones}, NEW y \in {0, Ones}
      PROVE  And(x, y) = IF x = Ones /\ y = Ones THEN Ones ELSE 0
  <2> DEFINE f == [k \in 0 .. Bits - 1 |-> BitOf(x, k) * BitOf(y, k)]
             w == IF x = Ones /\ y = Ones THEN Ones ELSE 0
  <2>1. w \in Word
    BY BaseIs
  <2>2. ASSUME NEW k \in 0 .. Bits - 1 PROVE BitOf(w, k) = f[k]
    <3>1. BitOf(0, k) = 0 /\ BitOf(Ones, k) = 1
      BY BitsOfSigns
    <3>2. f[k] = BitOf(x, k) * BitOf(y, k)
      OBVIOUS
    <3>3. 1 * 1 = 1 /\ 0 * 1 = 0 /\ 1 * 0 = 0 /\ 0 * 0 = 0
      OBVIOUS
    <3> HIDE DEF f
    <3> QED BY <3>1, <3>2, <3>3
  <2> HIDE DEF w
  <2>3. FromBits(f) = w
    <3> HIDE DEF f
    <3> QED BY <2>1, <2>2, FromBitsIs
  <2> QED BY <2>3 DEF And, w
<1> QED BY <1>1, <1>2

(* The words of a number that is made word by word from two of one size. *)
Tupled(r, l) == l \in Nat /\ r = [i \in 1 .. l |-> r[i]]

LEMMA WordByWord ==
  \A r, l : Tupled(r, l) => \A i : WordAt(r, i) = IF i < l THEN r[i] ELSE r[l]
<1> SUFFICES ASSUME NEW r, NEW l, Tupled(r, l)
             PROVE  \A i : WordAt(r, i) = IF i < l THEN r[i] ELSE r[l]
  OBVIOUS
<1> USE DEF Tupled
<1> DEFINE S == {r[i] : i \in 1 .. l}
<1>1. r \in [1 .. l -> S]
  <2>1. \A i \in 1 .. l : r[i] \in S
    OBVIOUS
  <2> HIDE DEF S
  <2> QED BY <2>1
<1> HIDE DEF S
<1>2. Len(r) = l
  BY <1>1, Tuple
<1>3. Sgn(r) = r[l]
  BY <1>2 DEF Sgn, Last
<1> QED BY <1>2, <1>3 DEF WordAt

LEMMA OrXorIs ==
  ASSUME NEW n, NEW m, WellFormed(n), WellFormed(m), Len(n) = Len(m)
  PROVE  \A i \in Nat \ {0} :
           /\ WordAt(num_or(n, m), i) = Or(WordAt(n, i), WordAt(m, i))
           /\ WordAt(num_xor(n, m), i) = Xor(WordAt(n, i), WordAt(m, i))
<1> DEFINE l == Len(n)
           o == num_or(n, m)
           x == num_xor(n, m)
<1>1. n \in Seq(Word) /\ m \in Seq(Word) /\ l \in Nat /\ l >= 2 /\ Len(m) = l
  BY WellFormedIs
<1>2. DOMAIN n = 1 .. l /\ Second(n, m) = m /\ DOMAIN Second(n, m) = 1 .. l
  BY <1>1 DEF Second
<1>3. o = [i \in 1 .. l |-> Or(n[i], m[i])]
  BY <1>2, Zenon DEF num_or
<1>4. x = [i \in 1 .. l |-> Xor(n[i], m[i])]
  BY <1>2, Zenon DEF num_xor
<1> HIDE DEF l, o, x
<1>5. o = [i \in 1 .. l |-> o[i]] /\ \A i \in 1 .. l : o[i] = Or(n[i], m[i])
  BY <1>3
<1>6. x = [i \in 1 .. l |-> x[i]] /\ \A i \in 1 .. l : x[i] = Xor(n[i], m[i])
  BY <1>4
<1>7. Tupled(o, l) /\ Tupled(x, l)
  BY <1>1, <1>5, <1>6 DEF Tupled
<1>8. \A i : /\ WordAt(o, i) = IF i < l THEN o[i] ELSE o[l]
            /\ WordAt(x, i) = IF i < l THEN x[i] ELSE x[l]
  BY ONLY <1>7, WordByWord
<1>9. \A i : /\ WordAt(n, i) = IF i < l THEN n[i] ELSE n[l]
            /\ WordAt(m, i) = IF i < l THEN m[i] ELSE m[l]
  BY <1>1 DEF WordAt, Sgn, Last, l
<1>10. l \in 1 .. l /\ \A i \in Nat \ {0} : i \in Nat /\ (i < l => i \in 1 .. l)
  BY <1>1
<1>11. \A i \in Nat \ {0} : WordAt(o, i) = Or(WordAt(n, i), WordAt(m, i))
  BY <1>5, <1>8, <1>9, <1>10
<1>12. \A i \in Nat \ {0} : WordAt(x, i) = Xor(WordAt(n, i), WordAt(m, i))
  BY <1>6, <1>8, <1>9, <1>10
<1> QED BY <1>11, <1>12 DEF o, x

LEMMA NumAndIs ==
  ASSUME NEW n, NEW m, WellFormed(n), WellFormed(m), Len(n) = Len(m)
  PROVE  LET r == num_and(n, m)
             v == Value([i \in DOMAIN n |-> And(n[i], m[i])])
         IN  \/ \A i \in Nat \ {0} : WordAt(r, i) = And(WordAt(n, i), WordAt(m, i))
             \/ Filled(v, Len(r))
<1> DEFINE l == Len(n)
           w == [i \in 1 .. l |-> And(n[i], m[i])]
           a == Append(w, 0)
           r == num_and(n, m)
           k == Len(r)
<1>1. /\ n \in Seq(Word) /\ m \in Seq(Word) /\ l \in Nat /\ l >= 2 /\ Len(m) = l
      /\ n[l] \in {0, Ones} /\ m[l] \in {0, Ones}
  BY WellFormedIs
<1>2. DOMAIN n = 1 .. l /\ Len(Shorter(n, m)) = l
  BY <1>1 DEF Shorter
<1>3. r = Tidy(a)
  BY <1>2 DEF num_and
<1>4. w \in Seq(Word) /\ Len(w) = l /\ \A i \in 1 .. l : w[i] = And(n[i], m[i])
  <2>1. \A i \in 1 .. l : n[i] \in Word /\ m[i] \in Word
    BY <1>1
  <2>2. w \in [1 .. l -> Word] /\ \A i \in 1 .. l : w[i] = And(n[i], m[i])
    BY <2>1, AndIs
  <2> HIDE DEF w
  <2> QED BY <1>1, <2>2, Tuple
<1>5. w[l] = IF n[l] = Ones /\ m[l] = Ones THEN Ones ELSE 0
  <2>1. l \in 1 .. l
    BY <1>1
  <2> HIDE DEF w, l
  <2> QED BY <1>1, <1>4, <2>1, AndIs
<1>6. [i \in DOMAIN n |-> And(n[i], m[i])] = w
  BY <1>2
<1> HIDE DEF w
<1>7. a \in Seq(Word) /\ Len(a) = l + 1 /\ a[l + 1] = 0 /\ \A i \in 1 .. l : a[i] = w[i]
  BY <1>1, <1>4, BaseIs
<1> HIDE DEF a, r, l
<1>8. Tidied(a, r)
  BY <1>1, <1>3, <1>7, TidyIs
<1>9. /\ r \in Seq(Word) /\ k \in 1 .. l + 1
      /\ (\A i \in 1 .. k : r[i] = a[i]) /\ (\A i \in k + 1 .. l + 1 : a[i] = 0)
      /\ \/ r[k] = 0 /\ (k = 2 \/ a[k - 1] # Ones)
         \/ r[k] = Ones /\ k < l + 1
  BY <1>7, <1>8 DEF Tidied
<1>10. Len(n) = l
  BY DEF l
<1>11. Sgn(r) = r[k]
  BY DEF Sgn, Last
<1>12. \A i \in Nat \ {0} : /\ WordAt(r, i) = IF i < k THEN r[i] ELSE r[k]
                            /\ WordAt(n, i) = IF i < l THEN n[i] ELSE n[l]
                            /\ WordAt(m, i) = IF i < l THEN m[i] ELSE m[l]
  BY <1>1, <1>10, <1>11 DEF WordAt, Sgn, Last
<1> HIDE DEF k
<1>13. k \in Nat /\ k >= 1 /\ k <= l + 1
  BY <1>1, <1>9
<1> DEFINE W(i) == IF i < l THEN w[i] ELSE w[l]
           R(i) == IF i < k THEN r[i] ELSE r[k]
<1>14. \A i \in Nat \ {0} : And(WordAt(n, i), WordAt(m, i)) = W(i)
  <2>1. l \in 1 .. l /\ \A i \in Nat \ {0} : i \in Nat /\ (i < l => i \in 1 .. l)
    BY <1>1
  <2> QED BY <1>4, <1>12, <2>1
<1>15. \A i \in 1 .. k : r[i] = IF i <= l THEN w[i] ELSE 0
  <2> TAKE i \in 1 .. k
  <2>1. i \in 1 .. l \/ (i = l + 1 /\ ~(i <= l))
    BY <1>1, <1>13
  <2>2. i \in 1 .. l => i <= l
    BY <1>1
  <2> QED BY <1>7, <1>9, <2>1, <2>2
<1>16. \A i \in k + 1 .. l : w[i] = 0
  <2> TAKE i \in k + 1 .. l
  <2>1. i \in k + 1 .. l + 1 /\ i \in 1 .. l
    BY <1>1, <1>13
  <2> QED BY <1>7, <1>9, <2>1
<1>17. Ones # 0
  BY BaseIs
<1> DEFINE Same == \A i \in Nat \ {0} : WordAt(r, i) = And(WordAt(n, i), WordAt(m, i))
           Lost == Filled(Value([i \in DOMAIN n |-> And(n[i], m[i])]), Len(r))
<1>18. ASSUME r[k] = 0 /\ w[l] = 0 PROVE Same
  <2>1. ASSUME NEW i \in Nat \ {0} PROVE R(i) = W(i)
    <3>1. CASE i < k
      <4>1. i \in 1 .. k /\ (i < l \/ i = l)
        BY <1>1, <1>13, <3>1
      <4>2. i <= l /\ (~(i < l) => i = l)
        BY <1>1, <4>1
      <4>3. r[i] = w[i]
        BY <1>15, <4>1, <4>2
      <4>4. R(i) = r[i] /\ W(i) = w[i]
        BY <3>1, <4>2
      <4> HIDE DEF R, W
      <4> QED BY <4>3, <4>4
    <3>2. CASE ~(i < k)
      <4>1. R(i) = 0
        BY <1>18, <3>2
      <4>2. ASSUME i < l PROVE w[i] = 0
        <5>1. i = k \/ i \in k + 1 .. l
          BY <1>1, <1>13, <3>2, <4>2
        <5>2. k \in 1 .. k /\ (i = k => k <= l)
          BY <1>1, <1>13, <4>2
        <5> QED BY <1>15, <1>16, <1>18, <5>1, <5>2
      <4>3. W(i) = 0
        BY <1>18, <4>2
      <4> HIDE DEF R, W
      <4> QED BY <4>1, <4>3
    <3> QED BY <3>1, <3>2
  <2> QED BY <1>12, <1>14, <2>1
<1>19. ~(r[k] = 0 /\ w[l] = Ones)
  <2> SUFFICES ASSUME r[k] = 0, w[l] = Ones PROVE FALSE
    OBVIOUS
  <2>1. k >= l
    <3> SUFFICES ASSUME ~(k >= l) PROVE FALSE
      OBVIOUS
    <3>1. l \in k + 1 .. l
      BY <1>1, <1>13
    <3> QED BY <1>16, <1>17, <3>1
  <2>2. CASE k = l
    <3>1. l \in 1 .. k /\ l <= l
      BY <1>1, <2>2
    <3> QED BY <1>15, <1>17, <2>2, <3>1
  <2>3. CASE k = l + 1
    <3>1. k # 2 /\ k - 1 = l /\ l \in 1 .. l
      BY <1>1, <2>3
    <3> QED BY <1>7, <1>9, <1>17, <2>3, <3>1
  <2> QED BY <1>1, <1>13, <2>1, <2>2, <2>3
<1>20. ASSUME r[k] = Ones /\ k < l + 1 /\ w[l] = Ones PROVE Same
  <2>1. k = l
    <3> SUFFICES ASSUME k # l PROVE FALSE
      OBVIOUS
    <3>1. l \in k + 1 .. l
      BY <1>1, <1>13, <1>20
    <3> QED BY <1>16, <1>17, <1>20, <3>1
  <2>2. ASSUME NEW i \in Nat \ {0} PROVE R(i) = W(i)
    <3>1. i < k => i \in 1 .. k /\ i <= l
      BY <1>13, <2>1
    <3> QED BY <1>15, <1>20, <2>1, <3>1
  <2> QED BY <1>12, <1>14, <2>2
<1>21. ASSUME r[k] = Ones /\ k < l + 1 /\ w[l] = 0 PROVE Lost
  <2>1. Filled(N(a), k)
    BY <1>8, <1>17, <1>21, TidyWorth DEF k
  <2>2. N(a) = N(w)
    BY <1>4, ZeroOnTop DEF a
  <2>3. Value(w) = N(w)
    <3>1. Sgn(w) = 0
      BY <1>4, <1>21 DEF Sgn, Last
    <3>2. WellFormed(w)
      BY <1>1, <1>4, <3>1 DEF WellFormed
    <3> QED BY <3>1, <3>2, PositiveIs
  <2> QED BY <1>6, <2>1, <2>2, <2>3 DEF k
<1>22. w[l] \in {0, Ones}
  BY <1>5
<1> HIDE DEF Same, Lost
<1>23. Same \/ Lost
  BY <1>9, <1>18, <1>19, <1>20, <1>21, <1>22
<1> QED BY <1>23 DEF r, Same, Lost

LEMMA TwoPowers ==
  \A d, s \in Nat : Power(2, Bits * d + s) = P(d) * Power(2, s)
<1>1. Bits \in Nat /\ Bits >= 1 /\ Power(2, Bits) = Base /\ 2 \in Nat
  BY TwosAre
<1>2. ASSUME NEW d \in Nat PROVE Power(2, Bits * d) = P(d)
  <2> DEFINE T == {k \in 0 .. d : Power(2, Bits * k) = P(k)}
  <2>1. 0 \in T
    <3>1. Bits * 0 = 0 /\ Power(2, 0) = 1
      BY <1>1, TwosAre
    <3> QED BY <3>1, PIs
  <2>2. ASSUME NEW k \in 0 .. d - 1, k \in T PROVE k + 1 \in T
    <3> DEFINE b == Bits * k
               c == Bits * (k + 1)
               j == k + 1
    <3>1. k \in Nat /\ j \in 0 .. d
      BY <1>2
    <3>2. b \in Nat /\ c = b + Bits
      BY <1>1, <3>1
    <3>3. Power(2, b) = P(k)
      BY <2>2
    <3> HIDE DEF b, c
    <3>4. Power(2, b + Bits) = Power(2, b) * Power(2, Bits)
      BY <1>1, <3>2, PowersMultiply
    <3>5. P(j) = Base * P(k) /\ P(k) \in Nat
      BY <3>1, PIs
    <3>6. P(k) * Base = Base * P(k)
      BY <3>5, BaseIs
    <3>7. Power(2, c) = P(j)
      BY <1>1, <3>2, <3>3, <3>4, <3>5, <3>6
    <3>8. Power(2, Bits * j) = P(j)
      BY <3>7 DEF c
    <3> HIDE DEF j
    <3> QED BY <3>1, <3>8 DEF j
  <2> HIDE DEF T
  <2>3. d \in T
    <3>1. 0 .. d \subseteq T
      BY <2>1, <2>2, Induction
    <3> QED BY <3>1
  <2> QED BY <2>3 DEF T
<1> TAKE d, s \in Nat
<1> DEFINE b == Bits * d
<1>3. b \in Nat /\ Power(2, b) = P(d)
  <2>1. \A x, y \in Nat : x * y \in Nat
    OBVIOUS
  <2> QED BY <1>1, <1>2, <2>1
<1> HIDE DEF b
<1>4. Power(2, b + s) = Power(2, b) * Power(2, s)
  BY <1>1, <1>3, PowersMultiply
<1> QED BY <1>3, <1>4 DEF b

(* Words of 0 below a number. *)
LEMMA LiftedIs ==
  ASSUME NEW x \in Seq(Word), Len(x) >= 1, NEW d \in Nat
  PROVE  LET z == Const(0, d) \o x
         IN  /\ z \in Seq(Word) /\ Len(z) = d + Len(x)
             /\ z[Len(z)] = x[Len(x)] /\ N(z) = P(d) * N(x)
<1> DEFINE c == Const(0, d)
           z == c \o x
           l == Len(x)
<1>1. c \in Seq(Word) /\ Len(c) = d /\ N(c) = 0
  BY ZeroIs
<1> HIDE DEF c
<1>2. z \in Seq(Word) /\ Len(z) = d + l
      /\ \A i \in 1 .. d + l : z[i] = IF i <= d THEN c[i] ELSE x[i - d]
  BY <1>1, ConcatProperties
<1> HIDE DEF z
<1>3. l \in Nat /\ l >= 1
  OBVIOUS
<1>4. \A i \in 1 .. l : z[d + i] = x[i]
  <2> TAKE i \in 1 .. l
  <2>1. d + i \in 1 .. d + l /\ ~(d + i <= d) /\ (d + i) - d = i
    BY <1>3
  <2>2. z[d + i] = x[(d + i) - d]
    BY <1>2, <2>1
  <2> QED BY <2>1, <2>2
<1>5. Above(z, d, x)
  BY <1>2, <1>4 DEF Above
<1>6. Low(z)[d + l] = Low(z)[d] + P(d) * Low(x)[l]
  <2>1. l \in 0 .. Len(x)
    BY <1>3
  <2> QED BY <1>5, <2>1, AboveIs
<1>7. Low(z)[d] = 0
  <2>1. Shared(z, c, 0, d)
    <3>1. \A i \in 1 .. d : i \in 1 .. d + l /\ i <= d
      BY <1>3
    <3>2. \A i \in 0 + 1 .. d : z[i] = c[i]
      BY <1>2, <3>1
    <3> QED BY <1>1, <1>2, <1>3, <3>2 DEF Shared
  <2>2. Low(z)[d] - Low(z)[0] = Low(c)[d] - Low(c)[0]
    BY ONLY <2>1, LowShared
  <2>3. d \in 0 .. Len(z) /\ Len(z) = d + l
    BY <1>2, <1>3
  <2>4. Low(z)[0] = 0 /\ Low(z)[d] \in Nat
    BY <1>2, <2>3, LowIs
  <2>5. Low(c)[0] = 0 /\ Low(c)[d] = 0
    BY <1>1, LowIs DEF N
  <2> QED BY <2>2, <2>4, <2>5
<1>8. z[Len(z)] = x[l]
  <2>1. l \in 1 .. l
    BY <1>3
  <2> QED BY <1>2, <1>4, <2>1
<1>9. N(z) = P(d) * N(x)
  <2> DEFINE q == P(d) * N(x)
  <2>1. q \in Nat
    <3>1. P(d) \in Nat /\ N(x) \in Nat
      BY PIs, NIs
    <3>2. \A a, b \in Nat : a * b \in Nat
      OBVIOUS
    <3> QED BY <3>1, <3>2
  <2>2. q = P(d) * Low(x)[l]
    BY DEF N
  <2> HIDE DEF q
  <2>3. Low(z)[d + l] = q
    BY <1>6, <1>7, <2>1, <2>2
  <2> QED BY <1>2, <2>3 DEF N, q
<1> QED BY <1>2, <1>8, <1>9 DEF z, c

LEMMA ByBits ==
  ASSUME NEW shf \in Nat
  PROVE  /\ Bits \in Nat /\ Bits >= 1 /\ shf % Bits \in 0 .. Bits - 1 /\ shf \div Bits \in Nat
         /\ shf = Bits * (shf \div Bits) + (shf % Bits) /\ shf % Bits \in Nat
<1>1. Bits \in Nat /\ Bits >= 1
  BY TwosAre
<1>2. \A b \in Nat : b >= 1 => /\ (shf % b) \in 0 .. b - 1 /\ (shf \div b) \in Nat
                              /\ shf = b * (shf \div b) + (shf % b) /\ (shf % b) \in Nat
  BY ONLY shf \in Nat
<1> QED BY <1>1, <1>2

LEMMA LeftIs ==
  ASSUME NEW n, WellFormed(n), Sgn(n) = 0, NEW shf \in Nat
  PROVE  LET r == num_shift_left(n, shf)
             v == N(n) * Power(2, shf)
         IN  Value(r) = v \/ Filled(v, Len(r))
<1> DEFINE mod == shf % Bits
           d == shf \div Bits
           S == Power(2, mod)
           low == Const(0, d)
           sh == Shifted(n, mod)
           r == num_shift_left(n, shf)
           v == N(n) * Power(2, shf)
           l == Len(n)
<1>1. Bits \in Nat /\ Bits >= 1 /\ mod \in 0 .. Bits - 1 /\ d \in Nat /\ shf = Bits * d + mod /\ mod \in Nat
  BY ByBits
<1>2. n \in Seq(Word) /\ l \in Nat /\ l >= 2 /\ n[l] = 0
  BY WellFormedIs
<1>3. r = IF mod = 0 THEN low \o n
          ELSE Tidy(low \o sh \o (<<Sgn(n) \div Power(2, Bits - mod)>>
                                  \o (IF Sgn(n) # 0 THEN <<0>> ELSE <<>>)))
  BY DEF num_shift_left
<1> HIDE DEF mod, d, low, sh, r
<1>4. S \in Nat /\ S >= 1 /\ S <= Base
  <2>1. 2 \in Nat /\ 2 >= 1 /\ mod \in 0 .. Bits
    BY <1>1
  <2>2. Power(2, mod) <= Power(2, Bits)
    BY <1>1, <2>1, PowerGrows
  <2> QED BY <1>1, <2>2, TwosAre
<1>5. v = P(d) * (S * N(n)) /\ P(d) \in Nat /\ N(n) \in Nat
  <2>1. Power(2, shf) = P(d) * S /\ P(d) \in Nat /\ N(n) \in Nat
    BY <1>1, <1>2, TwoPowers, PIs, NIs
  <2> DEFINE a == P(d)
             b == N(n)
  <2>2. a \in Nat /\ b \in Nat /\ v = b * (a * S)
    BY <2>1
  <2> HIDE DEF a, b, S, v
  <2>3. b * (a * S) = a * (S * b)
    BY <1>4, <2>2
  <2> QED BY <2>2, <2>3 DEF a, b
<1>6. CASE mod = 0
  <2>1. r \in Seq(Word) /\ Len(r) = d + l /\ r[Len(r)] = 0 /\ N(r) = P(d) * N(n)
    BY <1>1, <1>2, <1>3, <1>6, LiftedIs DEF low
  <2>2. WellFormed(r) /\ Sgn(r) = 0
    BY <1>1, <1>2, <2>1 DEF WellFormed, Sgn, Last
  <2>3. Value(r) = N(r)
    BY <2>2, PositiveIs
  <2>4. S = 1
    BY <1>6, TwosAre
  <2>5. 1 * N(n) = N(n)
    BY <1>5
  <2> HIDE DEF v, S
  <2>6. Value(r) = v
    BY <1>5, <2>1, <2>3, <2>4, <2>5
  <2> QED BY <2>6 DEF r, v
<1>7. CASE mod # 0
  <2>1. Room(n, mod)
    <3> DEFINE p == P(l - 1)
               b == N(n)
    <3>1. p \in Nat /\ p >= 1 /\ P(l) = Base * p /\ b <= p - 1 /\ b \in Nat
      <4>1. l - 1 \in Nat /\ (l - 1) + 1 = l /\ l - 1 \in 0 .. Len(n)
        BY <1>2
      <4>2. N(n) = Low(n)[l - 1]
        BY PositiveIs
      <4>3. P(l - 1) \in Nat /\ P(l - 1) >= 1 /\ P((l - 1) + 1) = Base * P(l - 1)
        BY <4>1, PIs
      <4>4. Low(n)[l - 1] \in Nat /\ Low(n)[l - 1] <= P(l - 1) - 1
        BY <1>2, <4>1, LowIs
      <4> QED BY <4>1, <4>2, <4>3, <4>4
    <3> HIDE DEF p, b, S
    <3>2. S * b <= Base * p - 1
      <4>1. (Base - S) * b >= 0 /\ Base * (p - 1 - b) >= 0
        BY <1>4, <3>1, BaseIs
      <4>2. (Base - S) * b = Base * b - S * b /\ Base * (p - 1 - b) = Base * p - Base - Base * b
        BY <1>4, <3>1, BaseIs
      <4>3. Base * b \in Int /\ S * b \in Int /\ Base * p \in Int
        BY <1>4, <3>1, BaseIs
      <4> QED BY <4>1, <4>2, <4>3, BaseIs
    <3> QED BY <1>1, <1>2, <3>1, <3>2 DEF Room, b, S
  <2>2. sh \in Seq(Word) /\ Len(sh) = l /\ N(sh) = S * N(n)
    BY <2>1, ShiftedIs DEF sh
  <2> DEFINE z == low \o sh
             a == Append(z, 0)
  <2>3. z \in Seq(Word) /\ Len(z) = d + l /\ N(z) = P(d) * N(sh)
    <3>1. Len(sh) >= 1
      BY <1>2, <2>2
    <3> QED BY <1>1, <2>2, <3>1, LiftedIs DEF low
  <2>4. r = Tidy(a)
    <3>1. (Sgn(n) \div Power(2, Bits - mod)) = 0
      <4> DEFINE Q == Power(2, Bits - mod)
      <4>1. Q \in Nat /\ Q >= 1
        <5>1. Bits - mod \in Nat
          BY <1>1
        <5> QED BY <5>1, TwosAre
      <4> HIDE DEF Q
      <4>2. (0 \div Q) = 0
        BY <4>1
      <4> QED BY <4>2 DEF Q
    <3>2. r = Tidy(z \o (<<0>> \o <<>>))
      BY <1>3, <1>7, <3>1
    <3> HIDE DEF z
    <3>3. z \o (<<0>> \o <<>>) = Append(z, 0)
      BY <2>3, BaseIs
    <3> QED BY <3>2, <3>3
  <2> HIDE DEF z, v, S
  <2>5. a \in Seq(Word) /\ Len(a) = d + l + 1 /\ a[d + l + 1] = 0 /\ N(a) = N(z)
    BY <2>3, ZeroOnTop
  <2> HIDE DEF a
  <2>6. Tidied(a, r)
    <3>1. Len(a) >= 2
      BY <1>1, <1>2, <2>5
    <3> QED BY <2>4, <2>5, <3>1, TidyIs
  <2>7. N(a) = v
    BY <1>5, <2>2, <2>3, <2>5
  <2>8. Value(r) = v \/ Filled(v, Len(r))
    BY <2>6, <2>7, TidyWorth
  <2> QED BY <2>8 DEF r, v
<1> QED BY <1>6, <1>7

(* A word that is shifted to the right, with the bits of the next one. *)
LEMMA WordRight ==
  ASSUME NEW x \in Word, NEW y \in Word, NEW s \in 1 .. Bits - 1
  PROVE  LET q == Power(2, s)
             w == (x \div q) + ((y * Power(2, Bits - s)) % Base)
         IN  w \in Word /\ q * w + (x % q) = x + Base * (y % q)
<1> DEFINE q == Power(2, s)
           Q == Power(2, Bits - s)
           a == x \div q
           b == x % q
           c == y \div q
           d == y % q
           z == y * Q
           B == Base
<1>1. q \in Nat /\ q >= 1 /\ Q \in Nat /\ Q >= 1 /\ q * Q = B
  <2>1. Bits \in Nat /\ s \in Nat /\ s \in 0 .. Bits /\ Bits - s \in Nat
    BY TwosAre
  <2> QED BY <2>1, TwosAre
<1>2. x \in 0 .. B - 1 /\ y \in 0 .. B - 1 /\ B \in Nat /\ B >= 4 /\ x \in Nat /\ y \in Nat
  BY BaseIs DEF Word
<1> HIDE DEF q, Q, B
<1>3. a \in Nat /\ b \in 0 .. q - 1 /\ x = q * a + b
  BY <1>1, <1>2
<1>4. c \in Nat /\ d \in 0 .. q - 1 /\ y = q * c + d
  BY <1>1, <1>2
<1> HIDE DEF a, b, c, d
<1>5. a <= Q - 1
  <2> SUFFICES ASSUME a >= Q PROVE FALSE
    BY <1>1, <1>3
  <2>1. q * (a - Q) >= 0
    BY <1>1, <1>3
  <2>2. q * (a - Q) = q * a - q * Q /\ q * a \in Int
    BY <1>1, <1>3
  <2> QED BY <1>1, <1>2, <1>3, <2>1, <2>2
<1>6. d * Q \in Nat /\ d * Q <= B - Q
  <2>1. (q - 1 - d) * Q >= 0 /\ d * Q \in Nat
    BY <1>1, <1>4
  <2>2. (q - 1 - d) * Q = q * Q - Q - d * Q
    BY <1>1, <1>4
  <2> DEFINE e == (q - 1 - d) * Q
             f == d * Q
  <2>3. e >= 0 /\ f \in Nat /\ e = B - Q - f
    BY <1>1, <2>1, <2>2
  <2> HIDE DEF e, f
  <2>4. f <= B - Q
    BY <1>1, <1>2, <2>3
  <2> QED BY <2>3, <2>4 DEF f
<1>7. (z % B) = d * Q
  <2> DEFINE f == d * Q
  <2>1. z = c * B + f
    <3>1. (q * c + d) * Q = c * (q * Q) + d * Q
      BY <1>1, <1>4
    <3> QED BY <1>1, <1>4, <3>1
  <2>2. f \in 0 .. B - 1 /\ B \in Nat \ {0} /\ z \in Nat
    <3>1. \A i, j \in Nat : i * j \in Nat
      OBVIOUS
    <3>2. z \in Nat
      BY <1>1, <1>2, <3>1
    <3>3. f \in Nat /\ f <= B - Q
      BY <1>6
    <3> HIDE DEF f
    <3>4. f \in 0 .. B - 1
      BY <1>1, <1>2, <3>3
    <3> QED BY <1>2, <3>2, <3>4
  <2> HIDE DEF f, z
  <2>3. (z % B) = f
    BY <1>4, <2>1, <2>2, Divided
  <2> QED BY <2>3 DEF f
<1> HIDE DEF z
<1> DEFINE f == d * Q
           w == a + (z % B)
<1>8. w = a + f /\ f \in Nat /\ f <= B - Q
  BY <1>6, <1>7
<1>9. w \in 0 .. B - 1
  <2> HIDE DEF f, w
  <2> QED BY <1>1, <1>2, <1>3, <1>5, <1>8
<1>10. q * w + b = x + B * d
  <2>1. q * (a + d * Q) = q * a + (q * Q) * d
    BY <1>1, <1>3, <1>4
  <2>2. q * a \in Int /\ B * d \in Int /\ b \in Int
    BY <1>1, <1>2, <1>3, <1>4
  <2>3. q * w = q * a + B * d
    BY <1>1, <1>8, <2>1
  <2> HIDE DEF w
  <2> QED BY <1>3, <2>2, <2>3
<1> QED BY <1>9, <1>10 DEF Word, w, z, a, b, d, q, Q, B

(* The words of a number, each with the bits of the next one. *)
Right(m, s) ==
  [i \in 1 .. Len(m) - 1 |->
     (m[i] \div Power(2, s)) + ((m[i + 1] * Power(2, Bits - s)) % Base)]

LEMMA RightIs ==
  ASSUME NEW m \in Seq(Word), Len(m) >= 1, m[Len(m)] = 0, NEW s \in 1 .. Bits - 1
  PROVE  /\ Right(m, s) \in Seq(Word) /\ Len(Right(m, s)) = Len(m) - 1
         /\ \E e \in 0 .. Power(2, s) - 1 : Power(2, s) * N(Right(m, s)) + e = N(m)
<1> DEFINE h == Len(m) - 1
           q == Power(2, s)
           r == Right(m, s)
           e == m[1] % q
           low(i) == m[i + 1] % q
           Ok(k) == q * Low(r)[k] + e = Low(m)[k] + P(k) * low(k)
           T == {k \in 0 .. h : Ok(k)}
<1>1. h \in Nat /\ Len(m) = h + 1 /\ \A i \in 1 .. h + 1 : m[i] \in Word
  <2>1. Len(m) \in Nat /\ \A i \in 1 .. Len(m) : m[i] \in Word
    OBVIOUS
  <2> QED BY <2>1
<1>2. q \in Nat /\ q >= 1
  <2>1. s \in Nat
    BY TwosAre
  <2> QED BY <2>1, TwosAre
<1>3. r = [i \in 1 .. h |-> (m[i] \div q) + ((m[i + 1] * Power(2, Bits - s)) % Base)]
  BY DEF Right
<1> HIDE DEF r, h
<1>4. \A i \in 1 .. h : r[i] \in Word /\ q * r[i] + (m[i] % q) = m[i] + Base * low(i)
  <2> TAKE i \in 1 .. h
  <2>1. i \in 1 .. h + 1 /\ i + 1 \in 1 .. h + 1
    BY <1>1
  <2>2. m[i] \in Word /\ m[i + 1] \in Word
    BY <1>1, <2>1
  <2>3. r[i] = (m[i] \div q) + ((m[i + 1] * Power(2, Bits - s)) % Base)
    BY <1>3
  <2> DEFINE x == m[i]
             y == m[i + 1]
             v == (x \div q) + ((y * Power(2, Bits - s)) % Base)
  <2>4. x \in Word /\ y \in Word /\ r[i] = v
    BY <2>2, <2>3
  <2> HIDE DEF x, y
  <2>5. v \in Word /\ q * v + (x % q) = x + Base * (y % q)
    BY <2>4, WordRight
  <2> HIDE DEF v, q
  <2>6. r[i] \in Word /\ q * r[i] + (x % q) = x + Base * (y % q)
    BY <2>4, <2>5
  <2> QED BY <2>6 DEF x, y
<1>5. r \in Seq(Word) /\ Len(r) = h
  <2>1. r \in [1 .. h -> Word]
    BY <1>3, <1>4
  <2> QED BY <1>1, <2>1, Tuple
<1>6. \A i \in 0 .. h : low(i) \in 0 .. q - 1 /\ low(i) \in Nat
  <2> TAKE i \in 0 .. h
  <2>1. i + 1 \in 1 .. h + 1
    BY <1>1
  <2>2. m[i + 1] \in Nat
    BY <1>1, <2>1, BaseIs DEF Word
  <2>3. \A x \in Nat : (x % q) \in 0 .. q - 1
    BY <1>2
  <2>4. low(i) \in 0 .. q - 1
    BY <2>2, <2>3
  <2> HIDE DEF low, q
  <2> QED BY <1>2, <2>4
<1>7. e = low(0)
  <2>1. 0 + 1 = 1
    OBVIOUS
  <2> QED BY <2>1
<1>8. \A k \in 1 .. h : m[k] % q = low(k - 1)
  <2>1. \A k \in 1 .. h : (k - 1) + 1 = k
    BY <1>1
  <2> QED BY <2>1
<1> HIDE DEF low, e, q
<1>9. 0 \in T
  <2>1. 0 \in 0 .. h /\ P(0) = 1 /\ Low(r)[0] = 0 /\ Low(m)[0] = 0 /\ low(0) \in Nat
    BY <1>1, <1>5, <1>6, LowIs, PIs
  <2>2. q * 0 = 0 /\ 1 * low(0) = low(0) /\ 0 + low(0) = low(0)
    BY <1>2, <2>1
  <2>3. Ok(0)
    BY <1>7, <2>1, <2>2
  <2> HIDE DEF Ok
  <2> QED BY <2>1, <2>3
<1>10. ASSUME NEW k \in 0 .. h - 1, k \in T PROVE k + 1 \in T
  <2> DEFINE j == k + 1
             R == Low(r)[k]
             M == Low(m)[k]
             x == m[j]
             w == r[j]
             y == low(j)
             b == low(k)
             p == P(k)
             Bs == Base
  <2>1. k \in Nat /\ j \in 1 .. h /\ j \in 0 .. h /\ k \in 0 .. h /\ j - 1 = k /\ j \in 1 .. h + 1
    BY <1>1
  <2>2. q * R + e = M + p * b
    BY <1>10
  <2> HIDE DEF j
  <2>3. Low(r)[j] = R + w * p
    BY <1>1, <1>5, <2>1, LowIs
  <2>4. Low(m)[j] = M + x * p
    BY <1>1, <2>1, LowIs
  <2>5. P(j) = Bs * p /\ p \in Nat
    <3>1. k + 1 = j
      BY DEF j
    <3> QED BY <2>1, <3>1, PIs
  <2>6. q * w + b = x + Bs * y
    BY <1>4, <1>8, <2>1
  <2>7. R \in Nat /\ M \in Nat /\ x \in Nat /\ w \in Nat /\ y \in Nat /\ b \in Nat /\ Bs \in Nat
    <3>1. x \in Word /\ w \in Word /\ y \in Nat /\ b \in Nat
      BY <1>1, <1>4, <1>6, <2>1
    <3>2. k \in 0 .. Len(r) /\ k \in 0 .. Len(m)
      BY <1>1, <1>5, <2>1
    <3>3. R \in Nat
      BY <1>5, <3>2, LowIs
    <3>4. M \in Nat
      BY <3>2, LowIs
    <3> QED BY <3>1, <3>3, <3>4, BaseIs DEF Word
  <2>8. e \in Nat
    <3>1. 0 \in 0 .. h
      BY <1>1
    <3> QED BY <1>6, <1>7, <3>1
  <2> HIDE DEF R, M, x, w, y, b, p, Bs
  <2>9. q * (R + w * p) + e = (M + x * p) + (Bs * p) * y
    <3>1. q * (R + w * p) = q * R + (q * w) * p
      BY <1>2, <2>5, <2>7
    <3>2. (q * w + b) * p = (q * w) * p + p * b
      BY <1>2, <2>5, <2>7
    <3>3. (x + Bs * y) * p = x * p + (Bs * p) * y
      BY <1>2, <2>5, <2>7
    <3>4. q * R \in Int /\ (q * w) * p \in Int /\ p * b \in Int /\ x * p \in Int /\ (Bs * p) * y \in Int
      BY <1>2, <2>5, <2>7
    <3>5. (q * w) * p + p * b = x * p + (Bs * p) * y
      BY <2>6, <3>2, <3>3
    <3> DEFINE a1 == q * (R + w * p)
               a2 == q * R
               a3 == (q * w) * p
               a4 == p * b
               a5 == x * p
               a6 == (Bs * p) * y
    <3>6. a1 = a2 + a3 /\ a3 + a4 = a5 + a6 /\ a2 + e = M + a4
          /\ a2 \in Int /\ a3 \in Int /\ a4 \in Int /\ a5 \in Int /\ a6 \in Int
      BY <2>2, <3>1, <3>4, <3>5
    <3> HIDE DEF a1, a2, a3, a4, a5, a6
    <3>7. a1 + e = (M + a5) + a6
      BY <2>7, <2>8, <3>6
    <3> QED BY <3>7 DEF a1, a5, a6
  <2>10. Ok(j)
    BY <2>3, <2>4, <2>5, <2>9 DEF y, R, M, p
  <2> HIDE DEF Ok
  <2> QED BY <2>1, <2>10 DEF j
<1> HIDE DEF T
<1>11. h \in T
  <2>1. 0 .. h \subseteq T
    BY <1>1, <1>9, <1>10, Induction
  <2> QED BY <1>1, <2>1
<1>12. Ok(h) /\ h \in 0 .. h
  BY <1>1, <1>11 DEF T
<1>13. low(h) = 0
  <2>1. m[h + 1] = 0
    BY <1>1
  <2>2. (0 % q) = 0
    BY <1>2
  <2> QED BY <2>1, <2>2 DEF low
<1>14. N(m) = Low(m)[h] /\ N(r) = Low(r)[h]
  <2>1. h \in 0 .. Len(m) /\ \A i \in h + 1 .. Len(m) : m[i] = 0
    BY <1>1
  <2> QED BY <1>5, <2>1, ZerosAbove DEF N
<1>15. q * N(r) + e = N(m)
  <2>1. P(h) \in Nat /\ N(m) \in Nat
    BY <1>1, PIs, NIs
  <2>2. P(h) * 0 = 0
    BY <2>1
  <2> QED BY <1>12, <1>13, <1>14, <2>1, <2>2
<1>16. e \in 0 .. q - 1
  <2>1. 0 \in 0 .. h
    BY <1>1
  <2> QED BY <1>6, <1>7, <2>1
<1> QED BY <1>1, <1>5, <1>15, <1>16 DEF r, q, h

LEMMA ShiftRightIs ==
  ASSUME NEW n, WellFormed(n), Sgn(n) = 0, NEW shf \in Nat
  PROVE  LET r == num_shift_right(n, shf)
             v == N(n) \div Power(2, shf)
         IN  Value(r) = v \/ Filled(v, Len(r))
<1> DEFINE mod == shf % Bits
           d == shf \div Bits
           S == Power(2, mod)
           l == Len(n)
           m == SubSeq(n, d + 1, l)
           low == Right(m, mod)
           top == <<Sgn(n) \div S>> \o (IF Sgn(n) # 0 \/ d >= l - 1 THEN <<0>> ELSE <<>>)
           r == num_shift_right(n, shf)
           v == N(n) \div Power(2, shf)
<1>1. Bits \in Nat /\ Bits >= 1 /\ mod \in 0 .. Bits - 1 /\ d \in Nat /\ shf = Bits * d + mod /\ mod \in Nat
  BY ByBits
<1>2. n \in Seq(Word) /\ l \in Nat /\ l >= 2 /\ n[l] = 0
  BY WellFormedIs
<1>3. r = IF shf >= l * Bits THEN <<0, 0>> ELSE IF mod = 0 THEN m ELSE Tidy(low \o top)
  BY DEF num_shift_right, Right
<1> HIDE DEF mod, d, m, low, top, r
<1>4. S \in Nat /\ S >= 1 /\ P(d) \in Nat /\ P(d) >= 1 /\ Power(2, shf) = P(d) * S
  BY <1>1, TwosAre, TwoPowers, PIs
<1>5. CASE shf >= l * Bits
  <2> DEFINE b == Bits * l
             X == Power(2, shf)
  <2>1. b \in Nat /\ b \in 0 .. shf /\ l * Bits = b
    <3>1. \A i, j \in Nat : i * j \in Nat /\ j * i = i * j
      OBVIOUS
    <3>2. b \in Nat /\ l * Bits = b
      BY <1>1, <1>2, <3>1
    <3> HIDE DEF b
    <3> QED BY <1>5, <3>2
  <2>2. Power(2, b) <= X
    <3>1. 2 \in Nat /\ 2 >= 1
      OBVIOUS
    <3> HIDE DEF b
    <3> QED BY <2>1, <3>1, PowerGrows
  <2>3. Power(2, b) = P(l)
    <3>1. 0 \in Nat /\ Power(2, 0) = 1 /\ P(l) \in Nat
      BY <1>2, TwosAre, PIs
    <3>2. Power(2, Bits * l + 0) = P(l) * Power(2, 0)
      BY <1>2, <3>1, TwoPowers
    <3>3. Bits * l + 0 = b
      BY <2>1
    <3>4. P(l) * 1 = P(l)
      BY <3>1
    <3> HIDE DEF b
    <3> QED BY <3>1, <3>2, <3>3, <3>4
  <2>4. N(n) \in Nat /\ N(n) <= P(l) - 1 /\ P(l) \in Nat
    BY <1>2, NIs, PIs
  <2>5. X \in Nat /\ X >= 1
    BY TwosAre
  <2> HIDE DEF X, b
  <2>6. (N(n) \div X) = 0
    <3> DEFINE y == N(n)
    <3>1. y \in Nat /\ y < X
      BY <2>2, <2>3, <2>4, <2>5
    <3> HIDE DEF y
    <3>2. (y \div X) = 0
      BY <2>5, <3>1
    <3> QED BY <3>2 DEF y
  <2>7. r = <<0, 0>>
    BY <1>3, <1>5
  <2>8. Value(r) = 0
    BY <2>7, ZeroWordsAre
  <2> QED BY <2>6, <2>8 DEF r, X
<1>6. CASE ~(shf >= l * Bits)
  <2> DEFINE k == l - d
  <2>1. d \in 0 .. l - 1 /\ k \in Nat /\ k >= 1 /\ l = d + k
    <3> SUFFICES ASSUME d >= l PROVE FALSE
      BY <1>1, <1>2
    <3>1. Bits * (d - l) >= 0
      BY <1>1, <1>2
    <3>2. Bits * (d - l) = Bits * d - l * Bits /\ Bits * d \in Int /\ l * Bits \in Int
      BY <1>1, <1>2
    <3> QED BY <1>1, <1>6, <3>1, <3>2
  <2> HIDE DEF k, l
  <2>2. m \in Seq(Word) /\ Len(m) = k /\ \A i \in 1 .. k : m[i] = n[d + i]
    <3> DEFINE a == d + 1
    <3>1. a \in 1 .. l + 1 /\ l \in a - 1 .. Len(n) /\ m = SubSeq(n, a, l) /\ Len(n) = l /\ a \in Nat
      BY <1>1, <1>2, <2>1 DEF m, l
    <3>2. \A i \in a .. l : n[i] \in Word
      <4>1. \A i \in 1 .. Len(n) : n[i] \in Word
        BY <1>2
      <4>2. a .. l \subseteq 1 .. Len(n)
        BY <1>2, <3>1
      <4> QED BY <4>1, <4>2
    <3>3. l - a + 1 = k /\ a <= l /\ \A i \in 1 .. k : a + i - 1 = d + i
      BY <1>1, <1>2, <2>1
    <3> HIDE DEF a
    <3>4. m \in Seq(Word) /\ Len(m) = l - a + 1 /\ \A i \in 1 .. l - a + 1 : m[i] = n[a + i - 1]
      BY <1>2, <3>1, <3>2, <3>3, SubSeqProperties
    <3> QED BY <3>3, <3>4
  <2>3. m[Len(m)] = 0
    <3>1. k \in 1 .. k
      BY <2>1
    <3> QED BY <1>2, <2>1, <2>2, <3>1
  <2>4. /\ N(n) = Low(n)[d] + P(d) * N(m) /\ Low(n)[d] \in 0 .. P(d) - 1 /\ N(m) \in Nat /\ N(n) \in Nat
    <3>1. Above(n, d, m)
      BY <1>1, <1>2, <2>1, <2>2 DEF Above, l
    <3>2. k \in 0 .. Len(m) /\ d \in 0 .. Len(n) /\ d + k = Len(n)
      BY <1>1, <1>2, <2>1, <2>2 DEF l
    <3>3. Low(n)[d + k] = Low(n)[d] + P(d) * Low(m)[k]
      BY <3>1, <3>2, AboveIs
    <3>4. Low(n)[d] \in Nat /\ Low(n)[d] <= P(d) - 1
      BY <1>2, <3>2, LowIs
    <3>5. N(m) \in Nat /\ N(n) \in Nat
      BY <1>2, <2>2, NIs
    <3>6. N(n) = Low(n)[d] + P(d) * N(m)
      BY <2>2, <3>2, <3>3 DEF N
    <3>7. Low(n)[d] \in 0 .. P(d) - 1
      BY <1>4, <3>4
    <3> QED BY <3>5, <3>6, <3>7
  <2>5. CASE mod = 0
    <3>1. r = m
      BY <1>3, <1>6, <2>5
    <3>2. Value(m) = N(m)
      <4>1. Value(m) = Under(m, 0)[Len(m) - 1]
        BY <2>3 DEF Value, Sgn, Last
      <4>2. Len(m) >= 1
        BY <2>1, <2>2
      <4>3. Under(m, 0)[Len(m) - 1] = Low(m)[Len(m) - 1]
        BY <2>2, <4>2, TopIs
      <4>4. N(m) = Low(m)[Len(m) - 1] + m[Len(m)] * P(Len(m) - 1) /\ P(Len(m) - 1) \in Nat
            /\ Low(m)[Len(m) - 1] \in Nat
        BY <2>2, <4>2, TopIs
      <4>5. 0 * P(Len(m) - 1) = 0
        BY <4>4
      <4> QED BY <2>3, <4>1, <4>3, <4>4, <4>5
    <3>3. (N(n) \div Power(2, shf)) = N(m)
      <4> DEFINE X == Power(2, shf)
                 a == N(n)
                 b == Low(n)[d]
                 q == N(m)
      <4>1. X = P(d)
        <5>1. S = 1
          BY <2>5, TwosAre
        <5>2. P(d) * 1 = P(d)
          BY <1>4
        <5> HIDE DEF S
        <5> QED BY <1>4, <5>1, <5>2
      <4>2. X \in Nat \ {0} /\ a \in Nat /\ q \in Nat /\ b \in 0 .. X - 1 /\ a = b + X * q
        BY <1>4, <2>4, <4>1
      <4> HIDE DEF X, a, b, q
      <4>3. X * q = q * X /\ q * X \in Nat
        BY <4>2
      <4>4. a = q * X + b
        BY <4>2, <4>3
      <4>5. (a \div X) = q
        BY <4>2, <4>4, Divided
      <4> QED BY <4>5 DEF X, a, q
    <3> QED BY <3>1, <3>2, <3>3 DEF r
  <2>6. CASE mod # 0
    <3>1. mod \in 1 .. Bits - 1 /\ Len(m) >= 1
      BY <1>1, <2>1, <2>2, <2>6
    <3>2. low \in Seq(Word) /\ Len(low) = k - 1 /\ \E e \in 0 .. S - 1 : S * N(low) + e = N(m)
      BY <2>2, <2>3, <3>1, RightIs DEF low
    <3>3. PICK e \in 0 .. S - 1 : S * N(low) + e = N(m)
      BY <3>2
    <3> DEFINE a == Append(low, 0)
               b == Append(a, 0)
               c == low \o top
    <3>4. a \in Seq(Word) /\ Len(a) = k /\ a[k] = 0 /\ N(a) = N(low)
      <4>1. (k - 1) + 1 = k
        BY <2>1
      <4> QED BY <3>2, <4>1, ZeroOnTop
    <3>5. top = <<0>> \o (IF d >= l - 1 THEN <<0>> ELSE <<>>)
      <4>1. (0 \div S) = 0
        BY <1>4
      <4> QED BY <4>1 DEF top, l
    <3>6. c \in Seq(Word) /\ Len(c) >= 2 /\ c[Len(c)] = 0 /\ N(c) = N(low)
      <4>1. CASE d >= l - 1
        <5>1. c = low \o (<<0>> \o <<0>>)
          BY <3>5, <4>1
        <5>2. low \o (<<0>> \o <<0>>) = b
          BY <3>2, BaseIs
        <5> HIDE DEF c, a
        <5>3. b \in Seq(Word) /\ Len(b) = k + 1 /\ b[k + 1] = 0 /\ N(b) = N(a)
          BY <3>4, ZeroOnTop
        <5> HIDE DEF b
        <5>4. k + 1 >= 2
          BY <2>1
        <5> QED BY <3>4, <5>1, <5>2, <5>3, <5>4
      <4>2. CASE ~(d >= l - 1)
        <5>1. c = low \o (<<0>> \o <<>>)
          BY <3>5, <4>2
        <5>2. low \o (<<0>> \o <<>>) = a
          BY <3>2, BaseIs
        <5> HIDE DEF c, a
        <5>3. k >= 2
          BY <1>1, <1>2, <2>1, <4>2
        <5> QED BY <3>4, <5>1, <5>2, <5>3
      <4> QED BY <4>1, <4>2
    <3>7. r = Tidy(c)
      BY <1>3, <1>6, <2>6
    <3> HIDE DEF c
    <3>8. Tidied(c, r)
      BY <3>6, <3>7, TidyIs
    <3>9. (N(n) \div Power(2, shf)) = N(low)
      <4> DEFINE D == P(d)
                 x == N(n)
                 y == Low(n)[d]
                 q == N(low)
                 z == D * S
                 t == D * e + y
      <4>1. D \in Nat /\ D >= 1 /\ x \in Nat /\ y \in 0 .. D - 1 /\ q \in Nat /\ x = y + D * (S * q + e)
        BY <1>4, <2>4, <3>2, <3>3, NIs
      <4>2. S \in Nat /\ S >= 1 /\ e \in 0 .. S - 1
        BY <1>4
      <4> HIDE DEF D, x, y, q, S
      <4>3. z \in Nat \ {0}
        <5>1. \A i, j \in Nat : i >= 1 /\ j >= 1 => i * j \in Nat /\ i * j >= 1
          OBVIOUS
        <5>2. z \in Nat /\ z >= 1
          BY <4>1, <4>2, <5>1
        <5> HIDE DEF z
        <5> QED BY <5>2
      <4>4. x = q * z + t
        <5>1. D * (S * q + e) = q * (D * S) + D * e
          BY <4>1, <4>2
        <5>2. q * (D * S) \in Int /\ D * e \in Int
          BY <4>1, <4>2
        <5> QED BY <4>1, <5>1, <5>2
      <4>5. t \in 0 .. z - 1
        <5>1. D * e \in Nat /\ D * (S - 1 - e) >= 0
          BY <4>1, <4>2
        <5>2. D * (S - 1 - e) = D * S - D - D * e
          BY <4>1, <4>2
        <5> DEFINE f == D * e
                   g == D * (S - 1 - e)
        <5>3. f \in Nat /\ g >= 0 /\ g = z - D - f /\ t = f + y
          BY <5>1, <5>2
        <5> HIDE DEF f, g, z, t
        <5> QED BY <4>1, <4>3, <5>3
      <4> HIDE DEF z, t
      <4>6. (x \div z) = q
        BY <4>1, <4>3, <4>4, <4>5, Divided
      <4> QED BY <1>4, <4>6 DEF x, z, q, D
    <3>10. Value(r) = v \/ Filled(v, Len(r))
      <4>1. v = N(c)
        BY <3>6, <3>9
      <4> HIDE DEF v
      <4> QED BY <3>8, <4>1, TidyWorth
    <3> QED BY <3>10 DEF r
  <2> QED BY <2>5, <2>6
<1> QED BY <1>5, <1>6

LEMMA TwoWords ==
  ASSUME NEW m, WellFormed(m), Len(m) = 2, Sgn(m) = 0
  PROVE  Value(m) = m[1] /\ m[1] \in Nat
<1>1. m \in Seq(Word) /\ m[1] \in Word
  BY WellFormedIs
<1>2. Value(m) = Low(m)[1]
  <2>1. Value(m) = Low(m)[Len(m) - 1]
    BY PositiveIs
  <2>2. Len(m) - 1 = 1
    OBVIOUS
  <2> QED BY <2>1, <2>2
<1>3. 1 \in 1 .. Len(m) /\ 1 - 1 = 0
  OBVIOUS
<1>4. Low(m)[1] = Low(m)[0] + m[1] * P(0) /\ Low(m)[0] = 0
  BY <1>1, <1>3, LowIs
<1>5. m[1] \in Nat /\ P(0) = 1
  BY <1>1, BaseIs, PIs DEF Word
<1>6. m[1] * 1 = m[1]
  BY <1>5
<1> QED BY <1>2, <1>4, <1>5, <1>6

LEMMA NoShift ==
  ASSUME NEW v \in Nat
  PROVE  (v \div Power(2, 0)) = v
<1>1. Power(2, 0) = 1 /\ (v \div 1) = v
  BY TwosAre
<1> QED BY <1>1

LEMMA ShiftIs ==
  ASSUME NEW n, WellFormed(n), Sgn(n) = 0, NEW m, WellFormed(m), ~Lowest(m)
  PROVE  LET by == IF Len(m) > 2 THEN 0 ELSE Value(m)
             v  == IF by < 0 THEN Value(n) * Power(2, -by) ELSE Value(n) \div Power(2, by)
             r  == num_shift(n, m)
         IN  Value(r) = v \/ Filled(v, Len(r))
<1> DEFINE by == IF Len(m) > 2 THEN 0 ELSE Value(m)
           v == IF by < 0 THEN Value(n) * Power(2, -by) ELSE Value(n) \div Power(2, by)
           r == num_shift(n, m)
           two == ~(Len(m) > 2)
           o == num_negate(m)
<1>1. Value(n) = N(n) /\ N(n) \in Nat
  BY PositiveIs
<1>2. m \in Seq(Word) /\ Len(m) \in Nat /\ Len(m) >= 2 /\ Value(m) \in Int /\ (Sgn(m) # 0 <=> Value(m) < 0)
  BY WellFormedIs, SignIs
<1>3. r = IF Len(m) > 2 \/ m[1] = 0 THEN n
          ELSE IF Sgn(m) # 0 THEN num_shift_left(n, o[1]) ELSE num_shift_right(n, m[1])
  BY DEF num_shift
<1> HIDE DEF o, r
<1>0. two => Len(m) = 2
  <2> DEFINE l == Len(m)
  <2>1. l \in Nat /\ l >= 2
    BY <1>2
  <2> HIDE DEF l
  <2>2. ~(l > 2) => l = 2
    BY <2>1
  <2> QED BY <2>2 DEF l
<1>4. CASE Len(m) > 2 \/ m[1] = 0
  <2>1. by = 0
    <3>1. CASE Len(m) > 2
      BY <3>1
    <3>2. CASE ~(Len(m) > 2)
      <4>1. Len(m) = 2 /\ m[1] = 0
        BY <1>0, <1>4, <3>2
      <4>2. Sgn(m) = 0
        <5>1. \A i \in 1 .. Len(m) - 1 : m[i] = 0
          BY <4>1
        <5> QED BY <5>1 DEF Lowest, Negative
      <4> QED BY <4>1, <4>2, TwoWords
    <3> QED BY <3>1, <3>2
  <2> HIDE DEF by
  <2>2. v = Value(n)
    BY <1>1, <2>1, NoShift
  <2> HIDE DEF v
  <2>3. r = n
    BY <1>3, <1>4
  <2> QED BY <2>2, <2>3 DEF v, r, by
<1>5. CASE ~(Len(m) > 2 \/ m[1] = 0) /\ Sgn(m) # 0
  <2>1. Len(m) = 2 /\ by = Value(m) /\ by < 0 /\ by \in Int
    <3>1. Len(m) = 2 /\ by = Value(m)
      BY <1>0, <1>5
    <3> HIDE DEF by
    <3> QED BY <1>2, <1>5, <3>1
  <2>2. WellFormed(o) /\ Value(o) = -Value(m)
    BY NegateIs DEF o
  <2>3. Len(o) = 2
    <3>1. PICK c, d : Negated(m, o, c, d)
      BY NegatedIs DEF o
    <3> QED BY <2>1, <3>1 DEF Negated
  <2>4. Sgn(o) = 0
    <3>1. Sgn(o) # 0 <=> Value(o) < 0
      BY <2>2, SignIs
    <3> HIDE DEF by
    <3> QED BY <2>1, <2>2, <3>1
  <2>5. o[1] = -by /\ o[1] \in Nat
    <3>1. Value(o) = o[1] /\ o[1] \in Nat
      BY <2>2, <2>3, <2>4, TwoWords
    <3> HIDE DEF by
    <3> QED BY <2>1, <2>2, <3>1
  <2> HIDE DEF by
  <2>6. r = num_shift_left(n, o[1])
    BY <1>3, <1>5
  <2>7. v = N(n) * Power(2, o[1])
    BY <1>1, <2>1, <2>5
  <2> HIDE DEF v
  <2>8. Value(r) = v \/ Filled(v, Len(r))
    BY <2>5, <2>6, <2>7, LeftIs
  <2> QED BY <2>8 DEF v, r, by
<1>6. CASE ~(Len(m) > 2 \/ m[1] = 0) /\ Sgn(m) = 0
  <2>1. Len(m) = 2 /\ by = Value(m) /\ ~(by < 0)
    <3>1. Len(m) = 2 /\ by = Value(m)
      BY <1>0, <1>6
    <3> HIDE DEF by
    <3> QED BY <1>2, <1>6, <3>1
  <2>2. by = m[1] /\ m[1] \in Nat
    BY <1>6, <2>1, TwoWords
  <2> HIDE DEF by
  <2>3. r = num_shift_right(n, m[1])
    BY <1>3, <1>6
  <2>4. v = N(n) \div Power(2, m[1])
    BY <1>1, <2>1, <2>2
  <2> HIDE DEF v
  <2>5. Value(r) = v \/ Filled(v, Len(r))
    BY <2>2, <2>3, <2>4, ShiftRightIs
  <2> QED BY <2>5 DEF v, r, by
<1> QED BY <1>4, <1>5, <1>6
-----------------------------------------------------------------------------
(* Operands have sign words, and results are what they are of the operands. *)
ResultOf(name, r, n, m) ==
  /\ name = "add" => r = num_add(n, m)
  /\ name = "le" => r = num_le(n, m)
  /\ name = "mul" => r = num_mul(n, m)
  /\ name = "mul_same" => r = num_mul_same(n)
  /\ name = "shift" => r = num_shift(n, m)
  /\ name = "and" => r = num_and(n, m)
  /\ name = "or" => r = num_or(n, m)
  /\ name = "xor" => r = num_xor(n, m)
  /\ name = "to_str" => r = num_to_str(n)

Called == ResultOf(called, result, num1, num2)

Inv == WellFormed(num1) /\ WellFormed(num2) /\ Called

LEMMA InitHolds == Init => Inv
BY MadeAre DEF Init, Inv, Called, ResultOf

LEMMA NextKeeps == Inv /\ [Next]_vars => Inv'
<1> SUFFICES ASSUME Inv, [Next]_vars PROVE Inv'
  OBVIOUS
<1>1. CASE Reuse
  BY <1>1 DEF Reuse, Inv, Called, ResultOf
<1>2. CASE UNCHANGED vars
  BY <1>2, Zenon DEF vars, Inv, Called
<1>3. ASSUME NEW name, NEW r, Call(name, r) PROVE /\ WellFormed(num1') /\ WellFormed(num2')
                                                  /\ num1' = num1 /\ num2' = num2
                                                  /\ called' = name /\ result' = r
  BY <1>3 DEF Call, Inv
<1> HIDE DEF Call
<1>4. ASSUME NEW name, NEW r, Call(name, r), ResultOf(name, r, num1, num2) PROVE Inv'
  BY <1>3, <1>4, Zenon DEF Inv, Called
<1>5. /\ ResultOf("negate", num_negate(num1), num1, num2)
      /\ ResultOf("add", num_add(num1, num2), num1, num2)
      /\ ResultOf("le", num_le(num1, num2), num1, num2)
      /\ ResultOf("mul", num_mul(num1, num2), num1, num2)
      /\ ResultOf("mul_same", num_mul_same(num1), num1, num2)
      /\ ResultOf("shift", num_shift(num1, num2), num1, num2)
      /\ ResultOf("and", num_and(num1, num2), num1, num2)
      /\ ResultOf("or", num_or(num1, num2), num1, num2)
      /\ ResultOf("xor", num_xor(num1, num2), num1, num2)
      /\ ResultOf("not", num_not(num1), num1, num2)
      /\ ResultOf("to_str", num_to_str(num1), num1, num2)
  BY DEF ResultOf
<1> HIDE DEF ResultOf
<1> QED BY <1>1, <1>2, <1>4, <1>5, Zenon DEF Next

LEMMA InvHolds == Spec => []Inv
<1> QED BY InitHolds, NextKeeps, PTL DEF Spec

(* num_add is exact and keeps the sign word whatever the sizes and signs   *)
(* of the operands and the width of words, and num_le is "less than"       *)
(* (datastructures.c:1437-1485, 1568): the carries between words, the sign *)
(* word that is added or dropped and the negated operand that has lost its *)
(* own can change nothing.                                                 *)
THEOREM SumsAreExact == Spec => []SumsExact
<1>1. Inv => SumsExact
  <2> SUFFICES ASSUME Inv PROVE SumsExact
    OBVIOUS
  <2>1. WellFormed(num1) /\ WellFormed(num2) /\ Called
    BY DEF Inv
  <2>2. WellFormed(num_add(num1, num2)) /\ Value(num_add(num1, num2)) = Value(num1) + Value(num2)
    BY <2>1, AddIs
  <2>3. num_le(num1, num2) # 0 <=> Value(num1) < Value(num2)
    BY <2>1, LeIs
  <2> QED BY <2>1, <2>2, <2>3 DEF SumsExact, Called, ResultOf
<1> QED BY <1>1, InvHolds, PTL

(* num_mul is exact whatever the sizes and signs of the operands and the   *)
(* width of words, but for the lowest numbers that Spoils names            *)
(* (datastructures.c:1684-1741): no bit that is shifted out of the last    *)
(* word and no carry out of the words added to is ever set, the product    *)
(* has a sign word, and so has its negation, also where it is zero.        *)
THEOREM ProductsAreExact == Spec => []ProductsExact
<1>1. Inv => ProductsExact
  <2> SUFFICES ASSUME Inv PROVE ProductsExact
    OBVIOUS
  <2>1. WellFormed(num1) /\ WellFormed(num2) /\ Called
    BY DEF Inv
  <2> DEFINE n1 == Shorter(num2, num1)
             n2 == Longer(num2, num1)
             r == num_mul(num1, num2)
  <2>2. WellFormed(n1) /\ WellFormed(n2) /\ Value(n1) * Value(n2) = Value(num1) * Value(num2)
    BY <2>1, ShorterIs
  <2>3. r = IF IsZero(n1) THEN <<0, 0>>
            ELSE WithSign(Product(Magnitude(n1), Magnitude(n2)), Xor(Sgn(n1), Sgn(n2)))
    BY DEF num_mul
  <2> HIDE DEF n1, n2, r
  <2>4. ~Spoils(n1, n2) => WellFormed(r) /\ Value(r) = Value(n1) * Value(n2)
    BY <2>2, <2>3, MulIs
  <2>5. ~Negative(num1) => Value(num_mul_same(num1)) = Value(num1) * Value(num1)
    BY <2>1, MulSameIs
  <2> QED BY <2>1, <2>2, <2>4, <2>5 DEF ProductsExact, Called, ResultOf, n1, n2, r
<1> QED BY <1>1, InvHolds, PTL

(* num_shift multiplies by a power of two, or divides and rounds down, and *)
(* num_and, num_or and num_xor do to the bits of two numbers of one size   *)
(* what they say (datastructures.c:1488-1656), whatever the width of       *)
(* words: but for a highest word of all ones, which Brim names.            *)
THEOREM BitsAreExact == Spec => []BitwiseExact
<1>1. ASSUME Inv PROVE ShiftsExact
  <2> DEFINE by == IF Len(num2) > 2 THEN 0 ELSE Value(num2)
             v == IF by < 0 THEN Value(num1) * Power(2, -by) ELSE Value(num1) \div Power(2, by)
  <2> SUFFICES ASSUME called = "shift", ~Negative(num1), ~Lowest(num2)
               PROVE  Value(result) = v \/ Brim(v)
    BY DEF ShiftsExact
  <2>1. WellFormed(num1) /\ WellFormed(num2) /\ Sgn(num1) = 0 /\ result = num_shift(num1, num2)
    BY <1>1 DEF Inv, Called, ResultOf, Negative
  <2>2. Value(num_shift(num1, num2)) = v \/ Filled(v, Len(num_shift(num1, num2)))
    BY <2>1, ShiftIs
  <2> HIDE DEF v
  <2> QED BY <2>1, <2>2 DEF Brim, Filled, P
<1>2. ASSUME Inv PROVE BitsExact
  <2> DEFINE S == 1 .. Len(num1) + Len(result)
             w == Value([i \in DOMAIN num1 |-> And(num1[i], num2[i])])
  <2> SUFFICES ASSUME Len(num1) = Len(num2)
               PROVE  /\ called = "and" =>
                           \/ \A i \in S : WordAt(result, i) = And(WordAt(num1, i), WordAt(num2, i))
                           \/ Brim(w)
                      /\ called = "or" =>
                           \A i \in S : WordAt(result, i) = Or(WordAt(num1, i), WordAt(num2, i))
                      /\ called = "xor" =>
                           \A i \in S : WordAt(result, i) = Xor(WordAt(num1, i), WordAt(num2, i))
    BY DEF BitsExact
  <2>1. WellFormed(num1) /\ WellFormed(num2) /\ Called
    BY <1>2 DEF Inv
  <2>2. S \subseteq Nat \ {0}
    OBVIOUS
  <2> HIDE DEF S, w
  <2>3. called = "or" => \A i \in S : WordAt(result, i) = Or(WordAt(num1, i), WordAt(num2, i))
    BY <2>1, <2>2, OrXorIs DEF Called, ResultOf
  <2>4. called = "xor" => \A i \in S : WordAt(result, i) = Xor(WordAt(num1, i), WordAt(num2, i))
    BY <2>1, <2>2, OrXorIs DEF Called, ResultOf
  <2>5. called = "and" => \/ \A i \in S : WordAt(result, i) = And(WordAt(num1, i), WordAt(num2, i))
                          \/ Brim(w)
    <3> HAVE called = "and"
    <3>1. result = num_and(num1, num2)
      BY <2>1 DEF Called, ResultOf
    <3>2. \/ \A i \in Nat \ {0} : WordAt(num_and(num1, num2), i) = And(WordAt(num1, i), WordAt(num2, i))
          \/ Filled(w, Len(num_and(num1, num2)))
      BY <2>1, NumAndIs DEF w
    <3> QED BY <2>2, <3>1, <3>2 DEF Brim, Filled, P
  <2> QED BY <2>3, <2>4, <2>5
<1>3. Inv => BitwiseExact
  BY <1>1, <1>2 DEF BitwiseExact
<1> QED BY <1>3, InvHolds, PTL

(* What num_to_str prints and str_to_num reads is the same number          *)
(* (datastructures.c:1744-1870), whatever its size and the radix: every    *)
(* word below the highest takes its digits, zeros included, and digits are *)
(* read in words from the last one on.                                     *)
THEOREM PrintedIsRead == Spec => []ReadsBack
<1>1. Inv => ReadsBack
  <2> SUFFICES ASSUME Inv, called = "to_str"
               PROVE  Value(str_to_num(result)) = IF Lowest(num1) THEN 0 ELSE Value(num1)
    BY DEF ReadsBack
  <2>1. WellFormed(num1) /\ result = num_to_str(num1)
    BY DEF Inv, Called, ResultOf
  <2> QED BY <2>1, ReadsBackIs
<1> QED BY <1>1, InvHolds, PTL
=============================================================================
