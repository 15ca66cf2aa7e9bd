------------------------------- MODULE Numbers -------------------------------
(***************************************************************************)
(* The arithmetic of datastructures.c on numbers of any size: words, the   *)
(* lowest first, and after them the word of the sign, 0 or all ones.  A    *)
(* number is the sequence of the words of its object.                      *)
(*                                                                         *)
(* The loops add, carry and shift word by word, as the code does.  Calls   *)
(* do not run out of memory.                                               *)
(***************************************************************************)
EXTENDS Words, SequencesExt

CONSTANTS Radix, Digits   \* a word's digits in text: 16 of them, hexadecimal

ASSUME DigitsAssumption == Radix \in Nat \ {0, 1} /\ Digits \in Nat /\ Power(Radix, Digits) = Base

Sgn(n) == Last(n)

Const(w, size) == [i \in 1 .. size |-> w]

Inverted(n) == [i \in DOMAIN n |-> Ones - n[i]]

(* The carries, from the first one to what leaves the last word, when the  *)
(* words xs and ys are added from the lowest on.                           *)
Carries(xs, ys, carry) ==
  LET c[i \in 0 .. Len(xs)] == IF i = 0 THEN carry ELSE Add(xs[i], ys[i], c[i - 1]).carry
  IN  c

Sum(xs, ys, carry) ==
  LET c == Carries(xs, ys, carry)
  IN  [i \in 1 .. Len(xs) |-> Add(xs[i], ys[i], c[i - 1]).word]

num_negate(n) == Sum(Inverted(n), Const(0, Len(n)), 1)

(* Words w below the last are dropped; two words stay. *)
Trim(n, w) ==
  LET size == CHOOSE s \in 2 .. Len(n) :
                /\ \A i \in s .. Len(n) - 1 : n[i] = w
                /\ s = 2 \/ n[s - 1] # w
  IN  SubSeq(n, 1, size)
-----------------------------------------------------------------------------
(* Adding, and comparing.                                                  *)

HighBit(w) == w \div Half

(* A mistake: there is no new sign word when the sum needs one more.       *)
SignKept_not(sum, sgn1, sgn2) == Trim(sum, Last(sum))

SignKept(sum, sgn1, sgn2) ==
  IF sgn1 = 1 /\ sgn2 = 1 /\ Last(sum) # Ones THEN Append(sum, Ones)
  ELSE IF sgn1 = 0 /\ sgn2 = 0 /\ Last(sum) # 0 THEN Append(sum, 0)
  ELSE Trim(sum, Last(sum))

Longer(num1, num2) == IF Len(num1) < Len(num2) THEN num2 ELSE num1

Shorter(num1, num2) == IF Len(num1) < Len(num2) THEN num1 ELSE num2

num_add(num1, num2) ==
  LET n1 == Longer(num1, num2)
      n2 == Shorter(num1, num2)
      padding == Const(Ones * HighBit(Sgn(n2)), Len(n1) - Len(n2))
  IN  SignKept(Sum(n1, n2 \o padding, 0), HighBit(Sgn(n1)), HighBit(Sgn(n2)))

(* The sign word of the difference; num2 is negated for it, and back.      *)
num_le(num1, num2) == Sgn(num_add(num1, num_negate(num2)))
-----------------------------------------------------------------------------
(* The bits of a word, and the word of bits.                               *)
BitOf(w, k) == (w \div Power(2, k)) % 2

FromBits(b) == CHOOSE w \in Word : \A k \in 0 .. Bits - 1 : BitOf(w, k) = b[k]

And(x, y) == FromBits([k \in 0 .. Bits - 1 |-> BitOf(x, k) * BitOf(y, k)])
Or(x, y)  == FromBits([k \in 0 .. Bits - 1 |-> IF BitOf(x, k) = 0 THEN BitOf(y, k) ELSE 1])
Xor(x, y) == FromBits([k \in 0 .. Bits - 1 |-> IF BitOf(x, k) = BitOf(y, k) THEN 0 ELSE 1])
-----------------------------------------------------------------------------
(* Multiplying: for every bit of n2, but for its sign word's, n1 is added  *)
(* to the product, as far to the left as the bit.                          *)

Bit(n, k) == BitOf(n[(k \div Bits) + 1], k % Bits)

(* nsh is less than Bits; the bits that leave the last word are lost.      *)
Shifted(n, nsh) ==
  [j \in DOMAIN n |-> (IF j = 1 \/ nsh = 0 THEN 0 ELSE n[j - 1] \div Power(2, Bits - nsh))
                      + ((n[j] * Power(2, nsh)) % Base)]

AddedAt(result, i, n) ==
  LET sum == Sum(SubSeq(result, i + 1, i + Len(n)), n, 0)
  IN  [j \in DOMAIN result |-> IF j \in i + 1 .. i + Len(n) THEN sum[j - i] ELSE result[j]]

Turn(n1, n2, result, k) ==
  IF Bit(n2, k) = 0 THEN result
  ELSE AddedAt(result, k \div Bits, Shifted(n1, k % Bits))

Product(n1, n2) ==
  LET turns == Bits * (Len(n2) - 1)
      p[k \in 0 .. turns] ==
        IF k = 0 THEN Const(0, Len(n1) + Len(n2) - 1) ELSE Turn(n1, n2, p[k - 1], k - 1)
  IN  p[turns]

(* Two words with a lower one of 0 count as zero.                          *)
IsZero(n) == Len(n) = 2 /\ n[1] = 0

Magnitude(n) == IF Sgn(n) # 0 THEN num_negate(n) ELSE n

WithSign(n, res_sgn) == Trim(IF res_sgn # 0 THEN num_negate(n) ELSE n, res_sgn)

(* A mistake: the sign of the first number is that of the product.         *)
num_mul_first(num1, num2) ==
  LET n1 == Shorter(num2, num1)
      n2 == Longer(num2, num1)
  IN  IF IsZero(n1) THEN <<0, 0>>
      ELSE WithSign(Product(Magnitude(n1), Magnitude(n2)), Sgn(n1))

num_mul(num1, num2) ==
  LET n1 == Shorter(num2, num1)
      n2 == Longer(num2, num1)
  IN  IF IsZero(n1) THEN <<0, 0>>
      ELSE WithSign(Product(Magnitude(n1), Magnitude(n2)), Xor(Sgn(n1), Sgn(n2)))

(* num1 and num2 are the same object: it is negated twice.                 *)
num_mul_same(num) ==
  IF IsZero(num) THEN <<0, 0>> ELSE WithSign(Product(num, num), 0)
-----------------------------------------------------------------------------
(* Shifting, in place, by the words of shf and then by its bits.           *)

(* A last word 0 over one of all ones is taken for a sign too many.        *)
Tidy(n) ==
  LET s == Trim(n, 0)
  IN  IF Len(s) > 2 /\ Sgn(s) = 0 /\ s[Len(s) - 1] = Ones THEN Front(s) ELSE s

(* A mistake: the bits that leave the highest word are lost.               *)
num_shift_left_short(n, shf) ==
  Const(0, shf \div Bits) \o Shifted(n, shf % Bits)

num_shift_left(n, shf) ==
  LET mod == shf % Bits
      top == IF mod = 0 THEN <<>>
             ELSE <<Sgn(n) \div Power(2, Bits - mod)>> \o (IF Sgn(n) # 0 THEN <<0>> ELSE <<>>)
      low == Const(0, shf \div Bits)
  IN  IF mod = 0 THEN low \o n ELSE Tidy(low \o Shifted(n, mod) \o top)

(* Right by whole words alone can leave the sign word only.                *)
num_shift_right(n, shf) ==
  LET div == shf \div Bits
      mod == shf % Bits
      m   == SubSeq(n, div + 1, Len(n))
      low == [i \in 1 .. Len(m) - 1 |->
                (m[i] \div Power(2, mod)) + ((m[i + 1] * Power(2, Bits - mod)) % Base)]
      top == <<Sgn(n) \div Power(2, mod)>>
             \o (IF Sgn(n) # 0 \/ div >= Len(n) - 1 THEN <<0>> ELSE <<>>)
  IN  IF shf >= Len(n) * Bits THEN <<0, 0>>
      ELSE IF mod = 0 THEN m ELSE Tidy(low \o top)

(* To the left for a negative num2; not at all for one of three words.     *)
num_shift(num1, num2) ==
  IF Len(num2) > 2 \/ num2[1] = 0 THEN num1
  ELSE IF Sgn(num2) # 0 THEN num_shift_left(num1, num_negate(num2)[1])
  ELSE num_shift_right(num1, num2[1])
-----------------------------------------------------------------------------
(* The bits of two numbers.                                                *)

num_and(num1, num2) ==
  LET sz == Len(Shorter(num1, num2))
  IN  Tidy(Append([i \in 1 .. sz |-> And(num1[i], num2[i])], 0))

(* Where the second number is longer, both become the first.               *)
Second(num1, num2) == IF Len(num1) < Len(num2) THEN num1 ELSE num2

num_or(num1, num2) ==
  LET n2 == Second(num1, num2)
  IN  [i \in DOMAIN num1 |-> IF i \in DOMAIN n2 THEN Or(num1[i], n2[i]) ELSE num1[i]]

num_xor(num1, num2) ==
  LET n2 == Second(num1, num2)
  IN  [i \in DOMAIN num1 |-> IF i \in DOMAIN n2 THEN Xor(num1[i], n2[i]) ELSE num1[i]]

num_not(n) == Inverted(n)
-----------------------------------------------------------------------------
(* Text: a minus sign or none, and digits.                                 *)

word_to_num(w) == <<w, 0>>

(* The digits of a word, the first one not 0. *)
uintn_to_str(w) ==
  LET n == CHOOSE k \in 1 .. Digits : w < Power(Radix, k) /\ (k = 1 \/ w >= Power(Radix, k - 1))
  IN  [i \in 1 .. n |-> (w \div Power(Radix, n - i)) % Radix]

(* A mistake: the words below the highest are not filled up with zeros.    *)
num_to_str_unpadded(num) ==
  LET n == Magnitude(num)
  IN  [neg    |-> Sgn(num) # 0,
       digits |-> FlattenSeq(Reverse([i \in 1 .. Len(n) - 1 |-> uintn_to_str(n[i])]))]

num_to_str(num) ==
  LET n == Magnitude(num)
      padded(w) == Const(0, Digits - Len(uintn_to_str(w))) \o uintn_to_str(w)
      low == Reverse([i \in 1 .. Len(n) - 2 |-> padded(n[i])])
  IN  [neg    |-> Sgn(num) # 0,
       digits |-> uintn_to_str(n[Len(n) - 1]) \o FlattenSeq(low)]

(* The digits after the i-th, to the j-th. *)
ValueOf(digits, i, j) ==
  LET v[k \in i .. j] == IF k = i THEN 0 ELSE v[k - 1] * Radix + digits[k]
  IN  v[j]

(* What is over when the last digits are split into words goes on top.     *)
str_to_num(str) ==
  LET length == Len(str.digits)
      size   == length \div Digits
      words  == [i \in 1 .. size |->
                   ValueOf(str.digits, length - i * Digits, length - (i - 1) * Digits)]
      c      == ValueOf(str.digits, 0, length % Digits)
      num    == words \o (IF c # 0 \/ size = 0 THEN <<c>> ELSE <<>>) \o <<0>>
  IN  IF str.neg THEN num_negate(num) ELSE num
=============================================================================
