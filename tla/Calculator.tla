------------------------------ MODULE Calculator ------------------------------
(***************************************************************************)
(* Programs that calculate: a number is read or made from a word, results  *)
(* are the operands of further calls.  The values that the calls should    *)
(* have come from the integers.                                            *)
(***************************************************************************)
EXTENDS Numbers

CONSTANTS MaxDigits,   \* TLC bounds: of texts that are read
          MaxSize      \* and of the words of operands

ASSUME TextsAssumption == MaxDigits \in Nat

VARIABLES num1, num2,
          called,   \* the last call, or "none"
          result    \* of that call: a number, num_le's word or a text

vars == <<num1, num2, called, result>>

Texts == [neg : BOOLEAN,
          digits : UNION {[1 .. n -> 0 .. Radix - 1] : n \in 1 .. MaxDigits}]

Made == {word_to_num(w) : w \in Word} \cup {str_to_num(s) : s \in Texts}

WellFormed(n) == n \in Seq(Word) /\ Len(n) >= 2 /\ Sgn(n) \in {0, Ones}

Init ==
  /\ num1 \in Made
  /\ num2 \in Made
  /\ called = "none"
  /\ result = <<>>
-----------------------------------------------------------------------------
Call(name, r) ==
  /\ called = "none"
  /\ called' = name
  /\ result' = r
  /\ UNCHANGED <<num1, num2>>

(* A number that has a sign word can be an operand again. *)
Reuse ==
  /\ called \in {"negate", "add", "mul", "mul_same", "shift", "and", "or", "xor", "not"}
  /\ WellFormed(result)
  /\ Len(result) <= MaxSize
  /\ num1' = result
  /\ num2' \in {num1, num2}
  /\ called' = "none"
  /\ result' = <<>>

Next ==
  \/ Call("negate", num_negate(num1))
  \/ Call("add", num_add(num1, num2))
  \/ Call("le", num_le(num1, num2))
  \/ Call("mul", num_mul(num1, num2))
  \/ Call("mul_same", num_mul_same(num1))
  \/ Call("shift", num_shift(num1, num2))
  \/ Call("and", num_and(num1, num2))
  \/ Call("or", num_or(num1, num2))
  \/ Call("xor", num_xor(num1, num2))
  \/ Call("not", num_not(num1))
  \/ Call("to_str", num_to_str(num1))
  \/ Reuse

Spec == Init /\ [][Next]_vars
-----------------------------------------------------------------------------
(* The words of n from the last but one down, under what is worth top. *)
Under(n, top) ==
  LET v[i \in 0 .. Len(n) - 1] == IF i = 0 THEN top ELSE v[i - 1] * Base + n[Len(n) - i]
  IN  v

(* The integer that a number stands for. *)
Value(n) ==
  Under(n, IF Sgn(n) # 0 THEN -1 ELSE 0)[Len(n) - 1]

Negative(n) == Sgn(n) # 0

(* The negative numbers with a magnitude of one word more: a power of Base. *)
Lowest(n) == Negative(n) /\ \A i \in 1 .. Len(n) - 1 : n[i] = 0

(* Positive numbers that fill the words of the result, the highest one with *)
(* all ones.                                                               *)
Brim(v) ==
  LET k == Len(result)
  IN  v < Power(Base, k) /\ v >= Power(Base, k) - Power(Base, k - 1)

(* num_add is exact and keeps the sign word, whatever the sizes and signs,  *)
(* and num_le is its use for "less than": also where the negated operand    *)
(* has lost its sign word for the moment.                                   *)
SumsExact ==
  /\ called = "add" => WellFormed(result) /\ Value(result) = Value(num1) + Value(num2)
  /\ called = "le" => (result # 0 <=> Value(num1) < Value(num2))

(* num_mul is exact but for some lowest numbers: one of two words counts as *)
(* zero, and the longer operand, the second of two equally long ones, is    *)
(* not multiplied where its negation does not fit.  A product with itself   *)
(* is exact unless the number is negative.                                  *)
Spoils(n1, n2) == Lowest(n2) \/ (Lowest(n1) /\ Len(n1) = 2)

ProductsExact ==
  /\ called = "mul" /\ ~Spoils(Shorter(num2, num1), Longer(num2, num1)) =>
       WellFormed(result) /\ Value(result) = Value(num1) * Value(num2)
  /\ called = "mul_same" /\ ~Negative(num1) => Value(result) = Value(num1) * Value(num1)

(* Shifting a number that is not negative multiplies it by a power of two,  *)
(* or divides and rounds down; but a highest word of all ones is taken for  *)
(* a sign, and its value is lost.                                           *)
ShiftsExact ==
  LET by == IF Len(num2) > 2 THEN 0 ELSE Value(num2)
      v  == IF by < 0 THEN Value(num1) * Power(2, -by) ELSE Value(num1) \div Power(2, by)
  IN  called = "shift" /\ ~Negative(num1) /\ ~Lowest(num2) =>
        Value(result) = v \/ Brim(v)

(* The word of two's complement at place i, the sign's from its own on.     *)
WordAt(n, i) == IF i < Len(n) THEN n[i] ELSE Sgn(n)

(* The bits of a result are those of the operands, as in two's complement   *)
(* of any length, if both have the same size; but num_and, too, takes a     *)
(* highest word of all ones for a sign.                                     *)
BitsExact ==
  LET same(op(_, _)) ==
        \A i \in 1 .. Len(num1) + Len(result) :
          WordAt(result, i) = op(WordAt(num1, i), WordAt(num2, i))
  IN  Len(num1) = Len(num2) =>
        /\ called = "and" => same(And) \/ Brim(Value([i \in DOMAIN num1 |-> And(num1[i], num2[i])]))
        /\ called = "or" => same(Or)
        /\ called = "xor" => same(Xor)

(* num_shift, num_and, num_or and num_xor do to bits what they say.        *)
BitwiseExact == ShiftsExact /\ BitsExact

(* What is printed and read again is the same number, unless it is a lowest *)
(* one: those print as -0.                                                  *)
ReadsBack ==
  called = "to_str" =>
    Value(str_to_num(result)) = IF Lowest(num1) THEN 0 ELSE Value(num1)

(* datastructures.c:1472: "Always maintain a sign word at the end of the    *)
(* bignum".  The negation of a lowest number does not.                      *)
NegationKeepsSign == called = "negate" => WellFormed(result)
=============================================================================
