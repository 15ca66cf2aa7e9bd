-------------------------------- MODULE Words --------------------------------
(***************************************************************************)
(* The machine's words, of Bits bits (64 in the code), as the numbers from *)
(* 0 to Base - 1; Half is the highest bit.                                 *)
(***************************************************************************)
EXTENDS Integers

CONSTANTS Bits, Half

ASSUME HalfAssumption == Half \in Nat \ {0, 1}

(* Powers of natural numbers. *)
Power(b, n) ==
  LET p[i \in 0 .. n] == IF i = 0 THEN 1 ELSE b * p[i - 1]
  IN  p[n]

ASSUME WidthAssumption == Bits \in Nat \ {0} /\ Half = Power(2, Bits - 1)

Base == 2 * Half

Word == 0 .. Base - 1

Ones == Base - 1

(* The value of a word that is read as a signed one. *)
Signed(w) == IF w >= Half THEN w - Base ELSE w

(* The carry is the majority of both highest bits and the carry into them. *)
adc(x, y) ==
  LET z == ((x % Half) + (y % Half)) \div Half
  IN  [word  |-> (x + y) % Base,
       carry |-> IF (x \div Half) + (y \div Half) + z >= 2 THEN 1 ELSE 0]

(* One turn of the loops over the words of numbers: the carry is added to  *)
(* a word, then a word of the other number.                                *)
Add(x, y, carry) ==
  LET s == adc(x, carry)
      t == adc(s.word, y)
  IN  [word |-> t.word, carry |-> s.carry + t.carry]
=============================================================================
