--------------------------- MODULE Assembler_proofs ---------------------------
(***************************************************************************)
(* For every program, width of words and split of their bits, and wherever *)
(* the allocator refuses: compile keeps no array; and unless a reference   *)
(* to the label r loses the token behind it, what compile returns is what  *)
(* was written, as run decodes it, and it refuses nothing without reason.  *)
(*                                                                         *)
(* The words first: what run takes apart is what compile put together.     *)
(* Then the lines: what the arrays hold when the lines before one are      *)
(* done, in the loop over the text, and which references are resolved, in  *)
(* the loop over lbl_refs.                                                 *)
(***************************************************************************)
EXTENDS Assembler, Words_proofs, SequenceTheorems, FiniteSetTheorems

Working == {"scan", "resolve"}

(* What is allocated while compile runs: nothing at the start, and all     *)
(* three arrays in both of its loops, which is what its labels error to    *)
(* error2 count on.                                                        *)
ArraysHeld ==
  /\ at \in {"start", "done"} \cup Working
  /\ at = "start" => heap = {}
  /\ at \in Working => heap = {"arr", "lbl_refs", "lbls"}

IInv == ArraysHeld /\ NothingLeaks

LEMMA Cleared == {"arr", "lbl_refs", "lbls"} \ error = {}
  BY DEF error, error1, error2

LEMMA Initially == AnyProgram => IInv
  BY DEF AnyProgram, Begin, IInv, ArraysHeld, NothingLeaks, Working

(* From either loop there are two ways out, with all arrays deleted, and   *)
(* one with the result.                                                    *)
LEMMA Failing ==
  ASSUME ArraysHeld, at \in Working, Returned(FALSE, heap \ error)
  PROVE  IInv'
<1>1. heap' = {} /\ at' = "done" /\ ret' = FALSE
  BY Cleared DEF ArraysHeld, Returned
<1> QED  BY <1>1 DEF IInv, ArraysHeld, NothingLeaks, Working

LEMMA Staying ==
  ASSUME IInv, at \in Working, at' \in Working, heap' = heap
  PROVE  IInv'
  BY DEF IInv, ArraysHeld, NothingLeaks, Working

LEMMA Consecution == IInv /\ [Compile]_assembler => IInv'
<1> SUFFICES ASSUME IInv, [Compile]_assembler
             PROVE  IInv'
  OBVIOUS
<1>1. CASE Arrays
  BY <1>1 DEF Arrays, IInv, ArraysHeld, NothingLeaks, Working
<1>2. CASE NoArrays
  <2>1. at' = "done" /\ ret' = FALSE /\ heap' = {}
    BY <1>2 DEF NoArrays, Returned, error1, error2
  <2> QED  BY <2>1 DEF IInv, ArraysHeld, NothingLeaks, Working
<1>3. CASE Datum \/ Label \/ Instruction
  <2>1. at \in Working /\ at' \in Working /\ heap' = heap
    BY <1>3 DEF Datum, Label, Instruction, Scanning, Working
  <2> QED  BY <2>1, Staying
<1>4. CASE Malformed
  <2>1. at \in Working /\ Returned(FALSE, heap \ error)
    BY <1>4 DEF Malformed, Scanning, Working
  <2> QED  BY <2>1, Failing DEF IInv
<1>5. CASE NoAppend
  <2>1. at \in Working /\ Returned(FALSE, heap \ error)
    BY <1>5 DEF NoAppend, Starved, Scanning, Working
  <2> QED  BY <2>1, Failing DEF IInv
<1>6. CASE Scanned \/ Resolve
  <2>1. at \in Working /\ at' \in Working /\ heap' = heap
    BY <1>6 DEF Scanned, Resolve, Resolving, Working
  <2> QED  BY <2>1, Staying
<1>7. CASE Undefined
  <2>1. at \in Working /\ Returned(FALSE, heap \ error)
    BY <1>7 DEF Undefined, Resolving, Working
  <2> QED  BY <2>1, Failing DEF IInv
<1>8. CASE Compiled
  <2>1. at' = "done" /\ ret' = TRUE /\ heap' = {"arr"}
    BY <1>8 DEF Compiled, Returned, IInv, ArraysHeld, Working
  <2> QED  BY <2>1 DEF IInv, ArraysHeld, NothingLeaks, Working
<1>9. CASE UNCHANGED assembler
  BY <1>9 DEF assembler, IInv, ArraysHeld, NothingLeaks
<1> QED
  BY <1>1, <1>2, <1>3, <1>4, <1>5, <1>6, <1>7, <1>8, <1>9 DEF Compile

(* However compile ends, of its arrays only the result is left: errors at  *)
(* any line, unknown labels, and any allocation that fails (compile's      *)
(* labels error, error1 and error2).                                       *)
THEOREM ArraysReleased == Compilation => []NothingLeaks
<1>1. IInv => NothingLeaks
  BY DEF IInv
<1> QED  BY Initially, Consecution, <1>1, PTL DEF Compilation

-----------------------------------------------------------------------------
(* The words of instructions.                                              *)

LEMMA PlacesAre ==
  /\ num_regs \in Nat /\ num_regs >= 2
  /\ \A i \in 0 .. 3 : Place(i) \in Nat /\ Place(i) >= 1
  /\ \A i \in 1 .. 3 : Place(i - 1) = num_regs * Place(i)
<1>1. /\ opcode_len \in 5 .. Bits /\ arg_size \in Nat /\ arg_size >= 1
      /\ opcode_len + 3 * arg_size <= Bits /\ Bits \in Nat
  BY EncodingAssumption, WidthAssumption
<1>2. num_regs \in Nat /\ num_regs >= 2
  <2>1. arg_size - 1 \in Nat /\ (arg_size - 1) + 1 = arg_size
    BY <1>1
  <2>2. Power(2, arg_size - 1) \in Nat /\ Power(2, arg_size - 1) >= 1
        /\ Power(2, (arg_size - 1) + 1) = 2 * Power(2, arg_size - 1)
    BY <2>1, TwosAre
  <2> QED BY <2>1, <2>2 DEF num_regs
<1>3. ASSUME NEW i \in 0 .. 3
      PROVE  Place(i) = Power(2, opcode_start - i * arg_size) /\ opcode_start - i * arg_size \in Nat
  <2>1. i = 0 \/ i = 1 \/ i = 2 \/ i = 3
    OBVIOUS
  <2>2. opcode_start - i * arg_size \in Nat
    BY <1>1, <2>1 DEF opcode_start
  <2> QED BY <2>2 DEF Place, Places
<1>4. \A i \in 0 .. 3 : Place(i) \in Nat /\ Place(i) >= 1
  BY <1>3, TwosAre
<1>5. ASSUME NEW i \in 1 .. 3
      PROVE  Place(i - 1) = num_regs * Place(i)
  <2> DEFINE m == opcode_start - i * arg_size
  <2>1. i \in 0 .. 3 /\ i - 1 \in 0 .. 3 /\ m \in Nat /\ Place(i) = Power(2, m)
        /\ Place(i - 1) = Power(2, opcode_start - (i - 1) * arg_size)
    BY <1>3
  <2>2. opcode_start - (i - 1) * arg_size = arg_size + m
    <3>1. i = 1 \/ i = 2 \/ i = 3
      OBVIOUS
    <3> QED BY <1>1, <3>1 DEF opcode_start
  <2> HIDE DEF m
  <2>3. Power(2, arg_size + m) = Power(2, arg_size) * Power(2, m)
    <3>1. 2 \in Nat /\ arg_size \in Nat /\ m \in Nat
      BY <1>1, <2>1
    <3> QED BY <3>1, PowersMultiply
  <2> QED BY <2>1, <2>2, <2>3 DEF num_regs
<1> QED BY <1>2, <1>4, <1>5

(* The bit for a register is above every opcode's. *)
LEMMA HalfIs == \E K \in Nat : K >= 16 /\ Half = K * Place(0)
<1>1. opcode_len \in 5 .. Bits /\ Bits \in Nat
  BY EncodingAssumption, WidthAssumption
<1>2. Place(0) = Power(2, Bits - opcode_len)
  BY <1>1, EncodingAssumption DEF Place, Places, opcode_start
<1> DEFINE m == opcode_len - 5
           n == Bits - opcode_len
<1>3. m \in Nat /\ n \in Nat /\ Bits - 1 = (4 + m) + n /\ 4 + m \in Nat /\ 2 \in Nat /\ 4 \in Nat
  BY <1>1
<1> HIDE DEF m, n
<1>4. Power(2, 4) = 16
  <2>1. Power(2, 0) = 1 /\ Power(2, 0 + 1) = 2 * Power(2, 0) /\ Power(2, 1 + 1) = 2 * Power(2, 1)
        /\ Power(2, 2 + 1) = 2 * Power(2, 2) /\ Power(2, 3 + 1) = 2 * Power(2, 3)
    BY TwosAre
  <2> QED BY <2>1
<1>5. Power(2, 4 + m) = 16 * Power(2, m)
  BY <1>3, <1>4, PowersMultiply
<1>6. Power(2, (4 + m) + n) = Power(2, 4 + m) * Power(2, n)
  BY <1>3, PowersMultiply
<1>7. Power(2, m) \in Nat /\ Power(2, m) >= 1
  BY <1>3, TwosAre
<1>8. Half = Power(2, 4 + m) * Place(0)
  BY <1>2, <1>3, <1>6, WidthAssumption DEF n
<1>9. 16 * Power(2, m) \in Nat /\ 16 * Power(2, m) >= 16
  BY <1>7
<1> QED BY <1>5, <1>8, <1>9

(* A digit r below q, each in its place. *)
LEMMA Nested ==
  ASSUME NEW R \in Nat, R >= 2, NEW P \in Nat, P >= 1,
         NEW q \in Nat, NEW r \in 0 .. R - 1, NEW y \in 0 .. P - 1
  PROVE  /\ q * R + r \in Nat /\ ((q * R + r) % R) = r
         /\ q * (R * P) + (r * P + y) = (q * R + r) * P + y
         /\ R * P \in Nat /\ R * P >= 1 /\ r * P + y \in 0 .. (R * P) - 1
<1>1. q * R \in Nat /\ R * P \in Nat /\ r * P \in Nat /\ r \in Nat /\ q * R + r \in Nat
  OBVIOUS
<1>2. ((q * R + r) % R) = r
  <2> DEFINE a == q * R + r
  <2>1. a \in Nat /\ R \in Nat \ {0} /\ a = q * R + r
    BY <1>1
  <2> HIDE DEF a
  <2> QED BY <2>1, Divided DEF a
<1>3. q * (R * P) = (q * R) * P /\ (q * R + r) * P = (q * R) * P + r * P
  BY <1>1
<1>4. q * (R * P) + (r * P + y) = (q * R + r) * P + y
  <2> DEFINE u == (q * R) * P
             v == r * P
             z == (q * R + r) * P
  <2>1. u \in Int /\ v \in Int /\ z = u + v /\ q * (R * P) = u
    BY <1>1, <1>3
  <2> HIDE DEF u, v, z
  <2>2. u + (v + y) = z + y
    BY <2>1
  <2> QED BY <2>1, <2>2 DEF v, z
<1>5. R * P >= 1
  BY <1>1
<1>6. r * P + y \in 0 .. (R * P) - 1
  <2> DEFINE v == r * P
             u == R * P
             t == (R - 1) * P
  <2>1. v <= t
    BY <1>1
  <2>2. t = u - P /\ u \in Nat /\ v \in Nat
    BY <1>1
  <2> HIDE DEF u, v, t
  <2> QED BY <2>1, <2>2 DEF u, v
<1> QED BY <1>1, <1>2, <1>4, <1>5, <1>6

(* What is above a digit in a word, and what is below. *)
Parts(w, P, q, y) == P \in Nat /\ P >= 1 /\ q \in Nat /\ y \in 0 .. P - 1 /\ w = q * P + y

LEMMA Apart ==
  \A w, P, q, y : Parts(w, P, q, y) => w \in Nat /\ (w \div P) = q /\ (w % P) = y
<1> SUFFICES ASSUME NEW P, NEW q, NEW y, P \in Nat, P >= 1, q \in Nat, y \in 0 .. P - 1
             PROVE  q * P + y \in Nat /\ ((q * P + y) \div P) = q /\ ((q * P + y) % P) = y
  BY DEF Parts
<1> DEFINE a == q * P + y
<1>1. a \in Nat /\ P \in Nat \ {0} /\ a = q * P + y
  OBVIOUS
<1> HIDE DEF a
<1>2. (a \div P) = q /\ (a % P) = y
  BY <1>1, Divided
<1> QED BY <1>1, <1>2 DEF a

(* A word: whether the last operand is a register, the opcode, and the rest. *)
Whole(w, b, op, y) ==
  /\ b \in 0 .. 1 /\ op \in 0 .. 15 /\ y \in 0 .. Place(0) - 1
  /\ w = b * Half + (op * Place(0) + y)

LEMMA WholeIs ==
  \A w, b, op, y : Whole(w, b, op, y) =>
    /\ w \in Nat /\ OpcodeOf(w) = op /\ (w >= Half <=> b = 1)
    /\ \E q \in Nat : w = q * Place(0) + y
<1> SUFFICES ASSUME NEW w, NEW b, NEW op, NEW y, Whole(w, b, op, y)
             PROVE  /\ w \in Nat /\ OpcodeOf(w) = op /\ (w >= Half <=> b = 1)
                    /\ \E q \in Nat : w = q * Place(0) + y
  OBVIOUS
<1>1. b \in 0 .. 1 /\ op \in 0 .. 15 /\ y \in 0 .. Place(0) - 1 /\ w = b * Half + (op * Place(0) + y)
  BY DEF Whole
<1>2. PICK K \in Nat : K >= 16 /\ Half = K * Place(0)
  BY HalfIs
<1> DEFINE p == Place(0)
           z == op * p + y
<1>3. p \in Nat /\ p >= 1 /\ Half \in Nat /\ Half >= 1
  BY PlacesAre, HalfAssumption
<1>4. Half = K * p /\ w = b * Half + z /\ y \in 0 .. p - 1
  BY <1>1, <1>2
<1>5. z \in Nat /\ (z \div p) = op
  <2>1. Parts(op * p + y, p, op, y)
    BY <1>1, <1>3, <1>4 DEF Parts
  <2> QED BY <2>1, Apart
<1>6. z <= Half - 1
  <2> HIDE DEF p
  <2>1. op * p <= 15 * p /\ 16 * p <= K * p /\ op * p \in Nat /\ K * p \in Nat
    BY <1>1, <1>2, <1>3
  <2> DEFINE s == op * p
             t == K * p
  <2>2. s <= 15 * p /\ 16 * p <= t /\ s \in Nat /\ t \in Nat /\ z = s + y
    BY <2>1
  <2> HIDE DEF s, t, z
  <2>3. Half = t
    BY <1>4 DEF t
  <2> QED BY <1>3, <1>4, <2>2, <2>3
<1> HIDE DEF z
<1>7. w \in Nat /\ (w % Half) = z
  <2>1. Parts(w, Half, b, z)
    BY <1>1, <1>3, <1>4, <1>5, <1>6 DEF Parts
  <2> QED BY <2>1, Apart
<1>8. w >= Half <=> b = 1
  <2>1. CASE b = 0
    BY <1>3, <1>4, <1>5, <1>6, <2>1
  <2>2. CASE b = 1
    BY <1>3, <1>4, <1>5, <2>2
  <2> QED BY <1>1, <2>1, <2>2
<1>9. OpcodeOf(w) = op
  BY <1>5, <1>7 DEF OpcodeOf, p
<1>10. \E q \in Nat : w = q * p + y
  <2> HIDE DEF p
  <2>1. b * K + op \in Nat
    BY <1>1
  <2>2. b * (K * p) = (b * K) * p /\ (b * K + op) * p = (b * K) * p + op * p
    BY <1>1, <1>3
  <2>3. (b * K) * p \in Int /\ op * p \in Int
    BY <1>1, <1>3
  <2>4. w = (b * K) * p + (op * p + y)
    BY <1>4, <2>2 DEF z
  <2>5. w = (b * K + op) * p + y
    BY <1>4, <2>2, <2>3, <2>4
  <2> QED BY <2>1, <2>5
<1> QED BY <1>7, <1>8, <1>9, <1>10 DEF p

(* y is what is below the i-th place of a word. *)
Below(w, i, y) == i \in 0 .. 3 /\ y \in 0 .. Place(i) - 1 /\ \E q \in Nat : w = q * Place(i) + y

LEMMA BelowIs == \A w, i, y : Below(w, i, y) => w \in Nat /\ (w % Place(i)) = y
<1> SUFFICES ASSUME NEW w, NEW i, NEW y, Below(w, i, y)
             PROVE  w \in Nat /\ (w % Place(i)) = y
  OBVIOUS
<1>1. PICK q \in Nat : w = q * Place(i) + y
  BY DEF Below
<1>2. Parts(w, Place(i), q, y)
  BY <1>1, PlacesAre DEF Below, Parts
<1> QED BY <1>2, Apart

(* The next place. *)
Digit(w, i, r, y) ==
  /\ i \in 1 .. 3 /\ r \in 0 .. num_regs - 1 /\ y \in 0 .. Place(i) - 1
  /\ Below(w, i - 1, r * Place(i) + y)

LEMMA DigitIs ==
  \A w, i, r, y : Digit(w, i, r, y) => ((w \div Place(i)) % num_regs) = r /\ Below(w, i, y)
<1> SUFFICES ASSUME NEW w, NEW i, NEW r, NEW y, Digit(w, i, r, y)
             PROVE  ((w \div Place(i)) % num_regs) = r /\ Below(w, i, y)
  OBVIOUS
<1>1. i \in 1 .. 3 /\ i \in 0 .. 3 /\ r \in 0 .. num_regs - 1 /\ y \in 0 .. Place(i) - 1
  BY DEF Digit
<1>2. PICK q \in Nat : w = q * Place(i - 1) + (r * Place(i) + y)
  BY DEF Digit, Below
<1> DEFINE R == num_regs
           P == Place(i)
<1>3. R \in Nat /\ R >= 2 /\ P \in Nat /\ P >= 1 /\ Place(i - 1) = R * P
  BY <1>1, PlacesAre
<1>4. w = q * (R * P) + (r * P + y) /\ r \in 0 .. R - 1 /\ y \in 0 .. P - 1
  BY <1>1, <1>2, <1>3
<1>5. ((w \div P) % R) = r /\ \E s \in Nat : w = s * P + y
  <2> HIDE DEF R, P
  <2>1. q * R + r \in Nat /\ ((q * R + r) % R) = r /\ q * (R * P) + (r * P + y) = (q * R + r) * P + y
    BY <1>3, <1>4, Nested
  <2>2. Parts(w, P, q * R + r, y)
    BY <1>3, <1>4, <2>1 DEF Parts
  <2>3. (w \div P) = q * R + r
    BY <2>2, Apart
  <2> QED BY <1>4, <2>1, <2>3
<1> QED BY <1>1, <1>5 DEF Below

LEMMA Under_ ==
  ASSUME NEW i \in 1 .. 3, NEW r \in 0 .. num_regs - 1, NEW y \in 0 .. Place(i) - 1
  PROVE  r * Place(i) + y \in 0 .. Place(i - 1) - 1
<1> DEFINE R == num_regs
           P == Place(i)
<1>1. R \in Nat /\ R >= 2 /\ P \in Nat /\ P >= 1 /\ Place(i - 1) = R * P /\ 0 \in Nat
  BY PlacesAre
<1>2. r \in 0 .. R - 1 /\ y \in 0 .. P - 1
  OBVIOUS
<1>3. r * P + y \in 0 .. (R * P) - 1
  <2> HIDE DEF R, P
  <2> QED BY <1>1, <1>2, Nested
<1> QED BY <1>1, <1>3

(* A word with three operands, the last one x, and a word with one. *)
Three(w, b, op, r1, r2, x) ==
  /\ b \in 0 .. 1 /\ op \in 0 .. 14 /\ r1 \in 0 .. num_regs - 1 /\ r2 \in 0 .. num_regs - 1
  /\ x \in 0 .. Place(2) - 1
  /\ w = b * Half + (op * Place(0) + (r1 * Place(1) + (r2 * Place(2) + x)))

One(w, b, x) == b \in 0 .. 1 /\ x \in 0 .. Place(0) - 1 /\ w = b * Half + (15 * Place(0) + x)

LEMMA ThreeIs ==
  \A w, b, op, r1, r2, x : Three(w, b, op, r1, r2, x) =>
    /\ OpcodeOf(w) = op /\ (w >= Half <=> b = 1) /\ (w % Place(2)) = x
    /\ ((w \div Place(1)) % num_regs) = r1 /\ ((w \div Place(2)) % num_regs) = r2
    /\ \A r \in 0 .. num_regs - 1 : x = r * Place(3) => ((w \div Place(3)) % num_regs) = r
<1> SUFFICES ASSUME NEW w, NEW b, NEW op, NEW r1, NEW r2, NEW x, Three(w, b, op, r1, r2, x)
             PROVE  /\ OpcodeOf(w) = op /\ (w >= Half <=> b = 1) /\ (w % Place(2)) = x
                    /\ ((w \div Place(1)) % num_regs) = r1 /\ ((w \div Place(2)) % num_regs) = r2
                    /\ \A r \in 0 .. num_regs - 1 :
                         x = r * Place(3) => ((w \div Place(3)) % num_regs) = r
  OBVIOUS
<1> DEFINE y1 == r2 * Place(2) + x
           y0 == r1 * Place(1) + y1
<1>1. /\ b \in 0 .. 1 /\ op \in 0 .. 14 /\ r1 \in 0 .. num_regs - 1 /\ r2 \in 0 .. num_regs - 1
      /\ x \in 0 .. Place(2) - 1 /\ w = b * Half + (op * Place(0) + y0)
  BY DEF Three
<1>2. y1 \in 0 .. Place(1) - 1
  <2>1. 2 \in 1 .. 3 /\ 2 - 1 = 1
    OBVIOUS
  <2> QED BY <1>1, <2>1, Under_
<1>3. y0 \in 0 .. Place(0) - 1
  <2> HIDE DEF y1
  <2>1. 1 \in 1 .. 3 /\ 1 - 1 = 0
    OBVIOUS
  <2> QED BY <1>1, <1>2, <2>1, Under_
<1>4. Whole(w, b, op, y0)
  <2> HIDE DEF y0
  <2> QED BY <1>1, <1>3 DEF Whole
<1>5. OpcodeOf(w) = op /\ (w >= Half <=> b = 1) /\ Below(w, 0, y0)
  <2> HIDE DEF y0
  <2> QED BY <1>3, <1>4, WholeIs DEF Below
<1>6. ((w \div Place(1)) % num_regs) = r1 /\ Below(w, 1, y1)
  <2> HIDE DEF y1
  <2>1. Digit(w, 1, r1, y1)
    BY <1>1, <1>2, <1>5 DEF Digit
  <2> QED BY <2>1, DigitIs
<1>7. ((w \div Place(2)) % num_regs) = r2 /\ Below(w, 2, x)
  <2>1. Digit(w, 2, r2, x)
    BY <1>1, <1>6 DEF Digit
  <2> QED BY <2>1, DigitIs
<1>8. (w % Place(2)) = x
  BY <1>7, BelowIs
<1>9. ASSUME NEW r \in 0 .. num_regs - 1, x = r * Place(3)
      PROVE  ((w \div Place(3)) % num_regs) = r
  <2>1. Place(3) \in Nat /\ Place(3) >= 1 /\ num_regs \in Nat /\ r \in Nat
    BY PlacesAre
  <2>2. x = r * Place(3) + 0 /\ 0 \in 0 .. Place(3) - 1
    <3>1. r * Place(3) \in Nat
      BY <2>1
    <3> QED BY <1>9, <2>1, <3>1
  <2>3. Digit(w, 3, r, 0)
    BY <1>7, <2>2 DEF Digit
  <2> QED BY <2>3, DigitIs
<1> QED BY <1>5, <1>6, <1>7, <1>8, <1>9

LEMMA OneIs ==
  \A w, b, x : One(w, b, x) =>
    /\ OpcodeOf(w) = 15 /\ (w >= Half <=> b = 1) /\ (w % Place(0)) = x
    /\ \A r \in 0 .. num_regs - 1 : x = r * Place(1) => ((w \div Place(1)) % num_regs) = r
<1> SUFFICES ASSUME NEW w, NEW b, NEW x, One(w, b, x)
             PROVE  /\ OpcodeOf(w) = 15 /\ (w >= Half <=> b = 1) /\ (w % Place(0)) = x
                    /\ \A r \in 0 .. num_regs - 1 :
                         x = r * Place(1) => ((w \div Place(1)) % num_regs) = r
  OBVIOUS
<1>1. Whole(w, b, 15, x) /\ x \in 0 .. Place(0) - 1
  BY DEF One, Whole
<1>2. OpcodeOf(w) = 15 /\ (w >= Half <=> b = 1) /\ Below(w, 0, x)
  BY <1>1, WholeIs DEF Below
<1>3. (w % Place(0)) = x
  BY <1>2, BelowIs
<1>4. ASSUME NEW r \in 0 .. num_regs - 1, x = r * Place(1)
      PROVE  ((w \div Place(1)) % num_regs) = r
  <2>1. Place(1) \in Nat /\ Place(1) >= 1 /\ num_regs \in Nat /\ r \in Nat
    BY PlacesAre
  <2>2. x = r * Place(1) + 0 /\ 0 \in 0 .. Place(1) - 1
    <3>1. r * Place(1) \in Nat
      BY <2>1
    <3> QED BY <1>4, <2>1, <3>1
  <2>3. Digit(w, 1, r, 0)
    BY <1>2, <2>2 DEF Digit
  <2> QED BY <2>3, DigitIs
<1> QED BY <1>2, <1>3, <1>4

(* The room for a number: half of it is for those below 0, and words are   *)
(* multiples of it.                                                        *)
LEMMA RoomIs ==
  ASSUME NEW n \in {1, 3}
  PROVE  \E h \in Nat, c \in Nat : /\ h >= 1 /\ c >= 1 /\ Place(n - 1) = 2 * h
                                   /\ MaxImm(n) = h - 1 /\ Base = c * (2 * h)
<1>1. n \in 1 .. 3 /\ n - 1 \in 0 .. 3
  OBVIOUS
<1>2. /\ Place(n) \in Nat /\ Place(n) >= 1 /\ Place(n - 1) = num_regs * Place(n)
      /\ num_regs \in Nat /\ num_regs >= 2
  <2>1. n \in 0 .. 3
    OBVIOUS
  <2> QED BY <1>1, <2>1, PlacesAre
<1>3. \E g \in Nat : g >= 1 /\ num_regs = 2 * g
  <2>1. arg_size - 1 \in Nat /\ (arg_size - 1) + 1 = arg_size
    BY EncodingAssumption
  <2>2. Power(2, arg_size - 1) \in Nat /\ Power(2, arg_size - 1) >= 1
        /\ Power(2, (arg_size - 1) + 1) = 2 * Power(2, arg_size - 1)
    BY <2>1, TwosAre
  <2> QED BY <2>1, <2>2 DEF num_regs
<1>4. PICK g \in Nat : g >= 1 /\ num_regs = 2 * g
  BY <1>3
<1> DEFINE P == Place(n)
           h == g * P
<1>5. h \in Nat /\ h >= 1 /\ Place(n - 1) = 2 * h
  <2>1. P \in Nat /\ P >= 1 /\ Place(n - 1) = (2 * g) * P
    BY <1>2, <1>4
  <2> HIDE DEF P
  <2>2. g * P \in Nat /\ g * P >= 1 /\ (2 * g) * P = 2 * (g * P)
    BY <1>4, <2>1
  <2> QED BY <2>1, <2>2
<1> HIDE DEF h
<1>6. MaxImm(n) = h - 1
  <2>1. ((2 * h - 1) \div 2) = h - 1
    BY <1>5
  <2> QED BY <1>5, <2>1 DEF MaxImm, get_flx_op_mask
<1>7. \E c \in Nat : c >= 1 /\ Base = c * Place(n - 1)
  <2>1. PICK K \in Nat : K >= 16 /\ Half = K * Place(0)
    BY HalfIs
  <2>2. Base = (2 * K) * Place(0) /\ Place(0) \in Nat
    <3>1. Place(0) \in Nat /\ Base = 2 * Half
      BY PlacesAre, BaseIs
    <3> QED BY <2>1, <3>1
  <2>3. CASE n = 1
    BY <2>1, <2>2, <2>3
  <2>4. CASE n = 3
    <3> DEFINE R == num_regs
               Q == Place(2)
    <3>1. Place(0) = R * Place(1) /\ Place(1) = R * Q /\ Q \in Nat
      <4>1. 1 \in 1 .. 3 /\ 2 \in 1 .. 3 /\ 1 - 1 = 0 /\ 2 - 1 = 1 /\ 2 \in 0 .. 3
        OBVIOUS
      <4> QED BY <4>1, PlacesAre
    <3>2. Base = (2 * K) * (R * (R * Q)) /\ R \in Nat /\ R >= 2 /\ Place(n - 1) = Q
      BY <1>2, <2>2, <2>4, <3>1
    <3> HIDE DEF R, Q
    <3>3. (2 * K) * (R * (R * Q)) = ((2 * K) * (R * R)) * Q
      BY <2>1, <3>1, <3>2
    <3>4. R * R \in Nat /\ R * R >= 1
      BY <3>2
    <3> DEFINE s == R * R
               c == (2 * K) * s
    <3>5. c \in Nat /\ c >= 1
      <4> HIDE DEF s
      <4> QED BY <2>1, <3>4 DEF s
    <3>6. Base = c * Place(n - 1)
      BY <3>2, <3>3
    <3> HIDE DEF c
    <3> QED BY <3>5, <3>6
  <2> QED BY <2>3, <2>4
<1> QED BY <1>5, <1>6, <1>7

(* The number of an operand, as compile writes it and run reads it.        *)
Numbered(w, n, x) == n \in {1, 3} /\ (w % Place(n - 1)) = x

LEMMA MaskIs == \A n \in {1, 3} : get_flx_op_mask(n) + 1 = Place(n - 1)
<1> TAKE n \in {1, 3}
<1>1. Place(n - 1) \in Nat
  <2>1. n - 1 \in 0 .. 3
    OBVIOUS
  <2> QED BY <2>1, PlacesAre
<1> QED BY <1>1 DEF get_flx_op_mask

LEMMA SmallNumberIs ==
  \A w, n, x : Numbered(w, n, x) /\ x \in Nat /\ x <= MaxImm(n) =>
    Immediate(w, n) = x /\ x \in 0 .. Place(n - 1) - 1
<1> SUFFICES ASSUME NEW w, NEW n, NEW x, Numbered(w, n, x), x \in Nat, x <= MaxImm(n)
             PROVE  Immediate(w, n) = x /\ x \in 0 .. Place(n - 1) - 1
  OBVIOUS
<1>1. n \in {1, 3} /\ (w % Place(n - 1)) = x
  BY DEF Numbered
<1>2. PICK h \in Nat : h >= 1 /\ Place(n - 1) = 2 * h /\ MaxImm(n) = h - 1
  BY <1>1, RoomIs
<1>3. (w % (get_flx_op_mask(n) + 1)) = x
  BY <1>1, MaskIs
<1>4. x <= h - 1 /\ ~(x > MaxImm(n))
  BY <1>2
<1> QED BY <1>2, <1>3, <1>4 DEF Immediate

LEMMA NegativeNumberIs ==
  \A w, n, v : Numbered(w, n, (Base - v) % Place(n - 1)) /\ v \in Nat /\ v <= MaxImm(n) =>
    /\ Immediate(w, n) = ((Base - v) % Base)
    /\ ((Base - v) % Place(n - 1)) \in 0 .. Place(n - 1) - 1
<1> SUFFICES ASSUME NEW w, NEW n, NEW v, Numbered(w, n, (Base - v) % Place(n - 1)),
                    v \in Nat, v <= MaxImm(n)
             PROVE  /\ Immediate(w, n) = ((Base - v) % Base)
                    /\ ((Base - v) % Place(n - 1)) \in 0 .. Place(n - 1) - 1
  OBVIOUS
<1> DEFINE x == (Base - v) % Place(n - 1)
<1>1. n \in {1, 3} /\ (w % (get_flx_op_mask(n) + 1)) = x
  BY MaskIs DEF Numbered
<1>2. PICK h \in Nat, c \in Nat : /\ h >= 1 /\ c >= 1 /\ Place(n - 1) = 2 * h
                                  /\ MaxImm(n) = h - 1 /\ Base = c * (2 * h)
  BY <1>1, RoomIs
<1>3. x = IF v = 0 THEN 0 ELSE 2 * h - v
  <2> DEFINE p == 2 * h
  <2>1. p \in Nat /\ p >= 1 /\ v < p
    BY <1>2
  <2>2. CASE v = 0
    <3>1. Parts(Base - v, p, c, 0)
      BY <1>2, <2>1, <2>2 DEF Parts
    <3> QED BY <1>2, <2>2, <3>1, Apart
  <2>3. CASE v # 0
    <3>1. c * p = (c - 1) * p + p /\ (c - 1) * p \in Int /\ c - 1 \in Nat
      <4> HIDE DEF p
      <4> QED BY <1>2, <2>1
    <3>2. Base - v = (c - 1) * p + (p - v)
      <4> DEFINE u == (c - 1) * p
      <4>1. u \in Int /\ Base = u + p
        BY <1>2, <3>1
      <4> HIDE DEF u, p
      <4>2. Base - v = u + (p - v)
        BY <2>1, <4>1
      <4> QED BY <4>2 DEF u
    <3>3. Parts(Base - v, p, c - 1, p - v)
      BY <2>1, <2>3, <3>1, <3>2 DEF Parts
    <3> QED BY <1>2, <2>3, <3>3, Apart
  <2> QED BY <2>2, <2>3
<1>4. Base \in Nat /\ Base >= 2 * h
  BY <1>2, BaseIs
<1>5. ((Base - v) % Base) = IF v = 0 THEN 0 ELSE Base - v
  <2>1. CASE v = 0
    <3>1. Parts(Base - v, Base, 1, 0)
      BY <1>2, <1>4, <2>1 DEF Parts
    <3> QED BY <2>1, <3>1, Apart
  <2>2. CASE v # 0
    <3>1. Parts(Base - v, Base, 0, Base - v)
      BY <1>2, <1>4, <2>2 DEF Parts
    <3> QED BY <2>2, <3>1, Apart
  <2> QED BY <2>1, <2>2
<1> HIDE DEF x
<1>6. x \in 0 .. Place(n - 1) - 1
  BY <1>2, <1>3
<1>7. Immediate(w, n) = IF x > MaxImm(n) THEN x + Base - (2 * h) ELSE x
  <2>1. get_flx_op_mask(n) + 1 = 2 * h
    BY <1>1, <1>2, MaskIs
  <2> QED BY <1>1, <2>1 DEF Immediate
<1>8. Immediate(w, n) = IF v = 0 THEN 0 ELSE Base - v
  BY <1>2, <1>3, <1>4, <1>7
<1> QED BY <1>5, <1>6, <1>8 DEF x

-----------------------------------------------------------------------------
(* The word of a line that is an instruction.                              *)

(* An instruction with all its operands, those before the last registers.  *)
Sound(l) ==
  /\ IsLine(l) /\ l[1].kind = "op" /\ Complete(l)
  /\ \A i \in 1 .. n_args(l[1].n) - 1 : IsRegister(l[i + 1])

HeadOf(l) ==
  InstrHead(l[1].n, [i \in 1 .. n_args(l[1].n) - 1 |-> l[i + 1].n]) + LastBits(l[1].n, Last(l))

(* What run sees in it, if a label's address is a. *)
ImmSeen(l, a) ==
  IF IsRegister(Last(l)) THEN 0
  ELSE IF Refers(l) THEN a
  ELSE IF Last(l).kind = "neg" THEN (Base - Last(l).n) % Base ELSE Last(l).n

Seen(l, a) ==
  [op   |-> l[1].n,
   args |-> [i \in 1 .. n_args(l[1].n) |->
               IF i = n_args(l[1].n) /\ ~IsRegister(Last(l)) THEN num_regs ELSE l[i + 1].n],
   imm  |-> ImmSeen(l, a)]

Filled(l, a) ==
  Sound(l) /\ a \in Nat /\ a <= MaxImm(n_args(l[1].n)) /\ (~Refers(l) => a = 0)

LEMMA NumbersAre ==
  \A l : IsLine(l) =>
    \A i \in DOMAIN l : l[i].kind \in {"reg", "num", "neg"} => l[i].n \in Nat
<1>1. Word \subseteq Nat
  BY HalfAssumption DEF Word, Base
<1> QED BY <1>1 DEF IsLine

LEMMA SoundIs ==
  \A l : Sound(l) =>
    /\ l[1].n \in 0 .. 15 /\ n_args(l[1].n) \in {1, 3}
    /\ (l[1].n = 15 <=> n_args(l[1].n) = 1)
    /\ l \in Seq(Tokens) /\ Len(l) = 1 + n_args(l[1].n)
    /\ Last(l) = l[n_args(l[1].n) + 1] /\ Last(l) \in Tokens
    /\ Last(l).kind \in {"reg", "num", "neg"} => Last(l).n \in Nat
    /\ \A i \in 1 .. n_args(l[1].n) - 1 : l[i + 1].n \in 0 .. num_regs - 1
<1> SUFFICES ASSUME NEW l, Sound(l)
             PROVE  /\ l[1].n \in 0 .. 15 /\ n_args(l[1].n) \in {1, 3}
                    /\ (l[1].n = 15 <=> n_args(l[1].n) = 1)
                    /\ l \in Seq(Tokens) /\ Len(l) = 1 + n_args(l[1].n)
                    /\ Last(l) = l[n_args(l[1].n) + 1] /\ Last(l) \in Tokens
                    /\ Last(l).kind \in {"reg", "num", "neg"} => Last(l).n \in Nat
                    /\ \A i \in 1 .. n_args(l[1].n) - 1 : l[i + 1].n \in 0 .. num_regs - 1
  OBVIOUS
<1> DEFINE n == n_args(l[1].n)
<1>1. l \in Seq(Tokens) /\ l[1].kind = "op" /\ Len(l) = 1 + n /\ l[1].n \in acx .. exc
  BY DEF Sound, IsLine, Complete
<1>2. l[1].n \in 0 .. 15 /\ n \in {1, 3} /\ (l[1].n = 15 <=> n = 1)
  BY <1>1 DEF acx, exc, n_args
<1> HIDE DEF n
<1>3. Last(l) = l[n + 1] /\ n + 1 \in DOMAIN l /\ Last(l) \in Tokens
  <2>1. Len(l) = n + 1 /\ n + 1 \in 1 .. Len(l)
    BY <1>1, <1>2
  <2> QED BY <1>1, <2>1 DEF Last
<1>4. Last(l).kind \in {"reg", "num", "neg"} => Last(l).n \in Nat
  BY <1>3, NumbersAre DEF Sound
<1>5. ASSUME NEW i \in 1 .. n - 1
      PROVE  l[i + 1].n \in 0 .. num_regs - 1
  <2>1. IsRegister(l[i + 1])
    BY DEF Sound, n
  <2>2. i + 1 \in DOMAIN l
    BY <1>1, <1>2
  <2>3. l[i + 1].n \in Nat
    BY <2>1, <2>2, NumbersAre DEF Sound, IsLine, IsRegister
  <2> QED BY <2>1, <2>3, PlacesAre DEF IsRegister
<1> QED BY <1>1, <1>2, <1>3, <1>4, <1>5 DEF n

(* A number that fits is no reference. *)
LEMMA RefersIs ==
  \A l : Sound(l) =>
    (Refers(l) <=> ~IsRegister(Last(l)) /\ ~IsImmediate(l[1].n, Last(l)))
<1> SUFFICES ASSUME NEW l, Sound(l)
             PROVE  Refers(l) <=> ~IsRegister(Last(l)) /\ ~IsImmediate(l[1].n, Last(l))
  OBVIOUS
<1>1. l[1].kind = "op"
  BY DEF Sound
<1> DEFINE n == n_args(l[1].n)
           t == Last(l)
<1>2. n \in {1, 3} /\ (t.kind \in {"reg", "num", "neg"} => t.n \in Nat)
  BY SoundIs
<1>3. PICK h \in Nat : h >= 1 /\ Place(n - 1) = 2 * h /\ MaxImm(n) = h - 1
  <2> HIDE DEF n
  <2> QED BY <1>2, RoomIs
<1>4. t.kind \in {"num", "neg"} => (2 * t.n < Place(n - 1) <=> t.n <= MaxImm(n))
  BY <1>2, <1>3
<1> QED BY <1>1, <1>4 DEF Refers, IsImmediate

LastSeen(l, a, b, x) ==
  /\ b \in 0 .. 1 /\ (b = 1 <=> IsRegister(Last(l)))
  /\ x \in 0 .. Place(n_args(l[1].n) - 1) - 1
  /\ LastBits(l[1].n, Last(l)) + a = b * Half + x
  /\ LastBits(l[1].n, Last(l)) \in Int
  /\ IsRegister(Last(l)) =>
       Last(l).n \in 0 .. num_regs - 1 /\ x = Last(l).n * Place(n_args(l[1].n))
  /\ ~IsRegister(Last(l)) =>
       \A w : (w % Place(n_args(l[1].n) - 1)) = x => Immediate(w, n_args(l[1].n)) = ImmSeen(l, a)

LEMMA LastIs == \A l, a : Filled(l, a) => \E b, x : LastSeen(l, a, b, x)
<1> SUFFICES ASSUME NEW l, NEW a, Filled(l, a)
             PROVE  \E b, x : LastSeen(l, a, b, x)
  OBVIOUS
<1>1. Sound(l) /\ a \in Nat /\ a <= MaxImm(n_args(l[1].n)) /\ (~Refers(l) => a = 0)
  BY DEF Filled
<1> DEFINE op == l[1].n
           n == n_args(op)
           t == Last(l)
<1>2. n \in {1, 3} /\ (t.kind \in {"reg", "num", "neg"} => t.n \in Nat)
  BY <1>1, SoundIs
<1>3. n \in 1 .. 3 /\ n \in 0 .. 3 /\ n - 1 \in 0 .. 3
  BY <1>2
<1>4. Half \in Nat /\ Base \in Nat /\ Place(n) \in Nat /\ Place(n) >= 1
  BY <1>3, PlacesAre, BaseIs
<1>5. CASE IsRegister(t)
  <2>1. a = 0 /\ t.n \in 0 .. num_regs - 1
    <3>1. ~Refers(l)
      BY <1>5 DEF Refers
    <3> QED BY <1>1, <1>2, <1>5, <3>1, PlacesAre DEF IsRegister
  <2>2. LastBits(op, t) = t.n * Place(n) + Half
    BY <1>5 DEF LastBits, LastRegister, instr_uses_reg
  <2> DEFINE x == t.n * Place(n)
  <2>3. x + 0 \in 0 .. Place(n - 1) - 1
    <3>1. 0 \in 0 .. Place(n) - 1
      BY <1>4
    <3> QED BY <1>3, <2>1, <3>1, Under_
  <2>4. x \in Nat
    BY <1>4, <2>1
  <2> HIDE DEF x
  <2>5. LastBits(op, t) + a = 1 * Half + x /\ LastBits(op, t) \in Int
    BY <1>4, <2>1, <2>2, <2>4 DEF x
  <2>6. x \in 0 .. Place(n - 1) - 1
    BY <2>3, <2>4
  <2>7. LastSeen(l, a, 1, x)
    BY <1>5, <2>1, <2>5, <2>6 DEF LastSeen, x
  <2> QED BY <2>7
<1>6. CASE Refers(l)
  <2>1. ~IsRegister(t) /\ LastBits(op, t) = 0
    BY <1>1, <1>6, RefersIs DEF LastBits
  <2>2. ImmSeen(l, a) = a
    BY <1>6, <2>1 DEF ImmSeen
  <2>3. a \in 0 .. Place(n - 1) - 1
    <3> HIDE DEF n
    <3>1. PICK h \in Nat : h >= 1 /\ Place(n - 1) = 2 * h /\ MaxImm(n) = h - 1
      BY <1>2, RoomIs
    <3>2. a <= MaxImm(n) /\ a \in Nat
      BY <1>1 DEF n
    <3> QED BY <3>1, <3>2
  <2>4. ASSUME NEW w, (w % Place(n - 1)) = a
        PROVE  Immediate(w, n) = a
    <3> HIDE DEF n
    <3>1. Numbered(w, n, a) /\ a \in Nat /\ a <= MaxImm(n)
      BY <1>1, <1>2, <2>4 DEF Numbered, n
    <3> QED BY <3>1, SmallNumberIs
  <2>5. LastBits(op, t) + a = 0 * Half + a
    BY <1>1, <1>4, <2>1
  <2>6. LastSeen(l, a, 0, a)
    BY <2>1, <2>2, <2>3, <2>4, <2>5 DEF LastSeen
  <2> QED BY <2>6
<1>7. CASE ~IsRegister(t) /\ ~Refers(l)
  <2>1. IsImmediate(op, t) /\ a = 0
    BY <1>1, <1>7, RefersIs
  <2>2. t.kind \in {"num", "neg"} /\ t.n \in Nat /\ t.n <= MaxImm(n)
    BY <1>2, <2>1 DEF IsImmediate
  <2> DEFINE x == IF t.kind = "neg" THEN (Base - t.n) % Place(n - 1) ELSE t.n
  <2>3. LastBits(op, t) = x
    <3>1. get_flx_op_mask(n) + 1 = Place(n - 1)
      BY <1>2, MaskIs
    <3> QED BY <1>7, <2>1, <3>1 DEF LastBits, LastNegative
  <2>4. ImmSeen(l, a) = IF t.kind = "neg" THEN (Base - t.n) % Base ELSE t.n
    BY <1>7 DEF ImmSeen
  <2>5. ASSUME NEW w, (w % Place(n - 1)) = x
        PROVE  Immediate(w, n) = ImmSeen(l, a) /\ x \in 0 .. Place(n - 1) - 1
    <3>1. CASE t.kind = "neg"
      <4>1. Numbered(w, n, (Base - t.n) % Place(n - 1)) /\ t.n \in Nat /\ t.n <= MaxImm(n)
        BY <1>2, <2>2, <2>5, <3>1 DEF Numbered
      <4> HIDE DEF n
      <4>2. /\ Immediate(w, n) = ((Base - t.n) % Base)
            /\ ((Base - t.n) % Place(n - 1)) \in 0 .. Place(n - 1) - 1
        BY ONLY <4>1, NegativeNumberIs
      <4> QED BY <2>4, <3>1, <4>2
    <3>2. CASE t.kind # "neg"
      <4>1. Numbered(w, n, t.n) /\ t.n \in Nat /\ t.n <= MaxImm(n)
        BY <1>2, <2>2, <2>5, <3>2 DEF Numbered
      <4>2. Immediate(w, n) = t.n /\ t.n \in 0 .. Place(n - 1) - 1
        BY ONLY <4>1, SmallNumberIs
      <4> QED BY <2>4, <3>2, <4>2
    <3> QED BY <3>1, <3>2
  <2>6. x \in 0 .. Place(n - 1) - 1
    <3> DEFINE p == Place(n - 1)
    <3>1. p \in Nat /\ p >= 1
      BY <1>3, PlacesAre
    <3>2. CASE t.kind = "neg"
      <4>1. Base - t.n \in Int
        BY <1>4, <2>2
      <4> HIDE DEF p
      <4>2. ((Base - t.n) % p) \in 0 .. p - 1
        BY <3>1, <4>1
      <4> QED BY <3>2, <4>2 DEF p
    <3>3. CASE t.kind # "neg"
      <4>1. PICK h \in Nat : h >= 1 /\ Place(n - 1) = 2 * h /\ MaxImm(n) = h - 1
        BY <1>2, RoomIs
      <4> QED BY <2>2, <3>3, <4>1
    <3> QED BY <3>2, <3>3
  <2> HIDE DEF x
  <2>7. LastBits(op, t) + a = 0 * Half + x /\ LastBits(op, t) \in Int
    <3>1. x \in Nat
      <4>1. Place(n - 1) \in Nat
        BY <1>3, PlacesAre
      <4> QED BY <2>6, <4>1
    <3> QED BY <1>4, <2>1, <2>3, <3>1
  <2>8. LastSeen(l, a, 0, x)
    BY <1>7, <2>5, <2>6, <2>7 DEF LastSeen
  <2> QED BY <2>8
<1> QED BY <1>5, <1>6, <1>7

LEMMA IsSequence ==
  ASSUME NEW S, NEW n \in Nat, NEW f \in [1 .. n -> S]
  PROVE  f \in Seq(S) /\ Len(f) = n
OBVIOUS

(* So run sees what was written. *)
LEMMA DecodedIs ==
  \A l, a : Filled(l, a) => HeadOf(l) \in Int /\ Decoded(HeadOf(l) + a) = Seen(l, a)
<1> SUFFICES ASSUME NEW l, NEW a, Filled(l, a)
             PROVE  HeadOf(l) \in Int /\ Decoded(HeadOf(l) + a) = Seen(l, a)
  OBVIOUS
<1>1. Sound(l) /\ a \in Nat
  BY DEF Filled
<1> DEFINE op == l[1].n
           n == n_args(op)
           t == Last(l)
           r == [i \in 1 .. n - 1 |-> l[i + 1].n]
           bits == LastBits(op, t)
           w == HeadOf(l) + a
<1>2. /\ op \in 0 .. 15 /\ n \in {1, 3} /\ (op = 15 <=> n = 1) /\ t = l[n + 1]
      /\ \A i \in 1 .. n - 1 : l[i + 1].n \in 0 .. num_regs - 1
  BY <1>1, SoundIs
<1>3. PICK b, x : LastSeen(l, a, b, x)
  BY LastIs
<1>4. /\ b \in 0 .. 1 /\ (b = 1 <=> IsRegister(t)) /\ x \in 0 .. Place(n - 1) - 1
      /\ bits + a = b * Half + x /\ bits \in Int
      /\ IsRegister(t) => t.n \in 0 .. num_regs - 1 /\ x = t.n * Place(n)
      /\ ~IsRegister(t) => \A v : (v % Place(n - 1)) = x => Immediate(v, n) = ImmSeen(l, a)
  BY <1>3 DEF LastSeen
<1>5. ImmSeen(l, a) = IF IsRegister(t) THEN 0 ELSE ImmSeen(l, a)
  BY DEF ImmSeen
<1>6. Half \in Nat
  BY BaseIs
<1>7. CASE n = 3
  <2> DEFINE r1 == l[2].n
             r2 == l[3].n
             head == op * Place(0) + (r1 * Place(1) + r2 * Place(2))
  <2>1. r1 \in 0 .. num_regs - 1 /\ r2 \in 0 .. num_regs - 1 /\ op \in 0 .. 14
    <3>1. 1 \in 1 .. n - 1 /\ 2 \in 1 .. n - 1 /\ 1 + 1 = 2 /\ 2 + 1 = 3
      BY <1>7
    <3> QED BY <1>2, <1>7, <3>1
  <2>2. Place(0) \in Nat /\ Place(1) \in Nat /\ Place(2) \in Nat /\ num_regs \in Nat
    BY PlacesAre
  <2>3. op * Place(0) \in Nat /\ r1 * Place(1) \in Nat /\ r2 * Place(2) \in Nat
    BY <2>1, <2>2
  <2>4. HeadOf(l) = head + bits
    <3>1. Len(r) = 2 /\ r[1] = r1 /\ r[2] = r2
      <4>1. r = <<r1, r2>>
        BY <1>7
      <4> QED BY <4>1
    <3>2. InstrHead(op, r) = op * Place(0) + r1 * Place(1) + r2 * Place(2)
      <4> HIDE DEF r, op, r1, r2
      <4> QED BY <3>1 DEF InstrHead
    <3>3. InstrHead(op, r) = head
      BY <2>3, <3>2
    <3> QED BY <3>3 DEF HeadOf
  <2>5. head \in Nat
    BY <2>3
  <2>6. w = b * Half + (op * Place(0) + (r1 * Place(1) + (r2 * Place(2) + x)))
    <3> DEFINE u == op * Place(0)
               v == r1 * Place(1)
               y == r2 * Place(2)
               z == b * Half
    <3>1. z \in Int /\ x \in Int
      BY <1>4, <1>6, <1>7, <2>2
    <3>2. w = (u + (v + y)) + (bits + a) /\ bits + a = z + x
      BY <1>1, <1>4, <2>3, <2>4, <2>5
    <3> HIDE DEF u, v, y, z, w
    <3>3. w = z + (u + (v + (y + x)))
      BY <2>3, <3>1, <3>2 DEF u, v, y
    <3> QED BY <3>3 DEF u, v, y, z
  <2>7. Three(w, b, op, r1, r2, x)
    BY <1>4, <1>7, <2>1, <2>6 DEF Three
  <2>8. /\ OpcodeOf(w) = op /\ (w >= Half <=> b = 1) /\ (w % Place(2)) = x
        /\ ((w \div Place(1)) % num_regs) = r1 /\ ((w \div Place(2)) % num_regs) = r2
        /\ \A q \in 0 .. num_regs - 1 : x = q * Place(3) => ((w \div Place(3)) % num_regs) = q
    <3> HIDE DEF w, r1, r2, op
    <3> QED BY ONLY <2>7, ThreeIs
  <2> HIDE DEF w
  <2>9. (w >= Half <=> IsRegister(t)) /\ (IsRegister(t) => ((w \div Place(3)) % num_regs) = t.n)
    BY <1>4, <1>7, <2>8
  <2>10. ~IsRegister(t) => Immediate(w, 3) = ImmSeen(l, a)
    BY <1>4, <1>7, <2>8
  <2>11. Decoded(w) = [op   |-> op,
                       args |-> [i \in 1 .. 3 |->
                                   IF i = 3 /\ ~IsRegister(t) THEN num_regs
                                   ELSE (w \div Place(i)) % num_regs],
                       imm  |-> IF IsRegister(t) THEN 0 ELSE Immediate(w, 3)]
    BY <1>7, <2>8, <2>9 DEF Decoded
  <2>12. [i \in 1 .. 3 |-> IF i = 3 /\ ~IsRegister(t) THEN num_regs
                           ELSE (w \div Place(i)) % num_regs]
         = [i \in 1 .. 3 |-> IF i = 3 /\ ~IsRegister(t) THEN num_regs ELSE l[i + 1].n]
    <3>1. ASSUME NEW i \in 1 .. 3, ~(i = 3 /\ ~IsRegister(t))
          PROVE  ((w \div Place(i)) % num_regs) = l[i + 1].n
      <4>1. CASE i = 1
        BY <2>8, <4>1
      <4>2. CASE i = 2
        BY <2>8, <4>2
      <4>3. CASE i = 3
        BY <1>2, <1>7, <2>9, <3>1, <4>3
      <4> QED BY <4>1, <4>2, <4>3
    <3> QED BY <3>1
  <2>13. (IF IsRegister(t) THEN 0 ELSE Immediate(w, 3)) = ImmSeen(l, a)
    BY <1>5, <2>10
  <2>14. Decoded(w) = Seen(l, a)
    BY <1>7, <2>11, <2>12, <2>13 DEF Seen
  <2> QED BY <1>4, <2>4, <2>5, <2>14 DEF w
<1>8. CASE n = 1
  <2>1. op = 15 /\ Place(0) \in Nat /\ Place(1) \in Nat
    BY <1>2, <1>8, PlacesAre
  <2>2. HeadOf(l) = 15 * Place(0) + bits
    <3>1. Len(r) = 0
      <4>1. r \in [1 .. 0 -> {}] /\ 0 \in Nat
        BY <1>8
      <4> HIDE DEF r
      <4> QED BY <4>1, IsSequence
    <3>2. InstrHead(op, r) = 15 * Place(0)
      <4> HIDE DEF r, op
      <4> QED BY <2>1, <3>1 DEF InstrHead
    <3> QED BY <3>2 DEF HeadOf
  <2>3. w = b * Half + (15 * Place(0) + x)
    <3> DEFINE z == b * Half
    <3>1. z \in Int /\ x \in Int
      BY <1>4, <1>6, <1>8, <2>1
    <3>2. w = 15 * Place(0) + (bits + a) /\ bits + a = z + x
      BY <1>1, <1>4, <2>1, <2>2
    <3> HIDE DEF z, w
    <3>3. w = z + (15 * Place(0) + x)
      BY <2>1, <3>1, <3>2
    <3> QED BY <3>3 DEF z
  <2>4. One(w, b, x)
    BY <1>4, <1>8, <2>3 DEF One
  <2>5. /\ OpcodeOf(w) = 15 /\ (w >= Half <=> b = 1) /\ (w % Place(0)) = x
        /\ \A q \in 0 .. num_regs - 1 : x = q * Place(1) => ((w \div Place(1)) % num_regs) = q
    <3> HIDE DEF w
    <3> QED BY ONLY <2>4, OneIs
  <2> HIDE DEF w
  <2>6. (w >= Half <=> IsRegister(t)) /\ (IsRegister(t) => ((w \div Place(1)) % num_regs) = t.n)
    BY <1>4, <1>8, <2>5
  <2>7. ~IsRegister(t) => Immediate(w, 1) = ImmSeen(l, a)
    BY <1>4, <1>8, <2>5
  <2>8. Decoded(w) = [op   |-> op,
                      args |-> [i \in 1 .. 1 |->
                                  IF i = 1 /\ ~IsRegister(t) THEN num_regs
                                  ELSE (w \div Place(i)) % num_regs],
                      imm  |-> IF IsRegister(t) THEN 0 ELSE Immediate(w, 1)]
    BY <1>8, <2>1, <2>5, <2>6 DEF Decoded
  <2>9. [i \in 1 .. 1 |-> IF i = 1 /\ ~IsRegister(t) THEN num_regs
                          ELSE (w \div Place(i)) % num_regs]
        = [i \in 1 .. 1 |-> IF i = 1 /\ ~IsRegister(t) THEN num_regs ELSE l[i + 1].n]
    BY <1>2, <1>8, <2>6
  <2>10. (IF IsRegister(t) THEN 0 ELSE Immediate(w, 1)) = ImmSeen(l, a)
    BY <1>5, <2>7
  <2>11. Decoded(w) = Seen(l, a)
    BY <1>8, <2>8, <2>9, <2>10 DEF Seen
  <2> QED BY <1>4, <2>1, <2>2, <2>11 DEF w
<1> QED BY <1>2, <1>7, <1>8

-----------------------------------------------------------------------------
(* The words before the lines of a program.                                *)

LEMMA WordsAre ==
  /\ WordsBefore(1) = 0
  /\ \A k \in Nat \ {0} :
       /\ WordsBefore(k) \in Nat
       /\ WordsBefore(k + 1) = WordsBefore(k) + (IF IsLabel(program[k]) THEN 0 ELSE 1)
<1> DEFINE S(k) == {j \in 1 .. k - 1 : ~IsLabel(program[j])}
<1>1. \A k \in Nat \ {0} : IsFiniteSet(S(k))
  <2> TAKE k \in Nat \ {0}
  <2>1. IsFiniteSet(1 .. k - 1)
    <3>1. 1 \in Int /\ k - 1 \in Int
      OBVIOUS
    <3> QED BY <3>1, FS_Interval
  <2>2. S(k) \in SUBSET (1 .. k - 1)
    OBVIOUS
  <2> HIDE DEF S
  <2> QED BY <2>1, <2>2, FS_Subset
<1>2. WordsBefore(1) = 0
  <2>1. S(1) = {}
    OBVIOUS
  <2> QED BY <2>1, FS_EmptySet DEF WordsBefore
<1>3. \A k \in Nat \ {0} : WordsBefore(k) = Cardinality(S(k)) /\ WordsBefore(k) \in Nat
  BY <1>1, FS_CardinalityType DEF WordsBefore
<1>4. ASSUME NEW k \in Nat \ {0}
      PROVE  WordsBefore(k + 1) = WordsBefore(k) + (IF IsLabel(program[k]) THEN 0 ELSE 1)
  <2>1. k + 1 \in Nat \ {0}
    OBVIOUS
  <2>2. CASE IsLabel(program[k])
    <3>1. S(k + 1) = S(k)
      BY <2>2
    <3> HIDE DEF S
    <3>2. WordsBefore(k + 1) = Cardinality(S(k + 1)) /\ WordsBefore(k) = Cardinality(S(k))
      BY <1>3, <2>1
    <3>3. WordsBefore(k) \in Nat
      BY <1>3
    <3> QED BY <2>2, <3>1, <3>2, <3>3
  <2>3. CASE ~IsLabel(program[k])
    <3>1. S(k + 1) = S(k) \cup {k} /\ k \notin S(k)
      BY <2>3
    <3> HIDE DEF S
    <3>2. Cardinality(S(k) \cup {k}) = Cardinality(S(k)) + 1
      BY <1>1, <3>1, FS_AddElement
    <3>3. WordsBefore(k + 1) = Cardinality(S(k + 1)) /\ WordsBefore(k) = Cardinality(S(k))
      BY <1>3, <2>1
    <3> QED BY <2>3, <3>1, <3>2, <3>3
  <2> QED BY <2>2, <2>3
<1> QED BY <1>2, <1>3, <1>4

(* A later line is at no lower address, and a word or a label is before    *)
(* those of later lines.                                                   *)
LEMMA WordsGrow ==
  \A j, k \in Nat \ {0} : j < k =>
    /\ WordsBefore(j) <= WordsBefore(k)
    /\ ~IsLabel(program[j]) => WordsBefore(j) < WordsBefore(k)
    /\ j - WordsBefore(j) <= k - WordsBefore(k)
    /\ IsLabel(program[j]) => j - WordsBefore(j) < k - WordsBefore(k)
<1> SUFFICES ASSUME NEW j \in Nat \ {0}, NEW h \in Nat \ {0}, j < h
             PROVE  /\ WordsBefore(j) <= WordsBefore(h)
                    /\ ~IsLabel(program[j]) => WordsBefore(j) < WordsBefore(h)
                    /\ j - WordsBefore(j) <= h - WordsBefore(h)
                    /\ IsLabel(program[j]) => j - WordsBefore(j) < h - WordsBefore(h)
  OBVIOUS
<1> DEFINE n == h - j - 1
<1>0. n \in Nat /\ h = j + 1 + n
  OBVIOUS
<1> HIDE DEF n
<1> DEFINE w(i) == WordsBefore(i)
           Ok(x) == /\ w(j) <= w(x)
                    /\ ~IsLabel(program[j]) => w(j) < w(x)
                    /\ j - w(j) <= x - w(x)
                    /\ IsLabel(program[j]) => j - w(j) < x - w(x)
           T == {m \in 0 .. n : Ok(j + 1 + m)}
<1>1. \A k \in Nat \ {0} : w(k) \in Nat /\ (w(k + 1) = w(k) \/ w(k + 1) = w(k) + 1)
  BY WordsAre
<1>2. w(j + 1) = w(j) + (IF IsLabel(program[j]) THEN 0 ELSE 1)
  BY WordsAre
<1> HIDE DEF w
<1>3. 0 \in T
  <2>1. w(j) \in Nat /\ j + 1 + 0 = j + 1
    BY <1>1
  <2>2. Ok(j + 1)
    BY <1>2, <2>1
  <2> HIDE DEF Ok
  <2> QED BY <1>0, <2>2
<1>4. ASSUME NEW m \in 0 .. n - 1, m \in T
      PROVE  m + 1 \in T
  <2> DEFINE k == j + 1 + m
  <2>1. k \in Nat \ {0} /\ j + 1 + (m + 1) = k + 1 /\ m + 1 \in 0 .. n
    BY <1>0
  <2>2. w(k) \in Nat /\ w(j) \in Nat /\ (w(k + 1) = w(k) \/ w(k + 1) = w(k) + 1)
    BY <1>1, <2>1
  <2>3. Ok(k)
    BY <1>4
  <2> HIDE DEF k
  <2>4. Ok(k + 1)
    BY <2>1, <2>2, <2>3
  <2> HIDE DEF Ok
  <2> QED BY <2>1, <2>4
<1> HIDE DEF T
<1>5. n \in T
  <2>1. 0 .. n \subseteq T
    BY <1>0, <1>3, <1>4, Induction
  <2> QED BY <1>0, <2>1
<1>6. Ok(h)
  <2> HIDE DEF Ok
  <2> QED BY <1>0, <1>5 DEF T
<1> QED BY <1>6 DEF w

LEMMA WordsBelow == \A k \in Nat \ {0} : WordsBefore(k) \in 0 .. k - 1
<1> TAKE k \in Nat \ {0}
<1>1. WordsBefore(1) = 0 /\ WordsBefore(k) \in Nat
  BY WordsAre
<1>2. CASE k = 1
  BY <1>1, <1>2
<1>3. CASE k # 1
  <2>1. 1 < k /\ 1 \in Nat \ {0}
    BY <1>3
  <2>2. 1 - WordsBefore(1) <= k - WordsBefore(k)
    BY <2>1, WordsGrow
  <2> QED BY <1>1, <2>2
<1> QED BY <1>2, <1>3

-----------------------------------------------------------------------------
(* Where the lines are in the text.                                        *)

TextKnown == program \in Programs /\ text = FlattenSeq(program)

Starts == CHOOSE s : Laid(program, text, s)

LEMMA LinesAre ==
  ASSUME TextKnown
  PROVE  /\ program \in Seq(Seq(Tokens)) /\ Len(program) \in Nat
         /\ DOMAIN program = 1 .. Len(program) /\ Len(program) <= MaxImm(3) + 1
         /\ \A k \in 1 .. Len(program) :
              IsLine(program[k]) /\ (k < Len(program) => Complete(program[k]))
         /\ text \in Seq(Tokens) /\ Len(text) \in Nat /\ Laid(program, text, Starts)
<1>1. /\ program \in Seq(Seq(Tokens)) /\ Len(program) <= MaxImm(3) + 1
      /\ \A k \in DOMAIN program :
           IsLine(program[k]) /\ (k < Len(program) => Complete(program[k]))
  BY ProgramsAssumption DEF TextKnown
<1>2. Len(program) \in Nat /\ DOMAIN program = 1 .. Len(program)
  BY <1>1, LenProperties
<1>3. text \in Seq(Tokens) /\ \E s : Laid(program, text, s)
  BY <1>1, Flattened DEF TextKnown
<1>4. Laid(program, text, Starts)
  BY <1>3 DEF Starts
<1>5. Len(text) \in Nat
  BY <1>3, LenProperties
<1> QED BY <1>1, <1>2, <1>3, <1>4, <1>5

(* compile is at the begin of line k, or past the last one. *)
AtLine(k) ==
  /\ k \in 1 .. Len(program) + 1 /\ idx \in Nat
  /\ k <= Len(program) => idx = Starts[k - 1] + 1
  /\ k = Len(program) + 1 => idx > Len(text)

LEMMA HereIs ==
  ASSUME TextKnown, NEW k, AtLine(k), idx <= Len(text)
  PROVE  /\ k \in 1 .. Len(program) /\ IsLine(program[k]) /\ Here = program[k][1]
         /\ program[k] \in Seq(Tokens) /\ Len(program[k]) \in Nat /\ Len(program[k]) >= 1
         /\ idx = Starts[k - 1] + 1 /\ Starts[k] = Starts[k - 1] + Len(program[k])
         /\ Starts[k - 1] \in Nat /\ Starts[k] <= Len(text)
         /\ k = Len(program) => Starts[k] = Len(text)
         /\ \A i \in 1 .. Len(program[k]) - 1 : OperandAt(i) = program[k][i + 1]
         /\ k = Len(program) => \A i \in Nat : i >= Len(program[k]) => OperandAt(i) = Nothing
<1> DEFINE l == program[k]
           s == Starts[k - 1]
<1>1. Len(program) \in Nat /\ Len(text) \in Nat /\ Laid(program, text, Starts)
  BY LinesAre
<1>2. k \in 1 .. Len(program) /\ idx = s + 1
  BY <1>1 DEF AtLine
<1>3. IsLine(l) /\ l \in Seq(Tokens) /\ l # <<>>
  BY <1>2, LinesAre DEF IsLine
<1>4. Len(l) \in Nat /\ Len(l) >= 1
  BY <1>3, EmptySeq
<1>5. s \in Nat
  <2>1. k - 1 \in 0 .. Len(program) /\ Starts \in [0 .. Len(program) -> Nat]
    BY <1>1, <1>2 DEF Laid
  <2> QED BY <2>1
<1>6. /\ Starts[k] = s + Len(l) /\ Starts[k] <= Len(text)
      /\ \A j \in 1 .. Len(l) : text[s + j] = l[j]
  BY <1>1, <1>2 DEF Laid
<1>7. k = Len(program) => Starts[k] = Len(text)
  BY <1>1 DEF Laid
<1> HIDE DEF l, s
<1>8. Here = l[1]
  <2>1. 1 \in 1 .. Len(l)
    BY <1>4
  <2> QED BY <1>2, <1>6, <2>1 DEF Here
<1>9. ASSUME NEW i \in 1 .. Len(l) - 1
      PROVE  OperandAt(i) = l[i + 1]
  <2>1. i + 1 \in 1 .. Len(l) /\ idx + i = s + (i + 1)
    BY <1>2, <1>4, <1>5
  <2>2. idx + i <= Len(text)
    BY <1>1, <1>4, <1>5, <1>6, <2>1
  <2> QED BY <1>6, <2>1, <2>2 DEF OperandAt
<1>10. ASSUME k = Len(program), NEW i \in Nat, i >= Len(l)
       PROVE  OperandAt(i) = Nothing
  <2>1. ~(idx + i <= Len(text))
    BY <1>1, <1>2, <1>4, <1>5, <1>6, <1>7, <1>10
  <2> QED BY <2>1 DEF OperandAt
<1> QED BY <1>2, <1>3, <1>4, <1>5, <1>6, <1>7, <1>8, <1>9, <1>10 DEF l, s

(* The next line, after all tokens of this one; if the text ends first,     *)
(* there is none.                                                          *)
LEMMA NextLine ==
  ASSUME TextKnown, program' = program, text' = text, NEW k, AtLine(k), idx <= Len(text),
         NEW d \in Nat, idx' = idx + d,
         k < Len(program) => d = Len(program[k]),
         d >= Len(program[k])
  PROVE  AtLine(k + 1)' /\ k + 1 \in 1 .. Len(program) + 1
<1>1. Len(program) \in Nat /\ Len(text) \in Nat
  BY LinesAre
<1>2. /\ k \in 1 .. Len(program) /\ Len(program[k]) \in Nat
      /\ idx = Starts[k - 1] + 1 /\ Starts[k] = Starts[k - 1] + Len(program[k])
      /\ Starts[k - 1] \in Nat /\ (k = Len(program) => Starts[k] = Len(text))
  BY HereIs
<1>3. Starts' = Starts
  BY DEF Starts
<1>4. k + 1 \in 1 .. Len(program) + 1 /\ idx' \in Nat /\ (k + 1) - 1 = k
  BY <1>1, <1>2
<1>5. ASSUME k + 1 <= Len(program)
      PROVE  idx' = Starts[k] + 1
  <2>1. d = Len(program[k])
    BY <1>1, <1>2, <1>5
  <2> QED BY <1>2, <2>1
<1>6. ASSUME k + 1 = Len(program) + 1
      PROVE  idx' > Len(text)
  <2>1. k = Len(program)
    BY <1>1, <1>2, <1>6
  <2> QED BY <1>1, <1>2, <2>1
<1> QED BY <1>3, <1>4, <1>5, <1>6 DEF AtLine

-----------------------------------------------------------------------------
(* The arrays when the lines before line k are done.                       *)

(* What resolving the first references, those before r, adds to the word   *)
(* of line j.                                                              *)
Added(refs, j, r) ==
  IF Refers(program[j]) /\ \E i \in DOMAIN refs : i < r /\ refs[i].addr = WordsBefore(j)
  THEN AddressOf(Last(program[j])) ELSE 0

Written(w, refs, j, r) ==
  ~IsLabel(program[j]) /\ Complete(program[j]) =>
    IF program[j][1].kind = "num" THEN w = program[j][1].n
    ELSE Sound(program[j]) /\ w = HeadOf(program[j]) + Added(refs, j, r)

WordsDone(a, refs, k, r) ==
  /\ a \in Seq(Int) /\ Len(a) = WordsBefore(k)
  /\ \A j \in 1 .. k - 1 : Written(a[WordsBefore(j) + 1], refs, j, r)

LabelOf(j) == [label |-> program[j][1], addr |-> WordsBefore(j)]

(* Each label that was passed is there, in order, and no other.            *)
LabelsDone(s, k) ==
  /\ s \in Seq([label : Tokens, addr : Nat]) /\ Len(s) = k - 1 - WordsBefore(k)
  /\ \A j \in 1 .. k - 1 : IsLabel(program[j]) =>
       j - WordsBefore(j) \in 1 .. Len(s) /\ s[j - WordsBefore(j)] = LabelOf(j)
  /\ \A i \in 1 .. Len(s) : \E j \in 1 .. k - 1 :
       IsLabel(program[j]) /\ i = j - WordsBefore(j)

(* A reference to the word of line j. *)
RefersAt(ref, j) ==
  /\ program[j][1].kind = "op" /\ ref.addr = WordsBefore(j)
  /\ Complete(program[j]) => Refers(program[j]) /\ ref.label = Last(program[j])

RefsDone(refs, k) ==
  /\ refs \in Seq([label : Tokens \cup {Nothing}, addr : Nat])
  /\ \A i \in 1 .. Len(refs) : \E j \in 1 .. k - 1 : RefersAt(refs[i], j)
  /\ \A j \in 1 .. k - 1 : Complete(program[j]) /\ Refers(program[j]) =>
       \E i \in 1 .. Len(refs) : refs[i].addr = WordsBefore(j)
  /\ \A h, i \in 1 .. Len(refs) : h # i => refs[h].addr # refs[i].addr

Done(a, s, refs, k, r) == WordsDone(a, refs, k, r) /\ LabelsDone(s, k) /\ RefsDone(refs, k)

ArraysDone(k, r) == Done(arr, lbls, lbl_refs, k, r)

(* All this is about the program, which does not change.                   *)
LEMMA SameProgram ==
  ASSUME program' = program
  PROVE  /\ \A k : WordsBefore(k)' = WordsBefore(k)
         /\ \A t : Definitions(t)' = Definitions(t)
         /\ \A t : AddressOf(t)' = AddressOf(t)
<1>1. \A k : WordsBefore(k)' = WordsBefore(k)
  BY DEF WordsBefore
<1>2. \A t : Definitions(t)' = Definitions(t)
  BY DEF Definitions
<1>3. \A t : AddressOf(t)' = AddressOf(t)
  <2> TAKE t
  <2>1. Definitions(t)' = Definitions(t)
    BY <1>2
  <2>2. (CHOOSE k \in Definitions(t) : \A j \in Definitions(t) : k <= j)'
        = (CHOOSE k \in Definitions(t) : \A j \in Definitions(t) : k <= j)
    BY <2>1
  <2> QED BY <1>1, <2>2 DEF AddressOf
<1> QED BY <1>1, <1>2, <1>3

LEMMA SameDone ==
  ASSUME program' = program, NEW a, NEW s, NEW refs, arr' = a, lbls' = s, lbl_refs' = refs,
         NEW k, NEW r, Done(a, s, refs, k, r)
  PROVE  ArraysDone(k, r)'
<1>1. /\ \A j : WordsBefore(j)' = WordsBefore(j)
      /\ \A t : AddressOf(t)' = AddressOf(t)
  BY SameProgram
<1>2. WordsDone(arr, lbl_refs, k, r)'
  <2>1. WordsDone(a, refs, k, r)
    BY DEF Done
  <2>2. \A j : Added(lbl_refs, j, r)' = Added(refs, j, r)
    BY <1>1 DEF Added
  <2>3. \A j : Written(arr[WordsBefore(j) + 1], lbl_refs, j, r)'
               <=> Written(a[WordsBefore(j) + 1], refs, j, r)
    BY <1>1, <2>2 DEF Written
  <2> QED BY <1>1, <2>1, <2>3 DEF WordsDone
<1>3. LabelsDone(lbls, k)'
  <2>1. \A j : LabelOf(j)' = LabelOf(j)
    BY <1>1 DEF LabelOf
  <2>2. LabelsDone(s, k)
    BY DEF Done
  <2> QED BY <1>1, <2>1, <2>2 DEF LabelsDone
<1>4. RefsDone(lbl_refs, k)'
  <2>1. RefsDone(refs, k)
    BY DEF Done
  <2>2. \A i, j : RefersAt(lbl_refs[i], j)' <=> RefersAt(refs[i], j)
    BY <1>1 DEF RefersAt
  <2> QED BY <1>1, <2>1, <2>2 DEF RefsDone
<1> QED BY <1>2, <1>3, <1>4 DEF ArraysDone, Done

(* A word is appended, or none. *)
LEMMA WordDone ==
  \A a, refs, more, k, w :
    /\ WordsDone(a, refs, k, 1) /\ k \in Nat \ {0} /\ ~IsLabel(program[k]) /\ w \in Int
    /\ DOMAIN refs \subseteq Nat \ {0} /\ DOMAIN more \subseteq Nat \ {0}
    /\ Written(w, more, k, 1)
    => WordsDone(Append(a, w), more, k + 1, 1)
<1> SUFFICES ASSUME NEW a, NEW refs, NEW more, NEW k, NEW w,
                    WordsDone(a, refs, k, 1), k \in Nat \ {0}, ~IsLabel(program[k]), w \in Int,
                    DOMAIN refs \subseteq Nat \ {0}, DOMAIN more \subseteq Nat \ {0},
                    Written(w, more, k, 1)
             PROVE  WordsDone(Append(a, w), more, k + 1, 1)
  OBVIOUS
<1>1. a \in Seq(Int) /\ Len(a) = WordsBefore(k) /\ WordsBefore(k) \in Nat
  BY WordsAre DEF WordsDone
<1>2. WordsBefore(k + 1) = WordsBefore(k) + 1
  BY WordsAre
<1> DEFINE b == Append(a, w)
           n == Len(a)
<1>3. n \in Nat /\ b \in Seq(Int) /\ Len(b) = n + 1 /\ b[n + 1] = w
      /\ \A i \in 1 .. n : b[i] = a[i]
  BY <1>1
<1> HIDE DEF b
<1>4. ASSUME NEW j \in 1 .. k
      PROVE  Written(b[WordsBefore(j) + 1], more, j, 1)
  <2>1. CASE j = k
    BY <1>1, <1>3, <2>1
  <2>2. CASE j # k
    <3>1. j \in 1 .. k - 1 /\ j \in Nat \ {0} /\ j < k
      BY <2>2
    <3>2. Written(a[WordsBefore(j) + 1], refs, j, 1)
      BY <3>1 DEF WordsDone
    <3>3. CASE IsLabel(program[j])
      BY <3>3 DEF Written
    <3>4. CASE ~IsLabel(program[j])
      <4>1. WordsBefore(j) < WordsBefore(k) /\ WordsBefore(j) \in Nat
        BY <3>1, <3>4, WordsGrow, WordsAre
      <4>2. b[WordsBefore(j) + 1] = a[WordsBefore(j) + 1]
        BY <1>1, <1>3, <4>1
      <4>3. Written(b[WordsBefore(j) + 1], refs, j, 1)
        BY <3>2, <4>2
      <4>4. Added(more, j, 1) = 0 /\ Added(refs, j, 1) = 0
        BY DEF Added
      <4>5. CASE program[j][1].kind = "num"
        BY <4>3, <4>5 DEF Written
      <4>6. CASE program[j][1].kind # "num"
        BY <4>3, <4>4, <4>6 DEF Written
      <4> QED BY <4>5, <4>6
    <3> QED BY <3>3, <3>4
  <2> QED BY <2>1, <2>2
<1>5. (k + 1) - 1 = k
  OBVIOUS
<1> QED BY <1>1, <1>2, <1>3, <1>4, <1>5 DEF WordsDone, b

LEMMA NoWordDone ==
  \A a, refs, k :
    WordsDone(a, refs, k, 1) /\ k \in Nat \ {0} /\ IsLabel(program[k]) =>
      WordsDone(a, refs, k + 1, 1)
<1> SUFFICES ASSUME NEW a, NEW refs, NEW k,
                    WordsDone(a, refs, k, 1), k \in Nat \ {0}, IsLabel(program[k])
             PROVE  WordsDone(a, refs, k + 1, 1)
  OBVIOUS
<1>1. WordsBefore(k + 1) = WordsBefore(k) /\ (k + 1) - 1 = k
  BY WordsAre
<1>2. ASSUME NEW j \in 1 .. k
      PROVE  Written(a[WordsBefore(j) + 1], refs, j, 1)
  <2>1. CASE j = k
    BY <2>1 DEF Written
  <2>2. CASE j # k
    <3>1. j \in 1 .. k - 1
      BY <2>2
    <3> QED BY <3>1 DEF WordsDone
  <2> QED BY <2>1, <2>2
<1> QED BY <1>1, <1>2 DEF WordsDone

(* A label is appended, or none. *)
LEMMA LabelDone ==
  \A s, k :
    LabelsDone(s, k) /\ k \in Nat \ {0} /\ IsLabel(program[k]) /\ program[k][1] \in Tokens =>
      LabelsDone(Append(s, LabelOf(k)), k + 1)
<1> SUFFICES ASSUME NEW s, NEW k, LabelsDone(s, k), k \in Nat \ {0}, IsLabel(program[k]),
                    program[k][1] \in Tokens
             PROVE  LabelsDone(Append(s, LabelOf(k)), k + 1)
  OBVIOUS
<1> DEFINE L == [label : Tokens, addr : Nat]
           e == LabelOf(k)
           b == Append(s, e)
           n == Len(s)
<1>1. s \in Seq(L) /\ n = k - 1 - WordsBefore(k) /\ WordsBefore(k) \in Nat
  BY WordsAre DEF LabelsDone
<1>2. WordsBefore(k + 1) = WordsBefore(k) /\ (k + 1) - 1 = k
  BY WordsAre
<1>3. e \in L
  BY <1>1 DEF LabelOf
<1> HIDE DEF L, e
<1>4. n \in Nat /\ b \in Seq(L) /\ Len(b) = n + 1 /\ b[n + 1] = e
      /\ \A i \in 1 .. n : b[i] = s[i]
  BY <1>1, <1>3
<1>5. n + 1 = k - WordsBefore(k)
  BY <1>1
<1> HIDE DEF b, n
<1>6. ASSUME NEW j \in 1 .. k, IsLabel(program[j])
      PROVE  j - WordsBefore(j) \in 1 .. n + 1 /\ b[j - WordsBefore(j)] = LabelOf(j)
  <2>1. CASE j = k
    BY <1>4, <1>5, <2>1 DEF e
  <2>2. CASE j # k
    <3>1. j \in 1 .. k - 1
      BY <2>2
    <3>2. j - WordsBefore(j) \in 1 .. n /\ s[j - WordsBefore(j)] = LabelOf(j)
      BY <1>6, <3>1 DEF LabelsDone, n
    <3> QED BY <1>4, <3>2
  <2> QED BY <2>1, <2>2
<1>7. ASSUME NEW i \in 1 .. n + 1
      PROVE  \E j \in 1 .. k : IsLabel(program[j]) /\ i = j - WordsBefore(j)
  <2>1. CASE i = n + 1
    BY <1>5, <2>1
  <2>2. CASE i # n + 1
    <3>1. i \in 1 .. n
      BY <1>4, <2>2
    <3>2. PICK j \in 1 .. k - 1 : IsLabel(program[j]) /\ i = j - WordsBefore(j)
      BY <3>1 DEF LabelsDone, n
    <3> QED BY <3>2
  <2> QED BY <2>1, <2>2
<1>8. Len(b) = (k + 1) - 1 - WordsBefore(k + 1)
  BY <1>1, <1>2, <1>4, <1>5
<1> QED BY <1>2, <1>4, <1>6, <1>7, <1>8 DEF LabelsDone, b, L, e

LEMMA NoLabelDone ==
  \A s, k :
    LabelsDone(s, k) /\ k \in Nat \ {0} /\ ~IsLabel(program[k]) => LabelsDone(s, k + 1)
<1> SUFFICES ASSUME NEW s, NEW k, LabelsDone(s, k), k \in Nat \ {0}, ~IsLabel(program[k])
             PROVE  LabelsDone(s, k + 1)
  OBVIOUS
<1>1. Len(s) = k - 1 - WordsBefore(k) /\ WordsBefore(k) \in Nat
  BY WordsAre DEF LabelsDone
<1>2. WordsBefore(k + 1) = WordsBefore(k) + 1 /\ (k + 1) - 1 = k
  BY WordsAre
<1>3. Len(s) = (k + 1) - 1 - WordsBefore(k + 1)
  BY <1>1, <1>2
<1>4. \A j \in 1 .. k : IsLabel(program[j]) => j \in 1 .. k - 1
  OBVIOUS
<1> QED BY <1>2, <1>3, <1>4 DEF LabelsDone

(* A reference is appended, or none. *)
LEMMA RefDone ==
  \A refs, k, t :
    /\ RefsDone(refs, k) /\ k \in Nat \ {0} /\ ~IsLabel(program[k])
    /\ t \in Tokens \cup {Nothing} /\ RefersAt([label |-> t, addr |-> WordsBefore(k)], k)
    => RefsDone(Append(refs, [label |-> t, addr |-> WordsBefore(k)]), k + 1)
<1> SUFFICES ASSUME NEW refs, NEW k, NEW t,
                    RefsDone(refs, k), k \in Nat \ {0}, ~IsLabel(program[k]),
                    t \in Tokens \cup {Nothing},
                    RefersAt([label |-> t, addr |-> WordsBefore(k)], k)
             PROVE  RefsDone(Append(refs, [label |-> t, addr |-> WordsBefore(k)]), k + 1)
  OBVIOUS
<1> DEFINE R == [label : Tokens \cup {Nothing}, addr : Nat]
           e == [label |-> t, addr |-> WordsBefore(k)]
           b == Append(refs, e)
           n == Len(refs)
<1>1. refs \in Seq(R) /\ WordsBefore(k) \in Nat /\ (k + 1) - 1 = k
  BY WordsAre DEF RefsDone
<1>2. e \in R /\ e.addr = WordsBefore(k)
  BY <1>1
<1>3. RefersAt(e, k)
  OBVIOUS
<1> HIDE DEF R, e
<1>4. n \in Nat /\ b \in Seq(R) /\ Len(b) = n + 1 /\ b[n + 1] = e
      /\ \A i \in 1 .. n : b[i] = refs[i]
  BY <1>1, <1>2
<1> HIDE DEF b, n
<1>5. ASSUME NEW i \in 1 .. n + 1
      PROVE  \E j \in 1 .. k : RefersAt(b[i], j)
  <2>1. CASE i = n + 1
    BY <1>3, <1>4, <2>1
  <2>2. CASE i # n + 1
    <3>1. i \in 1 .. n
      BY <1>4, <2>2
    <3>2. PICK j \in 1 .. k - 1 : RefersAt(refs[i], j)
      BY <3>1 DEF RefsDone, n
    <3>3. b[i] = refs[i]
      BY <1>4, <3>1
    <3> QED BY <3>2, <3>3
  <2> QED BY <2>1, <2>2
<1>6. ASSUME NEW j \in 1 .. k, Complete(program[j]), Refers(program[j])
      PROVE  \E i \in 1 .. n + 1 : b[i].addr = WordsBefore(j)
  <2>1. CASE j = k
    <3>1. n + 1 \in 1 .. n + 1
      BY <1>4
    <3> QED BY <1>2, <1>4, <2>1, <3>1
  <2>2. CASE j # k
    <3>1. j \in 1 .. k - 1
      BY <2>2
    <3>2. PICK i \in 1 .. n : refs[i].addr = WordsBefore(j)
      BY <1>6, <3>1 DEF RefsDone, n
    <3>3. b[i] = refs[i] /\ i \in 1 .. n + 1
      BY <1>4, <3>2
    <3> QED BY <3>2, <3>3
  <2> QED BY <2>1, <2>2
<1>7. ASSUME NEW i \in 1 .. n
      PROVE  b[i].addr < WordsBefore(k) /\ b[i] = refs[i] /\ b[i].addr \in Nat
  <2>1. PICK j \in 1 .. k - 1 : RefersAt(refs[i], j)
    BY DEF RefsDone, n
  <2>2. refs[i].addr = WordsBefore(j) /\ ~IsLabel(program[j])
    BY <2>1 DEF RefersAt, IsLabel
  <2>3. j \in Nat \ {0} /\ j < k
    OBVIOUS
  <2>4. WordsBefore(j) < WordsBefore(k) /\ WordsBefore(j) \in Nat
    BY <2>2, <2>3, WordsGrow, WordsAre
  <2>5. b[i] = refs[i]
    BY <1>4
  <2> QED BY <2>2, <2>4, <2>5
<1>8. ASSUME NEW h \in 1 .. n + 1, NEW i \in 1 .. n + 1, h # i
      PROVE  b[h].addr # b[i].addr
  <2>1. CASE h \in 1 .. n /\ i \in 1 .. n
    <3>1. refs[h].addr # refs[i].addr
      BY <1>8, <2>1 DEF RefsDone, n
    <3> QED BY <1>7, <2>1, <3>1
  <2>2. CASE h = n + 1
    <3>1. i \in 1 .. n
      BY <1>4, <1>8, <2>2
    <3> QED BY <1>1, <1>2, <1>4, <1>7, <2>2, <3>1
  <2>3. CASE i = n + 1
    <3>1. h \in 1 .. n
      BY <1>4, <1>8, <2>3
    <3> QED BY <1>1, <1>2, <1>4, <1>7, <2>3, <3>1
  <2> QED BY <1>4, <2>1, <2>2, <2>3
<1> QED BY <1>1, <1>4, <1>5, <1>6, <1>8 DEF RefsDone, b, e, R

LEMMA NoRefDone ==
  \A refs, k :
    RefsDone(refs, k) /\ k \in Nat \ {0} /\ (Complete(program[k]) => ~Refers(program[k])) =>
      RefsDone(refs, k + 1)
<1> SUFFICES ASSUME NEW refs, NEW k, RefsDone(refs, k), k \in Nat \ {0},
                    Complete(program[k]) => ~Refers(program[k])
             PROVE  RefsDone(refs, k + 1)
  OBVIOUS
<1>1. (k + 1) - 1 = k /\ \A j \in 1 .. k - 1 : j \in 1 .. k
  OBVIOUS
<1>2. \A j \in 1 .. k : j # k => j \in 1 .. k - 1
  OBVIOUS
<1> QED BY <1>1, <1>2 DEF RefsDone

-----------------------------------------------------------------------------
(* The label that is found is the first that the program defines.          *)
LEMMA FoundIs ==
  ASSUME TextKnown, LabelsDone(lbls, Len(program) + 1), NEW t \in Tokens
  PROVE  /\ Matching(t) = {} => Definitions(t) = {}
         /\ Matching(t) # {} =>
              /\ Definitions(t) # {} /\ Found(t) \in Matching(t)
              /\ lbls[Found(t)].addr = AddressOf(t)
              /\ AddressOf(t) \in Nat /\ AddressOf(t) <= MaxImm(3)
<1> DEFINE n == Len(program)
           p(j) == j - WordsBefore(j)
<1>1. n \in Nat /\ DOMAIN program = 1 .. n /\ n <= MaxImm(3) + 1
  BY LinesAre
<1>2. /\ lbls \in Seq([label : Tokens, addr : Nat])
      /\ \A j \in 1 .. n : IsLabel(program[j]) => p(j) \in 1 .. Len(lbls) /\ lbls[p(j)] = LabelOf(j)
      /\ \A i \in 1 .. Len(lbls) : \E j \in 1 .. n : IsLabel(program[j]) /\ i = p(j)
  <2>1. (n + 1) - 1 = n
    BY <1>1
  <2> QED BY <2>1 DEF LabelsDone
<1>3. Len(lbls) \in Nat /\ DOMAIN lbls = 1 .. Len(lbls)
  BY <1>2
<1>4. \A l : lbl_streq(t, l) <=> t = l
  BY DEF lbl_streq, Tokens, Nothing, Token
<1>5. \A j \in 1 .. n : p(j) \in Int /\ WordsBefore(j) \in 0 .. j - 1
  BY WordsBelow
<1>6. \A j, k \in 1 .. n : j < k /\ IsLabel(program[j]) => p(j) < p(k)
  BY WordsGrow
<1>7. \A j \in 1 .. n : IsLabel(program[j]) =>
         lbls[p(j)].label = program[j][1] /\ lbls[p(j)].addr = WordsBefore(j)
  <2> TAKE j \in 1 .. n
  <2>1. LabelOf(j).label = program[j][1] /\ LabelOf(j).addr = WordsBefore(j)
    BY DEF LabelOf
  <2> HIDE DEF p
  <2> QED BY <1>2, <2>1
<1> HIDE DEF p, n
<1>8. \A j \in Definitions(t) : j \in 1 .. n /\ IsLabel(program[j]) /\ p(j) \in Matching(t)
  BY <1>1, <1>2, <1>3, <1>4, <1>7 DEF Definitions, Matching
<1>9. \A i \in Matching(t) : \E j \in Definitions(t) : i = p(j)
  <2> SUFFICES ASSUME NEW i \in Matching(t)
               PROVE  \E j \in Definitions(t) : i = p(j)
    OBVIOUS
  <2>1. i \in 1 .. Len(lbls) /\ t = lbls[i].label
    BY <1>3, <1>4 DEF Matching
  <2>2. PICK j \in 1 .. n : IsLabel(program[j]) /\ i = p(j)
    BY <1>2, <2>1
  <2>3. program[j][1] = t
    BY <1>7, <2>1, <2>2
  <2> QED BY <1>1, <2>2, <2>3 DEF Definitions
<1>10. ASSUME Matching(t) # {}
      PROVE  /\ Definitions(t) # {} /\ Found(t) \in Matching(t)
             /\ lbls[Found(t)].addr = AddressOf(t)
             /\ AddressOf(t) \in Nat /\ AddressOf(t) <= MaxImm(3)
  <2>1. Matching(t) \subseteq Nat
    BY <1>3 DEF Matching
  <2>2. \E i \in Matching(t) : \A j \in Matching(t) : i <= j
    <3> DEFINE M == Matching(t)
    <3>1. M \subseteq Nat /\ M # {}
      BY <1>10, <2>1
    <3> HIDE DEF M
    <3>2. \E i \in M : \A j \in M : i <= j
      BY <3>1, LeastNumber
    <3> QED BY <3>2 DEF M
  <2> DEFINE i == Found(t)
  <2>3. i \in Matching(t) /\ \A j \in Matching(t) : i <= j
    BY <2>2 DEF Found
  <2> HIDE DEF i
  <2>4. PICK d \in Definitions(t) : i = p(d)
    BY <1>9, <2>3
  <2>5. d \in 1 .. n /\ IsLabel(program[d])
    BY <1>8, <2>4
  <2>6. ASSUME NEW j \in Definitions(t)
        PROVE  d <= j
    <3>1. j \in 1 .. n /\ IsLabel(program[j]) /\ p(j) \in Matching(t)
      BY <1>8
    <3>2. p(d) <= p(j)
      BY <2>3, <2>4, <3>1
    <3>3. ~(j < d)
      <4>1. j < d => p(j) < p(d)
        BY <1>6, <2>5, <3>1
      <4>2. p(j) \in Int /\ p(d) \in Int
        BY <1>5, <2>5, <3>1
      <4> QED BY <3>2, <4>1, <4>2
    <3> QED BY <2>5, <3>1, <3>3
  <2>7. \A c \in Definitions(t) : (\A j \in Definitions(t) : c <= j) => c = d
    <3> SUFFICES ASSUME NEW c \in Definitions(t), \A j \in Definitions(t) : c <= j
                 PROVE  c = d
      OBVIOUS
    <3>1. c \in 1 .. n /\ c <= d /\ d <= c
      BY <1>8, <2>6
    <3> QED BY <2>5, <3>1
  <2>8. (CHOOSE c \in Definitions(t) : \A j \in Definitions(t) : c <= j) = d
    BY <2>6, <2>7
  <2>9. AddressOf(t) = WordsBefore(d)
    BY <2>8 DEF AddressOf
  <2>10. lbls[i].addr = WordsBefore(d)
    BY <1>7, <2>4, <2>5
  <2>11. WordsBefore(d) \in Nat /\ WordsBefore(d) <= MaxImm(3)
    <3>1. MaxImm(3) \in Int
      <4>1. 3 \in {1, 3}
        OBVIOUS
      <4> QED BY <4>1, RoomIs
    <3> QED BY <1>1, <1>5, <2>5, <3>1
  <2> QED BY <2>3, <2>4, <2>9, <2>10, <2>11 DEF i
<1>11. ASSUME Matching(t) = {}
       PROVE  Definitions(t) = {}
  BY <1>8, <1>11
<1> QED BY <1>10, <1>11

LEMMA HeadIs == \A l : Sound(l) => HeadOf(l) \in Int
<1> SUFFICES ASSUME NEW l, Sound(l)
             PROVE  HeadOf(l) \in Int
  OBVIOUS
<1>1. n_args(l[1].n) \in {1, 3}
  BY SoundIs
<1>2. 0 <= MaxImm(n_args(l[1].n))
  <2> DEFINE n == n_args(l[1].n)
  <2> HIDE DEF n
  <2>1. PICK h \in Nat : h >= 1 /\ MaxImm(n) = h - 1
    BY <1>1, RoomIs DEF n
  <2> QED BY <2>1 DEF n
<1>3. Filled(l, 0)
  BY <1>2 DEF Filled
<1> QED BY <1>3, DecodedIs

LEMMA WordsDiffer ==
  \A i, j \in Nat \ {0} : i # j /\ ~IsLabel(program[i]) /\ ~IsLabel(program[j]) =>
    WordsBefore(i) # WordsBefore(j)
<1> SUFFICES ASSUME NEW i \in Nat \ {0}, NEW j \in Nat \ {0}, i # j,
                    ~IsLabel(program[i]), ~IsLabel(program[j])
             PROVE  WordsBefore(i) # WordsBefore(j)
  OBVIOUS
<1>1. WordsBefore(i) \in Nat /\ WordsBefore(j) \in Nat
  BY WordsAre
<1>2. i < j \/ j < i
  OBVIOUS
<1>3. i < j => WordsBefore(i) < WordsBefore(j)
  BY WordsGrow
<1>4. j < i => WordsBefore(j) < WordsBefore(i)
  BY WordsGrow
<1> QED BY <1>1, <1>2, <1>3, <1>4

(* Reference r is resolved: it changes its own word and no other. *)
Resolved(a, refs, k, r, v) ==
  /\ WordsDone(a, refs, k, r) /\ RefsDone(refs, k) /\ k \in Nat \ {0}
  /\ r \in 1 .. Len(refs) /\ v \in Nat
  /\ \A j \in 1 .. k - 1 : RefersAt(refs[r], j) /\ Complete(program[j]) =>
       v = AddressOf(Last(program[j]))

LEMMA ResolvedIs ==
  \A a, refs, k, r, v : Resolved(a, refs, k, r, v) =>
    WordsDone([a EXCEPT ![refs[r].addr + 1] = @ + v], refs, k, r + 1)
<1> SUFFICES ASSUME NEW a, NEW refs, NEW k, NEW r, NEW v, Resolved(a, refs, k, r, v)
             PROVE  WordsDone([a EXCEPT ![refs[r].addr + 1] = @ + v], refs, k, r + 1)
  OBVIOUS
<1> DEFINE R == [label : Tokens \cup {Nothing}, addr : Nat]
           x == refs[r].addr
           b == [a EXCEPT ![x + 1] = @ + v]
           n == Len(a)
           W(j) == WordsBefore(j)
<1>1. /\ WordsDone(a, refs, k, r) /\ RefsDone(refs, k) /\ k \in Nat \ {0}
      /\ r \in 1 .. Len(refs) /\ v \in Nat
  BY DEF Resolved
<1>2. /\ a \in Seq(Int) /\ n = W(k) /\ W(k) \in Nat
      /\ refs \in Seq(R)
  BY <1>1, WordsAre DEF WordsDone, RefsDone
<1>3. n \in Nat /\ Len(refs) \in Nat /\ DOMAIN refs = 1 .. Len(refs) /\ DOMAIN a = 1 .. n
      /\ r \in Nat
  BY <1>1, <1>2
<1>4. PICK d \in 1 .. k - 1 : RefersAt(refs[r], d)
  BY <1>1 DEF RefsDone
<1>5. x = W(d) /\ ~IsLabel(program[d]) /\ program[d][1].kind = "op" /\ W(d) \in Nat
  <2>1. d \in Nat \ {0}
    BY <1>1
  <2> QED BY <1>4, <2>1, WordsAre DEF RefersAt, IsLabel
<1>6. W(d) < W(k)
  <2>1. d \in Nat \ {0} /\ k \in Nat \ {0} /\ d < k
    BY <1>1
  <2> QED BY <1>5, <2>1, WordsGrow
<1>7. \A j \in 1 .. k - 1 : W(j) \in Nat
                            /\ (~IsLabel(program[j]) /\ j # d => W(j) # W(d))
  <2> TAKE j \in 1 .. k - 1
  <2>1. j \in Nat \ {0} /\ d \in Nat \ {0}
    BY <1>1
  <2> QED BY <1>5, <2>1, WordsAre, WordsDiffer
<1>8. \A h, i \in 1 .. Len(refs) : h # i => refs[h].addr # refs[i].addr
  BY <1>1 DEF RefsDone
<1> HIDE DEF W, R
<1>9. x + 1 \in 1 .. n
  BY <1>2, <1>3, <1>5, <1>6
<1>10. /\ b \in Seq(Int) /\ Len(b) = n
       /\ b[x + 1] = a[x + 1] + v
       /\ \A i \in 1 .. n : i # x + 1 => b[i] = a[i]
  <2>1. /\ b \in [1 .. n -> Int] /\ b[x + 1] = a[x + 1] + v
        /\ \A i \in 1 .. n : i # x + 1 => b[i] = a[i]
    <3>1. a \in [1 .. n -> Int]
      BY <1>2, <1>3
    <3>2. a[x + 1] + v \in Int
      BY <1>1, <1>9, <3>1
    <3> QED BY <1>9, <3>1, <3>2
  <2>2. n \in Nat
    BY <1>3
  <2> HIDE DEF b, n, x
  <2>3. b \in Seq(Int) /\ Len(b) = n
    <3>1. b \in [1 .. n -> Int]
      BY <2>1
    <3> QED BY <2>2, <3>1, IsSequence
  <2> QED BY <2>1, <2>3
<1> HIDE DEF b, x, n
<1>11. ASSUME NEW j \in 1 .. k - 1
       PROVE  Written(b[W(j) + 1], refs, j, r + 1)
  <2>1. Written(a[W(j) + 1], refs, j, r)
    BY <1>1 DEF WordsDone, W
  <2>2. CASE IsLabel(program[j]) \/ ~Complete(program[j])
    BY <2>2 DEF Written
  <2>3. CASE ~IsLabel(program[j]) /\ Complete(program[j]) /\ j # d
    <3>1. j \in Nat \ {0} /\ j < k /\ k \in Nat \ {0}
      BY <1>1
    <3>2. W(j) < W(k) /\ W(j) # W(d) /\ W(j) \in Nat
      BY <1>7, <2>3, <3>1, WordsGrow DEF W
    <3>3. b[W(j) + 1] = a[W(j) + 1]
      BY <1>2, <1>3, <1>5, <1>10, <3>2
    <3>4. Added(refs, j, r + 1) = Added(refs, j, r)
      <4>1. \A i \in 1 .. Len(refs) : i < r + 1 /\ refs[i].addr = W(j) => i < r
        BY <1>3, <1>5, <3>2 DEF x
      <4>2. \A i \in 1 .. Len(refs) : i < r => i < r + 1
        BY <1>3
      <4> QED BY <1>3, <4>1, <4>2 DEF Added, W
    <3> QED BY <2>1, <3>3, <3>4 DEF Written
  <2>4. CASE ~IsLabel(program[j]) /\ Complete(program[j]) /\ j = d
    <3>1. Sound(program[d]) /\ a[W(d) + 1] = HeadOf(program[d]) + Added(refs, d, r)
      BY <1>5, <2>1, <2>4 DEF Written
    <3>2. Added(refs, d, r) = 0
      <4>1. \A i \in 1 .. Len(refs) : i < r => refs[i].addr # W(d)
        <5> TAKE i \in 1 .. Len(refs)
        <5> HAVE i < r
        <5>1. i # r /\ r \in 1 .. Len(refs)
          BY <1>1, <1>3
        <5>2. refs[i].addr # refs[r].addr
          BY <1>8, <5>1
        <5> QED BY <1>5, <5>2 DEF x
      <4> QED BY <1>3, <4>1 DEF Added, W
    <3>3. Refers(program[d]) /\ v = AddressOf(Last(program[d]))
      BY <1>4, <2>4 DEF RefersAt, Resolved
    <3>4. Added(refs, d, r + 1) = v
      <4>1. r \in DOMAIN refs /\ r < r + 1 /\ refs[r].addr = W(d)
        BY <1>1, <1>3, <1>5 DEF x
      <4> QED BY <3>3, <4>1 DEF Added, W
    <3>5. HeadOf(program[d]) \in Int
      BY <3>1, HeadIs
    <3>6. b[W(d) + 1] = HeadOf(program[d]) + v
      BY <1>1, <1>5, <1>10, <3>1, <3>2, <3>5
    <3> QED BY <1>5, <2>4, <3>1, <3>4, <3>6 DEF Written
  <2> QED BY <2>2, <2>3, <2>4
<1> QED BY <1>2, <1>10, <1>11 DEF WordsDone, b, x, W

-----------------------------------------------------------------------------
(* compile's two loops: over the lines, and over the references, of which  *)
(* those before r are to labels that are there.                            *)
Reading(k) == AtLine(k) /\ ArraysDone(k, 1)

Linking(k, r) ==
  /\ k = Len(program) + 1 /\ idx = r /\ r \in 1 .. Len(lbl_refs) + 1
  /\ ArraysDone(k, r)
  /\ \A i \in 1 .. r - 1 : Matching(lbl_refs[i].label) # {}

Untouched == idx = 1 /\ arr = <<>> /\ lbls = <<>> /\ lbl_refs = <<>>

LinesDone ==
  /\ TextKnown
  /\ at = "start" => Untouched
  /\ at # "done" => ret = FALSE
  /\ at = "scan" => \E k : Reading(k)
  /\ at = "resolve" => \E k, r : Linking(k, r)

Correct == LinesDone /\ Faithful /\ RefusedForReason

LEMMA Beginning == AnyProgram => Correct
<1> SUFFICES ASSUME AnyProgram
             PROVE  Correct
  OBVIOUS
<1>1. /\ program \in Programs /\ text = FlattenSeq(program) /\ at = "start" /\ ret = FALSE
      /\ idx = 1 /\ arr = <<>> /\ lbls = <<>> /\ lbl_refs = <<>>
  BY DEF AnyProgram, Begin
<1> QED BY <1>1 DEF Correct, LinesDone, TextKnown, Untouched, Faithful, RefusedForReason

LEMMA SameText ==
  ASSUME TextKnown, program' = program, text' = text
  PROVE  TextKnown'
<1>1. FlattenSeq(program)' = FlattenSeq(program)
  OBVIOUS
<1> QED BY <1>1 DEF TextKnown

(* While compile runs nothing is returned. *)
LEMMA Running ==
  ASSUME Correct, at # "done", program' = program, text' = text, ret' = ret,
         at' \in {"scan", "resolve"},
         at' = "scan" => (\E k : Reading(k))',
         at' = "resolve" => (\E k, r : Linking(k, r))'
  PROVE  Correct'
<1>1. ret' = FALSE /\ TextKnown'
  BY SameText DEF Correct, LinesDone
<1>2. at' # "done" /\ at' # "start"
  OBVIOUS
<1> QED BY <1>1, <1>2 DEF Correct, LinesDone, Faithful, RefusedForReason

(* What may be wrong with a line. *)
Wrong(k) ==
  LET l == program[k]
  IN  \/ ~Complete(l)
      \/ Refers(l) /\ Definitions(Last(l)) = {}
      \/ \E j \in 2 .. Len(l) - 1 : ~IsRegister(l[j])

LEMMA Refusing ==
  ASSUME Correct, program' = program, text' = text, ret' = FALSE, at' = "done",
         text = <<>> \/ starved' \/ \E k \in DOMAIN program : Wrong(k)
  PROVE  Correct'
<1>1. TextKnown'
  BY SameText DEF Correct, LinesDone
<1>2. \A t : Definitions(t)' = Definitions(t)
  BY SameProgram
<1>3. RefusedForReason'
  <2>1. CASE text = <<>> \/ starved'
    BY <2>1 DEF RefusedForReason
  <2>2. CASE \E k \in DOMAIN program : Wrong(k)
    BY <1>2, <2>2 DEF RefusedForReason, Wrong
  <2> QED BY <2>1, <2>2
<1> QED BY <1>1, <1>3 DEF Correct, LinesDone, Faithful

(* The first line. *)
LEMMA FirstLine ==
  ASSUME Correct, Arrays
  PROVE  Correct'
<1>1. /\ at = "start" /\ at' = "scan" /\ text # <<>>
      /\ UNCHANGED <<program, text, idx, arr, lbls, lbl_refs, ret>>
  BY DEF Arrays
<1>2. TextKnown /\ idx = 1 /\ arr = <<>> /\ lbls = <<>> /\ lbl_refs = <<>>
  BY <1>1 DEF Correct, LinesDone, Untouched
<1>3. /\ Len(program) \in Nat /\ text \in Seq(Tokens) /\ Len(text) \in Nat
      /\ Laid(program, text, Starts)
  BY <1>2, LinesAre
<1>4. Starts' = Starts
  BY <1>1 DEF Starts
<1>5. AtLine(1)'
  <2>1. Starts[0] = 0 /\ Len(program) = 0 => Starts[0] = Len(text)
    BY <1>3 DEF Laid
  <2>2. 1 - 1 = 0 /\ Starts[0] = 0
    BY <1>3 DEF Laid
  <2>3. 1 \in 1 .. Len(program) + 1 /\ idx \in Nat
    BY <1>2, <1>3
  <2>4. 1 <= Len(program) => idx = Starts[1 - 1] + 1
    BY <1>2, <2>2
  <2>5. 1 = Len(program) + 1 => idx > Len(text)
    <3>1. 1 = Len(program) + 1 => Len(program) = 0
      BY <1>3
    <3>2. Len(program) = 0 => Len(text) = 0
      BY <1>3 DEF Laid
    <3> QED BY <1>2, <3>1, <3>2
  <2> QED BY <1>1, <1>4, <2>3, <2>4, <2>5 DEF AtLine
<1>6. Done(<<>>, <<>>, <<>>, 1, 1)
  <2>1. WordsBefore(1) = 0
    BY WordsAre
  <2>2. 1 .. 1 - 1 = {} /\ 1 .. 0 = {}
    OBVIOUS
  <2>3. \A S : <<>> \in Seq(S) /\ Len(<<>>) = 0
    OBVIOUS
  <2>4. WordsDone(<<>>, <<>>, 1, 1)
    BY <2>1, <2>2, <2>3 DEF WordsDone
  <2>5. LabelsDone(<<>>, 1)
    BY <2>1, <2>2, <2>3 DEF LabelsDone
  <2>6. RefsDone(<<>>, 1)
    BY <2>1, <2>2, <2>3 DEF RefsDone
  <2> QED BY <2>4, <2>5, <2>6 DEF Done
<1>7. ArraysDone(1, 1)'
  <2>1. arr' = <<>> /\ lbls' = <<>> /\ lbl_refs' = <<>> /\ program' = program
    BY <1>1, <1>2
  <2> QED BY ONLY <2>1, <1>6, SameDone
<1>8. (\E k : Reading(k))'
  BY <1>5, <1>7 DEF Reading
<1> QED BY <1>1, <1>8, Running

(* The lines of the text, one by one.                                      *)
LEMMA ReadingIs ==
  ASSUME Correct, at = "scan"
  PROVE  /\ TextKnown
         /\ \E k : /\ AtLine(k) /\ k \in Nat \ {0}
                   /\ WordsDone(arr, lbl_refs, k, 1) /\ LabelsDone(lbls, k)
                   /\ RefsDone(lbl_refs, k) /\ DOMAIN lbl_refs \subseteq Nat \ {0}
<1>1. TextKnown /\ \E k : Reading(k)
  BY DEF Correct, LinesDone
<1>2. PICK k : Reading(k)
  BY <1>1
<1>3. AtLine(k) /\ Done(arr, lbls, lbl_refs, k, 1)
  BY <1>2 DEF Reading, ArraysDone
<1>4. k \in Nat \ {0}
  <2>1. Len(program) \in Nat
    BY <1>1, LinesAre
  <2> QED BY <1>3, <2>1 DEF AtLine
<1>5. DOMAIN lbl_refs \subseteq Nat \ {0}
  <2>1. lbl_refs \in Seq([label : Tokens \cup {Nothing}, addr : Nat])
    BY <1>3 DEF Done, RefsDone
  <2> QED BY <2>1
<1> QED BY <1>1, <1>3, <1>4, <1>5 DEF Done

LEMMA NextReading ==
  ASSUME Correct, at = "scan", at' = "scan", program' = program, text' = text, ret' = ret,
         NEW k, AtLine(k), idx <= Len(text),
         NEW d \in Nat, idx' = idx + d, d >= Len(program[k]),
         k < Len(program) => d = Len(program[k]),
         Done(arr', lbls', lbl_refs', k + 1, 1)
  PROVE  Correct'
<1>1. TextKnown
  BY DEF Correct, LinesDone
<1>2. PICK m : m = k + 1
  OBVIOUS
<1>3. AtLine(k + 1)'
  BY <1>1, NextLine
<1>4. AtLine(m)'
  BY <1>2, <1>3 DEF AtLine
<1>5. ArraysDone(m, 1)'
  <2>1. PICK a, s, refs : a = arr' /\ s = lbls' /\ refs = lbl_refs'
    OBVIOUS
  <2>2. Done(a, s, refs, m, 1)
    BY <1>2, <2>1
  <2>3. arr' = a /\ lbls' = s /\ lbl_refs' = refs /\ program' = program
    BY <2>1
  <2> QED BY ONLY <2>2, <2>3, SameDone
<1>6. (\E j : Reading(j))'
  BY <1>4, <1>5 DEF Reading
<1> QED BY <1>6, Running

LEMMA DatumRead ==
  ASSUME Correct, Datum
  PROVE  Correct'
<1>1. /\ at = "scan" /\ idx <= Len(text) /\ Here.kind = "num"
      /\ arr' = Append(arr, Here.n) /\ idx' = idx + 1
      /\ UNCHANGED <<program, text, at, lbls, lbl_refs, ret>>
  BY DEF Datum, Scanning
<1>2. PICK k : /\ AtLine(k) /\ k \in Nat \ {0}
               /\ WordsDone(arr, lbl_refs, k, 1) /\ LabelsDone(lbls, k)
               /\ RefsDone(lbl_refs, k) /\ DOMAIN lbl_refs \subseteq Nat \ {0}
  BY <1>1, ReadingIs
<1>3. TextKnown
  BY <1>1, ReadingIs
<1> DEFINE l == program[k]
<1>4. IsLine(l) /\ Here = l[1]
  BY <1>1, <1>2, <1>3, HereIs
<1>5. /\ Len(l) = 1 /\ l[1].n \in Int /\ Complete(l) /\ ~IsLabel(l) /\ ~Refers(l)
  BY <1>1, <1>4 DEF IsLine, Complete, IsLabel, Refers, Word
<1>6. Written(l[1].n, lbl_refs, k, 1)
  BY <1>1, <1>4 DEF Written
<1>7. Done(Append(arr, l[1].n), lbls, lbl_refs, k + 1, 1)
  <2>1. WordsDone(Append(arr, l[1].n), lbl_refs, k + 1, 1)
    BY <1>2, <1>5, <1>6, WordDone
  <2>2. LabelsDone(lbls, k + 1)
    BY <1>2, <1>5, NoLabelDone
  <2>3. RefsDone(lbl_refs, k + 1)
    BY <1>2, <1>5, NoRefDone
  <2> QED BY <2>1, <2>2, <2>3 DEF Done
<1>8. Done(arr', lbls', lbl_refs', k + 1, 1)
  BY <1>1, <1>4, <1>7
<1>9. 1 \in Nat /\ 1 >= Len(l)
  BY <1>5
<1> QED BY <1>1, <1>2, <1>5, <1>8, <1>9, NextReading

LEMMA LabelRead ==
  ASSUME Correct, Label
  PROVE  Correct'
<1>1. /\ at = "scan" /\ idx <= Len(text) /\ Here.kind \in {"reg", "neg", "name"}
      /\ lbls' = Append(lbls, [label |-> Here, addr |-> Len(arr)]) /\ idx' = idx + 1
      /\ UNCHANGED <<program, text, at, arr, lbl_refs, ret>>
  BY DEF Label, Scanning
<1>2. PICK k : /\ AtLine(k) /\ k \in Nat \ {0}
               /\ WordsDone(arr, lbl_refs, k, 1) /\ LabelsDone(lbls, k)
               /\ RefsDone(lbl_refs, k) /\ DOMAIN lbl_refs \subseteq Nat \ {0}
  BY <1>1, ReadingIs
<1>3. TextKnown
  BY <1>1, ReadingIs
<1> DEFINE l == program[k]
<1>4. IsLine(l) /\ Here = l[1] /\ l \in Seq(Tokens) /\ Len(l) \in Nat /\ Len(l) >= 1
  BY <1>1, <1>2, <1>3, HereIs
<1>5. Len(l) = 1 /\ Complete(l) /\ IsLabel(l) /\ ~Refers(l) /\ l[1] \in Tokens
  <2>1. l[1] \in Tokens
    BY <1>4
  <2> QED BY <1>1, <1>4, <2>1 DEF IsLine, Complete, IsLabel, Refers
<1>6. [label |-> Here, addr |-> Len(arr)] = LabelOf(k)
  BY <1>2, <1>4 DEF LabelOf, WordsDone
<1>7. Done(arr, Append(lbls, LabelOf(k)), lbl_refs, k + 1, 1)
  <2>1. WordsDone(arr, lbl_refs, k + 1, 1)
    BY <1>2, <1>5, NoWordDone
  <2>2. LabelsDone(Append(lbls, LabelOf(k)), k + 1)
    BY <1>2, <1>5, LabelDone
  <2>3. RefsDone(lbl_refs, k + 1)
    BY <1>2, <1>5, NoRefDone
  <2> QED BY <2>1, <2>2, <2>3 DEF Done
<1>8. Done(arr', lbls', lbl_refs', k + 1, 1)
  BY <1>1, <1>6, <1>7
<1>9. 1 \in Nat /\ 1 >= Len(l)
  BY <1>5
<1> QED BY <1>1, <1>2, <1>5, <1>8, <1>9, NextReading

(* Where the registers are, only the last operand may be missing, and only *)
(* at the end of the text.                                                 *)
LEMMA OperandsAre ==
  ASSUME TextKnown, NEW k, AtLine(k), idx <= Len(text), Here.kind = "op", RegistersGiven
  PROVE  /\ Here = program[k][1] /\ n_args(Here.n) \in {1, 3} /\ Here.n \in 0 .. 15
         /\ Registers = [i \in 1 .. n_args(Here.n) - 1 |-> program[k][i + 1].n]
         /\ \A i \in 1 .. n_args(Here.n) - 1 : Registers[i] \in Nat
         /\ Len(program[k]) \in Nat
         /\ Complete(program[k]) =>
              /\ Sound(program[k]) /\ Len(program[k]) = n_args(Here.n) + 1
              /\ OperandAt(n_args(Here.n)) = Last(program[k])
         /\ ~Complete(program[k]) =>
              /\ Len(program[k]) <= n_args(Here.n)
              /\ OperandAt(n_args(Here.n)) = Nothing
<1> DEFINE l == program[k]
           op == Here.n
           n == n_args(op)
<1>1. /\ k \in 1 .. Len(program) /\ IsLine(l) /\ Here = l[1]
      /\ l \in Seq(Tokens) /\ Len(l) \in Nat /\ Len(l) >= 1
      /\ \A i \in 1 .. Len(l) - 1 : OperandAt(i) = l[i + 1]
      /\ k = Len(program) => \A i \in Nat : i >= Len(l) => OperandAt(i) = Nothing
  BY HereIs
<1>2. op \in acx .. exc /\ Len(l) <= 1 + n
  BY <1>1 DEF IsLine
<1>3. op \in 0 .. 15 /\ n \in {1, 3}
  BY <1>2 DEF acx, exc, n_args
<1>4. ~Complete(l) => Len(l) # 1 + n /\ k = Len(program)
  <2>1. Len(program) \in Nat
    BY LinesAre
  <2>2. k < Len(program) => Complete(l)
    BY <1>1, LinesAre
  <2> QED BY <1>1, <2>1, <2>2 DEF Complete
<1>5. Complete(l) => Len(l) = 1 + n
  BY <1>1 DEF Complete
<1>6. \A i \in 1 .. n - 1 : IsRegister(OperandAt(i))
  BY DEF RegistersGiven
<1>7. ~IsRegister(Nothing)
  BY DEF IsRegister, Nothing, Token
<1> DEFINE m == Len(l)
<1> HIDE DEF n, op, l, m
<1>8. m >= n
  <2> SUFFICES ASSUME m < n
               PROVE  FALSE
    BY <1>1, <1>3 DEF m
  <2>1. ~Complete(l) /\ m \in 1 .. n - 1 /\ m \in Nat
    BY <1>1, <1>3, <1>5 DEF m
  <2>2. OperandAt(m) = Nothing
    BY <1>1, <1>4, <2>1 DEF m
  <2> QED BY <1>6, <1>7, <2>1, <2>2
<1>9. \A i \in 1 .. n - 1 : OperandAt(i) = l[i + 1] /\ i + 1 \in 1 .. m
  <2> TAKE i \in 1 .. n - 1
  <2>1. i \in 1 .. m - 1 /\ i + 1 \in 1 .. m
    BY <1>1, <1>3, <1>8 DEF m
  <2> QED BY <1>1, <2>1 DEF m
<1>10. \A i \in 1 .. n - 1 : l[i + 1].n \in Nat
  <2> TAKE i \in 1 .. n - 1
  <2>1. IsRegister(l[i + 1]) /\ i + 1 \in DOMAIN l
    BY <1>1, <1>6, <1>9 DEF m
  <2> QED BY <1>1, <2>1, NumbersAre DEF IsRegister
<1>11. Registers = [i \in 1 .. n - 1 |-> l[i + 1].n]
  <2>1. Registers = [i \in 1 .. n - 1 |-> OperandAt(i).n]
    BY DEF Registers, n, op
  <2> QED BY <1>9, <2>1
<1>12. ASSUME Complete(l)
       PROVE  Sound(l) /\ m = n + 1 /\ OperandAt(n) = Last(l)
  <2>1. m = n + 1 /\ n \in 1 .. m - 1 /\ n \in Nat
    BY <1>3, <1>5, <1>12 DEF m
  <2>2. OperandAt(n) = l[n + 1]
    BY <1>1, <2>1 DEF m
  <2>3. Last(l) = l[n + 1]
    BY <1>1, <2>1 DEF Last, m
  <2>4. Sound(l)
    <3>1. l[1].kind = "op" /\ n_args(l[1].n) = n
      BY <1>1 DEF n, op
    <3>2. \A i \in 1 .. n - 1 : IsRegister(l[i + 1])
      BY <1>6, <1>9
    <3> QED BY <1>1, <1>12, <3>1, <3>2 DEF Sound
  <2> QED BY <2>1, <2>2, <2>3, <2>4
<1>13. ASSUME ~Complete(l)
       PROVE  m <= n /\ OperandAt(n) = Nothing
  <2>1. m <= n /\ n \in Nat
    BY <1>1, <1>2, <1>3, <1>4, <1>13 DEF m
  <2> QED BY <1>1, <1>4, <1>13, <2>1 DEF m
<1> QED BY <1>1, <1>3, <1>10, <1>11, <1>12, <1>13 DEF n, op, l, m

LEMMA HeadsAre ==
  \A op, r : op \in Nat /\ (\E n \in {1, 3} : r \in [1 .. n - 1 -> Nat]) => InstrHead(op, r) \in Int
<1> SUFFICES ASSUME NEW op \in Nat, NEW r, NEW n \in {1, 3}, r \in [1 .. n - 1 -> Nat]
             PROVE  InstrHead(op, r) \in Int
  OBVIOUS
<1>1. Place(0) \in Nat /\ Place(1) \in Nat /\ Place(2) \in Nat
  <2>1. 0 \in 0 .. 3 /\ 1 \in 0 .. 3 /\ 2 \in 0 .. 3
    OBVIOUS
  <2> QED BY <2>1, PlacesAre
<1>2. n - 1 \in Nat
  OBVIOUS
<1>3. Len(r) = n - 1
  <2> DEFINE m == n - 1
  <2>1. m \in Nat /\ r \in [1 .. m -> Nat]
    BY <1>2
  <2> HIDE DEF m
  <2>2. Len(r) = m
    BY <2>1, IsSequence
  <2> QED BY <2>2 DEF m
<1> DEFINE a == op * Place(0)
           b == r[1] * Place(1)
           c == r[2] * Place(2)
<1>4. a \in Int
  BY <1>1
<1>5. Len(r) >= 1 => b \in Int
  <2>1. Len(r) >= 1 => r[1] \in Nat
    BY <1>3
  <2> QED BY <1>1, <2>1
<1>6. Len(r) >= 2 => c \in Int
  <2>1. Len(r) >= 2 => r[2] \in Nat
    BY <1>3
  <2> QED BY <1>1, <2>1
<1>7. InstrHead(op, r) = a + (IF Len(r) >= 1 THEN b ELSE 0) + (IF Len(r) >= 2 THEN c ELSE 0)
  BY DEF InstrHead
<1> HIDE DEF a, b, c
<1> QED BY <1>4, <1>5, <1>6, <1>7

LEMMA InstructionRead ==
  ASSUME Correct, Instruction, ~LosesToken
  PROVE  Correct'
<1> DEFINE op   == Here.n
           n    == n_args(op)
           last == OperandAt(n)
           w    == InstrHead(op, Registers) + LastBits(op, last)
           e    == [label |-> last, addr |-> Len(arr)]
           more == IF IsRegister(last) \/ IsImmediate(op, last) THEN lbl_refs
                   ELSE Append(lbl_refs, e)
<1>1. /\ at = "scan" /\ idx <= Len(text) /\ Here.kind = "op" /\ RegistersGiven
      /\ arr' = Append(arr, w) /\ lbl_refs' = more /\ idx' = idx + n + 1 + Swallowed(last)
      /\ UNCHANGED <<program, text, at, lbls, ret>>
  BY DEF Instruction, Scanning
<1>2. PICK k : /\ AtLine(k) /\ k \in Nat \ {0}
               /\ WordsDone(arr, lbl_refs, k, 1) /\ LabelsDone(lbls, k)
               /\ RefsDone(lbl_refs, k) /\ DOMAIN lbl_refs \subseteq Nat \ {0}
  BY <1>1, ReadingIs
<1>3. TextKnown
  BY <1>1, ReadingIs
<1> DEFINE l == program[k]
<1>4. /\ Here = l[1] /\ n \in {1, 3} /\ op \in 0 .. 15
      /\ Registers = [i \in 1 .. n - 1 |-> l[i + 1].n]
      /\ \A i \in 1 .. n - 1 : Registers[i] \in Nat
      /\ Len(l) \in Nat
      /\ Complete(l) => Sound(l) /\ Len(l) = n + 1 /\ last = Last(l)
      /\ ~Complete(l) => Len(l) <= n /\ last = Nothing
  BY <1>1, <1>2, <1>3, OperandsAre
<1>5. l[1].kind = "op" /\ ~IsLabel(l) /\ op = l[1].n
  BY <1>1, <1>4 DEF IsLabel
<1>6. Len(arr) = WordsBefore(k) /\ WordsBefore(k) \in Nat
  BY <1>2, WordsAre DEF WordsDone
<1>7. ~IsRegister(Nothing) /\ ~IsImmediate(op, Nothing)
  BY DEF IsRegister, IsImmediate, Nothing, Token
<1> HIDE DEF n, op, last, w, l
<1>8. Complete(l) => w = HeadOf(l)
  <2> HAVE Complete(l)
  <2>1. last = Last(l)
    BY <1>4
  <2> QED BY <1>4, <1>5, <2>1 DEF HeadOf, w, n
<1>9. w \in Int
  <2>1. CASE Complete(l)
    BY <1>4, <1>8, <2>1, HeadIs
  <2>2. CASE ~Complete(l)
    <3>1. LastBits(op, last) = 0
      BY <1>4, <1>7, <2>2 DEF LastBits
    <3>2. Registers \in [1 .. n - 1 -> Nat]
      BY <1>4
    <3>3. op \in Nat /\ \E m \in {1, 3} : Registers \in [1 .. m - 1 -> Nat]
      BY <1>4, <3>2
    <3>4. InstrHead(op, Registers) \in Int
      BY ONLY <3>3, HeadsAre
    <3> QED BY <3>1, <3>4 DEF w
  <2> QED BY <2>1, <2>2
<1>10. DOMAIN more \subseteq Nat \ {0}
  <2>1. lbl_refs \in Seq([label : Tokens \cup {Nothing}, addr : Nat])
    BY <1>2 DEF RefsDone
  <2>2. Len(lbl_refs) \in Nat /\ DOMAIN Append(lbl_refs, e) = 1 .. Len(lbl_refs) + 1
    BY <2>1
  <2> QED BY <1>2, <2>2
<1>11. Written(w, more, k, 1)
  <2> SUFFICES ASSUME Complete(l)
               PROVE  Written(w, more, k, 1)
    BY DEF Written, l
  <2>1. Added(more, k, 1) = 0
    BY <1>10 DEF Added
  <2>2. Sound(l) /\ w = HeadOf(l) /\ HeadOf(l) \in Int
    BY <1>4, <1>8, HeadIs
  <2>3. w = HeadOf(l) + Added(more, k, 1)
    BY <2>1, <2>2
  <2> QED BY <1>5, <2>2, <2>3 DEF Written, l
<1>12. RefsDone(more, k + 1)
  <2>1. CASE IsRegister(last) \/ IsImmediate(op, last)
    <3>1. Complete(l) => ~Refers(l)
      BY <1>4, <1>5, <2>1, RefersIs
    <3>2. more = lbl_refs
      BY <2>1
    <3>3. RefsDone(lbl_refs, k + 1)
      BY <1>2, <3>1, NoRefDone DEF l
    <3> QED BY <3>2, <3>3
  <2>2. CASE ~(IsRegister(last) \/ IsImmediate(op, last))
    <3> DEFINE f == [label |-> last, addr |-> WordsBefore(k)]
    <3>1. more = Append(lbl_refs, f)
      BY <1>6, <2>2
    <3>2. last \in Tokens \cup {Nothing}
      BY <1>4, SoundIs
    <3>3. RefersAt(f, k)
      <4>1. Complete(l) => Refers(l) /\ last = Last(l)
        BY <1>4, <1>5, <2>2, RefersIs
      <4> QED BY <1>5, <4>1 DEF RefersAt, l
    <3>4. RefsDone(Append(lbl_refs, f), k + 1)
      BY <1>2, <1>5, <3>2, <3>3, RefDone DEF l
    <3> QED BY <3>1, <3>4
  <2> QED BY <2>1, <2>2
<1> HIDE DEF more
<1>13. Done(Append(arr, w), lbls, more, k + 1, 1)
  <2>1. WordsDone(Append(arr, w), more, k + 1, 1)
    BY <1>2, <1>5, <1>9, <1>10, <1>11, WordDone DEF l
  <2>2. LabelsDone(lbls, k + 1)
    BY <1>2, <1>5, NoLabelDone DEF l
  <2> QED BY <1>12, <2>1, <2>2 DEF Done
<1>14. Done(arr', lbls', lbl_refs', k + 1, 1)
  BY <1>1, <1>13 DEF w, n, op, last, more
<1> DEFINE lost == Swallowed(last)
           d == n + 1 + lost
<1>15. lost \in 0 .. 1 /\ (lost = 1 => last = reg_des)
  BY DEF Swallowed
<1>16. k < Len(program) => d = Len(l)
  <2> HAVE k < Len(program)
  <2>1. k \in 1 .. Len(program) - 1 /\ Complete(l)
    <3>1. Len(program) \in Nat /\ k \in 1 .. Len(program)
      BY <1>1, <1>2, <1>3, HereIs
    <3>2. k \in 1 .. Len(program) - 1
      BY <3>1
    <3> QED BY <1>3, <3>1, <3>2, LinesAre DEF l
  <2>2. last = Last(l) /\ Len(l) = n + 1
    BY <1>4, <2>1
  <2>3. last # reg_des
    <3> SUFFICES ASSUME last = reg_des
                 PROVE  Refers(l)
      BY <2>1, <2>2 DEF LosesToken, l
    <3> QED BY <1>5, <2>2 DEF Refers, IsRegister, reg_des, Token
  <2> QED BY <1>4, <1>15, <2>2, <2>3
<1>17. d \in Nat /\ d >= Len(l)
  BY <1>4, <1>15
<1>18. idx' = idx + d
  <2>1. idx \in Nat /\ n \in Nat
    BY <1>2, <1>4 DEF AtLine
  <2> QED BY <1>1, <1>15, <2>1 DEF n, op, last
<1> HIDE DEF d
<1> QED BY <1>1, <1>2, <1>14, <1>16, <1>17, <1>18, NextReading DEF l

(* The end of the text, and the first reference. *)
LEMMA TextRead ==
  ASSUME Correct, Scanned
  PROVE  Correct'
<1>1. /\ at = "scan" /\ idx > Len(text) /\ at' = "resolve" /\ idx' = 1
      /\ UNCHANGED <<program, text, arr, lbls, lbl_refs, ret>>
  BY DEF Scanned
<1>2. PICK k : /\ AtLine(k) /\ k \in Nat \ {0}
               /\ WordsDone(arr, lbl_refs, k, 1) /\ LabelsDone(lbls, k)
               /\ RefsDone(lbl_refs, k) /\ DOMAIN lbl_refs \subseteq Nat \ {0}
  BY <1>1, ReadingIs
<1>3. TextKnown
  BY <1>1, ReadingIs
<1>4. Len(program) \in Nat /\ Len(text) \in Nat /\ Laid(program, text, Starts)
  BY <1>3, LinesAre
<1>5. k = Len(program) + 1
  <2> SUFFICES ASSUME k \in 1 .. Len(program)
               PROVE  FALSE
    BY <1>2, <1>4 DEF AtLine
  <2>1. idx = Starts[k - 1] + 1 /\ Starts[k] = Starts[k - 1] + Len(program[k])
        /\ Starts[k] <= Len(text)
    BY <1>2, <1>4 DEF AtLine, Laid
  <2>2. Starts[k - 1] \in Nat /\ Starts[k] \in Nat
    <3>1. k \in 0 .. Len(program) /\ k - 1 \in 0 .. Len(program)
      OBVIOUS
    <3> QED BY <1>4, <3>1 DEF Laid
  <2>3. Len(program[k]) \in Nat /\ Len(program[k]) >= 1
    <3>1. program[k] \in Seq(Tokens) /\ program[k] # <<>>
      BY <1>3, LinesAre DEF IsLine
    <3> QED BY <3>1, EmptySeq
  <2> QED BY <1>1, <1>4, <2>1, <2>2, <2>3
<1>6. ArraysDone(k, 1)'
  <2>1. PICK a, s, refs : a = arr /\ s = lbls /\ refs = lbl_refs
    OBVIOUS
  <2>2. Done(a, s, refs, k, 1)
    BY <1>2, <2>1 DEF Done
  <2>3. arr' = a /\ lbls' = s /\ lbl_refs' = refs /\ program' = program
    BY <1>1, <2>1
  <2> QED BY ONLY <2>2, <2>3, SameDone
<1>7. Linking(k, 1)'
  <2>1. 1 \in 1 .. Len(lbl_refs) + 1 /\ 1 .. 1 - 1 = {}
    <3>1. lbl_refs \in Seq([label : Tokens \cup {Nothing}, addr : Nat])
      BY <1>2 DEF RefsDone
    <3>2. Len(lbl_refs) \in Nat
      BY <3>1
    <3> QED BY <3>2
  <2> QED BY <1>1, <1>5, <1>6, <2>1 DEF Linking
<1>8. (\E j, r : Linking(j, r))'
  BY <1>7
<1> QED BY <1>1, <1>8, Running

LEMMA LinkingIs ==
  ASSUME Correct, at = "resolve"
  PROVE  /\ TextKnown
         /\ \E k, r : /\ k = Len(program) + 1 /\ k \in Nat \ {0} /\ idx = r
                      /\ r \in 1 .. Len(lbl_refs) + 1 /\ Len(lbl_refs) \in Nat
                      /\ DOMAIN lbl_refs = 1 .. Len(lbl_refs)
                      /\ WordsDone(arr, lbl_refs, k, r) /\ LabelsDone(lbls, k)
                      /\ RefsDone(lbl_refs, k)
                      /\ \A i \in 1 .. r - 1 : Matching(lbl_refs[i].label) # {}
<1>1. TextKnown /\ \E k, r : Linking(k, r)
  BY DEF Correct, LinesDone
<1>2. PICK k, r : Linking(k, r)
  BY <1>1
<1>3. k = Len(program) + 1 /\ k \in Nat \ {0}
  <2>1. Len(program) \in Nat
    BY <1>1, LinesAre
  <2> QED BY <1>2, <2>1 DEF Linking
<1>4. Done(arr, lbls, lbl_refs, k, r)
  BY <1>2 DEF Linking, ArraysDone
<1>5. Len(lbl_refs) \in Nat /\ DOMAIN lbl_refs = 1 .. Len(lbl_refs)
  <2>1. lbl_refs \in Seq([label : Tokens \cup {Nothing}, addr : Nat])
    BY <1>4 DEF Done, RefsDone
  <2> QED BY <2>1
<1> QED BY <1>1, <1>2, <1>3, <1>4, <1>5 DEF Linking, Done

(* The token of a reference, and what it finds. *)
LEMMA ReferenceIs ==
  ASSUME TextKnown, LabelsDone(lbls, Len(program) + 1),
         NEW j \in 1 .. Len(program), NEW ref, RefersAt(ref, j), Complete(program[j])
  PROVE  /\ Refers(program[j]) /\ ref.label = Last(program[j])
         /\ Matching(ref.label) = {} => Definitions(Last(program[j])) = {}
         /\ Matching(ref.label) # {} =>
              /\ Found(ref.label) \in Matching(ref.label)
              /\ lbls[Found(ref.label)].addr = AddressOf(Last(program[j]))
              /\ AddressOf(Last(program[j])) \in Nat
              /\ AddressOf(Last(program[j])) <= MaxImm(3)
<1> DEFINE t == Last(program[j])
<1>1. Refers(program[j]) /\ ref.label = t
  BY DEF RefersAt
<1>2. t \in Tokens
  <2>1. program[j] \in Seq(Tokens) /\ program[j] # <<>>
    BY LinesAre DEF IsLine
  <2>2. Len(program[j]) \in Nat /\ Len(program[j]) >= 1
    BY <2>1, EmptySeq
  <2>3. Len(program[j]) \in 1 .. Len(program[j])
    BY <2>2
  <2> QED BY <2>1, <2>3 DEF Last
<1> HIDE DEF t
<1>3. /\ Matching(t) = {} => Definitions(t) = {}
      /\ Matching(t) # {} =>
           /\ Definitions(t) # {} /\ Found(t) \in Matching(t)
           /\ lbls[Found(t)].addr = AddressOf(t)
           /\ AddressOf(t) \in Nat /\ AddressOf(t) <= MaxImm(3)
  BY <1>2, FoundIs
<1> QED BY <1>1, <1>3 DEF t

LEMMA ReferenceResolved ==
  ASSUME Correct, Resolve
  PROVE  Correct'
<1> DEFINE ref == lbl_refs[idx]
           t == ref.label
           v == lbls[Found(t)].addr
<1>1. /\ at = "resolve" /\ idx <= Len(lbl_refs) /\ Matching(t) # {} /\ idx' = idx + 1
      /\ arr' = [arr EXCEPT ![ref.addr + 1] = @ + v]
      /\ UNCHANGED <<program, text, at, lbls, lbl_refs, ret>>
  BY DEF Resolve, Resolving
<1>2. PICK k, r : /\ k = Len(program) + 1 /\ k \in Nat \ {0} /\ idx = r
                  /\ r \in 1 .. Len(lbl_refs) + 1 /\ Len(lbl_refs) \in Nat
                  /\ DOMAIN lbl_refs = 1 .. Len(lbl_refs)
                  /\ WordsDone(arr, lbl_refs, k, r) /\ LabelsDone(lbls, k)
                  /\ RefsDone(lbl_refs, k)
                  /\ \A i \in 1 .. r - 1 : Matching(lbl_refs[i].label) # {}
  BY <1>1, LinkingIs
<1>3. TextKnown
  BY <1>1, LinkingIs
<1>4. r \in 1 .. Len(lbl_refs) /\ ref = lbl_refs[r]
  BY <1>1, <1>2
<1>5. LabelsDone(lbls, Len(program) + 1) /\ Len(program) \in Nat
  BY <1>2, <1>3, LinesAre
<1>6. v \in Nat
  <2>1. Matching(t) \subseteq DOMAIN lbls /\ lbls \in Seq([label : Tokens, addr : Nat])
    BY <1>2 DEF Matching, LabelsDone
  <2>2. Found(t) \in Matching(t)
    <3> DEFINE M == Matching(t)
    <3>1. M \subseteq Nat /\ M # {}
      BY <1>1, <2>1
    <3> HIDE DEF M
    <3>2. \E i \in M : \A j \in M : i <= j
      BY <3>1, LeastNumber
    <3> QED BY <3>2 DEF M, Found
  <2> DEFINE f == Found(t)
             L == [label : Tokens, addr : Nat]
  <2>3. f \in DOMAIN lbls /\ lbls \in Seq(L)
    BY <2>1, <2>2
  <2>4. \A x \in L : x.addr \in Nat
    OBVIOUS
  <2> HIDE DEF f, L
  <2>5. lbls[f] \in L
    BY <2>3
  <2> QED BY <2>4, <2>5 DEF f
<1>7. \A j \in 1 .. k - 1 : RefersAt(lbl_refs[r], j) /\ Complete(program[j]) =>
        v = AddressOf(Last(program[j]))
  <2> SUFFICES ASSUME NEW j \in 1 .. k - 1, RefersAt(ref, j), Complete(program[j])
               PROVE  v = AddressOf(Last(program[j]))
    BY <1>4
  <2>1. j \in 1 .. Len(program)
    BY <1>2, <1>5
  <2> QED BY <1>1, <1>3, <1>5, <2>1, ReferenceIs
<1>8. WordsDone([arr EXCEPT ![ref.addr + 1] = @ + v], lbl_refs, k, r + 1)
  <2>1. Resolved(arr, lbl_refs, k, r, v)
    BY <1>2, <1>4, <1>6, <1>7 DEF Resolved
  <2> HIDE DEF v
  <2>2. WordsDone([arr EXCEPT ![lbl_refs[r].addr + 1] = @ + v], lbl_refs, k, r + 1)
    BY <2>1, ResolvedIs
  <2> QED BY <1>4, <2>2
<1>9. Done(arr', lbls', lbl_refs', k, r + 1)
  BY <1>1, <1>2, <1>8 DEF Done
<1>10. PICK m : m = r + 1
  OBVIOUS
<1>11. ArraysDone(k, m)'
  <2>1. PICK a, s, refs : a = arr' /\ s = lbls' /\ refs = lbl_refs'
    OBVIOUS
  <2>2. Done(a, s, refs, k, m)
    BY <1>9, <1>10, <2>1
  <2>3. arr' = a /\ lbls' = s /\ lbl_refs' = refs /\ program' = program
    BY <1>1, <2>1
  <2> QED BY ONLY <2>2, <2>3, SameDone
<1>12. \A i \in 1 .. m - 1 : Matching(lbl_refs[i].label) # {}
  <2>1. \A i \in 1 .. m - 1 : i \in 1 .. r - 1 \/ i = r
    BY <1>4, <1>10
  <2> QED BY <1>1, <1>2, <1>4, <2>1
<1>13. \A i \in 1 .. m - 1 : (Matching(lbl_refs[i].label) # {})'
  <2>1. \A x : Matching(x)' = Matching(x)
    BY <1>1 DEF Matching
  <2> QED BY <1>1, <1>12, <2>1 DEF Matching
<1>14. Linking(k, m)'
  <2>1. m \in 1 .. Len(lbl_refs) + 1 /\ idx' = m
    BY <1>1, <1>2, <1>4, <1>10
  <2> QED BY <1>1, <1>2, <1>11, <1>13, <2>1 DEF Linking
<1>15. (\E j, i : Linking(j, i))'
  BY <1>14
<1> QED BY <1>1, <1>15, Running

(* A reference that is not resolved. *)
LEMMA ReferenceUnknown ==
  ASSUME Correct, Undefined
  PROVE  Correct'
<1> DEFINE ref == lbl_refs[idx]
<1>1. /\ at = "resolve" /\ idx <= Len(lbl_refs) /\ Matching(ref.label) = {}
      /\ at' = "done" /\ ret' = FALSE /\ UNCHANGED <<program, text, starved>>
  BY DEF Undefined, Resolving, Returned
<1>2. PICK k, r : /\ k = Len(program) + 1 /\ k \in Nat \ {0} /\ idx = r
                  /\ r \in 1 .. Len(lbl_refs) + 1 /\ Len(lbl_refs) \in Nat
                  /\ LabelsDone(lbls, k) /\ RefsDone(lbl_refs, k)
  BY <1>1, LinkingIs
<1>3. TextKnown
  BY <1>1, LinkingIs
<1>4. r \in 1 .. Len(lbl_refs) /\ ref = lbl_refs[r]
  BY <1>1, <1>2
<1>5. PICK j \in 1 .. k - 1 : RefersAt(ref, j)
  BY <1>2, <1>4 DEF RefsDone
<1>6. j \in 1 .. Len(program) /\ j \in DOMAIN program
  <2>1. Len(program) \in Nat /\ DOMAIN program = 1 .. Len(program)
    BY <1>3, LinesAre
  <2> QED BY <1>2, <2>1
<1>7. Wrong(j)
  <2> SUFFICES ASSUME Complete(program[j])
               PROVE  Wrong(j)
    BY DEF Wrong
  <2>1. LabelsDone(lbls, Len(program) + 1)
    BY <1>2
  <2>2. Refers(program[j]) /\ Definitions(Last(program[j])) = {}
    BY <1>1, <1>3, <1>5, <1>6, <2>1, ReferenceIs
  <2> QED BY <2>2 DEF Wrong
<1> QED BY <1>1, <1>6, <1>7, Refusing

(* An operand that must be a register and is none. *)
LEMMA NoRegister ==
  ASSUME Correct, Malformed
  PROVE  Correct'
<1>1. /\ at = "scan" /\ idx <= Len(text) /\ Here.kind = "op" /\ ~RegistersGiven
      /\ at' = "done" /\ ret' = FALSE /\ UNCHANGED <<program, text, starved>>
  BY DEF Malformed, Scanning, Returned
<1>2. PICK k : AtLine(k)
  BY <1>1, ReadingIs
<1>3. TextKnown
  BY <1>1, ReadingIs
<1> DEFINE l == program[k]
<1>4. /\ k \in 1 .. Len(program) /\ IsLine(l) /\ Here = l[1]
      /\ Len(l) \in Nat /\ Len(l) >= 1
      /\ \A i \in 1 .. Len(l) - 1 : OperandAt(i) = l[i + 1]
  BY <1>1, <1>2, <1>3, HereIs
<1>5. k \in DOMAIN program
  BY <1>3, <1>4, LinesAre
<1>6. Wrong(k)
  <2> SUFFICES ASSUME Complete(l)
               PROVE  Wrong(k)
    BY DEF Wrong
  <2>1. Len(l) = 1 + n_args(l[1].n) /\ l[1].n \in acx .. exc
    BY <1>1, <1>4 DEF Complete, IsLine
  <2>2. n_args(l[1].n) \in {1, 3}
    BY DEF n_args
  <2>3. PICK i \in 1 .. n_args(l[1].n) - 1 : ~IsRegister(OperandAt(i))
    BY <1>1, <1>4 DEF RegistersGiven
  <2>4. OperandAt(i) = l[i + 1]
    BY <1>4, <2>1, <2>2
  <2>5. i + 1 \in 2 .. Len(l) - 1
    BY <2>1, <2>2
  <2>6. ~IsRegister(l[i + 1])
    BY <2>3, <2>4
  <2> QED BY <2>5, <2>6 DEF Wrong
<1> QED BY <1>1, <1>5, <1>6, Refusing

LEMMA NoMemory ==
  ASSUME Correct, NoArrays \/ NoAppend
  PROVE  Correct'
<1>1. /\ at' = "done" /\ ret' = FALSE /\ UNCHANGED <<program, text>>
      /\ text = <<>> \/ starved'
  BY DEF NoArrays, NoAppend, Starved, Returned
<1> QED BY <1>1, Refusing

-----------------------------------------------------------------------------
(* The program that is returned.                                           *)
LEMMA RoomGrows == MaxImm(3) \in Int /\ \A n \in {1, 3} : MaxImm(3) <= MaxImm(n)
<1>1. PICK h \in Nat : h >= 1 /\ Place(3 - 1) = 2 * h /\ MaxImm(3) = h - 1
  <2>1. 3 \in {1, 3}
    OBVIOUS
  <2> QED BY ONLY <2>1, RoomIs
<1>2. PICK g \in Nat : g >= 1 /\ Place(1 - 1) = 2 * g /\ MaxImm(1) = g - 1
  <2>1. 1 \in {1, 3}
    OBVIOUS
  <2> QED BY ONLY <2>1, RoomIs
<1>3. Place(2) <= Place(0)
  <2> DEFINE p0 == Place(0)
             p1 == Place(1)
             p2 == Place(2)
             q == num_regs
  <2>1. /\ p0 \in Nat /\ p1 \in Nat /\ p2 \in Nat /\ q \in Nat /\ q >= 2
        /\ p0 = q * p1 /\ p1 = q * p2
    <3>1. 0 \in 0 .. 3 /\ 1 \in 0 .. 3 /\ 2 \in 0 .. 3 /\ 1 \in 1 .. 3 /\ 2 \in 1 .. 3
          /\ 1 - 1 = 0 /\ 2 - 1 = 1
      OBVIOUS
    <3> QED BY <3>1, PlacesAre
  <2> HIDE DEF p0, p1, p2, q
  <2>2. \A x, y \in Nat : x >= 2 => y <= x * y
    OBVIOUS
  <2>3. p1 <= p0 /\ p2 <= p1
    BY <2>1, <2>2
  <2>4. p2 <= p0
    BY <2>1, <2>3
  <2> QED BY <2>4 DEF p0, p2
<1>4. 3 - 1 = 2 /\ 1 - 1 = 0
  OBVIOUS
<1>5. 2 * h <= 2 * g
  BY <1>1, <1>2, <1>3, <1>4
<1>6. MaxImm(3) \in Int /\ MaxImm(3) <= MaxImm(1)
  BY <1>1, <1>2, <1>5
<1> QED BY <1>6

LEMMA MeantIs ==
  \A l, a : Sound(l) /\ (Refers(l) => a = AddressOf(Last(l))) => Meant(l) = Seen(l, a)
<1> SUFFICES ASSUME NEW l, NEW a, Sound(l), Refers(l) => a = AddressOf(Last(l))
             PROVE  Meant(l) = Seen(l, a)
  OBVIOUS
<1>1. CASE Refers(l)
  BY <1>1 DEF Meant, Seen, ImmSeen
<1>2. CASE ~Refers(l)
  BY <1>2 DEF Meant, Seen, ImmSeen
<1> QED BY <1>1, <1>2

LEMMA FaithfulIs ==
  ASSUME Correct, at = "resolve", idx > Len(lbl_refs)
  PROVE  /\ Len(arr) = WordsBefore(Len(program) + 1)
         /\ \A k \in DOMAIN program :
              LET l == program[k]
                  w == arr[WordsBefore(k) + 1]
              IN  ~IsLabel(l) /\ Complete(l) =>
                    IF l[1].kind = "num" THEN w = l[1].n ELSE Decoded(w) = Meant(l)
<1>1. PICK z, r : /\ z = Len(program) + 1 /\ z \in Nat \ {0} /\ idx = r
                  /\ r \in 1 .. Len(lbl_refs) + 1 /\ Len(lbl_refs) \in Nat
                  /\ DOMAIN lbl_refs = 1 .. Len(lbl_refs)
                  /\ WordsDone(arr, lbl_refs, z, r) /\ LabelsDone(lbls, z)
                  /\ RefsDone(lbl_refs, z)
                  /\ \A i \in 1 .. r - 1 : Matching(lbl_refs[i].label) # {}
  BY LinkingIs
<1>2. TextKnown
  BY LinkingIs
<1>3. Len(program) \in Nat /\ DOMAIN program = 1 .. Len(program) /\ z - 1 = Len(program)
  BY <1>1, <1>2, LinesAre
<1>4. r = Len(lbl_refs) + 1
  BY <1>1
<1>5. LabelsDone(lbls, Len(program) + 1)
  BY <1>1
<1>6. ASSUME NEW k \in 1 .. Len(program), ~IsLabel(program[k]), Complete(program[k]),
             program[k][1].kind # "num"
      PROVE  Decoded(arr[WordsBefore(k) + 1]) = Meant(program[k])
  <2> DEFINE l == program[k]
             a == Added(lbl_refs, k, r)
  <2>1. Sound(l) /\ arr[WordsBefore(k) + 1] = HeadOf(l) + a
    BY <1>1, <1>3, <1>6 DEF WordsDone, Written
  <2>2. ASSUME Refers(l)
        PROVE  /\ a = AddressOf(Last(l))
               /\ AddressOf(Last(l)) \in Nat /\ AddressOf(Last(l)) <= MaxImm(3)
    <3>1. PICK i \in 1 .. Len(lbl_refs) : lbl_refs[i].addr = WordsBefore(k)
      BY <1>1, <1>3, <1>6, <2>2 DEF RefsDone
    <3>2. i < r /\ i \in DOMAIN lbl_refs /\ i \in 1 .. r - 1
      BY <1>1, <1>4
    <3>3. a = AddressOf(Last(l))
      BY <2>2, <3>1, <3>2 DEF Added
    <3>4. PICK j \in 1 .. Len(program) : RefersAt(lbl_refs[i], j)
      BY <1>1, <1>3 DEF RefsDone
    <3>5. j = k
      <4>1. WordsBefore(j) = WordsBefore(k) /\ ~IsLabel(program[j])
        BY <3>1, <3>4 DEF RefersAt, IsLabel
      <4>2. j \in Nat \ {0} /\ k \in Nat \ {0}
        OBVIOUS
      <4> QED BY <1>6, <4>1, <4>2, WordsDiffer
    <3>6. Matching(lbl_refs[i].label) # {}
      BY <1>1, <3>2
    <3> DEFINE ref == lbl_refs[i]
    <3>7. RefersAt(ref, k) /\ Matching(ref.label) # {}
      BY <3>4, <3>5, <3>6
    <3> HIDE DEF ref
    <3>8. AddressOf(Last(l)) \in Nat /\ AddressOf(Last(l)) <= MaxImm(3)
      BY <1>2, <1>5, <1>6, <3>7, ReferenceIs
    <3> QED BY <3>3, <3>8
  <2>3. Refers(l) \/ a = 0
    BY DEF Added
  <2> HIDE DEF a, l
  <2>4. Filled(l, a)
    <3> DEFINE n == n_args(l[1].n)
    <3>1. n \in {1, 3}
      BY <2>1, SoundIs
    <3> HIDE DEF n
    <3>2. MaxImm(3) \in Int /\ MaxImm(3) <= MaxImm(n)
      BY <3>1, RoomGrows
    <3>3. \E h \in Nat : h >= 1 /\ MaxImm(n) = h - 1
      BY <3>1, RoomIs
    <3>4. a \in Nat /\ a <= MaxImm(n)
      <4>1. CASE Refers(l)
        BY <2>2, <3>2, <3>3, <4>1
      <4>2. CASE ~Refers(l)
        BY <2>3, <3>3, <4>2
      <4> QED BY <4>1, <4>2
    <3> QED BY <2>1, <2>3, <3>4 DEF Filled, n
  <2>5. Decoded(HeadOf(l) + a) = Seen(l, a)
    BY <2>4, DecodedIs
  <2>6. Meant(l) = Seen(l, a)
    BY <2>1, <2>2, MeantIs
  <2> QED BY <2>1, <2>5, <2>6 DEF l
<1>7. ASSUME NEW k \in 1 .. Len(program), ~IsLabel(program[k]), Complete(program[k]),
             program[k][1].kind = "num"
      PROVE  arr[WordsBefore(k) + 1] = program[k][1].n
  BY <1>1, <1>3, <1>7 DEF WordsDone, Written
<1>8. Len(arr) = WordsBefore(Len(program) + 1)
  BY <1>1 DEF WordsDone
<1> QED BY <1>3, <1>6, <1>7, <1>8

LEMMA ProgramReturned ==
  ASSUME Correct, Compiled
  PROVE  Correct'
<1>1. /\ at = "resolve" /\ idx > Len(lbl_refs) /\ at' = "done" /\ ret' = TRUE
      /\ UNCHANGED <<program, text, arr>>
  BY DEF Compiled, Returned
<1>2. TextKnown'
  BY <1>1, SameText DEF Correct, LinesDone
<1>3. \A k : WordsBefore(k)' = WordsBefore(k)
  BY <1>1, SameProgram
<1>4. \A t : Definitions(t)' = Definitions(t) /\ AddressOf(t)' = AddressOf(t)
  BY <1>1, SameProgram
<1>5. \A l : Meant(l)' = Meant(l)
  BY <1>4 DEF Meant
<1>6. Faithful'
  <2>1. /\ Len(arr) = WordsBefore(Len(program) + 1)
        /\ \A k \in DOMAIN program :
             LET l == program[k]
                 w == arr[WordsBefore(k) + 1]
             IN  ~IsLabel(l) /\ Complete(l) =>
                   IF l[1].kind = "num" THEN w = l[1].n ELSE Decoded(w) = Meant(l)
    BY <1>1, FaithfulIs
  <2> QED BY <1>1, <1>3, <1>5, <2>1 DEF Faithful
<1> QED BY <1>1, <1>2, <1>6 DEF Correct, LinesDone, RefusedForReason

LEMMA Standing ==
  ASSUME Correct, UNCHANGED assembler
  PROVE  Correct'
<1>1. /\ program' = program /\ text' = text /\ at' = at /\ idx' = idx /\ arr' = arr
      /\ lbls' = lbls /\ lbl_refs' = lbl_refs /\ ret' = ret /\ starved' = starved
  BY DEF assembler
<1>2. /\ \A k : WordsBefore(k)' = WordsBefore(k)
      /\ \A t : Definitions(t)' = Definitions(t)
      /\ \A t : AddressOf(t)' = AddressOf(t)
  BY <1>1, SameProgram
<1>3. TextKnown'
  BY <1>1, SameText DEF Correct, LinesDone
<1>4. ASSUME NEW k, NEW r, ArraysDone(k, r)
      PROVE  ArraysDone(k, r)'
  <2>1. PICK a, s, refs : a = arr /\ s = lbls /\ refs = lbl_refs
    OBVIOUS
  <2>2. Done(a, s, refs, k, r)
    BY <1>4, <2>1 DEF ArraysDone
  <2>3. arr' = a /\ lbls' = s /\ lbl_refs' = refs /\ program' = program
    BY <1>1, <2>1
  <2> QED BY ONLY <2>2, <2>3, SameDone
<1>5. ASSUME NEW k, Reading(k)
      PROVE  Reading(k)'
  <2>1. Starts' = Starts
    BY <1>1 DEF Starts
  <2>2. AtLine(k)'
    BY <1>1, <1>5, <2>1 DEF Reading, AtLine
  <2> QED BY <1>4, <1>5, <2>2 DEF Reading
<1>6. ASSUME NEW k, NEW r, Linking(k, r)
      PROVE  Linking(k, r)'
  <2>1. \A t : Matching(t)' = Matching(t)
    BY <1>1 DEF Matching
  <2>2. ArraysDone(k, r)'
    BY <1>4, <1>6 DEF Linking
  <2>3. \A i \in 1 .. r - 1 : (Matching(lbl_refs[i].label) # {})'
    BY <1>1, <1>6, <2>1 DEF Linking, Matching
  <2> QED BY <1>1, <1>6, <2>2, <2>3 DEF Linking
<1>7. LinesDone'
  <2>1. at = "scan" => (\E k : Reading(k))'
    BY <1>5 DEF Correct, LinesDone
  <2>2. at = "resolve" => (\E k, r : Linking(k, r))'
    BY <1>6 DEF Correct, LinesDone
  <2> QED BY <1>1, <1>3, <2>1, <2>2 DEF Correct, LinesDone, Untouched
<1>8. LosesToken' = LosesToken
  BY <1>1 DEF LosesToken
<1>9. Faithful'
  <2>1. \A l : Meant(l)' = Meant(l)
    BY <1>2 DEF Meant
  <2> QED BY <1>1, <1>2, <1>8, <2>1 DEF Correct, Faithful
<1>10. RefusedForReason'
  BY <1>1, <1>2, <1>8 DEF Correct, RefusedForReason
<1> QED BY <1>7, <1>9, <1>10 DEF Correct

(* The text does not change, so whether it loses a token does not either.  *)
LEMMA SameLoss == [Compile]_assembler => LosesToken' = LosesToken
<1> SUFFICES ASSUME [Compile]_assembler
             PROVE  LosesToken' = LosesToken
  OBVIOUS
<1>1. program' = program
  BY DEF Compile, assembler, Arrays, NoArrays, Datum, Label, Instruction, Malformed, NoAppend,
         Scanned, Resolve, Undefined, Compiled, Starved, Returned
<1> QED BY <1>1 DEF LosesToken

LEMMA CorrectStep == Correct /\ ~LosesToken /\ [Compile]_assembler => Correct'
<1> SUFFICES ASSUME Correct, ~LosesToken, [Compile]_assembler
             PROVE  Correct'
  OBVIOUS
<1>1. CASE Arrays
  BY <1>1, FirstLine
<1>2. CASE NoArrays \/ NoAppend
  BY <1>2, NoMemory
<1>3. CASE Datum
  BY <1>3, DatumRead
<1>4. CASE Label
  BY <1>4, LabelRead
<1>5. CASE Instruction
  BY <1>5, InstructionRead
<1>6. CASE Malformed
  BY <1>6, NoRegister
<1>7. CASE Scanned
  BY <1>7, TextRead
<1>8. CASE Resolve
  BY <1>8, ReferenceResolved
<1>9. CASE Undefined
  BY <1>9, ReferenceUnknown
<1>10. CASE Compiled
  BY <1>10, ProgramReturned
<1>11. CASE UNCHANGED assembler
  BY <1>11, Standing
<1> QED
  BY <1>1, <1>2, <1>3, <1>4, <1>5, <1>6, <1>7, <1>8, <1>9, <1>10, <1>11 DEF Compile

(* With a label r that a line refers to, nothing is said of the arrays.    *)
Kept == LosesToken \/ Correct

LEMMA KeptStep == Kept /\ [Compile]_assembler => Kept'
  BY SameLoss, CorrectStep DEF Kept

(* What is compiled is what was written: for every program, width of words *)
(* and split of their bits, run sees in the word of each line the line's   *)
(* instruction, registers and signed number, and the address of the first  *)
(* definition of its label (compile's two loops, and run's decoding); but  *)
(* for a program in which a line before the last refers to the label r.    *)
THEOREM CompiledAsWritten == Compilation => []Faithful
<1>1. AnyProgram => Kept
  BY Beginning DEF Kept
<1>2. Kept => Faithful
  BY DEF Kept, Correct, Faithful
<1> QED  BY <1>1, KeptStep, <1>2, PTL DEF Compilation

(* compile refuses no program without a reason: there is no text, memory   *)
(* was short, a line lacks an operand, a register or the definition of its *)
(* label, or a reference to the label r has swallowed a token (compile's   *)
(* gotos to error).                                                        *)
THEOREM RefusedWithReason == Compilation => []RefusedForReason
<1>1. AnyProgram => Kept
  BY Beginning DEF Kept
<1>2. Kept => RefusedForReason
  BY DEF Kept, Correct, RefusedForReason
<1> QED  BY <1>1, KeptStep, <1>2, PTL DEF Compilation
===============================================================================
