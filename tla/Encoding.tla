------------------------------ MODULE Encoding ------------------------------
(***************************************************************************)
(* The words of bytecode programs.  From the top: a bit that says that the *)
(* last operand is a register, the opcode, a register for each operand but *)
(* the last, and the last one: a register, or a number that fills the rest *)
(* of the word and is negative if its highest bit is set.                  *)
(*                                                                         *)
(* compile writes these words, and run takes them apart.                   *)
(***************************************************************************)
EXTENDS Words, Sequences

CONSTANTS opcode_len,  \* 8, with the bit for the last operand
          arg_size     \* 5: bits of a register's number

ASSUME EncodingAssumption ==
  /\ opcode_len \in 5 .. Bits
  /\ arg_size \in Nat \ {0}
  /\ opcode_len + 3 * arg_size <= Bits

num_regs == Power(2, arg_size)

opcode_start == Bits - opcode_len

acx == 0
ads == 1
sbs == 2
mls == 3
mlu == 4
dvs == 5
dvu == 6
and == 7
orr == 8
xor == 9
nor == 10
shf == 11
ldr == 12
str == 13
jnc == 14
exc == 15

(* The registers that run itself or its callers know. *)
sp == num_regs - 8
fp == num_regs - 7
bp == num_regs - 6
lr == num_regs - 5
rr == num_regs - 3
pc == num_regs - 2
sr == num_regs - 1

(* The tokens of assembler: op, reg, num, neg (a number after a minus), and *)
(* name.                                                                   *)
Token(kind, n) == [kind |-> kind, n |-> n]

n_args(op) == IF op = exc THEN 1 ELSE 3

(* The place of the opcode, and of each operand if it is a register. *)
Places == [i \in 0 .. 3 |-> Power(2, opcode_start - i * arg_size)]

Place(i) == Places[i]

get_flx_op_mask(n) == Place(n - 1) - 1

(* The largest number that is taken for an operand: a bit is for the sign. *)
MaxImm(n) == get_flx_op_mask(n) \div 2

instr_uses_reg == Half
-----------------------------------------------------------------------------
(* What compile puts together: the opcode and the operands before the last; *)
(* then a register, or a number with its sign.                             *)
InstrHead(op, r) ==
  op * Place(0) + (IF Len(r) >= 1 THEN r[1] * Place(1) ELSE 0)
                + (IF Len(r) >= 2 THEN r[2] * Place(2) ELSE 0)

LastRegister(op, r) == r * Place(n_args(op)) + instr_uses_reg

LastNegative(op, v) == (Base - v) % (get_flx_op_mask(n_args(op)) + 1)
-----------------------------------------------------------------------------
(* What run takes apart. *)
OpcodeOf(w) == (w % Half) \div Place(0)

Immediate(w, n) ==
  LET imm == w % (get_flx_op_mask(n) + 1)
  IN  IF imm > MaxImm(n) THEN imm + Base - (get_flx_op_mask(n) + 1) ELSE imm

(* The last operand as run sees it: its register, or register num_regs with *)
(* the number that it put there.                                           *)
Decoded(w) ==
  LET op == OpcodeOf(w)
      n == n_args(op)
      isReg == w >= Half
  IN  [op   |-> op,
       args |-> [i \in 1 .. n |->
                   IF i = n /\ ~isReg THEN num_regs ELSE (w \div Place(i)) % num_regs],
       imm  |-> IF isReg THEN 0 ELSE Immediate(w, n)]
=============================================================================
