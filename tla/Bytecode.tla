------------------------------ MODULE Bytecode ------------------------------
(***************************************************************************)
(* run: one instruction after the other, between exceptions.               *)
(*                                                                         *)
(* How exceptions are taken and returned from is in ExceptionDispatch; here *)
(* an exception is what it may do to the program that it interrupts: when  *)
(* it is over, the words above the stack pointer are others.  notes.txt    *)
(* lets a routine change nothing else.                                     *)
(*                                                                         *)
(* Memory has the words 0 .. MemSize - 1; a program that goes beyond them  *)
(* stops there and never returns.  Of a division by zero and of a  *)
(* quotient that does not fit, C says nothing; an AArch64 answers as here. *)
(***************************************************************************)
EXTENDS Encoding, Bitwise

CONSTANTS MemSize,
          Scratch   \* what exceptions leave above the stack pointer

VARIABLES regs,     \* and in register num_regs, the last immediate
          mem,
          phase     \* load, run, returned

machine == <<regs, mem, phase>>

exc_cont_mask == Half

(* The registers of init_regs. *)
InitMachine ==
  /\ regs = [r \in 0 .. num_regs |-> IF r = sr THEN exc_cont_mask ELSE 0]
  /\ mem = [a \in 0 .. MemSize - 1 |-> Scratch]
  /\ phase = "load"
-----------------------------------------------------------------------------
Abs(n) == IF n < 0 THEN -n ELSE n

(* C divides towards zero. *)
Quotient(m, n) ==
  IF n = 0 THEN 0
  ELSE IF (m < 0) = (n < 0) THEN Abs(m) \div Abs(n) ELSE -(Abs(m) \div Abs(n))

Remainder(m, n) == m - n * Quotient(m, n)

(* The whole width is undefined in C: the processor shifts by 0, a compiler *)
(* may as well leave nothing.                                              *)
Shifts(x, s) ==
  IF Abs(s) >= Bits THEN {x, 0}
  ELSE IF s < 0 THEN {(x * 2 ^ (-s)) % Base} ELSE {x \div 2 ^ s}

(* The low word of a product is the same with and without signs. *)
Values(op, x, y) ==
  CASE op = ads -> {(x + y) % Base}
    [] op = sbs -> {(x + Base - y) % Base}
    [] op \in {mls, mlu} -> {(Signed(x) * Signed(y)) % Base}
    [] op = and -> {x & y}
    [] op = orr -> {x | y}
    [] op = xor -> {x ^^ y}
    [] op = nor -> {Ones - (x | y)}
    [] op = shf -> Shifts(x, Signed(y))

Read(op, w) == IF op = dvs THEN Signed(w) ELSE w

(* The remainder is in rr before the quotient is worked out. *)
Divided(op, r, d, x, y) ==
  LET s == [r EXCEPT ![rr] = Remainder(Read(op, r[x]), Read(op, r[y])) % Base]
  IN  [s EXCEPT ![d] = Quotient(Read(op, s[x]), Read(op, s[y])) % Base]
-----------------------------------------------------------------------------
Instr == Decoded(mem[regs[pc]])

(* The registers with the immediate of the instruction. *)
Loaded == IF mem[regs[pc]] >= Half THEN regs ELSE [regs EXCEPT ![num_regs] = Instr.imm]

Arg(i) == Loaded[Instr.args[i]]

Address == (Arg(2) + Arg(3)) % Base

Running == phase = "run" /\ regs[pc] < MemSize

(* The end of a turn: the loop goes on while the bit in sr is set. *)
Then(r) ==
  LET next == [r EXCEPT ![pc] = (@ + 1) % Base]
  IN  /\ regs' = next
      /\ phase' = IF next[sr] >= exc_cont_mask THEN "run" ELSE "returned"

Compute ==
  /\ Running
  /\ Instr.op \in {ads, sbs, mls, mlu, and, orr, xor, nor, shf}
  /\ \E v \in Values(Instr.op, Arg(2), Arg(3)) : Then([Loaded EXCEPT ![Instr.args[1]] = v])
  /\ UNCHANGED mem

Divide ==
  /\ Running
  /\ Instr.op \in {dvs, dvu}
  /\ Then(Divided(Instr.op, Loaded, Instr.args[1], Instr.args[2], Instr.args[3]))
  /\ UNCHANGED mem

Load ==
  /\ Running
  /\ Instr.op = ldr
  /\ Address < MemSize
  /\ Then([Loaded EXCEPT ![Instr.args[1]] = mem[Address]])
  /\ UNCHANGED mem

Store ==
  /\ Running
  /\ Instr.op = str
  /\ Address < MemSize
  /\ mem' = [mem EXCEPT ![Address] = Arg(1)]
  /\ Then(Loaded)

Swap ==
  /\ Running
  /\ Instr.op = acx
  /\ Arg(1) < MemSize
  /\ mem' = [mem EXCEPT ![Arg(1)] = IF @ = Arg(2) THEN Arg(3) ELSE @]
  /\ Then([Loaded EXCEPT ![Instr.args[2]] = mem[Arg(1)]])

(* A jump to 0 ends the call from lisp. *)
Jump ==
  /\ Running
  /\ Instr.op = jnc
  /\ IF Arg(1) = 0 THEN Then(Loaded)
     ELSE /\ regs' = [Loaded EXCEPT ![pc] = Address]
          /\ phase' = IF Address = 0 \/ regs'[sr] < exc_cont_mask THEN "returned" ELSE "run"
  /\ UNCHANGED mem

(* An exception of the processor, and nothing else yet. *)
Supervisor ==
  /\ Running
  /\ Instr.op = exc
  /\ Then(Loaded)
  /\ UNCHANGED mem

(* None is raised before the program has set its stack up. *)
Exception ==
  /\ phase = "run"
  /\ regs[sp] # 0
  /\ mem' = [a \in DOMAIN mem |-> IF a > regs[sp] THEN Scratch ELSE mem[a]]
  /\ UNCHANGED <<regs, phase>>

Turn == Compute \/ Divide \/ Load \/ Store \/ Swap \/ Jump \/ Supervisor
=============================================================================
