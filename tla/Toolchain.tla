------------------------------ MODULE Toolchain ------------------------------
(***************************************************************************)
(* A program from its expressions to its value: compile.py writes it in    *)
(* assembler, compile makes bytecode of that, and run executes it, with    *)
(* exceptions between any two instructions.  A text of assembler that no   *)
(* program gives rise to is assembled only.                                *)
(***************************************************************************)
EXTENDS Bytecode, ExprCompiler, Assembler

CONSTANTS Sources,   \* programs as sequences of expressions
          Data       \* words at 1 .. Data are for the programs' own use

VARIABLE source

vars == <<source, assembler, machine>>

E == INSTANCE Expressions

Init ==
  /\ \/ source \in Sources /\ program = comp(source) /\ Begin
     \/ source = <<>> /\ AnyProgram
  /\ InitMachine

Assemble ==
  /\ Compile
  /\ UNCHANGED <<source, machine>>

Origin == Data + 1

(* The bytecode is in memory, and the text is not needed any more. *)
run_expr ==
  /\ source # <<>>
  /\ phase = "load"
  /\ at = "done"
  /\ ret
  /\ mem' = [a \in DOMAIN mem |-> IF a \in Origin .. Data + Len(arr) THEN arr[a - Data] ELSE mem[a]]
  /\ regs' = [regs EXCEPT ![pc] = Origin]
  /\ phase' = "run"
  /\ program' = <<>>
  /\ text' = <<>>
  /\ arr' = <<>>
  /\ lbls' = <<>>
  /\ lbl_refs' = <<>>
  /\ UNCHANGED <<source, at, idx, heap, ret, starved>>

Next ==
  \/ Assemble
  \/ run_expr
  \/ (Turn \/ Exception) /\ UNCHANGED <<source, assembler>>

Run == Turn /\ UNCHANGED <<source, assembler>>

(* The loop of run goes on whatever else happens. *)
Fairness == WF_vars(run_expr) /\ WF_vars(Run)

Spec == Init /\ [][Next]_vars /\ Fairness
-----------------------------------------------------------------------------
Meaning == E!Value(source, [a \in 1 .. Data |-> Scratch])

(* What a program computes, and stores, is what its expressions mean, though *)
(* exceptions overwrote what was above the stack pointer at any moments; r0  *)
(* and the stack are left as they were.                                     *)
Evaluates ==
  phase = "returned" =>
    /\ regs[rr] = Meaning.val
    /\ \A a \in 1 .. Data : mem[a] = Meaning.data[a]
    /\ regs[0] = 0
    /\ regs[fp] = regs[sp]

(* A program that was loaded ends, and on its way accesses no word that does *)
(* not exist: every loop, call and return goes where it should.             *)
Terminates == phase = "run" ~> phase = "returned"
=============================================================================
