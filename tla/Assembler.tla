------------------------------ MODULE Assembler ------------------------------
(***************************************************************************)
(* compile: a text of assembler into bytecode.                             *)
(*                                                                         *)
(* A program is a sequence of lines, and a line a sequence of tokens; the  *)
(* text is what comp_expr makes of it, all tokens with a blank after each, *)
(* the last included.  Lines mean nothing to compile.  It takes a token    *)
(* for what its place asks for, and what is no number, register or         *)
(* instruction where it stands for a label.                                *)
(*                                                                         *)
(* Any call of the allocator may find no memory.                           *)
(***************************************************************************)
EXTENDS Encoding, SequencesExt

CONSTANT Programs

Tokens == [kind : {"op", "reg", "num", "neg", "name"}, n : Int]

(* The name r, with which registers begin. *)
reg_des == Token("name", 0)

IsLabel(l) == l[1].kind \in {"reg", "neg", "name"}

Complete(l) == l[1].kind = "op" => Len(l) = 1 + n_args(l[1].n)

(* A datum, a label, or an instruction with some or all of its operands.   *)
(* Numbers have the digits of a word at most: longer ones are names.       *)
IsLine(l) ==
  /\ l \in Seq(Tokens) \ {<<>>}
  /\ \A i \in DOMAIN l : l[i].kind \in {"reg", "num", "neg"} => l[i].n \in Word
  /\ IF l[1].kind = "op" THEN l[1].n \in acx .. exc /\ Len(l) <= 1 + n_args(l[1].n)
     ELSE Len(l) = 1

(* Only the end of the text cuts an instruction short, and a text that is   *)
(* in memory has fewer lines than there are addresses to refer to.         *)
ASSUME ProgramsAssumption ==
  \A p \in Programs :
    /\ p \in Seq(Seq(Tokens)) /\ Len(p) <= MaxImm(3) + 1
    /\ \A k \in DOMAIN p : IsLine(p[k]) /\ (k < Len(p) => Complete(p[k]))

VARIABLES program, text,
          at,         \* start, scan, resolve, or done
          idx,        \* the next token, or the next of lbl_refs
          arr,        \* the words
          lbls, lbl_refs,
          heap,       \* the arrays that are allocated
          ret,        \* whether compile returned arr, or null
          starved     \* history: a call of the allocator failed

assembler == <<program, text, at, idx, arr, lbls, lbl_refs, heap, ret, starved>>

(* An operand after the end of the text. *)
Nothing == Token("nothing", 0)

Begin ==
  /\ text = FlattenSeq(program)
  /\ at = "start"
  /\ idx = 1
  /\ arr = <<>>
  /\ lbls = <<>>
  /\ lbl_refs = <<>>
  /\ heap = {}
  /\ ret = FALSE
  /\ starved = FALSE

AnyProgram == program \in Programs /\ Begin
-----------------------------------------------------------------------------
Returned(array, left) ==
  /\ at' = "done"
  /\ ret' = array
  /\ heap' = left
  /\ UNCHANGED <<program, text, idx, arr, lbls, lbl_refs>>

(* What the labels at the end free. *)
error2 == {"arr"}

(* A mistake: the first array is forgotten. *)
error1_short == {"lbl_refs"}

error1 == {"lbl_refs"} \cup error2
error  == {"lbls"} \cup error1

Starved ==
  /\ starved' = TRUE
  /\ Returned(FALSE, heap \ error)

Arrays ==
  /\ at = "start"
  /\ text # <<>>
  /\ heap' = {"arr", "lbl_refs", "lbls"}
  /\ at' = "scan"
  /\ UNCHANGED <<program, text, idx, arr, lbls, lbl_refs, ret, starved>>

NoArrays ==
  /\ at = "start"
  /\ \/ /\ text = <<>>
        /\ Returned(FALSE, {})
        /\ UNCHANGED starved
     \/ /\ text # <<>>
        /\ starved' = TRUE
        /\ \/ Returned(FALSE, {})
           \/ Returned(FALSE, {"arr"} \ error2)
           \/ Returned(FALSE, {"arr", "lbl_refs"} \ error1)
-----------------------------------------------------------------------------
(* The loop over the text.                                                 *)

Here == text[idx]

Scanning(kinds) ==
  /\ at = "scan"
  /\ idx <= Len(text)
  /\ Here.kind \in kinds

Datum ==
  /\ Scanning({"num"})
  /\ arr' = Append(arr, Here.n)
  /\ idx' = idx + 1
  /\ UNCHANGED <<program, text, at, lbls, lbl_refs, heap, ret, starved>>

(* A label is looked up by the place of its text, which is new: so it is    *)
(* appended, if there is one of the same name or not.                      *)
Label ==
  /\ Scanning({"reg", "neg", "name"})
  /\ lbls' = Append(lbls, [label |-> Here, addr |-> Len(arr)])
  /\ idx' = idx + 1
  /\ UNCHANGED <<program, text, at, arr, lbl_refs, heap, ret, starved>>

OperandAt(i) == IF idx + i <= Len(text) THEN text[idx + i] ELSE Nothing

IsRegister(t) == t.kind = "reg" /\ t.n < num_regs

(* All operands but the last are registers. *)
RegistersGiven == \A i \in 1 .. n_args(Here.n) - 1 : IsRegister(OperandAt(i))

Registers == [i \in 1 .. n_args(Here.n) - 1 |-> OperandAt(i).n]

(* A mistake: the highest number that fits is refused. *)
IsImmediate_below(op, t) == t.kind \in {"num", "neg"} /\ t.n < MaxImm(n_args(op))

IsImmediate(op, t) == t.kind \in {"num", "neg"} /\ t.n <= MaxImm(n_args(op))

LastBits(op, t) ==
  IF IsRegister(t) THEN LastRegister(op, t.n)
  ELSE IF ~IsImmediate(op, t) THEN 0
  ELSE IF t.kind = "neg" THEN LastNegative(op, t.n) ELSE t.n

(* Looking for the number of the register r takes the blank behind it, so   *)
(* that the rest of the label is the next token, if there is one.          *)
Swallowed(t) == IF t = reg_des THEN 1 ELSE 0

(* What is no register and no number that fits is a label, for later. *)
Instruction ==
  LET op   == Here.n
      last == OperandAt(n_args(op))
  IN  /\ Scanning({"op"})
      /\ RegistersGiven
      /\ arr' = Append(arr, InstrHead(op, Registers) + LastBits(op, last))
      /\ lbl_refs' = IF IsRegister(last) \/ IsImmediate(op, last) THEN lbl_refs
                     ELSE Append(lbl_refs, [label |-> last, addr |-> Len(arr)])
      /\ idx' = idx + n_args(op) + 1 + Swallowed(last)
      /\ UNCHANGED <<program, text, at, lbls, heap, ret, starved>>

Malformed ==
  /\ Scanning({"op"})
  /\ ~RegistersGiven
  /\ Returned(FALSE, heap \ error)
  /\ UNCHANGED starved

(* array_append finds no memory. *)
NoAppend ==
  /\ \/ Scanning({"num", "reg", "neg", "name"})
     \/ Scanning({"op"}) /\ RegistersGiven
  /\ Starved

Scanned ==
  /\ at = "scan"
  /\ idx > Len(text)
  /\ at' = "resolve"
  /\ idx' = 1
  /\ UNCHANGED <<program, text, arr, lbls, lbl_refs, heap, ret, starved>>
-----------------------------------------------------------------------------
(* The loop over the references to labels.                                 *)

(* The comparison of labels stops at the text's end: an operand that is     *)
(* not there equals every label.                                           *)
lbl_streq(ref, label) == ref = Nothing \/ ref = label

Matching(ref) == {i \in DOMAIN lbls : lbl_streq(ref, lbls[i].label)}

(* A mistake: a later definition replaces the first one. *)
Found_last(ref) == CHOOSE i \in Matching(ref) : \A j \in Matching(ref) : j <= i

Found(ref) == CHOOSE i \in Matching(ref) : \A j \in Matching(ref) : i <= j

Resolving == at = "resolve" /\ idx <= Len(lbl_refs)

(* The label's bits are still 0.  Addresses fit in them. *)
Resolve ==
  /\ Resolving
  /\ LET ref == lbl_refs[idx]
     IN  /\ Matching(ref.label) # {}
         /\ arr' = [arr EXCEPT ![ref.addr + 1] = @ + lbls[Found(ref.label)].addr]
  /\ idx' = idx + 1
  /\ UNCHANGED <<program, text, at, lbls, lbl_refs, heap, ret, starved>>

Undefined ==
  /\ Resolving
  /\ Matching(lbl_refs[idx].label) = {}
  /\ Returned(FALSE, heap \ error)
  /\ UNCHANGED starved

Compiled ==
  /\ at = "resolve"
  /\ idx > Len(lbl_refs)
  /\ Returned(TRUE, heap \ {"lbls", "lbl_refs"})
  /\ UNCHANGED starved

Compile ==
  \/ Arrays \/ NoArrays
  \/ Datum \/ Label \/ Instruction \/ Malformed \/ NoAppend \/ Scanned
  \/ Resolve \/ Undefined \/ Compiled

Compilation == AnyProgram /\ [][Compile]_assembler
-----------------------------------------------------------------------------
(* The program as its author reads it, line by line.                       *)

(* The words before a line, and the first line that defines a label. *)
WordsBefore(k) == Cardinality({j \in 1 .. k - 1 : ~IsLabel(program[j])})

Definitions(t) == {k \in DOMAIN program : IsLabel(program[k]) /\ program[k][1] = t}

AddressOf(t) == WordsBefore(CHOOSE k \in Definitions(t) : \A j \in Definitions(t) : k <= j)

Refers(l) ==
  /\ l[1].kind = "op"
  /\ ~IsRegister(Last(l))
  /\ ~(Last(l).kind \in {"num", "neg"} /\ 2 * Last(l).n < Place(n_args(l[1].n) - 1))

(* How run should see an instruction. *)
Meant(l) ==
  LET op == l[1].n
      n  == n_args(op)
      t  == Last(l)
      isReg == IsRegister(t)
  IN  [op   |-> op,
       args |-> [i \in 1 .. n |-> IF i = n /\ ~isReg THEN num_regs ELSE l[i + 1].n],
       imm  |-> IF isReg THEN 0
                ELSE IF Refers(l) THEN AddressOf(t)
                ELSE IF t.kind = "neg" THEN (Base - t.n) % Base ELSE t.n]

(* A reference to the label r loses the token after it: every line but the  *)
(* last has one.                                                           *)
LosesToken ==
  \E k \in 1 .. Len(program) - 1 : Refers(program[k]) /\ Last(program[k]) = reg_des

(* What is compiled is what was written, unless a token is lost: the word   *)
(* of a line is its datum, or run sees in it the line's instruction,        *)
(* registers and signed number, and for a label the number of words before  *)
(* its first definition.                                                   *)
Faithful ==
  ret /\ ~LosesToken =>
    /\ Len(arr) = WordsBefore(Len(program) + 1)
    /\ \A k \in DOMAIN program :
         LET l == program[k]
             w == arr[WordsBefore(k) + 1]
         IN  ~IsLabel(l) /\ Complete(l) =>
               IF l[1].kind = "num" THEN w = l[1].n ELSE Decoded(w) = Meant(l)

(* However compile ends, of its arrays only the result is left. *)
NothingLeaks == at = "done" => heap = IF ret THEN {"arr"} ELSE {}

(* compile refuses a program only if it is empty, if memory was short, if a *)
(* token is lost, or if a line is not complete, has no register where it    *)
(* needs one or names a label that is not defined.                         *)
RefusedForReason ==
  at = "done" /\ ~ret =>
    \/ text = <<>>
    \/ starved
    \/ LosesToken
    \/ \E k \in DOMAIN program :
         LET l == program[k]
         IN  \/ ~Complete(l)
             \/ Refers(l) /\ Definitions(Last(l)) = {}
             \/ \E j \in 2 .. Len(l) - 1 : ~IsRegister(l[j])
=============================================================================
