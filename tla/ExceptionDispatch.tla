-------------------------- MODULE ExceptionDispatch --------------------------
(***************************************************************************)
(* How the bytecode machine (run) takes exceptions and returns from them.  *)
(*                                                                         *)
(* Before every instruction run asks the exception queue, here in the form *)
(* of its promise, ExceptionQueue.  An exception is taken by pushing a     *)
(* frame on the program's own stack: the words that the queue handed over, *)
(* then lr; lr gets the address of the instruction that was not executed,  *)
(* pc that of the program's exception routine.  Nothing masks exceptions,  *)
(* so a routine is interrupted too, after its first instruction if another *)
(* exception is waiting.                                                   *)
(*                                                                         *)
(* The program is any that keeps to notes.txt: stack is allocated before   *)
(* it is used, and a routine leaves the words below its own as they were,  *)
(* gives back what it allocated and restores the registers it used.  The   *)
(* machine changes no registers but pc, lr and sp; the others are left     *)
(* out.  The stack grows upwards from word 1, and sp is its last word.     *)
(***************************************************************************)
EXTENDS Integers, Sequences

CONSTANTS Exc,            \* exception numbers
          Threshold,      \* the backlog below which none is refused
          MaxWord,        \* words are 0 .. MaxWord, in the machine 2^64 - 1
          exc_num_sz,     \* concurrent_fifo_item_sz: it counts the tag's word
          StackSize,      \* words that the program has for its stack
          ir,             \* the address of the exception routine
          MaxExceptions   \* TLC bound: how many exceptions are raised

Word == 0 .. MaxWord

ASSUME WordAssumption == MaxWord \in Nat /\ Exc \subseteq Word /\ ir \in Word
ASSUME SizesAssumption == exc_num_sz \in Nat \ {0} /\ StackSize \in Nat

VARIABLES accepted, delivered, dropped,  \* the queue
          at,       \* run is about to pop, or to execute an instruction;
                    \* or it has returned
          cont,     \* regs[sr] & exc_cont_mask
          pc, lr, sp,
          mem,      \* the words of the stack
          saved     \* history: the interrupted routines, innermost last

queue == <<accepted, delivered, dropped>>
vars  == <<queue, at, cont, pc, lr, sp, mem, saved>>

Q == INSTANCE ExceptionQueue

FrameSize == 1 + exc_num_sz

(* The stack of the running routine begins above the frame that was pushed *)
(* when it was entered; the words up to there belong to others.            *)
Base(c) == c.sp + FrameSize

Floor == IF saved = <<>> THEN 0 ELSE Base(saved[Len(saved)])

Upto(m, n) == [i \in 1 .. n |-> m[i]]

Init ==
  /\ Q!Init
  /\ at = "returned"
  /\ cont = TRUE
  /\ pc = 0
  /\ lr = 0
  /\ sp = 0
  /\ mem \in [1 .. StackSize -> Word]
  /\ saved = <<>>
-----------------------------------------------------------------------------
(* Exceptions come at any time. *)
Raise(e) ==
  /\ Len(accepted) + dropped < MaxExceptions
  /\ Q!Accept(e) \/ Q!Refuse

Arrive ==
  /\ \E e \in Exc : Raise(e)
  /\ UNCHANGED <<at, cont, pc, lr, sp, mem, saved>>

(* The loop of run.  It ends when the program has cleared exc_cont_mask.   *)
run_expr(p) ==
  /\ at = "returned"
  /\ cont
  /\ at' = "pop"
  /\ pc' = p
  /\ UNCHANGED <<queue, cont, lr, sp, mem, saved>>

NothingPending ==
  /\ at = "pop"
  /\ Q!Backlog = 0
  /\ at' = "execute"
  /\ UNCHANGED <<queue, cont, pc, lr, sp, mem, saved>>

Interrupted(e) == [pc |-> pc, lr |-> lr, sp |-> sp, stack |-> Upto(mem, sp),
                   exc |-> e]

(* A mistake: lr overwrites the last of the queue's words.                 *)
Framed_short(e, rest) ==
  [i \in 1 .. StackSize |->
     IF i = sp + exc_num_sz THEN lr
     ELSE IF i = sp + 1 THEN e
     ELSE IF i \in sp + 2 .. sp + exc_num_sz THEN rest[i] ELSE mem[i]]

(* The queue fills the first word of exc_num.  The others, one in fact,    *)
(* are copied to the stack uninitialised: rest.                            *)
Framed(e, rest) ==
  [i \in 1 .. StackSize |->
     IF i = sp + FrameSize THEN lr
     ELSE IF i = sp + 1 THEN e
     ELSE IF i \in sp + 2 .. sp + exc_num_sz THEN rest[i] ELSE mem[i]]

Pushed == sp + FrameSize

(* The machine does not know where the stack ends: that there is room is   *)
(* up to the program.                                                      *)
Dispatch ==
  /\ at = "pop"
  /\ sp + FrameSize <= StackSize
  /\ Q!Deliver
  /\ LET e == accepted[Len(delivered) + 1]
     IN  /\ \E rest \in [sp + 2 .. sp + exc_num_sz -> Word] :
              mem' = Framed(e, rest)
         /\ saved' = Append(saved, Interrupted(e))
  /\ sp' = Pushed
  /\ lr' = pc
  /\ pc' = ir
  /\ at' = "execute"
  /\ UNCHANGED cont
-----------------------------------------------------------------------------
(* Instructions.  Those that are not listed change other registers.        *)

Executed(p) == at = "execute" /\ at' = "pop" /\ pc' = p

Following == (pc + 1) % (MaxWord + 1)

(* Any instruction with lr as its target, as those before a call. *)
SetLr(w) ==
  /\ Executed(Following)
  /\ lr' = w
  /\ UNCHANGED <<queue, cont, sp, mem, saved>>

(* Stack is allocated and given back. *)
SetSp(n) ==
  /\ Executed(Following)
  /\ sp' = n
  /\ UNCHANGED <<queue, cont, lr, mem, saved>>

str(i, w) ==
  /\ Executed(Following)
  /\ mem' = [mem EXCEPT ![i] = w]
  /\ UNCHANGED <<queue, cont, lr, sp, saved>>

jnc(p) ==
  /\ p # 0
  /\ Executed(p)
  /\ UNCHANGED <<queue, cont, lr, sp, mem, saved>>

(* A jump to 0 ends the call from lisp; an exception routine makes none.   *)
jnc_zero ==
  /\ saved = <<>>
  /\ at = "execute"
  /\ at' = "returned"
  /\ pc' = 0
  /\ UNCHANGED <<queue, cont, lr, sp, mem, saved>>

ClearSr ==
  /\ at = "execute"
  /\ at' = "returned"
  /\ pc' = Following
  /\ cont' = FALSE
  /\ UNCHANGED <<queue, lr, sp, mem, saved>>

(* svc: the processor's vector adds to the queue, or is refused. *)
exc(e) ==
  /\ Executed(Following)
  /\ Raise(e)
  /\ UNCHANGED <<cont, lr, sp, mem, saved>>

(* exc -1 goes on at lr without the increment of pc. *)
Returned == lr

(* A mistake: the word for lr is not given back. *)
Popped_short == sp - exc_num_sz

Popped == sp - FrameSize

(* exc -1 in a routine that has lr and sp as they were on entry.           *)
eret ==
  /\ saved # <<>>
  /\ sp = Floor
  /\ lr = saved[Len(saved)].pc
  /\ Executed(Returned)
  /\ lr' = mem[sp]
  /\ sp' = Popped
  /\ saved' = SubSeq(saved, 1, Len(saved) - 1)
  /\ UNCHANGED <<queue, cont, mem>>

Loop == NothingPending \/ Dispatch

Instruction ==
  \/ \E w \in Word : SetLr(w) \/ jnc(w)
  \/ \E n \in Floor .. StackSize : SetSp(n)
  \/ \E i \in Floor + 1 .. sp, w \in Word : str(i, w)
  \/ jnc_zero
  \/ ClearSr
  \/ \E e \in Exc : exc(e)
  \/ eret

Next ==
  \/ Arrive
  \/ \E p \in Word : run_expr(p)
  \/ Loop
  \/ Instruction

Spec == Init /\ [][Next]_vars
-----------------------------------------------------------------------------
Record == [pc : Word, lr : Word, sp : 0 .. StackSize, stack : Seq(Word),
           exc : Exc]

(* Registers and stack hold words, and sp stays in the stack. *)
TypeOK ==
  /\ accepted \in Seq(Exc)
  /\ delivered \in Seq(Exc)
  /\ dropped \in Nat
  /\ at \in {"pop", "execute", "returned"}
  /\ cont \in BOOLEAN
  /\ pc \in Word
  /\ lr \in Word
  /\ sp \in 0 .. StackSize
  /\ mem \in [1 .. StackSize -> Word]
  /\ saved \in Seq(Record)

Intact(m, c) ==
  /\ m[c.sp + 1] = c.exc
  /\ m[Base(c)] = c.lr
  /\ Upto(m, c.sp) = c.stack

(* As long as routines are running, however deep, the frame of each has    *)
(* its exception and the lr it interrupted, where the routine and eret     *)
(* look for them, and the stack below is as it was at the interrupt.       *)
FramesIntact == \A k \in DOMAIN saved : Intact(mem, saved[k])

(* Frames and the routines' own words do not overlap. *)
FramesApart ==
  /\ \A j, k \in DOMAIN saved : j < k => Base(saved[j]) <= saved[k].sp
  /\ Floor <= sp

IInv == TypeOK /\ FramesIntact /\ FramesApart

(* What was interrupted goes on as if nothing had happened: at the same    *)
(* instruction, with its lr, its sp and its stack.                         *)
ResumesInterrupted ==
  [][saved' # saved /\ Len(saved') < Len(saved) =>
       LET c == saved[Len(saved)]
       IN  /\ <<pc, lr, sp>>' = <<c.pc, c.lr, c.sp>>
           /\ Upto(mem', sp') = c.stack]_vars
=============================================================================
