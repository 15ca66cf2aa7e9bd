----------------------- MODULE ExceptionDispatch_proofs -----------------------
(***************************************************************************)
(* For words, stacks and frames of any size, and any nesting: the frames   *)
(* of the running exception routines stay intact, and what was interrupted *)
(* is resumed as it was.                                                   *)
(***************************************************************************)
EXTENDS ExceptionDispatch, SequenceTheorems, TLAPS

LEMMA SavedTypes ==
  ASSUME NEW s \in Seq(Record)
  PROVE  /\ Len(s) \in Nat
         /\ DOMAIN s = 1 .. Len(s)
         /\ \A k \in 1 .. Len(s) : s[k].sp \in 0 .. StackSize
<1>1. Len(s) \in Nat /\ DOMAIN s = 1 .. Len(s)
  OBVIOUS
<1>2. \A k \in 1 .. Len(s) : s[k] \in Record
  OBVIOUS
<1>3. \A r \in Record : r.sp \in 0 .. StackSize
  BY DEF Record
<1> QED  BY <1>1, <1>2, <1>3

(* Every frame ends at or below the stack of the running routine. *)
LEMMA FramesBelow ==
  ASSUME saved \in Seq(Record), FramesApart
  PROVE  \A k \in DOMAIN saved :
           /\ saved[k].sp \in Nat
           /\ Base(saved[k]) <= Floor
           /\ Floor = Base(saved[Len(saved)])
<1>1. /\ Len(saved) \in Nat
      /\ DOMAIN saved = 1 .. Len(saved)
      /\ \A k \in 1 .. Len(saved) : saved[k].sp \in 0 .. StackSize
  BY SavedTypes
<1> SUFFICES ASSUME NEW k \in 1 .. Len(saved)
             PROVE  /\ saved[k].sp \in Nat
                    /\ Base(saved[k]) <= Floor
                    /\ Floor = Base(saved[Len(saved)])
  BY <1>1
<1>2. Floor = Base(saved[Len(saved)])
  BY <1>1 DEF Floor
<1>3. Base(saved[k]) \in Nat /\ saved[k].sp \in Nat
  BY <1>1, SizesAssumption DEF Base, FrameSize
<1>4. CASE k = Len(saved)
  BY <1>2, <1>3, <1>4
<1>5. CASE k < Len(saved)
  <2>1. Base(saved[k]) <= saved[Len(saved)].sp
    BY <1>1, <1>5 DEF FramesApart
  <2>2. saved[Len(saved)].sp \in Nat
    BY <1>1
  <2> QED  BY <2>1, <2>2, <1>2, <1>3, SizesAssumption DEF Base, FrameSize
<1> QED  BY <1>1, <1>4, <1>5

LEMMA FloorType ==
  ASSUME IInv
  PROVE  Floor \in Nat /\ Floor <= sp /\ sp \in 0 .. StackSize
<1>1. Floor <= sp /\ sp \in 0 .. StackSize
  BY DEF IInv, TypeOK, FramesApart
<1>2. CASE saved = <<>>
  BY <1>1, <1>2 DEF Floor
<1>3. CASE saved # <<>>
  <2>1. Len(saved) \in DOMAIN saved
    BY <1>3, SavedTypes DEF IInv, TypeOK
  <2>2. saved[Len(saved)].sp \in Nat
    BY <2>1, FramesBelow DEF IInv, TypeOK
  <2> QED  BY <1>1, <1>3, <2>2, SizesAssumption DEF Floor, Base, FrameSize
<1> QED  BY <1>2, <1>3

(* A frame is untouched when the words up to its end are.  This is what    *)
(* the rule of notes.txt gives the machine.                                *)
LEMMA FramesKept ==
  ASSUME IInv, NEW m, \A i \in 1 .. Floor : m[i] = mem[i]
  PROVE  \A k \in DOMAIN saved : Intact(m, saved[k])
<1> SUFFICES ASSUME NEW k \in DOMAIN saved
             PROVE  Intact(m, saved[k])
  OBVIOUS
<1>1. saved[k].sp \in Nat /\ Base(saved[k]) <= Floor /\ Floor \in Nat
  BY FramesBelow, FloorType DEF IInv, TypeOK
<1>2. /\ saved[k].sp + 1 \in 1 .. Floor
      /\ Base(saved[k]) \in 1 .. Floor
      /\ \A i \in 1 .. saved[k].sp : i \in 1 .. Floor
  BY <1>1, SizesAssumption DEF Base, FrameSize
<1>3. Upto(m, saved[k].sp) = Upto(mem, saved[k].sp)
  BY <1>2 DEF Upto
<1>4. Intact(mem, saved[k])
  BY DEF IInv, FramesIntact
<1> QED  BY <1>2, <1>3, <1>4 DEF Intact
-----------------------------------------------------------------------------
LEMMA FollowingType ==
  ASSUME IInv
  PROVE  Following \in Word
BY WordAssumption DEF IInv, TypeOK, Following, Word

LEMMA RaiseType ==
  ASSUME IInv, NEW e \in Exc, Raise(e)
  PROVE  /\ accepted' \in Seq(Exc)
         /\ delivered' \in Seq(Exc)
         /\ dropped' \in Nat
<1>1. CASE Q!Accept(e)
  <2>1. /\ accepted' = Append(accepted, e)
        /\ delivered' = delivered
        /\ dropped' = dropped
    BY <1>1 DEF Q!Accept
  <2> QED  BY <2>1 DEF IInv, TypeOK
<1>2. CASE Q!Refuse
  <2>1. /\ dropped' = dropped + 1
        /\ accepted' = accepted
        /\ delivered' = delivered
    BY <1>2 DEF Q!Refuse
  <2> QED  BY <2>1 DEF IInv, TypeOK
<1> QED  BY <1>1, <1>2 DEF Raise

(* Steps that leave the frames alone and change the stack above them only. *)
LEMMA OwnWordsOnly ==
  ASSUME IInv, UNCHANGED saved,
         sp' \in Floor .. StackSize,
         mem' \in [1 .. StackSize -> Word],
         \A i \in 1 .. Floor : mem'[i] = mem[i]
  PROVE  FramesIntact' /\ FramesApart'
<1>1. FramesIntact'
  BY FramesKept DEF FramesIntact
<1>2. FramesApart'
  BY FloorType DEF IInv, FramesApart, Floor
<1> QED  BY <1>1, <1>2

LEMMA StackUntouched ==
  ASSUME IInv, UNCHANGED <<sp, mem, saved>>
  PROVE  FramesIntact' /\ FramesApart'
BY FloorType, OwnWordsOnly DEF IInv, TypeOK
-----------------------------------------------------------------------------
LEMMA InitIInv == Init => IInv
<1> SUFFICES ASSUME Init PROVE IInv
  OBVIOUS
<1>1. TypeOK
  <2>1. accepted = <<>> /\ delivered = <<>> /\ dropped = 0 /\ saved = <<>>
    BY DEF Init, Q!Init
  <2>2. 0 \in Word /\ 0 \in 0 .. StackSize
    BY WordAssumption, SizesAssumption DEF Word
  <2> QED  BY <2>1, <2>2 DEF Init, TypeOK
<1>2. saved = <<>> /\ sp = 0 /\ DOMAIN saved = {}
  BY DEF Init
<1> QED  BY <1>1, <1>2 DEF IInv, FramesIntact, FramesApart, Floor

(* The frame is pushed above the interrupted routine's words. *)
LEMMA DispatchKeeps == IInv /\ Dispatch => IInv'
<1> SUFFICES ASSUME IInv, Dispatch PROVE IInv'
  OBVIOUS
<1> DEFINE e == accepted[Len(delivered) + 1]
           c == Interrupted(e)
<1>1. PICK rest \in [sp + 2 .. sp + exc_num_sz -> Word] : mem' = Framed(e, rest)
  BY DEF Dispatch
<1>2. /\ saved' = Append(saved, c)
      /\ sp' = sp + FrameSize
      /\ sp + FrameSize <= StackSize
      /\ lr' = pc /\ pc' = ir /\ at' = "execute" /\ cont' = cont
  BY DEF Dispatch, Pushed
<1>3. /\ e \in Exc
      /\ delivered' = Append(delivered, e)
      /\ accepted' = accepted /\ dropped' = dropped
  <2>1. /\ accepted \in Seq(Exc) /\ delivered \in Seq(Exc)
        /\ Len(accepted) - Len(delivered) > 0
    BY DEF IInv, TypeOK, Dispatch, Q!Deliver, Q!Backlog
  <2>2. Len(delivered) + 1 \in 1 .. Len(accepted)
    BY <2>1
  <2> QED  BY <2>1, <2>2 DEF Dispatch, Q!Deliver
<1>4. sp \in 0 .. StackSize /\ FrameSize \in Nat \ {0, 1}
      /\ exc_num_sz \in Nat \ {0} /\ StackSize \in Nat
      /\ FrameSize = 1 + exc_num_sz
  BY SizesAssumption DEF IInv, TypeOK, FrameSize
<1>5. c \in Record
  <2>1. Upto(mem, sp) \in Seq(Word)
    <3>1. Upto(mem, sp) \in [1 .. sp -> Word]
      BY <1>4 DEF Upto, IInv, TypeOK
    <3> QED  BY <3>1, <1>4
  <2> QED  BY <2>1, <1>3, <1>4 DEF Interrupted, Record, IInv, TypeOK
<1>6. mem' \in [1 .. StackSize -> Word]
  <2>1. lr \in Word /\ e \in Word /\ mem \in [1 .. StackSize -> Word]
    BY <1>3, WordAssumption DEF IInv, TypeOK
  <2> QED  BY <1>1, <2>1 DEF Framed
<1>7. TypeOK'
  <2>1. saved' \in Seq(Record) /\ delivered' \in Seq(Exc)
    BY <1>2, <1>3, <1>5 DEF IInv, TypeOK
  <2>2. sp' \in 0 .. StackSize
    BY <1>2, <1>4
  <2>3. pc' \in Word /\ lr' \in Word
    BY <1>2, WordAssumption DEF IInv, TypeOK
  <2> QED  BY <1>2, <1>3, <1>6, <2>1, <2>2, <2>3 DEF IInv, TypeOK
<1>8. /\ Len(saved) \in Nat
      /\ DOMAIN saved = 1 .. Len(saved)
      /\ DOMAIN saved' = 1 .. Len(saved) + 1
      /\ Len(saved') = Len(saved) + 1
      /\ saved'[Len(saved) + 1] = c
      /\ \A k \in 1 .. Len(saved) : saved'[k] = saved[k]
  <2>1. saved \in Seq(Record)
    BY DEF IInv, TypeOK
  <2> QED  BY <2>1, <1>2, <1>5
<1>9. /\ c.sp = sp /\ c.exc = e /\ c.lr = lr /\ c.stack = Upto(mem, sp)
      /\ Base(c) = sp + FrameSize
  BY DEF Interrupted, Base
<1>10. \A i \in 1 .. sp : mem'[i] = mem[i]
  <2>1. \A i \in 1 .. sp : /\ i \in 1 .. StackSize /\ i # sp + FrameSize
                           /\ i # sp + 1 /\ i \notin sp + 2 .. sp + exc_num_sz
    BY <1>4
  <2> QED  BY <1>1, <2>1 DEF Framed
<1>11. FramesIntact'
  <2>1. \A k \in DOMAIN saved : Intact(mem', saved[k])
    <3>1. \A i \in 1 .. Floor : mem'[i] = mem[i]
      BY <1>4, <1>10, FloorType
    <3> QED  BY <3>1, FramesKept
  <2>2. Intact(mem', c)
    <3>1. mem'[sp + 1] = e /\ mem'[sp + FrameSize] = lr
      BY <1>1, <1>2, <1>4 DEF Framed
    <3>2. Upto(mem', sp) = Upto(mem, sp)
      BY <1>10 DEF Upto
    <3> QED  BY <3>1, <3>2, <1>9 DEF Intact
  <2> QED  BY <2>1, <2>2, <1>8 DEF FramesIntact
<1>12. FramesApart'
  <2>1. Floor' = sp'
    BY <1>2, <1>8, <1>9 DEF Floor, Base, FrameSize
  <2>2. \A k \in 1 .. Len(saved) : Base(saved[k]) <= sp /\ Base(saved[k]) \in Nat
    <3> SUFFICES ASSUME NEW k \in 1 .. Len(saved)
                 PROVE  Base(saved[k]) <= sp /\ Base(saved[k]) \in Nat
      OBVIOUS
    <3>1. saved[k].sp \in Nat /\ Base(saved[k]) <= Floor
      BY <1>8, FramesBelow DEF IInv, TypeOK
    <3>2. Base(saved[k]) \in Nat
      BY <3>1, <1>4 DEF Base
    <3> QED  BY <3>1, <3>2, <1>4, FloorType
  <2>3. ASSUME NEW j \in DOMAIN saved', NEW k \in DOMAIN saved', j < k
        PROVE  Base(saved'[j]) <= saved'[k].sp
    <3>1. j \in 1 .. Len(saved)
      BY <1>8, <2>3
    <3>2. CASE k = Len(saved) + 1
      BY <3>1, <3>2, <2>2, <1>8, <1>9
    <3>3. CASE k \in 1 .. Len(saved)
      BY <3>1, <3>3, <2>3, <1>8 DEF IInv, FramesApart
    <3> QED  BY <3>2, <3>3, <1>8
  <2> QED  BY <2>1, <2>3, <1>2, <1>4 DEF FramesApart, Base, FrameSize
<1> QED  BY <1>7, <1>11, <1>12 DEF IInv

(* What eret finds in the innermost frame. *)
LEMMA EretRestores ==
  ASSUME IInv, eret
  PROVE  LET c == saved[Len(saved)]
         IN  /\ Len(saved) \in DOMAIN saved
             /\ c \in Record
             /\ pc' = c.pc /\ lr' = c.lr /\ sp' = c.sp
             /\ Upto(mem', sp') = c.stack
<1> DEFINE c == saved[Len(saved)]
<1>1. /\ saved \in Seq(Record) /\ saved # <<>>
      /\ sp = Floor /\ lr = c.pc /\ pc' = lr /\ lr' = mem[sp]
      /\ sp' = sp - FrameSize /\ mem' = mem
  BY DEF IInv, TypeOK, eret, Executed, Returned, Popped
<1>2. Len(saved) \in DOMAIN saved /\ c \in Record
  BY <1>1
<1>3. c.sp \in Nat /\ Floor = c.sp + FrameSize /\ FrameSize \in Nat
  BY <1>1, <1>2, FramesBelow, SizesAssumption DEF IInv, Base, FrameSize
<1>4. Intact(mem, c)
  BY <1>2 DEF IInv, FramesIntact
<1>5. sp' = c.sp
  BY <1>1, <1>3
<1>6. lr' = c.lr
  BY <1>1, <1>3, <1>4 DEF Intact, Base
<1> QED  BY <1>1, <1>2, <1>4, <1>5, <1>6 DEF Intact

LEMMA EretKeeps == IInv /\ eret => IInv'
<1> SUFFICES ASSUME IInv, eret PROVE IInv'
  OBVIOUS
<1> DEFINE n == Len(saved)
<1>1. /\ saved \in Seq(Record) /\ n \in DOMAIN saved
      /\ saved[n] \in Record
      /\ pc' = saved[n].pc /\ lr' = saved[n].lr /\ sp' = saved[n].sp
  BY EretRestores DEF IInv, TypeOK
<1>2. saved' = SubSeq(saved, 1, n - 1) /\ mem' = mem /\ cont' = cont
      /\ UNCHANGED queue /\ at' = "pop"
  BY DEF eret, Executed
<1>3. /\ n \in Nat \ {0} /\ DOMAIN saved = 1 .. n
      /\ saved' \in Seq(Record)
      /\ Len(saved') = n - 1
      /\ DOMAIN saved' = 1 .. n - 1
      /\ \A k \in 1 .. n - 1 : saved'[k] = saved[k]
  <2>1. n \in Nat \ {0} /\ DOMAIN saved = 1 .. n
    BY <1>1
  <2>2. \A k \in 1 .. n - 1 : saved[k] \in Record
    BY <1>1, <2>1
  <2> HIDE DEF n
  <2>3. /\ saved' \in Seq(Record)
        /\ Len(saved') = n - 1
        /\ \A k \in 1 .. n - 1 : saved'[k] = saved[k]
    BY <1>2, <2>1, <2>2, SubSeqProperties
  <2> QED  BY <2>1, <2>3
<1>4. TypeOK'
  <2>1. pc' \in Word /\ lr' \in Word /\ sp' \in 0 .. StackSize
    BY <1>1 DEF Record
  <2> QED  BY <2>1, <1>2, <1>3 DEF IInv, TypeOK, queue
<1>5. FramesIntact'
  BY <1>2, <1>3 DEF IInv, FramesIntact
<1>6. FramesApart'
  <2>1. \A j, k \in DOMAIN saved' : j < k => Base(saved'[j]) <= saved'[k].sp
    BY <1>3 DEF IInv, FramesApart
  <2>2. Floor' <= sp'
    <3>1. CASE n = 1
      <4>1. saved' = <<>>
        BY <1>3, <3>1
      <4>2. saved[n].sp \in Nat
        BY <1>1 DEF Record
      <4> QED  BY <4>1, <4>2, <1>1 DEF Floor
    <3>2. CASE n # 1
      <4>1. saved' # <<>> /\ saved'[Len(saved')] = saved[n - 1]
        BY <1>3, <3>2
      <4>2. Floor' = Base(saved[n - 1])
        BY <4>1 DEF Floor, Base, FrameSize
      <4>3. Base(saved[n - 1]) <= saved[n].sp
        BY <1>3, <3>2 DEF IInv, FramesApart
      <4> QED  BY <4>2, <4>3, <1>1
    <3> QED  BY <3>1, <3>2
  <2> QED  BY <2>1, <2>2 DEF FramesApart, Base, FrameSize
<1> QED  BY <1>4, <1>5, <1>6 DEF IInv
-----------------------------------------------------------------------------
(* The other steps change the running routine's own words at most.         *)
LEMMA StepKeeps == IInv /\ [Next]_vars => IInv'
<1> SUFFICES ASSUME IInv, [Next]_vars PROVE IInv'
  OBVIOUS
<1> USE DEF IInv
<1>1. ASSUME UNCHANGED vars PROVE IInv'
  BY <1>1 DEF vars, queue, TypeOK, FramesIntact, FramesApart, Floor
<1>2. ASSUME Arrive PROVE IInv'
  <2>1. TypeOK'
    BY <1>2, RaiseType DEF Arrive, TypeOK
  <2> QED  BY <2>1, <1>2, StackUntouched DEF Arrive
<1>3. ASSUME NEW p \in Word, run_expr(p) PROVE IInv'
  <2>1. TypeOK'
    BY <1>3 DEF run_expr, TypeOK, queue
  <2> QED  BY <2>1, <1>3, StackUntouched DEF run_expr
<1>4. ASSUME NothingPending PROVE IInv'
  <2>1. TypeOK'
    BY <1>4 DEF NothingPending, TypeOK, queue
  <2> QED  BY <2>1, <1>4, StackUntouched DEF NothingPending
<1>5. ASSUME NEW w \in Word, SetLr(w) PROVE IInv'
  <2>1. TypeOK'
    BY <1>5, FollowingType DEF SetLr, Executed, TypeOK, queue
  <2> QED  BY <2>1, <1>5, StackUntouched DEF SetLr
<1>6. ASSUME NEW p \in Word, jnc(p) PROVE IInv'
  <2>1. TypeOK'
    BY <1>6 DEF jnc, Executed, TypeOK, queue
  <2> QED  BY <2>1, <1>6, StackUntouched DEF jnc
<1>7. ASSUME NEW n \in Floor .. StackSize, SetSp(n) PROVE IInv'
  <2>1. sp' \in 0 .. StackSize
    BY <1>7, FloorType, SizesAssumption DEF SetSp
  <2>2. TypeOK'
    BY <1>7, <2>1, FollowingType DEF SetSp, Executed, TypeOK, queue
  <2> QED  BY <2>2, <1>7, OwnWordsOnly DEF SetSp, TypeOK
<1>8. ASSUME NEW i \in Floor + 1 .. sp, NEW w \in Word, str(i, w) PROVE IInv'
  <2>1. mem' = [mem EXCEPT ![i] = w] /\ UNCHANGED <<sp, saved>>
    BY <1>8 DEF str
  <2>2. TypeOK'
    BY <1>8, <2>1, FollowingType DEF str, Executed, TypeOK, queue
  <2>3. sp' \in Floor .. StackSize
    BY <2>1, FloorType, SizesAssumption
  <2>4. \A j \in 1 .. Floor : mem'[j] = mem[j]
    BY <2>1, FloorType DEF TypeOK
  <2> QED  BY <2>1, <2>2, <2>3, <2>4, OwnWordsOnly DEF TypeOK
<1>9. ASSUME jnc_zero PROVE IInv'
  <2>1. TypeOK'
    BY <1>9, WordAssumption DEF jnc_zero, TypeOK, queue, Word
  <2> QED  BY <2>1, <1>9, StackUntouched DEF jnc_zero
<1>10. ASSUME ClearSr PROVE IInv'
  <2>1. TypeOK'
    BY <1>10, FollowingType DEF ClearSr, TypeOK, queue
  <2> QED  BY <2>1, <1>10, StackUntouched DEF ClearSr
<1>11. ASSUME NEW e \in Exc, exc(e) PROVE IInv'
  <2>1. TypeOK'
    BY <1>11, RaiseType, FollowingType DEF exc, Executed, TypeOK
  <2> QED  BY <2>1, <1>11, StackUntouched DEF exc
<1> HIDE DEF IInv
<1> QED  BY <1>1, <1>2, <1>3, <1>4, <1>5, <1>6, <1>7, <1>8, <1>9, <1>10, <1>11,
            DispatchKeeps, EretKeeps DEF Next, Loop, Instruction

(* The frames of the running exception routines stay as run pushed them,   *)
(* however deep they are nested (asm.c, run).                              *)
THEOREM Invariance == Spec => []IInv
<1> QED  BY InitIInv, StepKeeps, PTL DEF Spec

THEOREM FramesStayIntact == Spec => []FramesIntact
<1>1. IInv => FramesIntact
  BY DEF IInv
<1> QED  BY <1>1, Invariance, PTL

(* Only eret takes a routine off the stack. *)
LEMMA OnlyEretResumes ==
  ASSUME IInv, Next, saved' # saved, Len(saved') < Len(saved)
  PROVE  eret
<1>1. ASSUME Dispatch PROVE FALSE
  <2>1. saved \in Seq(Record) /\ \E c : saved' = Append(saved, c)
    BY <1>1 DEF IInv, TypeOK, Dispatch
  <2>2. Len(saved') = Len(saved) + 1 /\ Len(saved) \in Nat
    BY <2>1
  <2> QED  BY <2>2
<1> QED  BY <1>1 DEF Next, Loop, Instruction, Arrive, run_expr, NothingPending,
           SetLr, SetSp, str, jnc, jnc_zero, ClearSr, exc

(* eret goes on where the program was interrupted, with its registers and  *)
(* its stack, for any program that keeps to the rule of notes.txt.         *)
THEOREM Resumption == Spec => ResumesInterrupted
<1>1. ASSUME IInv, [Next]_vars
      PROVE  [saved' # saved /\ Len(saved') < Len(saved) =>
                LET c == saved[Len(saved)]
                IN  /\ <<pc, lr, sp>>' = <<c.pc, c.lr, c.sp>>
                    /\ Upto(mem', sp') = c.stack]_vars
  <2>1. CASE Next
    <3> SUFFICES ASSUME saved' # saved, Len(saved') < Len(saved)
                 PROVE  LET c == saved[Len(saved)]
                        IN  /\ <<pc, lr, sp>>' = <<c.pc, c.lr, c.sp>>
                            /\ Upto(mem', sp') = c.stack
      OBVIOUS
    <3>1. eret
      BY <1>1, <2>1, OnlyEretResumes
    <3> QED  BY <1>1, <3>1, EretRestores
  <2>2. CASE UNCHANGED vars
    BY <2>2
  <2> QED  BY <1>1, <2>1, <2>2
<1> QED  BY <1>1, Invariance, PTL DEF Spec, ResumesInterrupted
=============================================================================
