------------------------------- MODULE Machine -------------------------------
(***************************************************************************)
(* The interpreter's machine: _run_prog with its frames, between           *)
(* run_prog_stack's preparations and its last collection.  A step is one   *)
(* pass through the switch; where the code falls through from one case     *)
(* into the next there are two.  Values go from frame to frame in ret,     *)
(* without a count; whether check_heap_capacity collects is open.          *)
(*                                                                         *)
(* A program that uses a null pointer or a freed object stops the model;   *)
(* running bytecode is outside of it.                                      *)
(***************************************************************************)
EXTENDS Evaluator

VARIABLES prog,       \* the program, a tree of records [is, kid]
          mem,
          main_expr,  \* the call of main
          frames,     \* the chain of frames from main's to the running one
          ret,
          phase       \* "text", "run", and in the end "done", "stuck" or "dangling"

vars == <<prog, mem, main_expr, frames, ret, phase>>

Top == Last(frames)
Callers == Front(frames)

(* The set ops of run_prog_stack, which has an operator more than run_prog. *)
StackOps == Ops \cup {"<"}

get_frame(self, exp, state) ==
  [self |-> self, exp |-> exp, tmp |-> None, op_stk |-> <<>>, old |-> None,
   i |-> 1, state |-> state]

(* The objects of a program's text; the array that holds all is the newest. *)
RECURSIVE Load(_, _)
Load(m, t) ==
  LET load(r, kid) == LET l == Load(r.m, kid)
                      IN  Result(l, Append(r.v, l.n - 1))
      kids == FoldLeft(load, Result(m, <<>>), t.kid)
  IN  New(kids.m, t.is, kids.v)

(* run_prog_stack builds the call of main with the addresses of the stack   *)
(* and the heap; main_expr is the newest object.                            *)
MainArgs == [is |-> "arr", kid |-> <<[is |-> "STACK", kid |-> <<>>],
                                     [is |-> "HEAP", kid |-> <<>>]>>]

Prepared(p) ==
  LET code == Load(NoObjects, p)
      exp  == code.n - 1
      args == Load(code, MainArgs)
      main == new_fn(args, None, args.n - 1, exp)
      nums == New(New(main, "0", <<>>), "1", <<>>)
      expr == New(nums, "arr", <<main.n - 1, nums.n - 2, nums.n - 1>>)
  IN  Count(expr, nums.n, 1)

Init ==
  /\ mem = NoObjects
  /\ main_expr = None
  /\ frames = <<>>
  /\ ret = None
  /\ phase = "text"

(* The tokenizer has returned p.                                           *)
run_prog_stack(p) ==
  LET m == Prepared(p)
  IN  /\ phase = "text"
      /\ mem' = m
      /\ main_expr' = m.n - 1
      /\ frames' = <<get_frame(Kid(m, m.n - 1)[1], m.n - 1, "cf")>>
      /\ phase' = "run"
      /\ UNCHANGED <<prog, ret>>
-----------------------------------------------------------------------------
In(state) ==
  /\ phase = "run"
  /\ frames # <<>>
  /\ Top.state = state
  /\ UNCHANGED <<prog, main_expr>>

(* The break of the switch: del_frame, and ret to the frame below. *)
Return(r) ==
  /\ mem' = r.m
  /\ ret' = r.v
  /\ frames' = Callers
  /\ UNCHANGED phase

Stop(why) ==
  /\ phase' = why
  /\ UNCHANGED <<mem, frames, ret>>

(* The frame goes on in another state, when the frames above it are done. *)
Goto(frame, above) == frames' = Callers \o <<frame>> \o above

(* Using v, after what was freed in m. *)
Unusable(m, v) ==
  /\ v \notin DOMAIN m.obj
  /\ Stop(IF v = None THEN "stuck" ELSE "dangling")

cf_name ==
  /\ In("cf")
  /\ ~IsArray(mem, Top.exp)
  /\ Return(Result(mem, get_val(mem, Top.exp, Top.self)))

cf_not_a_function ==
  /\ In("cf")
  /\ IsArray(mem, Top.exp)
  /\ ~Callable(mem, Top.exp)
  /\ Stop("stuck")

cf_arity ==
  /\ In("cf")
  /\ IsArray(mem, Top.exp)
  /\ Callable(mem, Top.exp)
  /\ ~RightArity(mem, Top.exp)
  /\ Return(Result(mem, None))

cf ==
  LET tmp_fn == mem.n
  IN  /\ In("cf")
      /\ IsArray(mem, Top.exp)
      /\ Callable(mem, Top.exp)
      /\ RightArity(mem, Top.exp)
      /\ mem' = Count(Called(mem, Top.exp), tmp_fn, 1)
      /\ Goto([Top EXCEPT !.state = "cf_ret", !.tmp = tmp_fn],
              <<get_frame(tmp_fn, Kid(mem, Kid(mem, Top.exp)[1])[f_exp], "ef")>>)
      /\ UNCHANGED <<ret, phase>>

(* gc_set's tree is in the order of addresses. *)
gc_collect(m) ==
  Collected(m, SelectSeq([o \in 1 .. m.n |-> o], LAMBDA o : o \in m.gc_set))

check_heap_capacity(m) == {m, gc_collect(m)}

cf_ret ==
  /\ In("cf_ret")
  /\ \/ Unusable(mem, ret)
     \/ /\ ret \in DOMAIN mem.obj
        /\ \E m \in check_heap_capacity(Count(mem, ret, 1)) :
             Return(LastOf(del_fn(Count(m, Top.tmp, -1), Top.tmp), ret))

df == In("df") /\ Return(def_fn(mem, Top.exp, Top.self))

nf == In("nf") /\ Return(name_fn(mem, Top.exp, Top.self))

(* comp_expr: a compiled string refers to no other object. *)
comp_expr(m) == Result(New(m, "bco", <<>>), m.n)

ccf == In("ccf") /\ Return(comp_expr(mem))

(* Where there is nothing to evaluate, ret stays what it is. *)
ef ==
  /\ In("ef")
  /\ IF IsArray(mem, Top.exp) /\ Kid(mem, Top.exp) # <<>>
     THEN /\ mem' = New(mem, "arr", <<>>)
          /\ Goto([Top EXCEPT !.tmp = mem.n, !.state = "ef_0"], <<>>)
          /\ UNCHANGED <<ret, phase>>
     ELSE Return(Result(mem, ret))

(* A mistake: only one operator is passed over.                            *)
Operand_once(i) == IF Is(mem, Kid(mem, Top.exp)[i]) \in StackOps THEN i + 1 ELSE i

Operand(i) == CHOOSE j \in ToSet(Operands(mem, StackOps, Top.exp)) :
                /\ j >= i
                /\ \A k \in i .. j - 1 : Is(mem, Kid(mem, Top.exp)[k]) \in StackOps

ef_0 ==
  LET j == Operand(Top.i)
  IN  /\ In("ef_0")
      /\ ret' = Kid(mem, Top.exp)[j]
      /\ Goto([Top EXCEPT !.i = j, !.op_stk = OpsOf(mem, StackOps, Top.exp, j),
                          !.state = "ef_1", !.old = None], <<>>)
      /\ UNCHANGED <<mem, phase>>

StateOf(op) == CASE op = "~" -> "df" [] op = ":" -> "cf" [] op = ">" -> "ef"
                 [] op = "|" -> "nf" [] op = "<" -> "ccf"

(* A mistake: the operand is released before its operator runs.            *)
Held_released(m, old) == object_delete(Count(m, old, 1), old)

Held(m, old) == Count(m, old, 1)

(* A mistake: what the operator was applied to is forgotten.               *)
Released_forgotten(m, old) == m

Released(m, old) == object_delete(m, old)

ef_1_operate ==
  LET m == Released(mem, Top.old)
  IN  /\ In("ef_1")
      /\ Top.op_stk # <<>>
      /\ \/ Unusable(m, ret)
         \/ /\ ret \in DOMAIN m.obj
            /\ mem' = Held(m, ret)
            /\ Goto([Top EXCEPT !.old = ret, !.op_stk = Front(@)],
                    <<get_frame(Top.self, ret, StateOf(Is(m, Last(Top.op_stk))))>>)
            /\ UNCHANGED <<ret, phase>>

ef_1_append ==
  LET m    == Released(mem, Top.old)
      done == obj_array_append(m, Top.tmp, ret)
  IN  /\ In("ef_1")
      /\ Top.op_stk = <<>>
      /\ \/ Unusable(m, ret)
         \/ /\ ret \in DOMAIN m.obj
            /\ Top.i < Len(Kid(m, Top.exp))
            /\ mem' = done
            /\ Goto([Top EXCEPT !.i = @ + 1, !.state = "ef_0"], <<>>)
            /\ UNCHANGED <<ret, phase>>
         \/ /\ ret \in DOMAIN m.obj
            /\ Top.i = Len(Kid(m, Top.exp))
            /\ Return(Result(done, Top.tmp))

(* The end of _run_prog and run_prog_stack.  The second object_delete of    *)
(* main_expr, at line 605, changes one word of a block that is free.        *)
finish ==
  LET m == object_delete(mem, main_expr)
  IN  /\ phase = "run"
      /\ frames = <<>>
      /\ UNCHANGED <<prog, main_expr>>
      /\ \/ Unusable(m, ret)
         \/ /\ ret \in DOMAIN m.obj
            /\ mem' = Count(gc_collect(Count(m, ret, 1)), ret, -1)
            /\ phase' = "done"
            /\ UNCHANGED <<frames, ret>>

Next ==
  \/ cf_name \/ cf_not_a_function \/ cf_arity \/ cf \/ cf_ret
  \/ df \/ nf \/ ccf \/ ef \/ ef_0 \/ ef_1_operate \/ ef_1_append
  \/ finish

-----------------------------------------------------------------------------
Live(o) == o \in DOMAIN mem.obj

(* What a frame will use is alive when its turn comes, although frames count *)
(* almost nothing of it (the question "increase refcs?" in get_frame): the   *)
(* expression and the function by the operand or the call's function below,  *)
(* the operand and the call's function by the count taken for them.          *)
FramesAlive ==
  phase = "run" =>
    \A k \in DOMAIN frames :
      LET f == frames[k]
      IN  /\ Live(f.self) /\ Live(f.exp)
          /\ f.state \in {"cf_ret", "ef_0", "ef_1"} => Live(f.tmp)
          /\ f.state = "ef_1" => f.old = None \/ Live(f.old)
          /\ \A op \in ToSet(f.op_stk) : Live(op)

References ==
  UNION {{<<p, i, Kid(mem, p)[i]>> : i \in DOMAIN Kid(mem, p)} : p \in DOMAIN mem.obj}

LostPairs == {o \in DOMAIN mem.obj : Is(mem, o) = "pair"}

FrameCounts(o) ==
  Cardinality({k \in DOMAIN frames : frames[k].state = "ef_1" /\ frames[k].old = o})
  + Cardinality({k \in DOMAIN frames : frames[k].state = "cf_ret" /\ frames[k].tmp = o})

(* Between steps, every count is the number of references in objects, and   *)
(* those taken for operands, running functions and main's call: frames give *)
(* back what they take, on every path through the switch.  The one count    *)
(* that nobody will give back is that of a pair whose key was bound twice.  *)
CountsRight ==
  LET refs == References
  IN  phase = "run" =>
        \A o \in DOMAIN mem.obj :
          mem.obj[o].rc = Cardinality({r \in refs : r[3] = o}) + FrameCounts(o)
                          + (IF o = main_expr \/ o \in LostPairs THEN 1 ELSE 0)

RECURSIVE Reach(_)
Reach(S) ==
  LET more == S \cup UNION {ToSet(Kid(mem, o)) \ {None} : o \in S}
  IN  IF more = S THEN S ELSE Reach(more)

(* Nothing outlives the program but its value, and what a lost pair holds:  *)
(* every array, function and token that it made is released by a frame, by  *)
(* del_fn or by the last collection.                                        *)
AllReclaimed == phase = "done" => DOMAIN mem.obj = Reach({ret} \cup LostPairs)

Evaluated == call_fn(Prepared(prog), main_expr, main_expr - 3)

Depth == 5

(* A program with the operator "<", which run_prog does not know            *)
(* (lisp.c:386-389, 588): to it the token is an operand.                   *)
Compiles == \E o \in DOMAIN Prepared(prog).obj : Is(Prepared(prog), o) = "<"

(* The machine with its frames computes what the recursive evaluator does   *)
(* (_run_prog and run_prog), however often it collects, and is stuck where  *)
(* that one is, unless the program has the operator that only one of them   *)
(* knows.                                                                  *)
Agrees ==
  phase \in {"done", "stuck"} /\ ~Compiles =>
    \A r \in {Evaluated} :
      /\ phase = "done" => Usable(r) /\ Shown(mem, ret, Depth) = Shown(r.m, r.v, Depth)
      /\ phase = "stuck" => ~Usable(r)

(* There are two ways to a freed object, both through a value that was      *)
(* returned without a count.  One that only the operand holds, such as an   *)
(* argument that its function returns, goes when the operand is released    *)
(* (line 523); one that an earlier result of the same call holds as well,   *)
(* and nothing else, goes with the results (line 503).                      *)
FreedOnlyWithHolder ==
  [][/\ phase' = "dangling" /\ Live(ret) =>
          IF frames = <<>> THEN ret \in ToSet(Kid(mem, main_expr))
          ELSE Top.state = "ef_1" /\ ret \in {Top.old} \cup ToSet(Kid(mem, Top.old))
     /\ Live(ret) /\ ret' \notin DOMAIN mem'.obj \cup {None} =>
          Top.state = "cf_ret" /\ ret' \in Reach(ToSet(Front(Kid(mem, ret))))]_vars

(* What lisp.c:492 says of ret when a call has returned: that it is the     *)
(* result of the function's expression, not something from before the call. *)
RetIsResult ==
  phase = "run" /\ frames # <<>> =>
    (Top.state = "cf_ret" => ret # Top.exp)
=============================================================================
