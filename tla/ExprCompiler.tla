---------------------------- MODULE ExprCompiler ----------------------------
(***************************************************************************)
(* compile.py: expressions into lines of assembler.                        *)
(*                                                                         *)
(* An expression is a tuple with its kind first; variables and functions   *)
(* are numbers from 1 on.  env says where variables are, relative to fp,   *)
(* and idx how many words above fp are taken.  The registers go by their   *)
(* names: r18 is sp, r19 fp, r1a bp, r1b lr, r1d rr, r1e pc and r1f sr.    *)
(***************************************************************************)
EXTENDS Encoding, SequencesExt, TLC

R(n)      == Token("reg", n)
to_hex(n) == IF n < 0 THEN Token("neg", -n) ELSE Token("num", n)
mangle(f) == Token("name", f)
MAIN      == Token("name", -1)
STACK     == Token("name", -2)

Line(op, a, b, c) == <<Token("op", op), R(a), R(b), c>>

compile_int(n) == <<Line(xor, rr, rr, R(rr)), Line(ads, rr, rr, to_hex(n))>>

Move(n) == <<Line(ads, sp, sp, to_hex(n))>>
Back(n) == <<Line(sbs, sp, sp, to_hex(n))>>
Put(i)  == <<Line(str, rr, fp, to_hex(i))>>
Get(i)  == <<Line(ldr, rr, fp, to_hex(i))>>

(* r0 is a register like the others: operations need it for their first    *)
(* operand.                                                                *)
PutZero(i) == <<Line(str, 0, fp, to_hex(i))>>
GetZero(i) == <<Line(ldr, 0, fp, to_hex(i))>>

(* A mistake: the words are given back before r0 is read from them. *)
Operation_early(left, right, lines, idx) ==
  Move(2) \o PutZero(idx + 1) \o left \o Put(idx + 2) \o right
    \o GetZero(idx + 2) \o lines \o Back(2) \o GetZero(idx + 1)

(* What all operations with two operands have in common: r0 and the first   *)
(* operand are put on the stack while the second is worked out.            *)
Operation(left, right, lines, idx) ==
  Move(2) \o PutZero(idx + 1) \o left \o Put(idx + 2) \o right
    \o GetZero(idx + 2) \o lines \o GetZero(idx + 1) \o Back(2)

builtin_op(op) == <<Line(op, rr, 0, R(rr))>>

(* The sign of the difference. *)
compile_gt == builtin_op(sbs) \o <<Line(shf, rr, rr, to_hex(Bits - 1))>>
compile_load  == <<Line(ldr, rr, 0, R(rr))>>
compile_store == <<Line(str, rr, 0, to_hex(0))>>

(* To go on after the next n lines and the jump that follows them, if the   *)
(* lowest bit of rr is not set.                                            *)
Unless(n) ==
  <<Line(nor, rr, rr, R(rr)), Line(and, rr, rr, to_hex(1)), Line(jnc, rr, pc, to_hex(2 + n))>>

JumpBy(n) == <<Line(jnc, sr, pc, to_hex(n))>>

compile_if(cond, yes, no) ==
  cond \o Unless(Len(yes)) \o yes \o JumpBy(1 + Len(no)) \o no

compile_loop(cond, body) ==
  cond \o Unless(Len(body)) \o body \o JumpBy(-(3 + Len(body) + Len(cond)))

(* A mistake: the call returns to its own jump. *)
Called_again(f, args, idx, n) ==
  Move(idx + n) \o args
    \o <<Line(str, lr, sp, to_hex(0)), Line(ads, lr, pc, to_hex(1)),
         Line(jnc, sr, bp, mangle(f)), Line(ldr, lr, sp, to_hex(0))>>
    \o Back(idx + n)

(* The stack from the caller's frame on: idx words, the arguments, lr.     *)
Called(f, args, idx, n) ==
  Move(idx + n) \o args
    \o <<Line(str, lr, sp, to_hex(0)), Line(ads, lr, pc, to_hex(2)),
         Line(jnc, sr, bp, mangle(f)), Line(ldr, lr, sp, to_hex(0))>>
    \o Back(idx + n)
-----------------------------------------------------------------------------
RECURSIVE compile_expr(_, _, _), compile_all(_, _, _), compile_args(_, _, _),
          compile_let(_, _, _, _)

compile_all(es, idx, env) ==
  IF es = <<>> THEN <<>>
  ELSE compile_expr(Head(es), idx, env) \o compile_all(Tail(es), idx, env)

compile_args(es, idx, env) ==
  IF es = <<>> THEN <<>>
  ELSE compile_expr(Head(es), idx, env) \o Put(idx) \o compile_args(Tail(es), idx + 1, env)

(* A variable is known in its own value. *)
compile_let(pairs, body, idx, env) ==
  IF pairs = <<>> THEN compile_all(body, idx, env)
  ELSE LET within == (pairs[1][1] :> idx + 1) @@ env
       IN  compile_expr(pairs[1][2], idx + 1, within) \o Put(idx + 1)
             \o compile_let(Tail(pairs), body, idx + 1, within)

(* compile_gt takes its second operand first. *)
compile_expr(e, idx, env) ==
  LET both(i, j, lines) ==
        Operation(compile_expr(e[i], idx + 1, env), compile_expr(e[j], idx + 2, env), lines, idx)
  IN  CASE e[1] = "int"  -> compile_int(e[2])
        [] e[1] = "var"  -> Get(env[e[2]])
        [] e[1] = "prim" -> both(3, 4, builtin_op(e[2]))
        [] e[1] = "gt"   -> both(3, 2, compile_gt)
        [] e[1] = "get"  -> both(2, 3, compile_load)
        [] e[1] = "put"  -> both(2, 3, compile_store)
        [] e[1] = "let"  -> Move(Len(e[2])) \o compile_let(e[2], e[3], idx, env) \o Back(Len(e[2]))
        [] e[1] = "set"  -> compile_expr(e[3], idx, env) \o Put(env[e[2]])
        [] e[1] = "if"   -> compile_if(compile_expr(e[2], idx, env), compile_expr(e[3], idx, env),
                                       compile_expr(e[4], idx, env))
        [] e[1] = "loop" -> compile_loop(compile_expr(e[2], idx, env), compile_all(e[3], idx, env))
        [] e[1] = "call" -> Called(e[2], compile_args(e[3], idx + 1, env), idx + 1, Len(e[3]))
        [] e[1] = "asm"  -> <<e[2]>>
        [] e[1] = "def"  -> <<Line(ads, rr, bp, mangle(e[2]))>>

(* The arguments are below the frame, and lr between them and it. *)
compile_function(def) ==
  LET n == Len(def[3])
  IN  <<<<mangle(def[2])>>>> \o Move(1)
        \o <<Line(str, fp, sp, to_hex(0)), Line(ads, fp, sp, to_hex(0))>>
        \o compile_all(def[4], 0, [x \in ToSet(def[3]) |->
                                      (CHOOSE i \in 1 .. n : def[3][i] = x) - n - 2])
        \o <<Line(ldr, fp, sp, to_hex(0))>> \o Back(1) \o <<Line(jnc, sr, lr, to_hex(0))>>

(* A program: registers, functions, what is to be evaluated, the stack.    *)
(* The last line of the prologue, where MAIN returns to, ends run.         *)
comp(exprs) ==
  LET defs == SelectSeq(exprs, LAMBDA e : e[1] = "def")
  IN  <<Line(ads, bp, pc, to_hex(0)), Line(ads, sp, bp, STACK), Line(ads, fp, sp, to_hex(0)),
        Line(ads, lr, pc, to_hex(2)), Line(jnc, sr, bp, MAIN), Line(xor, sr, sr, R(sr))>>
        \o FlattenSeq([i \in DOMAIN defs |-> compile_function(defs[i])])
        \o <<<<MAIN>>>> \o compile_all(exprs, 0, <<>>)
        \o <<Line(jnc, sr, lr, to_hex(0)), <<STACK>>, <<to_hex(0)>>>>
=============================================================================
