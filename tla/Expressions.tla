----------------------------- MODULE Expressions -----------------------------
(***************************************************************************)
(* What the expressions of compile.py mean.  The state of an evaluation is *)
(* the variables in scope, the words at the addresses that the program     *)
(* itself writes, and the last value.                                      *)
(***************************************************************************)
EXTENDS Encoding, Bitwise, TLC

Abs(n) == IF n < 0 THEN -n ELSE n

(* Division towards zero, as in C; by zero it is 0 on an AArch64. *)
Quotient(m, n) ==
  IF n = 0 THEN 0
  ELSE IF (m < 0) = (n < 0) THEN Abs(m) \div Abs(n) ELSE -(Abs(m) \div Abs(n))

Prim(op, x, y) ==
  LET m == Signed(x)
      n == Signed(y)
  IN  CASE op = ads -> (m + n) % Base
        [] op = sbs -> (m - n) % Base
        [] op \in {mls, mlu} -> (m * n) % Base
        [] op = dvs -> Quotient(m, n) % Base
        [] op = dvu -> Quotient(x, y)
        [] op = and -> x & y
        [] op = orr -> x | y
        [] op = xor -> x ^^ y
        [] op = nor -> Ones - (x | y)
        [] op = shf -> IF n < 0 THEN (x * 2 ^ (-n)) % Base ELSE x \div 2 ^ n

Yields(s, v) == [s EXCEPT !.val = v]

(* Assembler within a program: an exception, the last value copied to a     *)
(* register and then divided from there, and a compare and swap at the      *)
(* address that is the last value, with itself.                            *)
Asm(line, s) ==
  CASE line[1].n \in {exc, ads} -> s
    [] line[1].n = dvs -> Yields(s, Quotient(Signed(s.val), line[4].n) % Base)
    [] line[1].n = acx -> LET old == s.data[s.val]
                          IN  [s EXCEPT !.data[s.val] = IF old = s.val THEN line[4].n ELSE old,
                                        !.val = old]

RECURSIVE Eval(_, _, _), EvalAll(_, _, _), EvalArgs(_, _, _, _), EvalLet(_, _, _, _), Loop(_, _, _, _)

EvalAll(es, s, defs) ==
  IF es = <<>> THEN s ELSE EvalAll(Tail(es), Eval(Head(es), s, defs), defs)

EvalArgs(es, vs, s, defs) ==
  IF es = <<>> THEN [vs |-> vs, s |-> s]
  ELSE LET t == Eval(Head(es), s, defs)
       IN  EvalArgs(Tail(es), Append(vs, t.val), t, defs)

EvalLet(pairs, body, s, defs) ==
  IF pairs = <<>> THEN EvalAll(body, s, defs)
  ELSE LET t == Eval(pairs[1][2], s, defs)
       IN  EvalLet(Tail(pairs), body, [t EXCEPT !.vars = (pairs[1][1] :> t.val) @@ t.vars], defs)

Loop(cond, body, s, defs) ==
  LET t == Eval(cond, s, defs)
  IN  IF t.val = 0 THEN Yields(t, 1) ELSE Loop(cond, body, EvalAll(body, t, defs), defs)

(* defs is the functions by name. *)
Eval(e, s, defs) ==
  LET both(i, j) == EvalArgs(<<e[i], e[j]>>, <<>>, s, defs)
  IN  CASE e[1] = "int"  -> Yields(s, e[2] % Base)
        [] e[1] = "var"  -> Yields(s, s.vars[e[2]])
        [] e[1] = "prim" -> LET b == both(3, 4) IN Yields(b.s, Prim(e[2], b.vs[1], b.vs[2]))
        [] e[1] = "gt"   -> LET b == both(2, 3)
                            IN  Yields(b.s, IF Signed(b.vs[1]) > Signed(b.vs[2]) THEN 1 ELSE 0)
        [] e[1] = "get"  -> LET b == both(2, 3)
                            IN  Yields(b.s, b.s.data[(b.vs[1] + b.vs[2]) % Base])
        [] e[1] = "put"  -> LET b == both(2, 3)
                            IN  [b.s EXCEPT !.data[b.vs[1]] = b.vs[2], !.val = b.vs[2]]
        [] e[1] = "let"  -> LET t == EvalLet(e[2], e[3], s, defs)
                            IN  [t EXCEPT !.vars = [x \in DOMAIN s.vars |->
                                   IF \E i \in DOMAIN e[2] : e[2][i][1] = x THEN s.vars[x] ELSE @[x]]]
        [] e[1] = "set"  -> LET t == Eval(e[3], s, defs)
                            IN  [t EXCEPT !.vars[e[2]] = t.val]
        [] e[1] = "if"   -> LET t == Eval(e[2], s, defs)
                            IN  IF t.val = 0 THEN Eval(e[4], t, defs) ELSE Eval(e[3], t, defs)
        [] e[1] = "loop" -> Loop(e[2], e[3], s, defs)
        [] e[1] = "call" -> LET a == EvalArgs(e[3], <<>>, s, defs)
                                f == defs[e[2]]
                                params == [x \in {f[3][i] : i \in DOMAIN f[3]} |->
                                             a.vs[CHOOSE i \in DOMAIN f[3] : f[3][i] = x]]
                            IN  [EvalAll(f[4], [a.s EXCEPT !.vars = params], defs)
                                   EXCEPT !.vars = a.s.vars]
        [] e[1] = "asm"  -> Asm(e[2], s)
        [] e[1] = "def"  -> s

(* The value of a program, with the words at Data before. *)
Value(exprs, data) ==
  LET isDef(i) == exprs[i][1] = "def"
      names == {exprs[i][2] : i \in {j \in DOMAIN exprs : isDef(j)}}
      defs == [f \in names |-> exprs[CHOOSE i \in DOMAIN exprs : isDef(i) /\ exprs[i][2] = f]]
  IN  EvalAll(exprs, [vars |-> <<>>, data |-> data, val |-> 0], defs)
=============================================================================
