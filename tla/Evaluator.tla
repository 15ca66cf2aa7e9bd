------------------------------ MODULE Evaluator ------------------------------
(***************************************************************************)
(* The recursive evaluator of lisp.c, run_prog with eval_fn, call_fn,      *)
(* def_fn and name_fn.  The calls are functions of the memory that give    *)
(* back the memory and a value: an object, None for the null pointer, or   *)
(* Undefined when a null pointer or a freed object was used.               *)
(***************************************************************************)
EXTENDS LispObjects

CONSTANT Undefined

(* The set ops: run_prog's operators.                                      *)
Ops == {"~", ":", ">", "|"}

Usable(r) == r.v \in DOMAIN r.m.obj

(* The operators, of the set ops, in front of the operand at i.            *)
OpsOf(m, ops, exp, i) ==
  LET before(j) == \A k \in j .. i - 1 : Is(m, Kid(m, exp)[k]) \in ops
      found == SelectSeq([j \in 1 .. i - 1 |-> j], before)
  IN  [j \in DOMAIN found |-> Kid(m, exp)[found[j]]]

Operands(m, ops, exp) ==
  SelectSeq([j \in DOMAIN Kid(m, exp) |-> j], LAMBDA j : Is(m, Kid(m, exp)[j]) \notin ops)

def_fn(m, val, self) ==
  Result(new_fn(m, self, Kid(m, val)[1], Kid(m, val)[2]), m.n)

name_fn(m, val, self) ==
  LET key == Kid(m, val)[1]
      res == Kid(m, val)[2]
  IN  Result(set_add_str_key(Unbound(m, self, key), self, key, res), res)

RECURSIVE eval_fn(_, _, _), call_fn(_, _, _), Apply(_, _, _, _)

call_fn(m, args, self) ==
  LET tmp_fn == m.n
      r == eval_fn(Count(Called(m, args), tmp_fn, 1),
                   Kid(m, Kid(m, args)[1])[f_exp], tmp_fn)
  IN  IF ~IsArray(m, args) THEN Result(m, get_val(m, args, self))
      ELSE IF ~Callable(m, args) THEN Result(m, Undefined)
      ELSE IF ~RightArity(m, args) THEN Result(m, None)
      ELSE IF ~Usable(r) THEN Result(m, Undefined)
      ELSE LastOf(Count(Count(r.m, r.v, 1), tmp_fn, -1), r.v)

Apply(op, m, val, self) ==
  CASE op = "~" -> def_fn(m, val, self)
    [] op = ":" -> call_fn(m, val, self)
    [] op = ">" -> eval_fn(m, val, self)
    [] op = "|" -> name_fn(m, val, self)

eval_fn(m, exp, self) ==
  LET tmp == m.n
      operate(r, op) ==
        LET s == Apply(Is(r.m, op), Count(r.m, r.v, 1), r.v, self)
        IN  IF ~Usable(r) THEN Result(r.m, Undefined)
            ELSE IF s.v = Undefined THEN s
            ELSE Result(object_delete(s.m, r.v), s.v)
      element(r, i) ==
        LET s == FoldLeft(operate, Result(r.m, Kid(r.m, exp)[i]),
                          Reverse(OpsOf(r.m, Ops, exp, i)))
        IN  IF r.v = Undefined THEN r
            ELSE IF ~Usable(s) THEN Result(r.m, Undefined)
            ELSE Result(obj_array_append(s.m, tmp, s.v), tmp)
  IN  IF ~IsArray(m, exp) THEN Result(m, exp)
      ELSE FoldLeft(element, Result(New(m, "arr", <<>>), tmp), Operands(m, Ops, exp))

(* What can be seen of a value: its text, its elements or its code, and    *)
(* what it has bound, down to the given depth.                             *)
RECURSIVE Shown(_, _, _)
Shown(m, o, depth) ==
  IF o = None \/ depth = 0 THEN <<>>
  ELSE <<Is(m, o), [i \in DOMAIN Kid(m, o) |-> Shown(m, Kid(m, o)[i], depth - 1)]>>
=============================================================================
