----------------------------- MODULE LispObjects -----------------------------
(***************************************************************************)
(* The objects of the interpreter, in the memory of module Objects: arrays *)
(* that grow, strings and numbers, and functions with a namespace.         *)
(*                                                                         *)
(* An object's field is says what it is: "arr", "fun", "pair", or its text *)
(* for a string or number.  An array stands for itself with its subarray.  *)
(* A function's references are its parent, f_args, f_exp, and for every    *)
(* name the key and the value of its pair.  A pair is an object of its own *)
(* only where the code loses it.  Addresses are not used again, so that a  *)
(* reference to a freed object is seen; m.n is the next one.               *)
(***************************************************************************)
EXTENDS Objects

CONSTANT Names   \* the names that programs bind, in some order

ASSUME CodeIsArgsAndExp == CodeSlots = {2, 3}

f_args == 2
f_exp == 3

NoObjects == [obj |-> [o \in {} |-> None], gc_set |-> {}, q |-> <<>>,
              refuse |-> {}, n |-> 1]

Kid(m, o) == m.obj[o].kid

Is(m, o) == m.obj[o].is

IsArray(m, o) == Is(m, o) = "arr"

(* object and, for a function, gc_add: the new object has the address m.n. *)
New(m, is, kid) ==
  LET o    == m.n
      new  == [is |-> is, fun |-> is = "fun", kid |-> kid, rc |-> 0,
               visited |-> FALSE, tmp |-> 0]
      with == [m EXCEPT !.obj = [p \in DOMAIN m.obj \cup {o} |->
                                   IF p = o THEN new ELSE m.obj[p]],
                        !.gc_set = IF is = "fun" THEN @ \cup {o} ELSE @,
                        !.n = o + 1]
  IN  FoldLeft(LAMBDA l, k : Count(l, k, 1), with, kid)

obj_array_append(m, arr, data) ==
  [Count(m, data, 1) EXCEPT !.obj[arr].kid = Append(@, data)]
-----------------------------------------------------------------------------
(* Namespaces.                                                             *)

ValAt(name) == CHOOSE i \in {3 + 2 * j : j \in DOMAIN Names} :
                 Names[(i - 3) \div 2] = name

KeyAt(name) == ValAt(name) - 1

(* A mistake: a key that is bound already is bound anew, over the old pair. *)
set_add_str_key_over(m, f, key, v) ==
  LET name == Is(m, key)
  IN  Count(Count([m EXCEPT !.obj[f].kid[KeyAt(name)] = key,
                            !.obj[f].kid[ValAt(name)] = v], key, 1), v, 1)

(* The pair counts its key and value before avl_insert finds the key bound; *)
(* then nothing refers to the pair, but it has a count and keeps its own.   *)
set_add_str_key(m, f, key, v) ==
  LET name == Is(m, key)
      lost == New(m, "pair", <<key, v>>)
  IN  IF Kid(m, f)[ValAt(name)] # None THEN Count(lost, m.n, 1)
      ELSE Count(Count([m EXCEPT !.obj[f].kid[KeyAt(name)] = key,
                                 !.obj[f].kid[ValAt(name)] = v], key, 1), v, 1)

(* set_remove_str_key, and object_delete of the pair. *)
Unbound(m, f, key) ==
  LET name == Is(m, key)
      pair == <<Kid(m, f)[KeyAt(name)], Kid(m, f)[ValAt(name)]>>
  IN  FoldLeft(object_delete, [m EXCEPT !.obj[f].kid[KeyAt(name)] = None,
                                        !.obj[f].kid[ValAt(name)] = None], pair)

RECURSIVE Lookup(_, _, _)
Lookup(m, name, f) ==
  LET v == Kid(m, f)[ValAt(name)]
  IN  IF v # None THEN v
      ELSE IF Kid(m, f)[sup] = None THEN None
      ELSE Lookup(m, name, Kid(m, f)[sup])

(* A name's value in the function's namespace or the next one up. *)
get_val(m, obj, self) ==
  LET name  == Is(m, obj)
      found == IF name \in ToSet(Names) THEN Lookup(m, name, self) ELSE None
  IN  IF found = None /\ name = "self" THEN self ELSE found

new_fn(m, _sup, args, exp) ==
  New(m, "fun", <<_sup, args, exp>> \o [i \in 1 .. 2 * Len(Names) |-> None])
-----------------------------------------------------------------------------
(* Parts of a call, which both evaluators have.                            *)

Callable(m, args) == IF Kid(m, args) = <<>> THEN FALSE
                     ELSE IsFun(m, Kid(m, args)[1])

ArgNames(m, args) == Kid(m, Kid(m, Kid(m, args)[1])[f_args])

RightArity(m, args) == Len(Kid(m, args)) = Len(ArgNames(m, args)) + 1

(* The call's own function, with the arguments bound in its namespace.     *)
Called(m, args) ==
  LET f      == Kid(m, Kid(m, args)[1])
      tmp_fn == m.n
      bind(l, i) == set_add_str_key(l, tmp_fn, ArgNames(m, args)[i], Kid(m, args)[i + 1])
  IN  FoldLeft(bind, new_fn(m, f[sup], f[f_args], f[f_exp]),
               [i \in DOMAIN ArgNames(m, args) |-> i])

Result(m, v) == [v |-> v, m |-> m]

(* A mistake: the last element is not taken out before the array goes. *)
LastOf_left(m, result) ==
  LET kid == Kid(m, result)
  IN  IF kid = <<>> THEN Result(object_delete(m, result), None)
      ELSE Result(object_delete(Count(m, Last(kid), -1), result), Last(kid))

(* The value of the call is the last element of the array of results.      *)
LastOf(m, result) ==
  LET kid == Kid(m, result)
      out == [m EXCEPT !.obj[result].kid[Len(kid)] = None]
  IN  IF kid = <<>> THEN Result(object_delete(m, result), None)
      ELSE Result(object_delete(Count(out, Last(kid), -1), result), Last(kid))
=============================================================================
