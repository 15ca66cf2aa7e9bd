------------------------------- MODULE Objects -------------------------------
(***************************************************************************)
(* Objects, their reference counts and the two ways memory is reclaimed:   *)
(* object_delete, which frees an object when its last reference goes, and  *)
(* the collector, which finds the cycles that only functions can close: a  *)
(* function is never freed by object_delete, it stays in gc_set until      *)
(* gc_collect (or del_fn, when its call returns) finds that no reference   *)
(* to it comes from outside of what it refers to itself.                   *)
(*                                                                         *)
(* The calls are functions of the memory, a record: obj has the objects,   *)
(* each with its references (kid) and the word refcount as three fields;   *)
(* q is the queue of mark_tc, and refuse the tree of objects that were     *)
(* swept and are about to be freed.                                        *)
(*                                                                         *)
(* A function stands for itself with its namespace: its first reference is *)
(* to the parent, the value of "sup"; those in CodeSlots are f_args and    *)
(* f_exp, and the others are its bindings.  The count that every object    *)
(* keeps on its type object, which the collector never follows, is left    *)
(* out, and calls do not run out of memory.                                *)
(***************************************************************************)
EXTENDS Integers, FiniteSets, SequencesExt

CONSTANTS None, CodeSlots

sup == 1

IsFun(m, o) == m.obj[o].fun

Count(m, o, n) == IF o = None THEN m ELSE [m EXCEPT !.obj[o].rc = @ + n]

Without(m, gone) ==
  [m EXCEPT !.obj = [o \in DOMAIN m.obj \ gone |-> m.obj[o]],
            !.gc_set = @ \ gone]
-----------------------------------------------------------------------------
(* object_delete, with set_delete and obj_array_delete. *)

RECURSIVE object_delete(_, _)
object_delete(m, o) ==
  LET less == Count(m, o, -1)
  IN  IF o = None THEN m
      ELSE IF less.obj[o].rc # 0 \/ IsFun(m, o) THEN less
      ELSE Without(FoldLeft(object_delete, less, m.obj[o].kid), {o})
-----------------------------------------------------------------------------
(* The collector.                                                          *)

Visit(m, o, cond) ==
  [m EXCEPT !.obj[o].visited = cond, !.obj[o].tmp = IF cond THEN 1 ELSE 0,
            !.q = IF cond THEN <<o>> \o @ ELSE @]

(* cond marks, and counts the references met; ~cond takes the marks away.  *)
RECURSIVE _mark_tc(_, _, _)
_mark_tc(m, o, cond) ==
  LET down(n, k) == _mark_tc(n, k, cond)
  IN  IF o = None THEN m
      ELSE IF m.obj[o].visited # cond
      THEN FoldLeft(down, Visit(m, o, cond), m.obj[o].kid)
      ELSE IF cond THEN [m EXCEPT !.obj[o].tmp = @ + 1]
      ELSE m

(* No reference was followed to get to the object that marking starts at.  *)
mark_tc(m, o, cond) ==
  LET marked == _mark_tc(m, o, cond)
  IN  IF cond THEN [marked EXCEPT !.obj[o].tmp = @ - 1] ELSE marked

(* What is referred to from outside is alive, with all that it refers to.  *)
RECURSIVE Unmark(_)
Unmark(m) ==
  LET o    == Head(m.q)
      rest == [m EXCEPT !.q = Tail(@)]
  IN  IF m.q = <<>> THEN m
      ELSE Unmark(IF m.obj[o].tmp < m.obj[o].rc THEN mark_tc(rest, o, FALSE)
                                                ELSE rest)

RECURSIVE sweep(_, _)
sweep(m, o) ==
  IF o = None THEN m
  ELSE IF ~m.obj[o].visited \/ o \in m.refuse THEN m
  ELSE FoldLeft(LAMBDA n, k : sweep(Count(n, k, -1), k),
                [m EXCEPT !.refuse = @ \cup {o}], m.obj[o].kid)

Pass(m, data) == sweep(Unmark(mark_tc(m, data, TRUE)), data)

FreeRefused(m) == [Without(m, m.refuse) EXCEPT !.refuse = {}]

(* The order is that of the addresses in gc_set's tree.                    *)
Collected(m, order) == FreeRefused(FoldLeft(Pass, m, order))

gc_del_obj(m, o) == FreeRefused(Pass(m, o))
-----------------------------------------------------------------------------
(* At the return of a call its function is freed if no other function has  *)
(* it as its parent.  To spare the collector the way up to the parent and  *)
(* into the code, both are unlinked and linked again if it is kept.        *)
Linked(m, f, kid) ==
  [m EXCEPT !.obj[f].kid =
     [i \in DOMAIN @ |-> IF i \in CodeSlots \cup {sup} THEN kid[i] ELSE @[i]]]

Unlinked(m, f) ==
  LET kid == m.obj[f].kid
  IN  Count(Linked(m, f, [i \in DOMAIN kid |-> None]), kid[sup], -1)

Relinked(m, f, kid) == Count(Linked(m, f, kid), kid[sup], 1)

del_fn(m, f) ==
  LET kid  == m.obj[f].kid
      left == gc_del_obj(Unlinked(m, f), f)
      code == [i \in 1 .. Len(kid) |-> IF i \in CodeSlots THEN kid[i] ELSE None]
  IN  IF f \in DOMAIN left.obj THEN Relinked(left, f, kid)
                               ELSE FoldLeft(object_delete, left, code)
=============================================================================
