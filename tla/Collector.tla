------------------------------ MODULE Collector ------------------------------
(***************************************************************************)
(* Objects, their reference counts and the two ways memory is reclaimed:   *)
(* object_delete, which frees an object when its last reference goes, and  *)
(* the collector, which finds the cycles that only functions can close: a  *)
(* function is never freed by object_delete, it stays in gc_set until      *)
(* gc_collect (or del_fn, when its call returns) finds that no reference   *)
(* to it comes from outside of what it refers to itself.                   *)
(*                                                                         *)
(* The interpreter builds functions and data from what it can reach, keeps *)
(* references and drops them.  The recursive calls for the references of   *)
(* an object are steps here: todo has the references, on all levels of the *)
(* recursion, that the calls have still to follow (Objects has the calls   *)
(* as functions of the memory).                                            *)
(***************************************************************************)
EXTENDS Integers, Sequences, FiniteSets

CONSTANTS Objs,      \* addresses of objects
          None,      \* the null reference
          Size,      \* references in an object
          MaxHeld    \* bound: references the interpreter has at a time

(* A function stands for itself with its namespace.  Its references are    *)
(* its parent, the value of "sup"; its code, f_args or f_exp; and the      *)
(* values of names.  Data (a pair, an array, a set, or without references  *)
(* a string or number) has no parent.                                      *)
sup == 1
exp == 2
Values == 3 .. Size

ASSUME ReferencesAssumption == Size \in Nat /\ Size >= 2 /\ None \notin Objs

VARIABLES obj,       \* the objects, with the word refcount as three fields
          gc_set,    \* the functions
          held,      \* the references counted for frames, op stacks and C variables
          work,      \* what the call that runs does
          todo,      \* the references that it has to follow
          root,      \* the object that marking started at
          q,         \* the queue of marked objects
          order,     \* the functions that gc_collect has still to start at
          refuse,    \* the objects that were swept and are about to be freed
          after,     \* what the caller does then
          collected  \* whether the last step was the end of a collection

memory == <<obj, gc_set>>
pass == <<root, q, order, refuse>>
vars == <<obj, gc_set, held, work, todo, root, q, order, refuse, after, collected>>

Live == DOMAIN obj
IsFun(x) == obj[x].fun
NoRefs == [i \in 1 .. Size |-> None]
Nothing == [call |-> "none", f |-> None, i |-> sup, kid |-> NoRefs]

Init ==
  /\ obj = [x \in {} |-> None]
  /\ gc_set = {}
  /\ held = [x \in Objs |-> 0]
  /\ work = "idle"
  /\ todo = <<>>
  /\ root = None
  /\ q = <<>>
  /\ order = {}
  /\ refuse = {}
  /\ after = Nothing
  /\ collected = FALSE
-----------------------------------------------------------------------------
Places(x, s) == Cardinality({i \in DOMAIN s : s[i] = x})

Count(x, n) == IF x = None THEN obj ELSE [obj EXCEPT ![x].rc = @ + n]

Work(w, refs) == work' = w /\ todo' = refs

(* What can be reached from R: it is in every set with R that has the      *)
(* references of all it has.                                               *)
Refs(x) == {obj[x].kid[i] : i \in 1 .. Size} \ {None}
Closed(R) == {S \in SUBSET Live : R \subseteq S /\ \A y \in S : Refs(y) \subseteq S}
Reach(R) == LET closed == Closed(R) IN {y \in Live : \A S \in closed : y \in S}

Known == Reach({x \in Live : held[x] > 0})
-----------------------------------------------------------------------------
(* The interpreter.                                                        *)
Holds(x, n) == held' = [held EXCEPT ![x] = @ + n] /\ collected' = FALSE

MayHold == Cardinality({p \in Objs \X (1 .. MaxHeld) : p[2] <= held[p[1]]}) < MaxHeld

Added(x, fun, kid) ==
  LET new == [fun |-> fun, kid |-> kid, rc |-> 1, visited |-> FALSE, tmp |-> 0]
  IN  [y \in Live \cup {x} |->
         IF y = x THEN new ELSE [obj[y] EXCEPT !.rc = @ + Places(y, kid)]]

(* An array, pair or set is built from what is at hand. *)
object(x, kid) ==
  /\ work = "idle" /\ MayHold
  /\ kid[sup] = None
  /\ obj' = Added(x, FALSE, kid)
  /\ Holds(x, 1)
  /\ UNCHANGED <<gc_set, work, todo, pass, after>>

new_fn(x, _sup, _exp) ==
  /\ work = "idle" /\ MayHold
  /\ obj' = Added(x, TRUE, [NoRefs EXCEPT ![sup] = _sup, ![exp] = _exp])
  /\ gc_set' = gc_set \cup {x}
  /\ Holds(x, 1)
  /\ UNCHANGED <<work, todo, pass, after>>

(* A value that was looked up gets a place in an array or a frame. *)
keep(x) ==
  /\ work = "idle" /\ MayHold
  /\ obj' = Count(x, 1)
  /\ Holds(x, 1)
  /\ UNCHANGED <<gc_set, work, todo, pass, after>>

drop(x) ==
  /\ work = "idle"
  /\ held[x] > 0
  /\ Work("delete", <<x>>)
  /\ Holds(x, -1)
  /\ UNCHANGED <<memory, pass, after>>

(* The operator |: the old binding of the name goes before the new comes.  *)
name_fn(f, i, v) ==
  /\ work = "idle"
  /\ held[v] > 0
  /\ obj' = [obj EXCEPT ![f].kid[i] = None]
  /\ Work("delete", <<obj[f].kid[i]>>)
  /\ after' = [call |-> "bind", f |-> f, i |-> i, kid |-> [obj[f].kid EXCEPT ![i] = v]]
  /\ collected' = FALSE
  /\ UNCHANGED <<gc_set, held, pass>>

(* A mistake: the parent, or a name's new value, is not counted.           *)
Linked_uncounted(f, i, kid) == [obj EXCEPT ![f].kid = kid]

Linked(f, i, kid) == [Count(kid[i], 1) EXCEPT ![f].kid = kid]

(* At the return of a call its function is freed if no other function has  *)
(* it as its parent.  To spare the collector the way up to the parent and  *)
(* into the code, both are unlinked and linked again if it is kept.        *)
del_fn(f) ==
  LET kid == obj[f].kid
      less == [x \in Live |-> [obj[x] EXCEPT !.rc = @ - Places(x, <<f, kid[sup]>>)]]
  IN  /\ work = "idle"
      /\ held[f] > 0
      /\ obj' = [less EXCEPT ![f].kid[sup] = None, ![f].kid[exp] = None]
      /\ Holds(f, -1)
      /\ after' = [call |-> "return", f |-> f, i |-> sup, kid |-> kid]
      /\ order' = {f}
      /\ Work("pass", <<>>)
      /\ UNCHANGED <<gc_set, root, q, refuse>>

gc_collect ==
  /\ work = "idle"
  /\ order' = gc_set
  /\ Work("pass", <<>>)
  /\ collected' = FALSE
  /\ UNCHANGED <<memory, held, root, q, refuse, after>>
-----------------------------------------------------------------------------
(* object_delete, with set_delete and obj_array_delete. *)
Ref == Head(todo)
Rest == Tail(todo)
Following(w) == work = w /\ todo # <<>>

object_delete ==
  /\ Following("delete")
  /\ \/ /\ Ref = None
        /\ todo' = Rest
        /\ UNCHANGED obj
     \/ /\ Ref # None
        /\ obj[Ref].rc > 1 \/ IsFun(Ref)
        /\ obj' = Count(Ref, -1)
        /\ todo' = Rest
     \/ /\ Ref # None
        /\ obj[Ref].rc <= 1 /\ ~IsFun(Ref)
        /\ obj' = [y \in Live \ {Ref} |-> obj[y]]
        /\ todo' = obj[Ref].kid \o Rest
  /\ collected' = FALSE
  /\ UNCHANGED <<gc_set, held, work, pass, after>>

deleted ==
  /\ work = "delete" /\ todo = <<>>
  /\ obj' = IF after.call = "bind" THEN Linked(after.f, after.i, after.kid) ELSE obj
  /\ after' = Nothing
  /\ work' = "idle"
  /\ UNCHANGED <<gc_set, held, todo, pass, collected>>
-----------------------------------------------------------------------------
(* The collector.  Marking counts the references that it follows.          *)
gc_pass ==
  /\ work = "pass" /\ order # {}
  /\ \E f \in order :
       /\ root' = f
       /\ order' = order \ {f}
       /\ Work("mark", <<f>>)
  /\ UNCHANGED <<memory, held, q, refuse, after, collected>>

Marked(x, cond) == [obj EXCEPT ![x].visited = cond, ![x].tmp = IF cond THEN 1 ELSE 0]

mark_next ==
  /\ Following("mark")
  /\ \/ /\ Ref = None
        /\ todo' = Rest
        /\ UNCHANGED <<obj, q>>
     \/ /\ Ref # None
        /\ obj[Ref].visited
        /\ obj' = [obj EXCEPT ![Ref].tmp = @ + 1]
        /\ todo' = Rest
        /\ UNCHANGED q
     \/ /\ Ref # None
        /\ ~obj[Ref].visited
        /\ obj' = Marked(Ref, TRUE)
        /\ todo' = obj[Ref].kid \o Rest
        /\ q' = <<Ref>> \o q
  /\ UNCHANGED <<gc_set, held, work, root, order, refuse, after, collected>>

(* A mistake: the object that marking starts at counts as referred to.     *)
Corrected_not == obj

(* No reference was followed to get to the object that marking starts at.  *)
Corrected == [obj EXCEPT ![root].tmp = @ - 1]

marked ==
  /\ work = "mark" /\ todo = <<>>
  /\ obj' = Corrected
  /\ work' = "check"
  /\ UNCHANGED <<gc_set, held, todo, pass, after, collected>>

(* What is referred to from outside is alive, with all that it refers to.  *)
check ==
  /\ work = "check" /\ q # <<>>
  /\ q' = Tail(q)
  /\ IF obj[Head(q)].tmp < obj[Head(q)].rc THEN Work("unmark", <<Head(q)>>)
                                           ELSE UNCHANGED <<work, todo>>
  /\ UNCHANGED <<memory, held, root, order, refuse, after, collected>>

unmark_next ==
  /\ Following("unmark")
  /\ IF Ref # None /\ obj[Ref].visited
     THEN obj' = Marked(Ref, FALSE) /\ todo' = obj[Ref].kid \o Rest
     ELSE todo' = Rest /\ UNCHANGED obj
  /\ UNCHANGED <<gc_set, held, work, pass, after, collected>>

unmarked ==
  /\ work = "unmark" /\ todo = <<>>
  /\ work' = "check"
  /\ UNCHANGED <<memory, held, todo, pass, after, collected>>

Dead(x) == obj[x].visited /\ x \notin refuse

Swept(x, rest) == refuse' = refuse \cup {x} /\ todo' = obj[x].kid \o rest

sweep ==
  /\ work = "check" /\ q = <<>>
  /\ IF Dead(root) THEN Swept(root, <<>>) ELSE UNCHANGED <<refuse, todo>>
  /\ work' = "sweep"
  /\ UNCHANGED <<memory, held, root, q, order, after, collected>>

sweep_next ==
  /\ Following("sweep")
  /\ obj' = Count(Ref, -1)
  /\ IF Ref # None /\ Dead(Ref) THEN Swept(Ref, Rest) ELSE todo' = Rest /\ UNCHANGED refuse
  /\ UNCHANGED <<gc_set, held, work, root, q, order, after, collected>>

swept ==
  /\ work = "sweep" /\ todo = <<>>
  /\ work' = "pass"
  /\ UNCHANGED <<memory, held, todo, pass, after, collected>>

(* gc_collect and gc_del_obj free what was swept. del_fn goes on: *)
freed ==
  /\ work = "pass" /\ order = {}
  /\ gc_set' = gc_set \ refuse
  /\ refuse' = {}
  /\ after' = Nothing
  /\ \/ /\ refuse = {} /\ after.call = "return"
        /\ obj' = Linked(after.f, after.i, after.kid)
        /\ Work("idle", <<>>)
        /\ UNCHANGED collected
     \/ /\ refuse # {} /\ after.call = "return"
        /\ obj' = [y \in Live \ refuse |-> obj[y]]
        /\ Work("delete", <<after.kid[exp]>>)
        /\ UNCHANGED collected
     \/ /\ after.call = "none"
        /\ obj' = [y \in Live \ refuse |-> obj[y]]
        /\ Work("idle", <<>>)
        /\ collected' = TRUE
  /\ UNCHANGED <<held, root, q, order>>

Step ==
  \/ object_delete \/ deleted
  \/ gc_pass \/ mark_next \/ marked \/ check \/ unmark_next \/ unmarked
  \/ sweep \/ sweep_next \/ swept \/ freed

Funs == {x \in Known : IsFun(x)}
Data == Known \ Funs

Next ==
  \/ \E x \in Objs \ Live, kid \in [1 .. Size -> Known \cup {None}] : object(x, kid)
  \/ \E x \in Objs \ Live, s \in Funs \cup {None}, e \in Data : new_fn(x, s, e)
  \/ \E x \in Known : keep(x) \/ drop(x)
  \/ \E f \in Funs, i \in Values, v \in Known : name_fn(f, i, v)
  \/ \E f \in Funs : del_fn(f)
  \/ gc_collect
  \/ Step

Spec == Init /\ [][Next]_vars
-----------------------------------------------------------------------------
(* The references to x that objects have. *)
References(x) == Cardinality({p \in Live \X (1 .. Size) : obj[p[1]].kid[p[2]] = x})

(* Whenever no call runs, each count is the number of references there     *)
(* are, no reference is to a freed object, only a function may be without  *)
(* any, gc_collect has left no mark and no temporary count behind, and     *)
(* gc_set has the functions that were not freed and nothing else.          *)
BooksRight ==
  work = "idle" =>
    /\ \A x \in Live :
         /\ obj[x].rc = References(x) + held[x]
         /\ obj[x].rc = 0 => IsFun(x)
         /\ Refs(x) \subseteq Live
         /\ ~obj[x].visited /\ obj[x].tmp = 0
    /\ gc_set = {x \in Live : IsFun(x)}

(* Nothing that the interpreter can reach is freed or changed by any step  *)
(* of object_delete, del_fn or gc_collect, and when gc_collect ends there  *)
(* is nothing else.  Until its call has finished, a function has what the  *)
(* call will leave it with: del_fn unlinks references for the collector    *)
(* and links them again, set_add_str_key replaces a value in two steps.    *)
Store == INSTANCE ObjectStore
           WITH Objects <- Objs,
                kids <- [x \in Live |-> IF x = after.f THEN after.kid ELSE obj[x].kid]

(* The collector keeps that promise. *)
ImplementsStore == Store!Spec
=============================================================================
