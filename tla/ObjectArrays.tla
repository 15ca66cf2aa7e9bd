---------------------------- MODULE ObjectArrays -----------------------------
(***************************************************************************)
(* Arrays of objects (obj_array of datastructures.c) when memory can run   *)
(* out.  An array of objects is an object with one slot, for a subarray    *)
(* that has the items and is replaced by a larger one when it is full      *)
(* (Growing).  Each item is counted once for each place it has.            *)
(*                                                                         *)
(* A new object has no references.  The program owns it until it appends   *)
(* it somewhere or deletes it.  object_delete and _obj_array_flatten call  *)
(* themselves for the items of an array; what they have still to do, on    *)
(* all levels of the recursion, is a sequence of objects here, and a step  *)
(* is what they do for one of these.                                       *)
(***************************************************************************)
EXTENDS Integers, Sequences, FiniteSets

CONSTANTS Ids,       \* addresses of objects, natural numbers
          Rooms,     \* the sizes obj_array is called with
          MaxItems,  \* bound on the items of an array that more are added to
          MaxLeaves, \* and of one that is filled by obj_array_flatten
          MaxLost    \* bound on the places of an object that are lost

ASSUME SizesOfArrays == Rooms \subseteq Nat

VARIABLES obj,       \* the objects that are allocated
          own,       \* those the program has a variable for
          dels,      \* the references that object_delete has to give up
          flat,      \* what obj_array_flatten has to do, and for which array
          lost       \* history: for each object the places it had in
                     \* subarrays that are lost, and the failed appends
objects == <<obj, own, dels, flat, lost>>

Live == DOMAIN obj
NewObject(kind, room) ==
  [kind |-> kind, count |-> 0, room |-> room, items |-> <<>>, null |-> FALSE]

ObjArrays == {a \in Live : obj[a].kind = "array"}
Places(x, s) == Cardinality({i \in DOMAIN s : s[i] = x})

(* What can be reached from R: it is in every set with R that has all the  *)
(* items of what it has.                                                   *)
ItemsOf(O, x) == {O[x].items[i] : i \in DOMAIN O[x].items}
Closed(O, R) ==
  {S \in SUBSET DOMAIN O : R \subseteq S /\ \A y \in S : ItemsOf(O, y) \subseteq S}
Reach(O, R) == LET closed == Closed(O, R)
               IN  {y \in DOMAIN O : \A S \in closed : y \in S}

(* A subarray that is not there is read through a null pointer: what       *)
(* happens then is not modelled.                                           *)
Usable(x) == \A a \in Reach(obj, {x}) : ~ obj[a].null

NoFlat == [to |-> -1, rest |-> <<>>]
NoWork == dels = <<>> /\ flat = NoFlat

NoObjects ==
  /\ obj = [x \in {} |-> NewObject("string", 0)]
  /\ own = {}
  /\ dels = <<>>
  /\ flat = NoFlat
  /\ lost = [x \in Ids |-> 0]
-----------------------------------------------------------------------------
FreshIds == {x \in Ids \ Live : \A y \in Ids \ Live : x <= y}

Added(x, o) == [y \in Live \cup {x} |-> IF y = x THEN o ELSE obj[y]]

Created(x, kind, room) ==
  /\ NoWork
  /\ x \in FreshIds
  /\ obj' = Added(x, NewObject(kind, room))
  /\ own' = own \cup {x}
  /\ UNCHANGED <<dels, lost>>

(* object, for a string.                                                   *)
string == \E x \in FreshIds : Created(x, "string", 0) /\ UNCHANGED flat

(* Both objects are there, or the first is deleted again.                  *)
obj_array ==
  \E x \in FreshIds, room \in Rooms : Created(x, "array", room) /\ UNCHANGED flat

(* object_expand by half; one word more comes from the size word.          *)
MoreRoom(n) == n + n \div 2 + 2

NoRoom(a) == Len(obj[a].items) >= obj[a].room

(* A mistake: an item is counted where the array is made larger.           *)
Counted_late(a, x) == IF NoRoom(a) THEN [obj EXCEPT ![x].count = @ + 1] ELSE obj

Counted(a, x) == [obj EXCEPT ![x].count = @ + 1]

WithItem(a, x) ==
  [Counted(a, x) EXCEPT ![a].items = Append(@, x),
                        ![a].room = IF NoRoom(a) THEN MoreRoom(Len(obj[a].items)) ELSE @]

(* x is counted before it is known that the array cannot grow, and the     *)
(* null answer takes the place of the subarray and its items.              *)
Failing(a, x) == [Counted(a, x) EXCEPT ![a].items = <<>>, ![a].null = TRUE]

Appended(a, x) ==
  \/ /\ ~ obj[a].null
     /\ obj' = WithItem(a, x)
     /\ UNCHANGED lost
  \/ /\ ~ obj[a].null
     /\ NoRoom(a)
     /\ \A y \in Ids : lost[y] < MaxLost
     /\ obj' = Failing(a, x)
     /\ lost' = [y \in Ids |-> lost[y] + Places(y, Append(obj[a].items, x))]
  \/ /\ obj[a].null
     /\ UNCHANGED <<obj, lost>>

(* The program gives x away, whether or not it is taken.                   *)
obj_array_append(a, x) ==
  /\ NoWork
  /\ a \in own \cap ObjArrays
  /\ x \in Reach(obj, own)
  /\ a \notin Reach(obj, {x})
  /\ Len(obj[a].items) < MaxItems
  /\ Appended(a, x)
  /\ own' = own \ {x}
  /\ UNCHANGED <<dels, flat>>

(* The items of a, and of the arrays in it, get one more place each, in an *)
(* array with room for 16.                                                 *)
Flattening(r, s) == IF s = <<>> THEN NoFlat ELSE [to |-> r, rest |-> s]

obj_array_flatten(a) ==
  /\ a \in own \cap ObjArrays
  /\ Usable(a)
  /\ \E r \in FreshIds : Created(r, "array", 16) /\ flat' = Flattening(r, obj[a].items)

flatten_next ==
  LET x == Head(flat.rest)
      more == Tail(flat.rest)
  IN  /\ flat # NoFlat
      /\ \/ /\ x \in ObjArrays
            /\ flat' = Flattening(flat.to, obj[x].items \o more)
            /\ UNCHANGED <<obj, lost>>
         \/ /\ x \notin ObjArrays
            /\ Len(obj[flat.to].items) < MaxLeaves
            /\ flat' = Flattening(flat.to, more)
            /\ Appended(flat.to, x)
      /\ UNCHANGED <<own, dels>>

(* The count goes up first, so that an object without any is freed too.    *)
o_del(x) ==
  /\ NoWork
  /\ x \in own
  /\ Usable(x)
  /\ obj' = [obj EXCEPT ![x].count = @ + 1]
  /\ own' = own \ {x}
  /\ dels' = <<x>>
  /\ UNCHANGED <<flat, lost>>

(* A mistake: the items of a deleted array keep their counts.              *)
Left_shallow(x) == <<>>

(* The references of an object that is freed.                              *)
Left(x) == obj[x].items

(* One reference less; an object whose count gets to 0 is freed, and an    *)
(* array's items are next.                                                 *)
object_delete ==
  LET x == Head(dels)
  IN  /\ dels # <<>>
      /\ \/ /\ obj[x].count > 1
            /\ obj' = [obj EXCEPT ![x].count = @ - 1]
            /\ dels' = Tail(dels)
         \/ /\ obj[x].count <= 1
            /\ obj' = [y \in Live \ {x} |-> obj[y]]
            /\ dels' = Left(x) \o Tail(dels)
      /\ UNCHANGED <<own, flat, lost>>

ObjectCall ==
  \/ string
  \/ obj_array
  \/ \E a, x \in Live : obj_array_append(a, x)
  \/ \E a \in Live : obj_array_flatten(a)
  \/ flatten_next
  \/ \E x \in Live : o_del(x)
  \/ object_delete

ObjectSpec == NoObjects /\ [][ObjectCall]_objects
-----------------------------------------------------------------------------
(* The places of arrays, and those with x in them.                         *)
Slots(O) == UNION {{a} \X DOMAIN O[a].items : a \in DOMAIN O}
PlacesOf(O, x) == {p \in Slots(O) : O[p[1]].items[p[2]] = x}

(* The count of every object is the number of places it has, in the arrays *)
(* that are there and in the subarrays that were lost when they could not  *)
(* grow, and of references that are about to be given up: nested arrays,   *)
(* items in several places and flattened copies come and go without        *)
(* upsetting it, and nothing refers to an object that is gone.             *)
PlacesCounted ==
  /\ \A x \in Live :
       obj[x].count = lost[x] + Cardinality(PlacesOf(obj, x)) + Places(x, dels)
  /\ \A a \in Live : ItemsOf(obj, a) \subseteq Live
  /\ \A i \in DOMAIN dels : dels[i] \in Live

(* Until an append has failed, what is allocated is what the program can   *)
(* reach from the objects it owns and the references it is giving up; then *)
(* what is left over is an object that was counted for a lost place, or    *)
(* was given to an array without a subarray, or is in one of these.        *)
LeaksOnlyAfterFailure ==
  LET nowhere == {x \in Live \ own : obj[x].count = 0}
      left == {x \in Live : lost[x] > 0}
              \cup IF \E a \in ObjArrays : obj[a].null THEN nowhere ELSE {}
      given == {dels[i] : i \in DOMAIN dels}
  IN  Live = Reach(obj, own \cup left \cup given)
=============================================================================
