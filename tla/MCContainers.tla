----------------------------- MODULE MCContainers -----------------------------
(***************************************************************************)
(* The containers that the rest of the program is built on: a queue, an    *)
(* array or object that grows, and arrays of objects.  They share nothing  *)
(* but the allocator, which may refuse any of them at any time, so that a  *)
(* behaviour is about one of them and leaves the others as they begin.     *)
(***************************************************************************)
EXTENDS Queue, Growing, ObjectArrays

VARIABLE use   \* "queue", "growing" or "objects"

(* One string is empty and one is longer than what cstr_to_string starts   *)
(* with.                                                                   *)
Addresses == 1 .. 4
SomeStrings == {<<>>, <<1, 2, 3>>, <<1, 2, 3, 4, 5, 6, 7, 8, 9, 10>>}

Objs == 1 .. 4

Begin ==
  /\ use \in {"queue", "growing", "objects"}
  /\ Init
  /\ NoLists
  /\ NoObjects

Step ==
  /\ UNCHANGED use
  /\ \/ use = "queue" /\ Next /\ UNCHANGED <<growing, objects>>
     \/ use = "growing" /\ ListCall /\ UNCHANGED <<vars, objects>>
     \/ use = "objects" /\ ObjectCall /\ UNCHANGED <<vars, growing>>

Containers == Begin /\ [][Step]_<<use, vars, growing, objects>>
=============================================================================
