----------------------------- MODULE ObjectStore -----------------------------
(***************************************************************************)
(* What the interpreter may rely on, however memory is reclaimed: the      *)
(* objects that it can reach from those it holds stay, with their          *)
(* contents, and after a collection no others are left.                    *)
(***************************************************************************)
EXTENDS Naturals

CONSTANTS Objects, None,
          Size    \* slots of an object

VARIABLES kids,       \* of every object, the objects in its slots
          held,       \* how many references the interpreter has to each
          collected   \* whether the last step was the end of a collection

svars == <<kids, held, collected>>

Slots == 1 .. Size

Init ==
  /\ kids = [o \in {} |-> None]
  /\ held = [o \in Objects |-> 0]
  /\ collected = FALSE

(* S has what is held, and whatever its members refer to. *)
Closed(k, h, S) ==
  /\ {o \in Objects : h[o] > 0} \subseteq S
  /\ \A o \in S, i \in Slots : k[o][i] \in S \cup {None}

Least(k, h, S) == \A T \in SUBSET S : Closed(k, h, T) => T = S

New(o) ==
  /\ held' = [held EXCEPT ![o] = 1]
  /\ collected' = FALSE
  /\ o \notin DOMAIN kids
  /\ DOMAIN kids' = DOMAIN kids \cup {o}
  /\ \A p \in DOMAIN kids : kids'[p] = kids[p]
  /\ kids'[o] \in [Slots -> DOMAIN kids \cup {None}]

Hold(o) ==
  /\ held' = [held EXCEPT ![o] = @ + 1]
  /\ collected' = FALSE
  /\ o \in DOMAIN kids
  /\ UNCHANGED kids

Release(o) ==
  /\ held[o] > 0
  /\ held' = [held EXCEPT ![o] = @ - 1]
  /\ collected' = FALSE
  /\ UNCHANGED kids

Assign(o, i, p) ==
  /\ {o, p} \subseteq DOMAIN kids
  /\ kids' = [kids EXCEPT ![o][i] = p]
  /\ collected' = FALSE
  /\ UNCHANGED held

(* Some of the objects that cannot be reached are gone. *)
Reclaimed ==
  LET S == DOMAIN kids'
  IN  /\ S \subseteq DOMAIN kids
      /\ kids' = [o \in S |-> kids[o]]
      /\ Closed(kids, held, S)
      /\ UNCHANGED held

Reclaim == Reclaimed /\ collected' = FALSE

Collect == Reclaimed /\ collected' = TRUE /\ Least(kids, held, DOMAIN kids')

Next ==
  \/ \E o \in Objects : New(o) \/ Hold(o) \/ Release(o)
  \/ \E o, p \in Objects, i \in Slots : Assign(o, i, p)
  \/ Reclaim
  \/ Collect

Spec == Init /\ [][Next]_svars
=============================================================================
