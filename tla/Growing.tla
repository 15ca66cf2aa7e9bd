------------------------------- MODULE Growing -------------------------------
(***************************************************************************)
(* Arrays, and objects that words are appended to (datastructures.c).      *)
(* Both keep a header in front of their contents in the same block, and    *)
(* move to a larger block when it is full; the address that a call returns *)
(* then replaces the one it was given.  What the block can hold is not     *)
(* stored: it follows from the size that the allocator left in front of    *)
(* the block, which here is the length of the sequence.                    *)
(*                                                                         *)
(* Handles are the variables of the program that refer to an array or an   *)
(* object.  One of them can be in the middle of array_append_str or        *)
(* cstr_to_string, which append one character after another.               *)
(***************************************************************************)
EXTENDS Integers, Sequences

CONSTANTS BlockAddr,  \* addresses of blocks, numbers above 0
          Junk,     \* what a word holds before it is written
          Handles,
          Values,    \* words to append
          Capacities, ItemSizes,  \* what array and object are called with
          Strings,   \* sequences of values to append one by one
          None,      \* no list
          MaxWords   \* bound on the words of a list that more are added to

ASSUME SizesAssumption == /\ BlockAddr \subseteq Nat \ {0}
                          /\ Capacities \subseteq Nat
                          /\ ItemSizes \subseteq Nat \ {0}

VARIABLES blocks,
          held,      \* of each handle, the kind of list and its address
          str        \* the handle of the call that appends a string, and
                     \* what it has not appended yet

growing == <<blocks, held, str>>

Characters == UNION {{s[i] : i \in DOMAIN s} : s \in Strings}

(* What a word of a block can hold.                                        *)
Contents == Values \cup Characters \cup {Junk} \cup Nat

ASSUME StringsAssumption == Strings \subseteq Seq(Contents)
ASSUME NoneAssumption == None \notin Seq(Contents)

(***************************************************************************)
(* Allocated memory as the data structures see it: at some addresses there *)
(* are blocks, each a sequence of words.  An allocation may get more words *)
(* than it asked for, since a remainder too small to stay free goes with   *)
(* it (Heap), and it may always fail, for the memory can be in pieces.     *)
(* Which address it gets makes no difference to any caller, so the lowest  *)
(* that is not in use stands for all.                                      *)
(***************************************************************************)
NoBlock == 0
least_words == 3    \* min_alloc_sz without the size word
slack == 3          \* a larger remainder is split off

(* An answer of the allocator: the blocks after it, and the address.       *)
Failed(B) == [blocks |-> B, addr |-> NoBlock]

Fresh(B) == {a \in BlockAddr \ DOMAIN B : \A c \in BlockAddr \ DOMAIN B : a <= c}

Sizes(n) == IF n < least_words THEN least_words .. least_words + slack
                               ELSE n .. n + slack

Blank(n) == [i \in 1 .. n |-> Junk]

(* The blocks B and a block w at address a.                                *)
Placed(B, a, w) ==
  [blocks |-> [c \in DOMAIN B \cup {a} |-> IF c = a THEN w ELSE B[c]],
   addr |-> a]

alloc(B, n) ==
  {Failed(B)} \cup {Placed(B, a, Blank(m)) : a \in Fresh(B), m \in Sizes(n)}

free(B, a) == [c \in DOMAIN B \ {a} |-> B[c]]

(* A mistake: the last word of the old block is not copied.                *)
Copied_short(w, n, m) ==
  [i \in 1 .. m |-> IF i < Len(w) /\ i <= n THEN w[i] ELSE Junk]

(* The words of w that are there in both blocks, in a block of m words.    *)
Copied(w, n, m) ==
  [i \in 1 .. m |-> IF i <= Len(w) /\ i <= n THEN w[i] ELSE Junk]

(* A mistake: the old block stays.                                         *)
realloc_kept(B, a, n) ==
  {Failed(B)} \cup
  {Placed(B, b, Copied(B[a], n, m)) : b \in Fresh(B), m \in Sizes(n)}

(* A new block with the words of block a, which is freed.  If there is no  *)
(* new block the old one is left as it was.                                *)
realloc(B, a, n) ==
  {Failed(B)} \cup
  {Placed(free(B, a), b, Copied(B[a], n, m)) : b \in Fresh(B), m \in Sizes(n)}
-----------------------------------------------------------------------------
Nothing == [kind |-> "none", addr |-> NoBlock]
Idle == [h |-> NoBlock, rest |-> <<>>]

NoLists ==
  /\ blocks = [a \in {} |-> <<>>]
  /\ held = [h \in Handles |-> Nothing]
  /\ str = Idle
-----------------------------------------------------------------------------
(* An array: how many words are used, how many an item has, the words.     *)
Array_bsz == 2
used_sz(w) == w[1]
item_sz(w) == w[2]

(* An object: reference count, type, size, contents.                       *)
Object_bsz == 3     \* obj_sz without the size word
size(w) == w[3]

Array(w) == SubSeq(w, Array_bsz + 1, Array_bsz + used_sz(w))
Object(w) == SubSeq(w, Object_bsz + 1, Object_bsz + size(w))

array_capacity(w) == (Len(w) - Array_bsz) \div item_sz(w)
array_len(w) == used_sz(w) \div item_sz(w)

(* The words of s written to w from position i on.                         *)
Write(w, i, s) ==
  [k \in 1 .. Len(w) |-> IF k \in i .. i + Len(s) - 1 THEN s[k - i + 1]
                         ELSE w[k]]

(* Answer r, with the words w in its block.                                *)
Holding(r, w) ==
  IF r.addr = NoBlock THEN r ELSE [r EXCEPT !.blocks[r.addr] = w]

(* The answers, with the change f(word sequence) made to the new block.    *)
Filled(answers, f(_)) == {Holding(r, f(r.blocks[r.addr])) : r \in answers}

array(n, isz) ==
  LET Header(w) == Write(w, 1, <<0, isz>>)
  IN  Filled(alloc(blocks, n * isz + Array_bsz), Header)

Grown(w) == Len(w) + (Len(w) - Array_bsz) \div 2 + item_sz(w)

(* A mistake: room for one word more is taken as room for an item.         *)
Full_word(w) == used_sz(w) >= Len(w) - Array_bsz

Full(w) == used_sz(w) + item_sz(w) > Len(w) - Array_bsz

array_append(a, item) ==
  LET w == blocks[a]
      Added(v) == Write(Write(v, Array_bsz + 1 + used_sz(v), item),
                        1, <<used_sz(v) + item_sz(v)>>)
  IN  Filled(IF Full(w) THEN realloc(blocks, a, Grown(w))
             ELSE {[blocks |-> blocks, addr |-> a]}, Added)

array_resize(a, n) ==
  realloc(blocks, a, Array_bsz + n * item_sz(blocks[a]))

object(n, s) ==
  LET Header(w) == Write(w, 1, <<0, Junk, Len(s)>> \o s)
  IN  IF n < Len(s) THEN {Failed(blocks)}
      ELSE Filled(alloc(blocks, n + Object_bsz), Header)

ObjectFull(w) == size(w) >= Len(w) - Object_bsz

obj_sz == Object_bsz + 1

object_append_word(a, data) ==
  LET w == blocks[a]
      Added(v) == Write(Write(v, Object_bsz + 1 + size(v), <<data>>),
                        Object_bsz, <<size(v) + 1>>)
  IN  Filled(IF ObjectFull(w)
             THEN realloc(blocks, a, obj_sz + size(w) + size(w) \div 2 + 1)
             ELSE {[blocks |-> blocks, addr |-> a]}, Added)

object_expand(a, n) ==
  LET Cut(v) == IF n < size(v) THEN Write(v, Object_bsz, <<n>>) ELSE v
  IN  Filled(realloc(blocks, a, obj_sz + n), Cut)
-----------------------------------------------------------------------------
(* The calls.  While one of them runs through a string there is no other.  *)

(* A block that nobody refers to stays in use; its words are left out.     *)
Forget(B, a) == [b \in DOMAIN B |-> IF b = a THEN <<>> ELSE B[b]]

(* Handle h gets the address of answer r, or null.                         *)
Takes(h, kind, r) ==
  /\ blocks' = IF r.addr = NoBlock THEN Forget(r.blocks, held[h].addr) ELSE r.blocks
  /\ held' = [held EXCEPT ![h] = IF r.addr = NoBlock THEN Nothing
                                 ELSE [kind |-> kind, addr |-> r.addr]]

(* A caller that looks at the answer first, and keeps what it has if that  *)
(* is null.                                                                *)
Keeps(h, r) ==
  /\ blocks' = r.blocks
  /\ held' = IF r.addr = NoBlock THEN held ELSE [held EXCEPT ![h].addr = r.addr]

(* The string that is left to append; at its end the call is over.         *)
Spelling(h, s) == IF s = <<>> THEN Idle ELSE [h |-> h, rest |-> s]

New(h) ==
  /\ str = Idle
  /\ held[h] = Nothing
  /\ \/ \E n \in Capacities, isz \in ItemSizes :
          \E r \in array(n, isz) : Takes(h, "array", r)
     \/ \E n \in Capacities, s \in Strings :
          \E r \in object(n, s) : Takes(h, "object", r)
  /\ UNCHANGED str

Append1(h) ==
  /\ str = Idle
  /\ held[h].kind = "array"
  /\ LET a == held[h].addr
         isz == item_sz(blocks[a])
     IN  /\ used_sz(blocks[a]) + isz <= MaxWords
         /\ \E item \in [1 .. isz -> Values] :
              \E r \in array_append(a, item) : Keeps(h, r)
  /\ UNCHANGED str

AppendWord(h) ==
  /\ str = Idle
  /\ held[h].kind = "object"
  /\ size(blocks[held[h].addr]) < MaxWords
  /\ \E v \in Values :
       \E r \in object_append_word(held[h].addr, v) : Takes(h, "object", r)
  /\ UNCHANGED str

(* No smaller than what is in it: used_sz is not touched.                  *)
Resize(h) ==
  /\ str = Idle
  /\ held[h].kind = "array"
  /\ \E n \in Capacities :
       /\ n >= array_len(blocks[held[h].addr])
       /\ \E r \in array_resize(held[h].addr, n) : Keeps(h, r)
  /\ UNCHANGED str

(* A failure goes unnoticed: 1 is subtracted from the null pointer before  *)
(* it is tested, and no caller can use the object or its block after that. *)
Expand(h) ==
  /\ str = Idle
  /\ held[h].kind = "object"
  /\ \E n \in Capacities :
       \E r \in object_expand(held[h].addr, n) : Takes(h, "object", r)
  /\ UNCHANGED str

array_append_str(h) ==
  /\ str = Idle
  /\ held[h].kind = "array"
  /\ item_sz(blocks[held[h].addr]) = 1
  /\ \E s \in Strings :
       /\ used_sz(blocks[held[h].addr]) + Len(s) <= MaxWords
       /\ str' = Spelling(h, s)
  /\ UNCHANGED <<blocks, held>>

cstr_to_string(h) ==
  /\ str = Idle
  /\ held[h] = Nothing
  /\ \E r \in object(8, <<>>) : Takes(h, "object", r)
  /\ \E s \in Strings : str' = Spelling(h, s)

(* array_append_str stops at a null answer, cstr_to_string goes on without *)
(* an object; the one they had is referred to by nobody.                   *)
NextCharacter ==
  LET h == str.h
      c == Head(str.rest)
      rest == Tail(str.rest)
  IN  /\ str # Idle
      /\ \E r \in CASE held[h].kind = "array" ->
                         array_append(held[h].addr, <<c>>)
                    [] held[h].kind = "object" ->
                         object_append_word(held[h].addr, c)
                    [] held[h].kind = "none" -> {Failed(blocks)} :
           /\ Takes(h, held[h].kind, r)
           /\ str' = IF r.addr = NoBlock /\ held[h].kind = "array" THEN Idle
                     ELSE Spelling(h, rest)

Delete(h) ==
  /\ str = Idle
  /\ held[h] # Nothing
  /\ blocks' = free(blocks, held[h].addr)
  /\ held' = [held EXCEPT ![h] = Nothing]
  /\ UNCHANGED str

ListCall ==
  \/ \E h \in Handles :
       \/ New(h) \/ Append1(h) \/ AppendWord(h) \/ Resize(h) \/ Expand(h)
       \/ array_append_str(h) \/ cstr_to_string(h) \/ Delete(h)
  \/ NextCharacter

GrowingSpec == NoLists /\ [][ListCall]_growing
-----------------------------------------------------------------------------
Arrays == {h \in Handles : held[h].kind = "array"}
Objects == {h \in Handles : held[h].kind = "object"}

(* Nothing has been written behind the end of a block, however an array or *)
(* an object came to its block: by array, by realloc with more or fewer    *)
(* words than before, with what the allocator added.  Items are whole.     *)
WithinBlocks ==
  /\ \A h \in Arrays \cup Objects : held[h].addr \in DOMAIN blocks
  /\ \A h \in Arrays : LET w == blocks[held[h].addr]
                       IN  /\ used_sz(w) <= Len(w) - Array_bsz
                           /\ used_sz(w) % item_sz(w) = 0
                           /\ array_len(w) <= array_capacity(w)
  /\ \A h \in Objects : LET w == blocks[held[h].addr]
                        IN  size(w) <= Len(w) - Object_bsz

Lost == DOMAIN blocks \ {held[h].addr : h \in Handles}

(* A block that nobody refers to any more was given up with a null answer  *)
(* that replaced its address: array_append_str, object_append_word and     *)
(* object_expand called by those who do not look.  Moving to a larger      *)
(* block never leaves the old one behind.                                  *)
LostOnlyWithNull ==
  [][\A a \in Lost' \ Lost :
       \E h \in Handles : held[h].addr = a /\ held'[h] = Nothing]_growing

Chunks == Strings \cup {<<v>> : v \in Values \cup Characters}
          \cup UNION {[1 .. n -> Values] : n \in ItemSizes}

Content(B, d) == IF d = Nothing THEN None
                 ELSE IF d.kind = "array" THEN Array(B[d.addr])
                 ELSE Object(B[d.addr])

Lists == [h \in Handles |-> Content(blocks, held[h])]

ListPromise == INSTANCE Growable
                 WITH lists <- Lists, Items <- Chunks, Gone <- None

(* Arrays and objects are lists that grow at their end: what was appended  *)
(* stays, in order, through every move, and when an append fails a caller  *)
(* that looks has the same list as before.                                 *)
ListsGrow == ListPromise!Spec
=============================================================================
