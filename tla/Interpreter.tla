----------------------------- MODULE Interpreter -----------------------------
(***************************************************************************)
(* run_prog_stack from the text of a program to its value: tokenize reads  *)
(* the text, and the machine of _run_prog evaluates the tree it returns.   *)
(* A text that is no program's is read only.                               *)
(***************************************************************************)
EXTENDS Machine

CONSTANTS Programs,   \* trees of records [is, kid], a name being one letter
          Texts,      \* other texts
          Letters, Digits

VARIABLES code, i, stack, result, texts, tmps

tokenizing == <<code, i, stack, result, texts, tmps>>

(* The text of a program: after a word there is a blank.                   *)
RECURSIVE Written(_)
Written(kids) ==
  FlattenSeq([k \in DOMAIN kids |->
    CASE kids[k].is = "arr" -> <<"[">> \o Written(kids[k].kid) \o <<"]">>
      [] kids[k].is \in StackOps -> <<kids[k].is>>
      [] OTHER -> <<kids[k].is, " ">>])

T == INSTANCE Tokenizer WITH Codes <- Texts

Start ==
  /\ \/ \E p \in Programs : prog = p /\ code = Written(p.kid) /\ T!Begin
     \/ prog = None /\ T!Init
  /\ Init

(* The objects that the tokenizer made, as the machine knows them.         *)
RECURSIVE Tree(_)
Tree(token) ==
  IF token.is = "arr"
  THEN [is |-> "arr", kid |-> [k \in DOMAIN token.of |-> Tree(token.of[k])]]
  ELSE [is |-> token.of[1], kid |-> <<>>]

tokenize ==
  /\ T!Next
  /\ UNCHANGED vars

start_machine ==
  /\ prog # None
  /\ result # <<>>
  /\ run_prog_stack(Tree(result[1]))
  /\ code' = <<>>
  /\ result' = <<>>
  /\ texts' = 0
  /\ UNCHANGED <<i, stack, tmps>>

Step == tokenize \/ start_machine \/ (Next /\ UNCHANGED tokenizing)

Spec == Start /\ [][Step]_<<vars, tokenizing>>
-----------------------------------------------------------------------------
(* A text is read as its lexemes, nested as its brackets are (_tokenize).  *)
ReadsWhatIsWritten == T!ReadsWhatIsWritten

(* Nothing that was made for reading a text is left (_tokenize, tokenize). *)
OnlyTheTreeRemains == T!OnlyTheTreeRemains
=============================================================================
