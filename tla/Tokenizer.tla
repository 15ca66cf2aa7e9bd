------------------------------ MODULE Tokenizer ------------------------------
(***************************************************************************)
(* _tokenize of lisp.c: from the characters of a program to a tree of      *)
(* strings, numbers, operators and arrays.  One action is one turn of its  *)
(* loop; a block is read by a call of its own, so there is a stack of the  *)
(* arrays that the calls are filling.  Memory is taken to suffice.         *)
(***************************************************************************)
EXTENDS Integers, Sequences, FiniteSets, SequencesExt

CONSTANTS Letters, Digits,
          Codes     \* the texts, sequences of characters

ws == {" "}
ops == {"~", ":", ">", "|", "<", "[", "]", "'"}
Minus == "-"
WordChars == Letters \cup Digits \cup {Minus}

VARIABLES code,    \* the program
          i,       \* the index, from 0
          stack,   \* for each call that runs, the array it fills (ret)
          result,  \* what the outermost call returned, in a sequence
          texts,   \* strings and numbers allocated: tok and b
          tmps     \* strings allocated that calls compare with

vars == <<code, i, stack, result, texts, tmps>>

Token(is, of) == [is |-> is, of |-> of]

At(j) == code[j + 1]
code_len == Len(code)

Begin ==
  /\ i = 0
  /\ stack = <<<<>>>>
  /\ result = <<>>
  /\ texts = 0
  /\ tmps = 1

Init == code \in Codes /\ Begin
-----------------------------------------------------------------------------
Running == stack # <<>> /\ i < code_len

(* obj_array_append to the array of the innermost call.                    *)
Filled(token) == [stack EXCEPT ![Len(stack)] = Append(@, token)]

(* The next index from j on at which there is one of S, or the end.        *)
Next1(j, S) ==
  CHOOSE k \in j .. code_len :
    /\ k = code_len \/ At(k) \in S
    /\ \A l \in j .. k - 1 : At(l) \notin S

WhiteSpace ==
  /\ Running /\ At(i) \in ws
  /\ i' = i + 1
  /\ UNCHANGED <<code, stack, result, texts, tmps>>

(* Up to the closing quote or the end.  Nothing is special in between.     *)
String ==
  /\ Running /\ At(i) = "'"
  /\ LET end == Next1(i + 1, {"'"})
     IN  /\ stack' = Filled(Token("str", SubSeq(code, i + 2, end)))
         /\ i' = end + 1
  /\ texts' = texts + 1
  /\ UNCHANGED <<code, result, tmps>>

OpenBlock ==
  /\ Running /\ At(i) = "["
  /\ stack' = Append(stack, <<>>)
  /\ tmps' = tmps + 1
  /\ i' = i + 1
  /\ UNCHANGED <<code, result, texts>>

(* The innermost call returns its array to the one that called it.         *)
Returned ==
  /\ IF Len(stack) = 1 THEN stack' = <<>> /\ result' = <<Token("arr", Head(stack))>>
     ELSE LET block == Token("arr", Last(stack))
          IN  /\ stack' = [Front(stack) EXCEPT ![Len(stack) - 1] = Append(@, block)]
              /\ UNCHANGED result
  /\ UNCHANGED <<code, texts>>

(* A mistake: tmp is freed at the end of the code only.                    *)
CloseBlock_kept ==
  Running /\ At(i) = "]" /\ Returned /\ i' = i + 1 /\ tmps' = tmps

(* In the outermost call too, which then leaves the rest of the code out.  *)
CloseBlock ==
  Running /\ At(i) = "]" /\ Returned /\ i' = i + 1 /\ tmps' = tmps - 1

(* Blocks that are still open end with the code.                           *)
EndOfCode ==
  stack # <<>> /\ i >= code_len /\ Returned /\ i' = i /\ tmps' = tmps - 1

(* The operators of the set are shared by all the places they are in.      *)
Operator ==
  /\ Running /\ At(i) \in ops \ {"'", "[", "]"}
  /\ stack' = Filled(Token("op", <<At(i)>>))
  /\ i' = i + 1
  /\ UNCHANGED <<code, result, texts, tmps>>

(* What str_to_num can read.                                               *)
IsNumber(word) ==
  LET digits == IF Head(word) = Minus THEN Tail(word) ELSE word
  IN  digits # <<>> /\ \A k \in DOMAIN digits : digits[k] \in Digits

(* A mistake: the word ends after the character that shows its end.        *)
AfterWord_later(end) == end + 1

(* One step back, as the loop goes one forward.                            *)
AfterWord(end) == end

(* A number takes the place of its string.                                 *)
Word ==
  /\ Running /\ At(i) \in WordChars
  /\ LET end == Next1(i + 1, ws \cup ops)
         word == SubSeq(code, i + 1, end)
     IN  /\ stack' = Filled(Token(IF IsNumber(word) THEN "num" ELSE "str", word))
         /\ texts' = texts + 1
         /\ i' = AfterWord(end)
  /\ UNCHANGED <<code, result, tmps>>

Next == WhiteSpace \/ String \/ OpenBlock \/ CloseBlock \/ EndOfCode
        \/ Operator \/ Word

Spec == Init /\ [][Next]_vars
-----------------------------------------------------------------------------
(* What the code says, without reading it from left to right.  A quote     *)
(* opens a string if the number of quotes before it is even.               *)

Text(k, S) ==
  LET after == {j \in k + 1 .. code_len : code[j] \in S}
  IN  IF after = {} THEN SubSeq(code, k, code_len)
      ELSE SubSeq(code, k, (CHOOSE j \in after : \A l \in after : j <= l) - 1)

Lexeme(k) ==
  CASE code[k] = "'" -> Token("str", Tail(Text(k, {"'"})))
    [] code[k] \in WordChars ->
         Token(IF IsNumber(Text(k, ws \cup ops)) THEN "num" ELSE "str",
               Text(k, ws \cup ops))
    [] OTHER -> Token("op", <<code[k]>>)

(* A closing bracket too many ends the program.                            *)
Lexemes ==
  LET outside == {k \in DOMAIN code :
                    Cardinality({j \in 1 .. k - 1 : code[j] = "'"}) % 2 = 0}
      brackets(k, c) == Cardinality({j \in outside : j <= k /\ code[j] = c})
      beyond == {k \in outside : brackets(k, "]") > brackets(k, "[")}
      read == {k \in outside :
                 /\ \A b \in beyond : k < b
                 /\ \/ code[k] \in ops
                    \/ code[k] \in WordChars /\ (k > 1 => code[k - 1] \notin WordChars)}
      open == Cardinality({k \in read : code[k] = "["})
              - Cardinality({k \in read : code[k] = "]"})
      starts == SelectSeq([k \in DOMAIN code |-> k], LAMBDA k : k \in read)
  IN  [n \in DOMAIN starts |-> Lexeme(starts[n])]
      \o [n \in 1 .. open |-> Token("op", <<"]">>)]

RECURSIVE Flat(_)
Flat(tokens) ==
  FlattenSeq([n \in DOMAIN tokens |->
    IF tokens[n].is = "arr"
    THEN <<Token("op", <<"[">>)>> \o Flat(tokens[n].of) \o <<Token("op", <<"]">>)>>
    ELSE <<tokens[n]>>])

Done == result # <<>>

(* The tree has the lexemes of the code, all of them and in their order,   *)
(* nested as the brackets are: where a word, a string and a block end, how *)
(* far the index is when the loop goes on, what a block leaves to the call *)
(* around it, and what happens to brackets without a partner.              *)
ReadsWhatIsWritten == Done => Flat(result[1].of) = Lexemes

RECURSIVE TextsIn(_)
TextsIn(tokens) ==
  FoldLeft(+, 0, [n \in DOMAIN tokens |->
    CASE tokens[n].is = "arr" -> TextsIn(tokens[n].of)
      [] tokens[n].is = "op" -> 0
      [] OTHER -> 1])

(* At every exit the strings that were only needed for reading are freed,  *)
(* and those in the tree are not.                                          *)
OnlyTheTreeRemains == Done => tmps = 0 /\ texts = TextsIn(result)
=============================================================================
