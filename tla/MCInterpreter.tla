--------------------------- MODULE MCInterpreter ---------------------------
(* Programs of one or two statements, with calls of functions whose bodies *)
(* have one or two: literals, names, fresh arrays, closures, functions     *)
(* that are named in their own namespace, calls of all of these.           *)
EXTENDS Interpreter

Text(s) == [is |-> s, kid |-> <<>>]
Arr(s) == [is |-> "arr", kid |-> s]

Look(name)  == <<Text(":"), Text(name)>>
Eval(body)  == <<Text(">"), Arr(body)>>
Fun(body)   == <<Text("~"), Arr(<<Arr(<<Text("x")>>), Arr(body)>>)>>
Let(v)      == <<Text("|"), Text(">"), Arr(<<Text("y")>> \o v)>>
Call(f, v)  == <<Text(":"), Text(">"), Arr(f \o v)>>

Simple == {<<Text("1")>>, Look("x"), Look("self")}
Values == Simple \cup {Eval(e) : e \in Simple} \cup {Fun(e) : e \in Simple}
Bodies == Values \cup {Let(v) \o e : v \in Values, e \in Values \cup {Look("y")}}
Calls  == {Let(Fun(e)) \o Call(Look("y"), v) : e \in Simple \cup {Look("y")}, v \in Values}
          \cup {Call(Look("x"), v) : v \in Values}

MCNames == <<"x", "y", "STACK", "HEAP">>

Repeated == <<Text("~"), Arr(<<Arr(<<Text("x"), Text("x")>>), Arr(Look("x"))>>)>>

Odd == {Call(<<Text("1")>>, <<>>), Call(Fun(Look("x")), <<>>), Look("z"),
        Call(Repeated, Look("self") \o Fun(Look("x"))),
        <<Text("1"), Text("1"), Text("<"), Arr(<<Text("1")>>)>>}

MCPrograms == {Arr(p) : p \in Odd} \cup {Arr(Call(Fun(b), v)) : b \in Bodies \cup Calls, v \in Values}

MCEmptyPrograms == {Arr(Call(Fun(<<>>), v)) : v \in Values}
(* Texts of up to five characters, most of which are no program's: spaces, *)
(* an operator, brackets and quotes without partners, words and numbers.   *)
Chars == {" ", ":", "[", "]", "'", "z", "7", "-"}
MCTexts == UNION {[1 .. n -> Chars] : n \in 0 .. 5}
=============================================================================
