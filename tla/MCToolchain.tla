----------------------------- MODULE MCToolchain -----------------------------
(***************************************************************************)
(* Programs with every form of expression, one inside the other; calls     *)
(* where nothing else of the caller's is on the stack yet, which is where  *)
(* compile.py gets them right.                                             *)
(***************************************************************************)
EXTENDS Toolchain

I(n) == <<"int", n>>
V(x) == <<"var", x>>
P(op, a, b) == <<"prim", op, a, b>>
Gt(a, b) == <<"gt", a, b>>
X == 1
Y == 2
F == 1
G == 2

(* Expressions in which no variable occurs, and in which X and Y do. *)
Small == {I(2), I(-3), P(sbs, I(2), I(3)), Gt(I(-1), I(-3))}

Operators == {ads, sbs, mls, and, orr, xor, nor}

WithX == {P(sbs, V(Y), V(X)), Gt(V(X), V(Y)),
          <<"set", X, P(mlu, V(X), V(Y))>>,
          <<"if", Gt(V(X), I(1)), V(Y), <<"set", Y, V(X)>>>>,
          <<"let", <<<<X, P(ads, V(Y), I(1))>>>>, <<V(X)>>>>}

Plain == {<<P(op, a, b)>> : op \in Operators, a \in Small, b \in Small}

Shifted == {<<P(shf, a, I(n))>> : a \in Small, n \in {1, -2}}

Lets == {<<<<"let", <<<<X, a>>, <<Y, b>>>>, <<e, P(sbs, V(X), f)>>>>>> :
           a \in Small, b \in {I(5), Gt(I(1), I(2))}, e \in WithX, f \in WithX}

Define(f, params, body) == <<"def", f, params, body>>

Calls == {<<Define(F, <<X, Y>>, <<e>>), <<"call", F, <<a, b>>>>>> :
            a \in Small, b \in {I(5), Gt(I(1), I(2))}, e \in WithX}

(* A function that calls another one, with the value of which it goes on.  *)
Chain == {<<Define(F, <<X>>, <<<<"call", G, <<V(X)>>>>>>),
            Define(G, <<Y>>, <<<<"if", Gt(V(Y), I(1)), <<"set", Y, I(4)>>, I(0)>>, V(Y)>>),
            <<"call", F, <<a>>>>>> : a \in Small}

(* The example that compile.py translates. *)
Decrease == <<"set", Y, P(sbs, V(Y), I(1))>>
Factorial ==
  <<Define(F, <<Y>>,
      <<<<"let", <<<<X, I(1)>>>>,
           <<<<"loop", Gt(V(Y), I(0)), <<<<"set", X, P(mls, V(X), V(Y))>>, Decrease>>>>,
             V(X)>>>>>>),
    <<"call", F, <<I(4)>>>>>>

(* Memory, and assembler: compare and swap, an exception, and a division    *)
(* of what was copied from rr first.                                       *)
CompareSwap == Line(acx, rr, rr, to_hex(7))
Memory == {<<<<"put", I(1), a>>, I(1), <<"asm", CompareSwap>>,
             <<"asm", <<Token("op", exc), to_hex(3)>>>>,
             P(ads, <<"get", I(0), I(1)>>, <<"put", I(2), I(1)>>)>> :
           a \in {I(1), I(5)}}

Halved == {<<a, <<"asm", Line(ads, 1, rr, to_hex(0))>>,
                  <<"asm", Line(dvs, rr, 1, to_hex(2))>>>> :
             a \in {I(7), I(-7)}}

MCSources == Plain \cup Shifted \cup Lets \cup Calls \cup Chain \cup Memory \cup Halved \cup {Factorial}

(* An example in compile.py's comments: a call is the argument of a call. *)
Nested ==
  {<<Define(F, <<X, Y>>, <<P(ads, V(X), V(Y))>>),
     Define(G, <<X>>, <<V(X)>>),
     <<"call", G, <<<<"call", F, <<I(1), I(2)>>>>>>>>>>}
-----------------------------------------------------------------------------
(* Texts of up to three lines that are no program's: data, labels that are *)
(* defined once, twice or not, and instructions with every kind of last    *)
(* operand, at the edges of what fits and beyond.                          *)

Reg(n) == Token("reg", n)
Num(n) == Token("num", n)
Neg(n) == Token("neg", n)
L      == Token("name", 1)
K      == Token("name", 2)

(* It cannot be a datum: it is a label, and an operand that does not fit   *)
(* may refer to it.                                                        *)
Below == Neg(MaxImm(3) + 1)

DataAndLabels == {<<Num(5)>>, <<L>>, <<K>>, <<Below>>}

LastOperands == {Num(MaxImm(3)), Neg(MaxImm(3)), Below, Reg(2), Reg(num_regs), L, K}

Instructions ==
  {<<Token("op", exc), t>> :
     t \in {Num(MaxImm(1)), Neg(MaxImm(1)), Num(MaxImm(1) + 1), Reg(1), L}}
    \cup {<<Token("op", jnc), Reg(3), Reg(1), t>> : t \in LastOperands}
    \cup {<<Token("op", ads), Reg(3), K, Reg(1)>>}

(* The end of the text comes before the last operand, or before all.       *)
Cut == {<<Token("op", exc)>>, <<Token("op", sbs), Reg(1), Reg(0)>>}

Texts(lines) ==
  UNION {[1 .. n -> lines] : n \in 0 .. 3}
    \cup UNION {{Append(ls, c) : ls \in [1 .. n -> lines], c \in Cut} : n \in 0 .. 2}

(* The label r, with lines of every kind before and after its references.   *)
LinesWithR ==
  {<<Num(5)>>, <<L>>, <<reg_des>>, <<Token("op", exc), reg_des>>}
    \cup {<<Token("op", jnc), Reg(3), Reg(1), t>> : t \in {L, reg_des}}

MCTexts == Texts(DataAndLabels \cup Instructions) \cup Texts(LinesWithR)
=============================================================================
