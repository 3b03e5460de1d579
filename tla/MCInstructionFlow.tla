-------------------------- MODULE MCInstructionFlow --------------------------
(***************************************************************************)
(* Small methods for model-checking FlowAnswers: a few instructions of     *)
(* every kind, in every order, between a beginning and a return.           *)
(***************************************************************************)
EXTENDS FlowAnswers

I(op) == [op |-> op, dst |-> 0, left |-> 0, right |-> 1, lit |-> 1, bits |-> 8,
          to |-> <<>>, args |-> <<>>, how |-> "eq"]
Jump(op, to) == [I(op) EXCEPT !.to = to]

Const(n, bits) == [I("const") EXCEPT !.lit = n, !.bits = bits]
Lit(how, n)    == [I("binop_lit") EXCEPT !.how = how, !.lit = n]

Zero     == Const(0, 4)
Next0    == Lit("add", 1)
Call0    == [I("invoke") EXCEPT !.args = <<0>>]
Face(h)  == [I("invoke_interface") EXCEPT !.args = <<0>>, !.how = h]
Test0(h, off) == [Jump("test_zero", <<off>>) EXCEPT !.how = h]

MethodOf(body) == [regs |-> 2, code |-> [a \in 0 .. Len(body) |->
                     IF a < Len(body) THEN body[a + 1] ELSE I("return")]]

\* Instructions of which methods are made in every order.
Common == {Zero, Next0, Call0, I("move_result"), Test0("eq", 2), Test0("ne", -1), Test0("lt", -2),
           Jump("goto", <<-2>>), Jump("switch", <<2, -1>>)}
Rare   == {I("sget"), I("not_impl"), I("keep"), Jump("test", <<2>>), I("move"), I("new"),
           [I("binop") EXCEPT !.how = "sub"], I("div"),
           Lit("add", -1), Lit("sub", 1), Lit("div", 2), Const(-1, 4), Const(-1, 16), Const(1, 32),
           Face("inherited"), Face("own"), Face("several")}

Bodies(n, set) == {MethodOf(b) : b \in [1 .. n -> set]}

SmallMethods == {m \in
  Bodies(4, Common)
  \cup {MethodOf(<<Zero, r>> \o b) : r \in Rare, b \in [1 .. 2 -> Common]}
  \cup {MethodOf(<<I("sget"), f, t>> \o b) : f \in Rare, t \in {Test0("eq", 2), Test0("ge", -1)},
                                   b \in [1 .. 1 -> Common \cup Rare]} : Verified(m)}

\* A test in a loop that is closed by a switch: i = 0; do { if (i != 0) f(i); i++ } switch (..)
SwitchLoops ==
  {MethodOf(<<Zero, Test0("eq", 2), Call0, Next0, Jump("switch", targets)>>) :
     targets \in {<<-3>>, <<1>>, <<-3, 1>>}}

\* What the analysis misreads, each before a test that has one way to go:
\* if (1 + -1 == 0), if (1 - -2 < 0), if (-8 == 0), if (2 / 4 == 0), and what is left of a
\* number where an array was put.
WidenedLiteral      == {MethodOf(<<Const(1, 4), Lit("add", -1), Test0("eq", 1)>>)}
ReversedSubtraction == {MethodOf(<<Const(-2, 16), Lit("sub", 1), Test0("lt", 1)>>)}
DecodedConstant     == {MethodOf(<<Const(-8, 4), Test0("eq", 1)>>)}
DividedRegisters    ==
  {MethodOf(<<Const(1, 4), Lit("add", 1), [Lit("add", 2) EXCEPT !.dst = 1],
              I("div"), Test0("eq", 1)>>)}
KeptNumber          == {MethodOf(<<Zero, I("keep"), Test0("eq", 1)>>)}
=============================================================================
