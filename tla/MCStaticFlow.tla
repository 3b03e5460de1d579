---------------------------- MODULE MCStaticFlow ----------------------------
(***************************************************************************)
(* Small methods for model-checking StaticAnswers, and the methods they    *)
(* call.                                                                   *)
(***************************************************************************)
EXTENDS StaticAnswers

\* f computes 1 and is in the graph, g is of another library and cannot be run, copy is
\* System.arraycopy.
Callee(returns, kind, n, inGraph) ==
  [returns |-> returns, outcome |-> Data(kind, n), inGraph |-> inGraph, arraycopy |-> FALSE]
TheCallees ==
  [f    |-> Callee("boolean", "literal", 1, TRUE),
   g    |-> Callee("array", "fails", 0, FALSE),
   h    |-> Callee("boolean", "fails", 0, TRUE),
   copy |-> [Callee("other", "fails", 0, FALSE) EXCEPT !.arraycopy = TRUE]]

I(op) == [op |-> op, dst |-> 0, src |-> 0, index |-> 1, lit |-> 1, to |-> <<>>,
          args |-> <<>>, how |-> "eq", name |-> NoCallee]
To(op, offsets) == [I(op) EXCEPT !.to = offsets]
Call(c, args)   == [I("invoke") EXCEPT !.name = c, !.args = args]
CallOfMany(c)      == [I("invoke_range") EXCEPT !.name = c]
Test0(h, off)   == [To("test_zero", <<off>>) EXCEPT !.how = h]
Into1(i)        == [i EXCEPT !.dst = 1]
Move1 == [I("move") EXCEPT !.dst = 1]

\* Register 1 is the argument.
MethodOf(body) == [regs |-> 2, ins |-> 1, code |-> [a \in 0 .. Len(body) |->
                     IF a < Len(body) THEN body[a + 1] ELSE I("return")]]

\* A result is fetched behind what makes one, as Android's verifier has it.
Makes(i)    == i.op \in {"invoke", "invoke_range", "filled"} /\ i.name # "copy"
Verified(m) ==
  \A a \in Address(m) :
    /\ m.code[a].op = "move_result" => a > 0 /\ Makes(m.code[a - 1])
    /\ \A k \in DOMAIN m.code[a].to :
         LET there == a + m.code[a].to[k]
         IN there \in Address(m) => m.code[there].op # "move_result"

Common == {I("const"), Call("f", <<0>>), Call("h", <<1>>), I("move_result"), Move1,
           Test0("eq", 2), Test0("ne", -1), To("goto", <<-2>>), To("switch", <<-1, 2>>)}
Rare   == {Into1(I("string")), I("unseen"), I("filled"), I("nop"), I("new"), I("new_array"),
           To("fill_array", <<3>>), I("array_data"), CallOfMany("f"), Call("g", <<0, 1>>),
           Call(NoCallee, <<>>), Into1(I("sget")), I("sput"), I("iput"), I("throw"),
           To("test", <<2>>), I("array_put"), Call("copy", <<0, 0, 1>>)}
Bodies(n, set) == {MethodOf(b) : b \in [1 .. n -> set]}

SmallMethods == {m \in
  Bodies(3, Common)
  \cup {MethodOf(<<c, r>> \o b) : c \in Common, r \in Rare, b \in [1 .. 2 -> Common]}
  \cup {MethodOf(<<I("const"), I("new_array"), Move1, c>> \o b) :
           c \in {Call("copy", <<0, 0, 1>>), Call("copy", <<1, 0, 0>>)},
           b \in [1 .. 1 -> Common \cup Rare]} : Verified(m)}
=============================================================================
