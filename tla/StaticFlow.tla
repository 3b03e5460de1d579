----------------------------- MODULE StaticFlow -----------------------------
(***************************************************************************)
(* The static flow of coeus_parse (dex/graph/analysis/static): a method's  *)
(* instructions are followed along many branches at once, for the edges    *)
(* and nodes that its calls and field accesses add to the information      *)
(* graph.  build_information_graph calls next_instruction until it says    *)
(* that there is nothing left, or a number of times.                       *)
(*                                                                         *)
(* One step of the model is one branch's turn in next_instruction.  Every  *)
(* instruction has size one and one opcode stands for all that act alike.  *)
(* Ids are random in the code; here a branch's id is its number.  Indices  *)
(* of registers and fields are in range.  The types of registers and their *)
(* positions as parameters, which are only displayed, are left out.        *)
(***************************************************************************)
EXTENDS Integers, SequencesExt, Lists

CONSTANTS
  Methods,       \* the methods followed: [regs, ins, code], code: address -> instruction
  Callees,       \* the methods called: name -> [returns, outcome, inGraph, arraycopy]
  BranchLimit,   \* total_branches at which forks are dropped (200 in the code)
  RoundLimit,    \* iterations after which the driver gives up (80 in the code)
  SizeLimit,     \* the longest array that is kept (100000 in the code)
  MaxTargets     \* offsets a switch has at most

VARIABLES
  method,                \* the method, which never changes
  branches, total,       \* branches; total_branches
  already,               \* already_branched
  at,                    \* the branch whose turn it is
  finished, forks,       \* finished_branches, new_branches
  rounds, phase,         \* iterations of the driver's loop; whether it goes on
  changes                \* nodes_to_add

flowVars == <<method, branches, total, already, at, finished, forks, rounds, phase, changes>>

TestKinds == {"eq", "ne", "lt", "le", "gt", "ge"}
Opcodes   == {"const", "string", "unseen", "filled", "nop", "new", "new_array", "array_put", "fill_array",
              "array_data", "move", "move_result", "invoke", "invoke_range", "sget", "sput",
              "iget", "iput", "goto", "test", "test_zero", "switch", "return", "throw"}

Address(m) == DOMAIN m.code
Regs(m)    == 0 .. m.regs - 1
NoCallee   == "none"   \* an index beyond the table of methods

\* An instruction; to: branch offsets; args: the registers passed; how: the kind of test;
\* name: the method called or the field accessed.  An array_put stores dst in the array src.
WellFormed(i, m) ==
  /\ i.op \in Opcodes
  /\ {i.dst, i.src, i.index} \subseteq Regs(m)
  /\ i.lit \in Int
  /\ i.to \in Seq(Int) /\ Len(i.to) <= MaxTargets
  /\ i.args \in Seq(Regs(m))
  /\ i.op \in {"goto", "test", "test_zero", "fill_array"} => Len(i.to) = 1
  /\ i.op \in {"invoke", "invoke_range"} => i.name \in DOMAIN Callees \cup {NoCallee}

ASSUME MethodsAssumption ==
  \A m \in Methods :
    /\ m.regs \in Nat /\ m.ins \in 0 .. m.regs /\ 0 \in Address(m)
    /\ \A a \in Address(m) : WellFormed(m.code[a], m)

ASSUME CalleesAssumption ==
  \A c \in DOMAIN Callees :
    /\ Callees[c].returns \in {"boolean", "array", "other"}
    /\ Callees[c].outcome.kind \in {"literal", "string", "array", "object", "fails"}
    /\ Callees[c].inGraph \in BOOLEAN /\ Callees[c].arraycopy \in BOOLEAN

\* The graph's nodes that an edge may lead to are told apart: methods, fields, the others.
ASSUME NamesAssumption ==
  /\ {"method", "type", "string", NoCallee} \cap DOMAIN Callees = {}
  /\ \A m \in Methods : \A a \in Address(m) :
       m.code[a].op \in {"sget", "sput", "iget", "iput"} => m.code[a].name \notin DOMAIN Callees

ASSUME BoundsAssumption ==
  /\ BranchLimit \in Nat \ {0, 1} /\ RoundLimit \in Nat /\ SizeLimit \in Nat
  /\ MaxTargets \in Nat \ {0}

(***************************************************************************)
(* Values: what a StaticRegister says                                      *)
(***************************************************************************)
Data(kind, n) == [kind |-> kind, n |-> n]
NoData     == Data("none", 0)
Literal(n) == Data("literal", n)
DataKinds  == {"none", "literal", "string", "array", "field", "object"}

\* A FunctionTransformation; known: whether all that went into it can be evaluated.
NoCall == [callee |-> NoCallee, known |-> FALSE, arg |-> FALSE]
Calls  == [callee : DOMAIN Callees \cup {NoCallee}, known : BOOLEAN, arg : BOOLEAN]

\* A register that is not an argument, an array or the result of a call.
Register(r, data) ==
  [reg |-> r, data |-> data, call |-> NoCall, isArg |-> FALSE, isArray |-> FALSE, inner |-> <<>>]

\* run_transformation: the methods called are run on the virtual machine, innermost first.
\* What running a method comes to is a constant here.
Outcome(call) == Callees[call.callee].outcome
Runs(call)    == call.known /\ Outcome(call).kind # "fails"
Passable      == {"literal", "string", "array"}
Evaluates(v)  ==
  IF v.call # NoCall THEN Runs(v.call) /\ Outcome(v.call).kind \in Passable
  ELSE v.data.kind \in Passable

(***************************************************************************)
(* Branches and changes                                                    *)
(***************************************************************************)
NoCondition == [is |-> FALSE, set |-> FALSE, call |-> NoCall]
Condition(is, v) == [is |-> is, set |-> TRUE, call |-> v.call]

me  == branches[at]
ins == method.code[me.next]
Reg(r) == me.regs[r]

\* A change set: AddEdge, AddNodeTo, AddNodeFrom, AddNodeFromTo; "method" is the method itself.
Nothing == [kind |-> "nothing"]
Edge(start, end)               == [kind |-> "edge", origin |-> start, destination |-> end, node |-> Nothing]
NodeTo(origin, node)           == [kind |-> "to", origin |-> origin, destination |-> NoCallee, node |-> node]
NodeFrom(destination, node)    == [kind |-> "from", origin |-> NoCallee, destination |-> destination, node |-> node]
NodeFromTo(origin, dest, node) == [kind |-> "from_to", origin |-> origin, destination |-> dest, node |-> node]

\* A StaticArgumentNode: a register, its position, and what the branch was last decided by.
Argument(v, position, condition, id) ==
  [kind |-> "argument", value |-> v, position |-> position, condition |-> condition, id |-> id]
ArrayNode(pc) == [kind |-> "array", pc |-> pc]

Init ==
  /\ method \in Methods
  /\ branches = <<[id |-> 1, next |-> 0, call |-> NoCall, condition |-> NoCondition,
                   regs |-> [r \in Regs(method) |->
                               [Register(r, Data("object", 0)) EXCEPT
                                  !.isArg = r >= method.regs - method.ins]]]>>
  /\ total = 1 /\ already = {} /\ at = 1
  /\ finished = {} /\ forks = <<>> /\ rounds = 0 /\ phase = "following" /\ changes = <<>>

(***************************************************************************)
(* next_instruction: one branch's turn                                     *)
(***************************************************************************)
InRound == phase = "following" /\ at <= Len(branches)
Turn    == InRound /\ me.next \in Address(method)
On(ops) == Turn /\ ins.op \in ops

\* The turn leaves the branch as b and adds changes.
Leaves(b, added) ==
  /\ branches' = [branches EXCEPT ![at] = b]
  /\ at' = at + 1
  /\ changes' = changes \o added
  /\ UNCHANGED <<method, total, rounds, phase>>

Passed == [me EXCEPT !.next = @ + 1]
Writes(v) == [Passed EXCEPT !.regs[ins.dst] = v]
Jumped == [me EXCEPT !.next = @ + ins.to[1]]
NoFork == UNCHANGED <<already, finished, forks>>

\* Faulty variant: forks are never dropped.
AlwaysFork == TRUE
\* The limit does not count what is forked in this round.
MayFork == total < BranchLimit

\* No instruction there, throw: the branch ends.
Finish ==
  /\ InRound
  /\ me.next \in Address(method) => ins.op \in {"throw", "return"}
  /\ Leaves(IF me.next \in Address(method) THEN Passed ELSE me, <<>>)
  /\ finished' = finished \cup {me.id}
  /\ UNCHANGED <<already, forks>>

Goto == On({"goto"}) /\ Leaves(Jumped, <<>>) /\ NoFork

\* Faulty variant: the last of a switch's targets is forgotten.
TargetsButLast == [k \in 1 .. Len(ins.to) - 1 |-> [me EXCEPT !.next = @ + ins.to[k]]]
Targets == [k \in DOMAIN ins.to |-> [me EXCEPT !.next = @ + ins.to[k]]]

\* A switch forks a branch for every target, however often it is met.
Switch ==
  /\ On({"switch"})
  /\ Leaves(Passed, <<>>)
  /\ forks' = IF MayFork THEN forks \o Targets ELSE forks
  /\ UNCHANGED <<already, finished>>

\* A test that any branch has met before is passed by.
TestAgain ==
  /\ On({"test", "test_zero"}) /\ me.next \in already
  /\ Leaves(Passed, <<>>) /\ NoFork

Test ==
  /\ On({"test"}) /\ me.next \notin already
  /\ already' = already \cup {me.next}
  /\ Leaves(Passed, <<>>)
  /\ forks' = IF MayFork THEN Append(forks, Jumped) ELSE forks
  /\ UNCHANGED finished

\* The boolean that is tested can be computed.
Dead(v) ==
  /\ v.call # NoCall /\ Callees[v.call.callee].returns = "boolean"
  /\ Runs(v.call) /\ Outcome(v.call).kind = "literal"

\* Faulty variant: the jump of a test for equality to zero is taken to be made by other values.
OffsetIsNotZero == ins.how # "eq"
\* What the two branches of a test for zero are decided by: the one that jumps at "equal"
\* has a condition that is false.
OffsetBool == ins.how = "eq"

TestZero ==
  /\ On({"test_zero"}) /\ me.next \notin already /\ ~Dead(Reg(ins.src))
  /\ already' = already \cup {me.next}
  /\ forks' = IF MayFork
              THEN Append(forks, [Jumped EXCEPT !.condition = Condition(~OffsetBool, Reg(ins.src))])
              ELSE forks
  /\ LET is == IF MayFork THEN OffsetBool ELSE ~OffsetBool
     IN Leaves([Passed EXCEPT !.condition = Condition(is, Reg(ins.src))], <<>>)
  /\ UNCHANGED finished

\* Only one way is followed: the jump if the value is one and the test is not for equality.
TestZeroDead ==
  /\ On({"test_zero"}) /\ me.next \notin already /\ Dead(Reg(ins.src))
  /\ already' = already \cup {me.next}
  /\ LET isOne == Outcome(Reg(ins.src).call).n = 1
     IN Leaves(IF isOne /\ ~OffsetBool THEN Jumped ELSE Passed, <<>>)
  /\ UNCHANGED <<finished, forks>>

(***************************************************************************)
(* Calls                                                                   *)
(***************************************************************************)
Arguments == [k \in DOMAIN ins.args |-> Reg(ins.args[k])]
InGraph   == Callees[ins.name].inGraph

\* An edge to the method called, one from it to its class's type.
CallEdges == IF InGraph THEN <<Edge("method", ins.name), Edge(ins.name, "type")>> ELSE <<>>

\* A node for every argument that says something; for every argument if the method called is
\* not in the graph.
ArgumentNode(k) ==
  IF InGraph
  THEN NodeFromTo("method", ins.name, Argument(Reg(ins.args[k]), k, me.condition, me.id))
  ELSE NodeTo("method", Argument(Reg(ins.args[k]), k, NoCondition, me.id))
Saying == Sublist([k \in DOMAIN ins.args |-> k],
                  {k \in DOMAIN ins.args : InGraph => Reg(ins.args[k]).data # NoData})
ArgumentNodes == [k \in DOMAIN Saying |-> ArgumentNode(Saying[k])]

TransformedBy ==
  [callee |-> ins.name,
   known  |-> \A k \in DOMAIN Arguments : Evaluates(Arguments[k]),
   arg    |-> \E k \in DOMAIN Arguments : Arguments[k].isArg]

\* System.arraycopy onto something known to be an array: the register in which that was made
\* takes what the source says, and no call is noted.
Copies == /\ Callees[ins.name].arraycopy /\ Len(ins.args) >= 3
          /\ Arguments[3].isArray
Copied == [Arguments[1] EXCEPT !.isArray = TRUE]

Invoke ==
  /\ On({"invoke"}) /\ ins.name # NoCallee
  /\ Leaves(IF Copies THEN [Passed EXCEPT !.regs[Arguments[3].reg] = Copied]
            ELSE [Passed EXCEPT !.call = TransformedBy],
            CallEdges \o ArgumentNodes)
  /\ NoFork

\* Faulty variant: a call of many registers leaves the last call noted.
RangeKeepsCall ==
  /\ On({"invoke_range"})
  /\ Leaves(Passed, IF ins.name = NoCallee THEN <<>> ELSE CallEdges)
  /\ NoFork

\* A call of many registers: its arguments are not looked at, nor is its result.
InvokeRange ==
  /\ On({"invoke_range"})
  /\ Leaves([Passed EXCEPT !.call = NoCall], IF ins.name = NoCallee THEN <<>> ELSE CallEdges)
  /\ NoFork

MoveResult ==
  /\ On({"move_result"})
  /\ Leaves([Writes([Register(ins.dst, NoData) EXCEPT
                       !.call = me.call, !.isArg = me.call.arg,
                       !.isArray = me.call # NoCall /\ Callees[me.call.callee].returns = "array"])
             EXCEPT !.call = NoCall], <<>>)
  /\ NoFork

(***************************************************************************)
(* Registers                                                               *)
(***************************************************************************)
Move   == On({"move"}) /\ Leaves(Writes(Reg(ins.src)), <<>>) /\ NoFork
Const  == On({"const"}) /\ Leaves(Writes(Register(ins.dst, Literal(ins.lit))), <<>>) /\ NoFork
New    == On({"new"}) /\ Leaves(Writes(Register(ins.dst, NoData)), <<>>) /\ NoFork
String ==
  /\ On({"string"})
  /\ Leaves(Writes(Register(ins.dst, Data("string", ins.lit))), <<Edge("method", "string")>>)
  /\ NoFork

\* A size below zero is a huge one.
Smaller(n) == IF n < 0 \/ n > SizeLimit THEN SizeLimit ELSE n
NewArray ==
  /\ On({"new_array"})
  /\ LET size == Reg(ins.src).data
     IN Leaves(IF size.kind # "literal" THEN Passed
               ELSE Writes([Register(ins.dst, NoData) EXCEPT
                              !.isArray = TRUE, !.inner = [k \in 1 .. Smaller(size.n) |-> 0]]), <<>>)
  /\ NoFork

\* A byte that is not known is put as zero.
ArrayPut ==
  /\ On({"array_put"})
  /\ LET byte  == IF Reg(ins.dst).data.kind = "literal" THEN Reg(ins.dst).data.n % 256 ELSE 0
         index == Reg(ins.index).data
         array == Reg(ins.src)
     IN Leaves(IF index.kind = "literal" /\ array.isArray /\ index.n + 1 \in DOMAIN array.inner
               THEN [Passed EXCEPT !.regs[ins.src].inner[index.n + 1] = byte]
               ELSE Passed, <<>>)
  /\ NoFork

\* The data is looked for at the offset itself, not that far from the instruction.
FillArray ==
  /\ On({"fill_array"})
  /\ LET there == ins.to[1]
     IN Leaves(IF there \in Address(method) /\ method.code[there].op = "array_data"
               THEN Writes([Register(ins.dst, Data("array", there)) EXCEPT !.isArray = TRUE])
               ELSE Passed, <<>>)
  /\ NoFork

ArrayData == On({"array_data"}) /\ Leaves(Passed, <<NodeTo("method", ArrayNode(me.next))>>) /\ NoFork

\* An index of a method that does not exist; and what the flow has no use for, of which
\* "unseen" writes its destination in the method (const-class, arithmetic, a long string) and
\* "filled" makes an array that a move_result is to fetch.
Ignored ==
  /\ Turn
  /\ ins.op \in {"nop", "unseen", "filled"} \/ (ins.op = "invoke" /\ ins.name = NoCallee)
  /\ Leaves(Passed, <<>>) /\ NoFork

(***************************************************************************)
(* Fields                                                                  *)
(***************************************************************************)
Get ==
  /\ On({"sget", "iget"})
  /\ Leaves(Writes(Register(ins.dst, Data("field", ins.lit))), <<Edge(ins.name, "method")>>)
  /\ NoFork

InstancePut == On({"iput"}) /\ Leaves(Passed, <<Edge("method", ins.name)>>) /\ NoFork

StaticPut ==
  /\ On({"sput"})
  /\ Leaves(Passed, <<Edge("method", ins.name),
                      NodeFrom(ins.name, Argument(Reg(ins.src), 0, me.condition, me.id))>>)
  /\ NoFork

(***************************************************************************)
(* The end of next_instruction, and its caller's loop                      *)
(***************************************************************************)
Lasting == Sublist(branches, {k \in DOMAIN branches : branches[k].id \notin finished})

\* Faulty variant: the driver does not count its iterations.
Uncounted == rounds
Iterations == rounds + 1

GivesUp == Iterations > RoundLimit

EndRound ==
  /\ phase = "following" /\ branches # <<>> /\ at > Len(branches)
  /\ branches' = Lasting \o [k \in DOMAIN forks |-> [forks[k] EXCEPT !.id = total + k]]
  /\ total' = total + Len(forks)
  /\ at' = 1 /\ finished' = {} /\ forks' = <<>>
  /\ rounds' = Iterations
  /\ phase' = IF GivesUp THEN "done" ELSE phase
  /\ UNCHANGED <<method, already, changes>>

NothingLeft ==
  /\ phase = "following" /\ branches = <<>>
  /\ phase' = "done"
  /\ UNCHANGED <<method, branches, total, already, at, finished, forks, rounds, changes>>

Next ==
  \/ Finish \/ Goto \/ Switch \/ TestAgain \/ Test \/ TestZero \/ TestZeroDead
  \/ Invoke \/ InvokeRange \/ MoveResult
  \/ Move \/ Const \/ New \/ String \/ NewArray \/ ArrayPut \/ FillArray \/ ArrayData \/ Ignored
  \/ Get \/ InstancePut \/ StaticPut
  \/ EndRound \/ NothingLeft

Spec == Init /\ [][Next]_flowVars
=============================================================================
