--------------------------- MODULE InstructionFlow ---------------------------
(***************************************************************************)
(* The register-flow analysis of coeus_analysis (instruction_flow.rs).  A  *)
(* method is interpreted along several branches at once; a test whose      *)
(* operands are not known forks one, a test met a second time taints and   *)
(* is passed by.  Two searches run on top of it, the one for branch        *)
(* decisions and the one for calls or reads, and a client may instead      *)
(* step and reset it.                                                      *)
(*                                                                         *)
(* One step of the model is one branch's turn in next_instruction.  Ids    *)
(* are random in the code; as branches are never removed, the position of  *)
(* a branch serves as its id.  A register holds a number or one of the     *)
(* kinds of Value the analysis tells apart; strings, bytes and characters  *)
(* are left out.  Every instruction has size one, and one opcode stands    *)
(* for all that act alike.                                                 *)
(***************************************************************************)
EXTENDS Integers, SequencesExt

CONSTANTS
  Methods,         \* the methods analysed: [regs, code], code: address -> instruction
  Queries,         \* what the analysis is run for, a subset of AllQueries
  Modes,           \* values of the flag "conservative", a subset of BOOLEAN
  MaxIterations,   \* MAX_ITERATIONS (1000 in the code); bounds a stepping client, too
  BranchLimit,     \* branches at which forks are dropped (1000 in the code)
  MaxTargets,      \* offsets an instruction has at most
  MaxResets        \* bound: resets by a client that steps

VARIABLES
  method, conservative, query,   \* the method, the flag and the query, which never change
  branches, already,             \* the branches; already_branched
  phase, at,                     \* where next_instruction and the search are; the branch whose turn it is
  toTaint, toAdd,                \* branches_to_taint and branches_to_add
  iterations, resets,            \* calls of next_instruction since the start or the last reset; resets
  decisions, found               \* the answers: branch decisions, calls or reads

flowVars == <<method, conservative, query, branches, already, phase, at, toTaint, toAdd,
              iterations, resets, decisions, found>>
fixed    == <<method, conservative, query>>

AllQueries == {"decisions", "calls", "reads", "steps"}
Phases     == {"idle", "loop", "collect", "done"}
TestKinds  == {"eq", "ne", "lt", "le", "gt", "ge"}
Operations == {"add", "sub", "mul", "div"}
Opcodes    == {"const", "move", "binop", "div", "binop_lit", "new", "iget", "array_length",
               "sget", "move_result", "invoke", "invoke_interface", "goto", "test", "test_zero", "switch",
               "return", "not_impl", "keep", "nop"}

Address(m) == DOMAIN m.code
Regs(m)    == 0 .. m.regs - 1

\* The signed numbers a literal of so many bits can be (of 32, all there are).
Half(bits)     == CASE bits = 4 -> 8 [] bits = 8 -> 128 [] bits = 16 -> 32768
Literals(bits) == {n \in Int : bits < 32 => -Half(bits) <= n /\ n < Half(bits)}

\* An instruction; lit, bits: the literal its text has, and in how many bits; to: branch
\* offsets; args: the registers passed; how: the kind of test, the operation, or what an
\* interface call resolves to.  A division by a literal zero, at which the analysis panics,
\* is left out.
WellFormed(i, m) ==
  /\ i.op \in Opcodes
  /\ {i.dst, i.left, i.right} \subseteq Regs(m)
  /\ i.bits \in {4, 8, 16, 32} /\ i.lit \in Literals(i.bits)
  /\ i.op = "binop" => i.how \in Operations \ {"div"}
  /\ i.op = "binop_lit" => i.bits \in {8, 16} /\ i.how \in Operations
  /\ i.op = "binop_lit" /\ i.how = "div" => i.lit # 0
  /\ i.to \in Seq(Int) /\ Len(i.to) <= MaxTargets
  /\ i.args \in Seq(Regs(m))
  /\ i.op \in {"goto", "test", "test_zero"} => Len(i.to) = 1
  /\ i.op = "invoke_interface" => Len(i.args) > 0 /\ i.how \in {"several", "own", "inherited"}

\* The addresses an instruction jumps to.
Targets(m, a) == {a + off : off \in ToSet(m.code[a].to)}

\* What the format's verifier demands: the method is not left but by a return, and a result is
\* moved right behind what makes it ("keep" is an array made and filled).
Verified(m) ==
  \A a \in Address(m) :
    /\ Targets(m, a) \subseteq Address(m)
    /\ m.code[a].op \notin {"return", "goto"} => a + 1 \in Address(m)
    /\ m.code[a].op = "move_result" =>
         /\ a - 1 \in Address(m) /\ m.code[a - 1].op \in {"invoke", "invoke_interface", "keep"}
         /\ \A x \in Address(m) : a \notin Targets(m, x)

ASSUME MethodsAssumption ==
  \A m \in Methods :
    /\ m.regs \in Nat /\ Address(m) \subseteq Nat
    /\ \A a \in Address(m) : WellFormed(m.code[a], m)
    /\ Verified(m)

ASSUME BoundsAssumption ==
  /\ Queries \subseteq AllQueries /\ Modes \subseteq BOOLEAN
  /\ MaxIterations \in Nat /\ MaxResets \in Nat
  /\ BranchLimit \in Nat \ {0, 1} /\ MaxTargets \in Nat \ {0}

(***************************************************************************)
(* Values                                                                  *)
(***************************************************************************)
Number(n) == [kind |-> "number", n |-> n]
Empty     == [kind |-> "empty", n |-> 0]
Variable  == [kind |-> "variable", n |-> 0]   \* the result of a call, or computed from one
Object    == [kind |-> "object", n |-> 0]
Invalid   == [kind |-> "invalid", n |-> 0]
Values    == [kind : {"number", "empty", "variable", "object", "invalid"}, n : Int]

IsNumber(v) == v.kind = "number"

\* Division of integers, towards zero.
Magnitude(n)   == IF n < 0 THEN -n ELSE n
Quotient(l, r) ==
  LET q == Magnitude(l) \div Magnitude(r) IN IF (l < 0) = (r < 0) THEN q ELSE -q

Apply(operation, l, r) ==
  CASE operation = "add" -> l + r
    [] operation = "sub" -> l - r
    [] operation = "div" -> Quotient(l, r)
    [] OTHER             -> l * r

\* The operators of Value: they differ in the operation only.
Arithmetic(operation, l, r) ==
  IF IsNumber(l) /\ IsNumber(r) THEN Number(Apply(operation, l.n, r.n))
  ELSE IF l = Variable \/ (IsNumber(l) /\ r = Variable) THEN Variable
  ELSE Invalid

Holds(test, l, r) ==
  CASE test = "eq" -> l = r
    [] test = "ne" -> l # r
    [] test = "lt" -> l < r
    [] test = "le" -> l <= r
    [] test = "gt" -> l > r
    [] OTHER       -> l >= r

(***************************************************************************)
(* Branches                                                                *)
(***************************************************************************)
None         == [kind |-> "none", pc |-> 0, args |-> <<>>]
Call(pc, as) == [kind |-> "call", pc |-> pc, args |-> as]
Read(pc)     == [kind |-> "read", pc |-> pc, args |-> <<>>]
LastInstructions == [kind : {"none", "call", "read"}, pc : Int, args : Seq(Values)]

\* new_branch(): all registers empty, the previous address that of the start.
NewBranch(start) ==
  [parent |-> 0, pc |-> start, prev |-> start, finished |-> FALSE, tainted |-> FALSE,
   regs |-> [r \in Regs(method) |-> Empty], last |-> None,
   loops |-> [a \in Address(method) |-> 0]]

me  == branches[at]
ins == method.code[me.pc]

Reg(r) == me.regs[r]

\* Branches that are tainted with those of ids: these and what was forked off them, at any
\* remove.  A branch stands behind the one it was forked off.
Reached(ids) ==
  LET forkedOff[i \in DOMAIN branches] ==
        /\ branches[i].parent \in 1 .. i - 1
        /\ branches[i].parent \in ids \/ forkedOff[branches[i].parent]
  IN  ids \cup {i \in DOMAIN branches : forkedOff[i]}

Init ==
  /\ method \in Methods /\ conservative \in Modes /\ query \in Queries
  /\ branches = IF query = "steps" THEN <<>> ELSE <<NewBranch(0)>>
  /\ phase = IF query = "steps" THEN "idle" ELSE "loop"
  /\ already = {} /\ at = 1 /\ toTaint = {} /\ toAdd = <<>>
  /\ iterations = 0 /\ resets = 0 /\ decisions = <<>> /\ found = {}

(***************************************************************************)
(* The client that steps and resets                                        *)
(***************************************************************************)
Reset(start) ==
  /\ phase = "idle" /\ resets < MaxResets
  /\ branches' = <<NewBranch(start)>> /\ already' = {}
  /\ iterations' = 0 /\ resets' = resets + 1
  /\ UNCHANGED <<fixed, phase, at, toTaint, toAdd, decisions, found>>

\* is_done() holds of no branches at all, and is what ends the client's loop.
NextInstruction ==
  /\ phase = "idle" /\ branches # <<>> /\ iterations < MaxIterations
  /\ phase' = "loop"
  /\ UNCHANGED <<fixed, branches, already, at, toTaint, toAdd, iterations, resets, decisions, found>>

(***************************************************************************)
(* next_instruction: one branch's turn                                     *)
(***************************************************************************)
InLoop  == phase = "loop" /\ at <= Len(branches)
Stuck   == me.pc # 0 /\ me.prev = me.pc
\* The turn gets as far as the instruction.
Turn    == InLoop /\ ~me.finished /\ ~Stuck /\ me.pc \in Address(method)
On(ops) == Turn /\ ins.op \in ops

\* The turn leaves the branch as b, apart from the address it was at.
Leaves(b) ==
  /\ branches' = [branches EXCEPT ![at] = [b EXCEPT !.prev = me.pc]]
  /\ at' = at + 1
  /\ UNCHANGED <<fixed, phase, iterations, resets, decisions, found>>

\* The end of the loop's body: what was called last is forgotten at an instruction that
\* is neither a call nor a move of a result; a read is not forgotten.
Forgets(last) ==
  IF last.kind = "call" /\ ins.op \notin {"invoke", "invoke_interface", "move_result"}
  THEN None ELSE last
Passed(b) == [b EXCEPT !.last = Forgets(@), !.pc = @ + 1]

SkipFinished ==
  /\ InLoop /\ me.finished
  /\ at' = at + 1
  /\ UNCHANGED <<fixed, branches, already, phase, toTaint, toAdd, iterations, resets, decisions, found>>

Finish ==
  /\ InLoop /\ ~me.finished
  /\ (~Stuck /\ me.pc \in Address(method)) => ins.op = "return"
  /\ Leaves([me EXCEPT !.finished = TRUE])
  /\ UNCHANGED <<already, toTaint, toAdd>>

Goto ==
  /\ On({"goto"})
  /\ Leaves([me EXCEPT !.pc = @ + ins.to[1]])
  /\ UNCHANGED <<already, toTaint, toAdd>>

\* The operands of a test; the second of a test against zero is zero.
Left     == Reg(ins.left)
Right    == IF ins.op = "test" THEN Reg(ins.right) ELSE Number(0)
Decided  == IsNumber(Left) /\ IsNumber(Right)
AtTest   == On({"test", "test_zero"})
Branched == <<at, me.pc>> \in already
Counted  == [me EXCEPT !.loops[me.pc] = @ + 1]

\* Faulty variant: a test met again taints nothing.
TestAgainUntainted ==
  /\ AtTest /\ Branched
  /\ Leaves([me EXCEPT !.pc = @ + 1])
  /\ UNCHANGED <<already, toAdd, toTaint>>

\* A test this branch has met before: every branch that ever met one is tainted, and the
\* branch goes on behind the test whatever the registers say.
TestAgain ==
  /\ AtTest /\ Branched
  /\ toTaint' = toTaint \cup {at} \cup {x[1] : x \in already}
  /\ Leaves([me EXCEPT !.pc = @ + 1])
  /\ UNCHANGED <<already, toAdd>>

TestDecided ==
  /\ AtTest /\ ~Branched /\ Decided
  /\ already' = already \cup {<<at, me.pc>>}
  /\ Leaves(IF Holds(ins.how, Left.n, Right.n) THEN [Counted EXCEPT !.pc = @ + ins.to[1]]
            ELSE Passed(Counted))
  /\ UNCHANGED <<toTaint, toAdd>>

\* Faulty variants: a fork is its own parent; it begins like a new branch, at its previous address.
ForkOfItself(b, offset) ==
  [from |-> me.pc,
   branch |-> [b EXCEPT !.parent = Len(branches) + 1, !.prev = me.pc, !.pc = @ + offset]]
ForkAtRest(b, offset) ==
  [from |-> me.pc,
   branch |-> [b EXCEPT !.parent = at, !.prev = me.pc + offset, !.pc = @ + offset]]

\* A branch to be forked off this one, at an offset.
Fork(b, offset) ==
  [from |-> me.pc, branch |-> [b EXCEPT !.parent = at, !.prev = me.pc, !.pc = @ + offset]]

Doubtful == conservative \/ Empty \in {Left, Right}

TestUndecided ==
  /\ AtTest /\ ~Branched /\ ~Decided
  /\ already' = already \cup {<<at, me.pc>>}
  /\ LET b == [Counted EXCEPT !.tainted = @ \/ Doubtful]
     IN /\ toAdd' = Append(toAdd, [Fork(b, ins.to[1]) EXCEPT !.branch.loops = [a \in Address(method) |-> 0]])
        /\ Leaves(Passed(b))
  /\ UNCHANGED toTaint

\* A switch forks a branch for every target and ends the branch itself; one from which any
\* branch was forked earlier forks none.
Switch ==
  /\ On({"switch"})
  /\ toAdd' = IF \E x \in already : x[2] = me.pc THEN toAdd
              ELSE toAdd \o [k \in DOMAIN ins.to |-> Fork(me, ins.to[k])]
  /\ Leaves([me EXCEPT !.finished = TRUE])
  /\ UNCHANGED <<already, toTaint>>

\* What is left of an instruction's literal.  The decoder takes the last three of four bits
\* for the magnitude of a negative number, and swaps the halves of 32 bits; of those the
\* arithmetic instructions have, the sign is lost.
Signed(n)  == IF n % 65536 < 32768 THEN n % 65536 ELSE (n % 65536) - 65536
Literal(i) ==
  CASE i.op = "binop_lit"                         -> i.lit % (IF i.bits = 8 THEN 256 ELSE 65536)
    [] i.op # "binop_lit" /\ i.bits = 4 /\ i.lit < 0 -> -(i.lit % 8)
    [] i.op # "binop_lit" /\ i.bits = 32           ->
         Signed(i.lit) * 65536 + ((i.lit \div 65536) % 65536)
    [] OTHER                                      -> i.lit

\* What an instruction that only computes writes to its destination.  Two registers to be
\* divided are multiplied; the literal that should be subtracted from is subtracted.
Result ==
  CASE ins.op = "const"        -> Number(Literal(ins))
    [] ins.op = "move"         -> Reg(ins.left)
    [] ins.op = "binop"        -> Arithmetic(ins.how, Reg(ins.left), Reg(ins.right))
    [] ins.op = "div"          -> Arithmetic("mul", Reg(ins.left), Reg(ins.right))
    [] ins.op = "binop_lit"    -> Arithmetic(ins.how, Reg(ins.left), Number(Literal(ins)))
    [] ins.op = "new"          -> Object
    [] ins.op = "array_length" -> Invalid
    [] OTHER                   -> Empty

Assign ==
  /\ On({"const", "move", "binop", "div", "binop_lit", "new", "array_length", "iget"})
  /\ Leaves(Passed([me EXCEPT !.regs[ins.dst] = Result]))
  /\ UNCHANGED <<already, toTaint, toAdd>>

StaticGet ==
  /\ On({"sget"})
  /\ Leaves(Passed([me EXCEPT !.regs[ins.dst] = Empty, !.last = Read(me.pc)]))
  /\ UNCHANGED <<already, toTaint, toAdd>>

Arguments == [k \in DOMAIN ins.args |-> Reg(ins.args[k])]

Invoke ==
  /\ On({"invoke"})
  /\ Leaves(Passed([me EXCEPT !.last = Call(me.pc, Arguments)]))
  /\ UNCHANGED <<already, toTaint, toAdd>>

\* An interface with a single implementation has its receiver replaced; if that class only
\* inherits the method, the call is noted when nothing was noted before.
InvokeInterface ==
  /\ On({"invoke_interface"})
  /\ LET known == Call(me.pc, [Arguments EXCEPT ![1] = Object])
         last  == IF ins.how = "several" THEN Call(me.pc, Arguments)
                  ELSE IF ins.how = "own" \/ me.last = None THEN known ELSE me.last
     IN Leaves(Passed([me EXCEPT !.last = last]))
  /\ UNCHANGED <<already, toTaint, toAdd>>

MoveResult ==
  /\ On({"move_result"})
  /\ Leaves(Passed(IF me.last = None THEN me ELSE [me EXCEPT !.regs[ins.dst] = Variable]))
  /\ UNCHANGED <<already, toTaint, toAdd>>

NotImpl ==
  /\ On({"not_impl"})
  /\ toTaint' = toTaint \cup {at}
  /\ Leaves(Passed([me EXCEPT !.regs = [r \in Regs(method) |-> Empty]]))
  /\ UNCHANGED <<already, toAdd>>

\* Instructions without an effect here: "nop" has none in the method either, "keep" writes
\* its destination there (an array is made, an unknown integer narrowed).
Ignored ==
  /\ On({"nop", "keep"})
  /\ Leaves(Passed(me))
  /\ UNCHANGED <<already, toTaint, toAdd>>

\* Faulty variant: forks are never dropped.
ForksUnlimited == toAdd

\* After the loop: taint, then fork unless there are too many branches already.
Tainted == [i \in DOMAIN branches |->
              [branches[i] EXCEPT !.tainted = @ \/ i \in Reached(toTaint)]]
Forks   == IF Len(branches) < BranchLimit THEN toAdd ELSE <<>>

EndLoop ==
  /\ phase = "loop" /\ at > Len(branches)
  /\ branches' = Tainted \o [k \in DOMAIN Forks |-> Forks[k].branch]
  /\ already' = already \cup {<<Len(branches) + k, Forks[k].from>> : k \in DOMAIN Forks}
  /\ phase' = IF query = "steps" THEN "idle" ELSE "collect"
  /\ at' = 1 /\ toTaint' = {} /\ toAdd' = <<>> /\ iterations' = iterations + 1
  /\ UNCHANGED <<fixed, resets, decisions, found>>

(***************************************************************************)
(* The searches: what is noted after every call of next_instruction        *)
(***************************************************************************)
\* The loop ends by its count alone: is_done() never holds.
Again == phase' = IF iterations > MaxIterations + 1 THEN "done" ELSE "loop"

Decision(i) ==
  [pc |-> branches[i].pc, prev |-> branches[i].prev, regs |-> branches[i].regs,
   tainted |-> branches[i].tainted, loops |-> branches[i].loops]
OnCode(i)   == branches[i].pc \in Address(method)
AtATest(i)  == OnCode(i) /\ method.code[branches[i].pc].op \in {"test", "test_zero"}
Noted(i)    == IF i \in DOMAIN decisions THEN decisions[i] ELSE <<>>
Retaint(ds, t) == [k \in DOMAIN ds |-> [ds[k] EXCEPT !.tainted = t]]

\* Faulty variant: a decision keeps the taint it was noted with.
CollectUntainted ==
  /\ phase = "collect" /\ query = "decisions"
  /\ decisions' = [i \in DOMAIN branches |->
                     Noted(i) \o IF AtATest(i) THEN <<Decision(i)>> ELSE <<>>]
  /\ Again
  /\ UNCHANGED <<fixed, branches, already, at, toTaint, toAdd, iterations, resets, found>>

\* get_all_branch_decisions: the taint of what was noted follows its branch.  The answer is
\* sorted by branch in the end, so the decisions of every branch are kept apart.
CollectDecisions ==
  /\ phase = "collect" /\ query = "decisions"
  /\ decisions' = [i \in DOMAIN branches |->
                     (IF OnCode(i) THEN Retaint(Noted(i), branches[i].tainted) ELSE Noted(i))
                     \o IF AtATest(i) THEN <<Decision(i)>> ELSE <<>>]
  /\ Again
  /\ UNCHANGED <<fixed, branches, already, at, toTaint, toAdd, iterations, resets, found>>

\* find_all_instruction_with_op: finished branches are asked again every time.
CollectFound ==
  /\ phase = "collect" /\ query \in {"calls", "reads"}
  /\ found' = found \cup {branches[i].last : i \in
                {j \in DOMAIN branches :
                   branches[j].last.kind = IF query = "calls" THEN "call" ELSE "read"}}
  /\ Again
  /\ UNCHANGED <<fixed, branches, already, at, toTaint, toAdd, iterations, resets, decisions>>

Next ==
  \/ \E start \in Address(method) : Reset(start)
  \/ NextInstruction
  \/ SkipFinished \/ Finish \/ Goto \/ TestAgain \/ TestDecided \/ TestUndecided \/ Switch
  \/ Assign \/ StaticGet \/ Invoke \/ InvokeInterface \/ MoveResult \/ NotImpl \/ Ignored
  \/ EndLoop \/ CollectDecisions \/ CollectFound

Spec == Init /\ [][Next]_flowVars

(***************************************************************************)
(* What the client is given                                                *)
(***************************************************************************)
\* Of a branch's decisions that follow each other with the same previous address only the
\* last is kept.
LastOfRun(ds, k) == k = Len(ds) \/ ds[k + 1].prev # ds[k].prev
Answer == UNION {{ds[k] : k \in {j \in DOMAIN ds : LastOfRun(ds, j)}} : ds \in ToSet(decisions)}

\* The operands of the test a decision stands at.
LeftOf(d)  == d.regs[method.code[d.pc].left]
RightOf(d) == IF method.code[d.pc].op = "test" THEN d.regs[method.code[d.pc].right] ELSE Number(0)

\* find_all_branch_decisions and has_dead_branch: the decisions called dead.
DeadBranches ==
  {d \in Answer :
     /\ ~d.tainted /\ \A a \in DOMAIN d.loops : d.loops[a] <= 1
     /\ IsNumber(LeftOf(d)) /\ IsNumber(RightOf(d))}

(***************************************************************************)
(* Properties                                                              *)
(***************************************************************************)
Branches ==
  [parent : Nat, pc : Int, prev : Int, finished : BOOLEAN, tainted : BOOLEAN,
   regs : [Regs(method) -> Values], last : LastInstructions, loops : [Address(method) -> Nat]]
Decisions ==
  [pc : Address(method), prev : Int, regs : [Regs(method) -> Values], tainted : BOOLEAN,
   loops : [Address(method) -> Nat]]

\* Everything is well typed, every branch stands behind the one it was forked off, and a
\* flow that is stepped has nothing of a search.
TypeOK ==
  /\ conservative \in Modes /\ query \in Queries /\ phase \in Phases
  /\ phase = "idle" => query = "steps"
  /\ branches \in Seq(Branches)
  /\ \A i \in DOMAIN branches : branches[i].parent < i
  /\ already \subseteq (DOMAIN branches) \X Address(method)
  /\ at \in 1 .. Len(branches) + 1
  /\ toTaint \subseteq DOMAIN branches
  /\ toAdd \in Seq([from : Address(method), branch : Branches])
  /\ \A k \in DOMAIN toAdd : toAdd[k].branch.parent \in DOMAIN branches
  /\ phase # "loop" => at = 1 /\ toTaint = {} /\ toAdd = <<>>
  /\ iterations \in Nat /\ resets \in Nat
  /\ decisions \in Seq(Seq(Decisions)) /\ Len(decisions) <= Len(branches)
  /\ query = "steps" => decisions = <<>>
  /\ found \subseteq LastInstructions

\* The limit on branches is looked at once for all the forks of a round: each branch below
\* it may fork as many as an instruction has offsets.  (branches.len() < 1000.)
BranchesBounded == Len(branches) <= (BranchLimit - 1) * (MaxTargets + 1)
=============================================================================
