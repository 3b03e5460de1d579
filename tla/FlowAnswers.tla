----------------------------- MODULE FlowAnswers -----------------------------
(***************************************************************************)
(* InstructionFlow beside the executions of the method it analyses: runs   *)
(* is the set of configurations an execution can be in after at most as    *)
(* many instructions as the analysis has made rounds, and passed those     *)
(* from which it has gone on by then.  A register of an execution holds a  *)
(* number, or Unknown where the method's text does not say what it holds;  *)
(* a test on what is unknown goes either way.                              *)
(***************************************************************************)
EXTENDS InstructionFlow

VARIABLES runs, passed   \* history: guard nothing

vars == <<flowVars, runs, passed>>

Unknown == [kind |-> "unknown", n |-> 0]

Start(pc) == [pc |-> pc, regs |-> [r \in Regs(method) |-> Unknown]]

Sum(how, l, r) == IF IsNumber(l) /\ IsNumber(r) THEN Number(Apply(how, l.n, r.n)) ELSE Unknown

\* The value an instruction writes in an execution, as the format has it: literals are
\* signed, and the subtraction with a literal is one from the literal.
Written(i, c) ==
  CASE i.op = "const"     -> Number(i.lit)
    [] i.op = "move"      -> c.regs[i.left]
    [] i.op = "binop"     -> Sum(i.how, c.regs[i.left], c.regs[i.right])
    [] i.op = "div"       -> Sum("div", c.regs[i.left], c.regs[i.right])
    [] i.op = "binop_lit" -> IF i.how = "sub" THEN Sum("sub", Number(i.lit), c.regs[i.left])
                             ELSE Sum(i.how, c.regs[i.left], Number(i.lit))
    [] OTHER              -> Unknown

Writing == {"const", "move", "binop", "div", "binop_lit", "new", "array_length", "iget",
            "sget", "move_result", "not_impl", "keep"}

\* The outcomes of the test at a configuration.
Outcomes(i, c) ==
  LET l == c.regs[i.left]
      r == IF i.op = "test" THEN c.regs[i.right] ELSE Number(0)
  IN IF IsNumber(l) /\ IsNumber(r) THEN {Holds(i.how, l.n, r.n)} ELSE BOOLEAN

AtTestOf(c) == c.pc \in Address(method) /\ method.code[c.pc].op \in {"test", "test_zero"}

\* A division by zero ends the execution.
Throws(i, c) == i.op = "div" /\ c.regs[i.right] = Number(0)

\* Where an execution goes from a configuration.
Successors(c) ==
  LET i       == method.code[c.pc]
      go(off) == [c EXCEPT !.pc = @ + off]
  IN IF c.pc \notin Address(method) \/ Throws(i, c) THEN {}
     ELSE CASE i.op = "return"  -> {}
            [] i.op = "goto"    -> {go(i.to[1])}
            [] AtTestOf(c)      -> {go(IF o THEN i.to[1] ELSE 1) : o \in Outcomes(i, c)}
            [] i.op = "switch"  -> {go(1)} \cup {go(i.to[k]) : k \in DOMAIN i.to}
            [] i.op \in Writing -> {[go(1) EXCEPT !.regs[i.dst] = Written(i, c)]}
            [] OTHER            -> {go(1)}

Observe ==
  /\ runs' = IF resets' # resets THEN {Start(branches'[1].pc)}
             ELSE IF iterations' # iterations THEN runs \cup UNION {Successors(c) : c \in runs}
             ELSE runs
  /\ passed' = IF resets' # resets THEN {} ELSE IF iterations' # iterations THEN runs ELSE passed

AInit == Init /\ runs = {Start(0)} /\ passed = {}
ANext == Next /\ Observe
ASpec == AInit /\ [][ANext]_vars

(***************************************************************************)
(* Properties                                                              *)
(***************************************************************************)
Uses(ops) == \E a \in Address(method) : method.code[a].op \in ops

\* The analysis takes the method for what it is: no instruction writes a register and is
\* ignored, no two registers are divided, literals are what they were before they were decoded
\* and widened, and none is subtracted from.
Misread(i) ==
  \/ i.op \in {"keep", "div"}
  \/ i.op \in {"const", "binop_lit"} /\ Literal(i) # i.lit
  \/ i.op = "binop_lit" /\ i.how = "sub"
ReadAsWritten == \A a \in Address(method) : ~Misread(method.code[a])

\* What an untainted branch knows is true: some execution has come to where the branch is
\* with the numbers the branch holds in its registers, if none of its instructions is misread.
\* ("tainted" of next_instruction and its callers.)
Follows(b, c) ==
  /\ c.pc = b.pc
  /\ \A r \in Regs(method) : IsNumber(b.regs[r]) => c.regs[r] = b.regs[r]
UntaintedIsExact ==
  (phase # "loop" /\ ReadAsWritten) =>
    \A i \in DOMAIN branches : branches[i].tainted \/ \E c \in runs : Follows(branches[i], c)

\* A branch called dead is dead: whenever an execution comes to the test it goes the way
\* the decision's operands say.  (has_dead_branch, in conservative mode.)
AgreesWith(d, c) ==
  Outcomes(method.code[d.pc], c) = {Holds(method.code[d.pc].how, LeftOf(d).n, RightOf(d).n)}
IsDead(d) == \A c \in runs : c.pc = d.pc => AgreesWith(d, c)
DeadBranchIsDead ==
  (phase = "done" /\ query = "decisions" /\ conservative) => \A d \in DeadBranches : IsDead(d)

\* The same of methods without a switch, which forks branches it does not taint, and
\* without an instruction that is misread; and of a test that no branch was about to make,
\* which may have made it before, when the analysis was cut off.
DeadBranchIsDeadHere ==
  (phase = "done" /\ query = "decisions" /\ conservative
   /\ ~Uses({"switch"}) /\ ReadAsWritten) =>
    \A d \in DeadBranches :
      IsDead(d) \/ \E i \in DOMAIN branches : branches[i].pc = d.pc /\ ~branches[i].finished

Sought == IF query = "calls" THEN {"invoke", "invoke_interface"} ELSE {"sget"}
Finds  == \A c \in passed : (c.pc \in Address(method) /\ method.code[c.pc].op \in Sought)
                              => \E f \in found : f.pc = c.pc

\* The search finds every call (or read) an execution makes in as many instructions as there
\* were rounds, if all tests are on unknown values and no fork was dropped.  Not where a switch
\* is, whose default is not followed, an instruction that writes a register and is ignored, a
\* division, with which the execution may end while the branch goes on and takes its next test
\* for known, or an interface call that may go unnoted.  (find_all_calls and its like.)
SearchIsComplete ==
  /\ phase = "done" /\ query \in {"calls", "reads"} /\ Len(branches) < BranchLimit
  /\ ~Uses({"switch", "keep", "div"})
  /\ \A a \in Address(method) :
       method.code[a].op = "invoke_interface" => method.code[a].how # "inherited"
  /\ \A c \in runs : AtTestOf(c) => Outcomes(method.code[c.pc], c) = BOOLEAN
  => Finds
=============================================================================
