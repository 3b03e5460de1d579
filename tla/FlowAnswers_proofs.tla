------------------------- MODULE FlowAnswers_proofs -------------------------
(***************************************************************************)
(* Proofs about InstructionFlow and FlowAnswers for every method and all   *)
(* limits: the types of branches, how many there are, that what an         *)
(* untainted branch knows is true, that a search misses no call it could   *)
(* find, and that a branch called dead is dead where it can be relied on.  *)
(* The bound needs to be known of the forks while they are collected:      *)
(* those of one round are at most as many as the branches that had their   *)
(* turn times the offsets of an instruction.                               *)
(***************************************************************************)
EXTENDS FlowAnswers, TLAPS

ForkRecords == [from : Address(method), branch : Branches]

ForksBounded ==
  /\ phase = "loop" => Len(toAdd) <= (at - 1) * MaxTargets
  /\ BranchesBounded

Inv == method \in Methods /\ TypeOK /\ ForksBounded

\* Sequences as functions, and one behind another.
LEMMA SeqIntro ==
  ASSUME NEW S, NEW n \in Nat, NEW f \in [1 .. n -> S]
  PROVE  f \in Seq(S) /\ Len(f) = n /\ DOMAIN f = 1 .. n
OBVIOUS

LEMMA SeqElim ==
  ASSUME NEW S, NEW s \in Seq(S)
  PROVE  Len(s) \in Nat /\ DOMAIN s = 1 .. Len(s) /\ s \in [1 .. Len(s) -> S]
OBVIOUS

LEMMA SeqConcat ==
  ASSUME NEW S, NEW s \in Seq(S), NEW t \in Seq(S)
  PROVE  /\ s \o t \in Seq(S) /\ Len(s \o t) = Len(s) + Len(t)
         /\ \A i \in 1 .. Len(s) : (s \o t)[i] = s[i]
         /\ \A k \in 1 .. Len(t) : (s \o t)[Len(s) + k] = t[k]
OBVIOUS

\* What is assumed of the method.
LEMMA MethodFacts ==
  ASSUME method \in Methods
  PROVE  /\ method.regs \in Nat /\ Address(method) \subseteq Int
         /\ \A a \in Address(method) : WellFormed(method.code[a], method)
BY MethodsAssumption

\* A new branch is well typed.
LEMMA NewBranchTyped ==
  ASSUME NEW start \in Int
  PROVE  NewBranch(start) \in Branches /\ NewBranch(start).parent = 0
BY SMT DEF NewBranch, Branches, None, LastInstructions, Values, Empty

\* The branch whose turn it is, and its instruction.
LEMMA TurnFacts ==
  ASSUME Inv, InLoop
  PROVE  /\ me \in Branches /\ at \in DOMAIN branches /\ at \in Nat /\ me.parent < at
         /\ phase = "loop"
<1>1. at \in 1 .. Len(branches) BY DEF Inv, TypeOK, InLoop
<1>2. at \in DOMAIN branches BY <1>1 DEF Inv, TypeOK
<1> QED BY <1>1, <1>2 DEF Inv, TypeOK, InLoop, me

LEMMA InsFacts ==
  ASSUME Inv, Turn
  PROVE  /\ WellFormed(ins, method) /\ me.pc \in Address(method)
         /\ {ins.dst, ins.left, ins.right} \subseteq Regs(method)
         /\ \A r \in Regs(method) : Reg(r) \in Values
<1>1. me \in Branches BY TurnFacts DEF Turn
<1>2. me.pc \in Address(method) BY DEF Turn
<1>3. WellFormed(ins, method) BY <1>2, MethodFacts DEF Inv, ins
<1>4. \A r \in Regs(method) : Reg(r) \in Values BY <1>1 DEF Branches, Reg
<1> QED BY <1>2, <1>3, <1>4 DEF WellFormed

\* A turn that leaves a well typed branch, and forks as an instruction may.
LEMMA TurnTyped ==
  ASSUME Inv, InLoop, NEW b \in Branches, b.parent = me.parent, Leaves(b),
         already' \subseteq (DOMAIN branches) \X Address(method),
         toTaint' \subseteq DOMAIN branches,
         toAdd' \in Seq(ForkRecords), Len(toAdd') <= Len(toAdd) + MaxTargets,
         \A k \in DOMAIN toAdd' : toAdd'[k].branch.parent \in DOMAIN branches
  PROVE  Inv'
<1> DEFINE new == [b EXCEPT !.prev = me.pc]
<1>1. /\ me \in Branches /\ at \in DOMAIN branches /\ at \in Nat /\ me.parent < at
      /\ phase = "loop"
  BY TurnFacts
<1>2. new \in Branches /\ new.parent = me.parent BY <1>1 DEF Branches
<1>3. branches' = [branches EXCEPT ![at] = new] /\ at' = at + 1 BY DEF Leaves
<1>4. branches \in Seq(Branches) BY DEF Inv, TypeOK
<1> HIDE DEF new
<1>5. branches' \in Seq(Branches) /\ Len(branches') = Len(branches)
      /\ DOMAIN branches' = DOMAIN branches
  BY <1>1, <1>2, <1>3, <1>4
<1>6. \A i \in DOMAIN branches' : branches'[i].parent < i
  BY <1>1, <1>2, <1>3, <1>4, <1>5 DEF Inv, TypeOK
<1>7. /\ method' = method /\ conservative' = conservative /\ query' = query
      /\ phase' = phase /\ iterations' = iterations /\ resets' = resets
      /\ decisions' = decisions /\ found' = found
  BY DEF Leaves, fixed
<1>8. Branches' = Branches /\ ForkRecords' = ForkRecords /\ Decisions' = Decisions
  BY <1>7 DEF Branches, ForkRecords, Decisions, Regs, Address
<1>9. at' \in 1 .. Len(branches') + 1 BY <1>1, <1>3, <1>4, <1>5
<1>10. TypeOK'
  BY <1>1, <1>5, <1>6, <1>7, <1>8, <1>9 DEF Inv, TypeOK, ForkRecords, Address
<1>11. ForksBounded'
  <2>1. Len(toAdd) \in Nat /\ Len(toAdd') \in Nat BY DEF Inv, TypeOK
  <2>2. Len(toAdd) <= (at - 1) * MaxTargets BY <1>1 DEF Inv, ForksBounded
  <2>3. (at - 1) * MaxTargets + MaxTargets = at * MaxTargets
    BY <1>1, BoundsAssumption
  <2>4. at' - 1 = at BY <1>1, <1>3
  <2>5. (at - 1) * MaxTargets \in Int /\ at * MaxTargets \in Int /\ MaxTargets \in Int
    BY <1>1, BoundsAssumption
  <2>6. Len(toAdd') <= at * MaxTargets
    <3> DEFINE p == (at - 1) * MaxTargets
               q == at * MaxTargets
    <3> HIDE DEF p, q
    <3>1. Len(toAdd) <= p /\ p + MaxTargets = q /\ p \in Int /\ q \in Int BY <2>2, <2>3, <2>5 DEF p, q
    <3>2. Len(toAdd') <= q BY <3>1, <2>1, <2>5
    <3> QED BY <3>2 DEF q
  <2> QED BY <2>4, <2>6, <1>5 DEF Inv, ForksBounded, BranchesBounded
<1> QED BY <1>7, <1>10, <1>11 DEF Inv

\* A turn that forks nothing.
LEMMA PlainTurnTyped ==
  ASSUME Inv, InLoop, NEW b \in Branches, b.parent = me.parent, Leaves(b),
         already' \subseteq (DOMAIN branches) \X Address(method),
         toTaint' \subseteq DOMAIN branches, toAdd' = toAdd
  PROVE  Inv'
<1>1. toAdd' \in Seq(ForkRecords)
      /\ \A k \in DOMAIN toAdd' : toAdd'[k].branch.parent \in DOMAIN branches
  BY DEF Inv, TypeOK, ForkRecords
<1>2. Len(toAdd') <= Len(toAdd) + MaxTargets BY <1>1, BoundsAssumption
<1> QED BY <1>1, <1>2, TurnTyped

LEMMA PassedTyped ==
  ASSUME Inv, Turn, NEW b \in Branches
  PROVE  Passed(b) \in Branches /\ Passed(b).parent = b.parent
<1>1. Forgets(b.last) \in LastInstructions
  BY DEF Forgets, None, LastInstructions, Branches
<1> DEFINE f == Forgets(b.last)
<1>2. f \in LastInstructions BY <1>1
<1>3. Passed(b) = [[b EXCEPT !.last = f] EXCEPT !.pc = b.pc + 1] BY DEF Passed
<1> HIDE DEF f
<1>4. [b EXCEPT !.last = f] \in Branches /\ [b EXCEPT !.last = f].parent = b.parent
  BY <1>2 DEF Branches
<1>5. b.pc + 1 \in Int BY DEF Branches
<1> QED BY <1>3, <1>4, <1>5 DEF Branches

LEMMA QuotientTyped ==
  ASSUME NEW l \in Int, NEW r \in Int, r # 0
  PROVE  Quotient(l, r) \in Int
<1> DEFINE q == Magnitude(l) \div Magnitude(r)
<1>1. Magnitude(l) \in Int /\ Magnitude(r) \in Int /\ Magnitude(r) > 0 BY DEF Magnitude
<1>2. q \in Int BY <1>1
<1>3. Quotient(l, r) = IF (l < 0) = (r < 0) THEN q ELSE -q BY DEF Quotient
<1> HIDE DEF q
<1> QED BY <1>2, <1>3

LEMMA ApplyTyped ==
  ASSUME NEW l \in Int, NEW r \in Int, NEW how, how = "div" => r # 0
  PROVE  Apply(how, l, r) \in Int
BY QuotientTyped DEF Apply

LEMMA ArithmeticTyped ==
  ASSUME NEW l \in Values, NEW r \in Values, NEW how, how = "div" /\ IsNumber(r) => r.n # 0
  PROVE  Arithmetic(how, l, r) \in Values
<1>1. CASE IsNumber(l) /\ IsNumber(r)
  <2>1. Apply(how, l.n, r.n) \in Int BY <1>1, ApplyTyped DEF Values
  <2> QED BY <2>1, <1>1 DEF Arithmetic, Number, Values
<1>2. CASE ~(IsNumber(l) /\ IsNumber(r))
  BY <1>2 DEF Arithmetic, Values, Variable, Invalid
<1> QED BY <1>1, <1>2

\* What is left of a literal is a number, and not zero if it is divided by.
LEMMA LiteralTyped ==
  ASSUME NEW i, NEW m, WellFormed(i, m)
  PROVE  /\ Literal(i) \in Int /\ i.lit \in Int
         /\ i.op = "binop_lit" /\ i.how = "div" => Literal(i) # 0 /\ i.lit # 0
<1>1. /\ i.bits \in {4, 8, 16, 32} /\ i.lit \in Literals(i.bits)
      /\ i.op = "binop_lit" => i.bits \in {8, 16}
      /\ i.op = "binop_lit" /\ i.how = "div" => i.lit # 0
  BY DEF WellFormed
<1>2. /\ i.lit \in Int
      /\ i.bits = 8 => -128 <= i.lit /\ i.lit < 128
      /\ i.bits = 16 => -32768 <= i.lit /\ i.lit < 32768
  <2>1. Half(8) = 128 /\ Half(16) = 32768 BY DEF Half
  <2> QED BY <2>1, <1>1 DEF Literals
<1>3. CASE i.op = "binop_lit"
  <2>1. CASE i.bits = 8
    <3>1. Literal(i) = i.lit % 256 BY <1>3, <2>1 DEF Literal
    <3>2. i.lit % 256 \in Int BY <1>2
    <3>3. i.lit # 0 => i.lit % 256 # 0 BY <1>2, <2>1
    <3> QED BY <3>1, <3>2, <3>3, <1>1, <1>2
  <2>2. CASE i.bits = 16
    <3>1. Literal(i) = i.lit % 65536 BY <1>3, <2>2 DEF Literal
    <3>2. i.lit % 65536 \in Int BY <1>2
    <3>3. i.lit # 0 => i.lit % 65536 # 0 BY <1>2, <2>2
    <3> QED BY <3>1, <3>2, <3>3, <1>1, <1>2
  <2> QED BY <1>1, <1>3, <2>1, <2>2
<1>4. CASE i.op # "binop_lit"
  <2>1. CASE i.bits = 4 /\ i.lit < 0
    <3>1. Literal(i) = -(i.lit % 8) BY <1>4, <2>1 DEF Literal
    <3>2. -(i.lit % 8) \in Int BY <1>2
    <3> QED BY <3>1, <3>2, <1>2, <1>4
  <2>2. CASE i.bits = 32
    <3>1. \A n \in Int : n % 65536 \in Int OBVIOUS
    <3>2. Signed(i.lit) \in Int BY <3>1, <1>2 DEF Signed
    <3>3. PICK s \in Int : s = Signed(i.lit) BY <3>2
    <3>4. PICK h \in Int : h = (i.lit \div 65536) % 65536 BY <3>1, <1>2
    <3>5. Literal(i) = s * 65536 + h BY <3>3, <3>4, <1>4, <2>2 DEF Literal
    <3> QED BY <3>5, <1>2, <1>4
  <2>3. CASE ~(i.bits = 4 /\ i.lit < 0) /\ i.bits # 32
    <3>1. Literal(i) = i.lit BY <1>4, <2>3 DEF Literal
    <3> QED BY <3>1, <1>2, <1>4
  <2> QED BY <2>1, <2>2, <2>3
<1> QED BY <1>3, <1>4

\* The offset of a jump.
LEMMA OffsetTyped ==
  ASSUME Inv, Turn, ins.op \in {"goto", "test", "test_zero"}
  PROVE  ins.to[1] \in Int
<1>1. ins.to \in Seq(Int) /\ Len(ins.to) = 1 BY InsFacts DEF WellFormed
<1> QED BY <1>1

LEMMA CountedTyped ==
  ASSUME Inv, Turn
  PROVE  Counted \in Branches /\ Counted.parent = me.parent
<1>1. me \in Branches /\ me.pc \in Address(method) BY TurnFacts, InsFacts DEF Turn
<1>2. [me.loops EXCEPT ![me.pc] = me.loops[me.pc] + 1] \in [Address(method) -> Nat]
  BY <1>1 DEF Branches
<1>3. Counted = [me EXCEPT !.loops = [me.loops EXCEPT ![me.pc] = me.loops[me.pc] + 1]]
  BY <1>1 DEF Counted, Branches
<1> QED BY <1>1, <1>2, <1>3 DEF Branches

LEMMA ForkTyped ==
  ASSUME Inv, Turn, NEW b \in Branches, NEW offset \in Int
  PROVE  /\ Fork(b, offset) \in ForkRecords
         /\ Fork(b, offset).branch.parent \in DOMAIN branches
<1>1. at \in DOMAIN branches /\ at \in Nat /\ me \in Branches BY TurnFacts DEF Turn
<1>2. me.pc \in Address(method) BY InsFacts
<1>3. me.pc \in Int BY <1>1 DEF Branches
<1>4. [b EXCEPT !.parent = at, !.prev = me.pc, !.pc = @ + offset] \in Branches
  <2>1. at \in Nat /\ b.pc + offset \in Int /\ me.pc \in Int BY <1>1, <1>3 DEF Branches
  <2>2. \A p \in Nat, x \in Int, y \in Int :
          [b EXCEPT !.parent = p, !.prev = x, !.pc = y] \in Branches
    BY DEF Branches
  <2> QED BY <2>1, <2>2
<1>5. [b EXCEPT !.parent = at, !.prev = me.pc, !.pc = @ + offset].parent = at
  BY DEF Branches
<1> QED BY <1>1, <1>2, <1>4, <1>5 DEF Fork, ForkRecords

(***************************************************************************)
(* The turns                                                               *)
(***************************************************************************)
LEMMA FinishInv == ASSUME Inv, Finish PROVE Inv'
<1>1. InLoop /\ Leaves([me EXCEPT !.finished = TRUE]) /\ UNCHANGED <<already, toTaint, toAdd>>
  BY DEF Finish
<1>2. [me EXCEPT !.finished = TRUE] \in Branches
      /\ [me EXCEPT !.finished = TRUE].parent = me.parent
  BY <1>1, TurnFacts DEF Branches
<1>3. already' \subseteq (DOMAIN branches) \X Address(method) /\ toTaint' \subseteq DOMAIN branches
  BY <1>1 DEF Inv, TypeOK
<1> QED BY <1>1, <1>2, <1>3, PlainTurnTyped

\* The turns that change neither already nor toTaint nor toAdd.
LEMMA QuietTurnTyped ==
  ASSUME Inv, Turn, NEW b \in Branches, b.parent = me.parent, Leaves(b),
         UNCHANGED <<already, toTaint, toAdd>>
  PROVE  Inv'
<1>1. already' \subseteq (DOMAIN branches) \X Address(method) /\ toTaint' \subseteq DOMAIN branches
      /\ toAdd' = toAdd
  BY DEF Inv, TypeOK
<1>2. InLoop BY DEF Turn
<1> QED BY <1>1, <1>2, PlainTurnTyped

LEMMA GotoInv == ASSUME Inv, Goto PROVE Inv'
<1>1. Turn /\ ins.op = "goto" BY DEF Goto, On
<1>2. ins.to[1] \in Int BY <1>1, OffsetTyped
<1>3. [me EXCEPT !.pc = @ + ins.to[1]] \in Branches
      /\ [me EXCEPT !.pc = @ + ins.to[1]].parent = me.parent
  BY <1>1, <1>2, TurnFacts DEF Turn, Branches
<1> QED BY <1>1, <1>3, QuietTurnTyped DEF Goto

LEMMA TestAgainInv == ASSUME Inv, TestAgain PROVE Inv'
<1>1. Turn /\ InLoop /\ Leaves([me EXCEPT !.pc = @ + 1]) /\ UNCHANGED <<already, toAdd>>
  BY DEF TestAgain, AtTest, On, Turn
<1>2. me \in Branches /\ at \in DOMAIN branches BY <1>1, TurnFacts
<1>3. [me EXCEPT !.pc = @ + 1] \in Branches /\ [me EXCEPT !.pc = @ + 1].parent = me.parent
  BY <1>2 DEF Branches
<1>4. already' \subseteq (DOMAIN branches) \X Address(method) BY <1>1 DEF Inv, TypeOK
<1>5. \A x \in already : x[1] \in DOMAIN branches BY DEF Inv, TypeOK
<1>6. toTaint' \subseteq DOMAIN branches
  BY <1>2, <1>5 DEF TestAgain, Inv, TypeOK
<1> QED BY <1>1, <1>3, <1>4, <1>6, PlainTurnTyped

\* The first meeting of a test is noted under the branch.
LEMMA AlreadyTyped ==
  ASSUME Inv, Turn, already' = already \cup {<<at, me.pc>>}
  PROVE  already' \subseteq (DOMAIN branches) \X Address(method)
<1>1. at \in DOMAIN branches /\ me.pc \in Address(method) BY TurnFacts, InsFacts DEF Turn
<1> QED BY <1>1 DEF Inv, TypeOK

LEMMA TestDecidedInv == ASSUME Inv, TestDecided PROVE Inv'
<1>1. Turn /\ InLoop /\ ins.op \in {"test", "test_zero"} BY DEF TestDecided, AtTest, On, Turn
<1>2. Counted \in Branches /\ Counted.parent = me.parent BY <1>1, CountedTyped
<1>3. ins.to[1] \in Int BY <1>1, OffsetTyped
<1>4. [Counted EXCEPT !.pc = @ + ins.to[1]] \in Branches
      /\ [Counted EXCEPT !.pc = @ + ins.to[1]].parent = me.parent
  BY <1>2, <1>3 DEF Branches
<1>5. Passed(Counted) \in Branches /\ Passed(Counted).parent = me.parent
  BY <1>1, <1>2, PassedTyped
<1>6. already' \subseteq (DOMAIN branches) \X Address(method) BY <1>1, AlreadyTyped DEF TestDecided
<1>7. toTaint' \subseteq DOMAIN branches /\ toAdd' = toAdd BY DEF TestDecided, Inv, TypeOK
<1>8. CASE Holds(ins.how, Left.n, Right.n)
  <2>1. Leaves([Counted EXCEPT !.pc = @ + ins.to[1]]) BY <1>8 DEF TestDecided
  <2> QED BY <2>1, <1>1, <1>4, <1>6, <1>7, PlainTurnTyped
<1>9. CASE ~Holds(ins.how, Left.n, Right.n)
  <2>1. Leaves(Passed(Counted)) BY <1>9 DEF TestDecided
  <2> QED BY <2>1, <1>1, <1>5, <1>6, <1>7, PlainTurnTyped
<1> QED BY <1>8, <1>9

LEMMA TestUndecidedInv == ASSUME Inv, TestUndecided PROVE Inv'
<1>1. Turn /\ InLoop /\ ins.op \in {"test", "test_zero"} BY DEF TestUndecided, AtTest, On, Turn
<1>2. Counted \in Branches /\ Counted.parent = me.parent BY <1>1, CountedTyped
<1> DEFINE b    == [Counted EXCEPT !.tainted = @ \/ Doubtful]
           fork == Fork(b, ins.to[1])
           zero == [a \in Address(method) |-> 0]
           new  == [fork EXCEPT !.branch.loops = zero]
<1>3. (Counted.tainted \/ Doubtful) \in BOOLEAN OBVIOUS
<1>4. b \in Branches /\ b.parent = me.parent BY <1>2, <1>3 DEF Branches
<1>5. Leaves(Passed(b)) /\ toAdd' = Append(toAdd, new) BY DEF TestUndecided
<1> HIDE DEF b
<1>6. fork \in ForkRecords /\ fork.branch.parent \in DOMAIN branches
  BY <1>1, <1>4, OffsetTyped, ForkTyped
<1> HIDE DEF fork
<1>7. zero \in [Address(method) -> Nat] OBVIOUS
<1> HIDE DEF zero
<1>8. [fork.branch EXCEPT !.loops = zero] \in Branches
      /\ [fork.branch EXCEPT !.loops = zero].parent = fork.branch.parent
  BY <1>6, <1>7 DEF ForkRecords, Branches
<1>9. new \in ForkRecords /\ new.branch.parent \in DOMAIN branches
  BY <1>6, <1>8 DEF ForkRecords
<1> HIDE DEF new
<1>10. toAdd \in Seq(ForkRecords) /\ \A k \in DOMAIN toAdd : toAdd[k].branch.parent \in DOMAIN branches
  BY DEF Inv, TypeOK, ForkRecords
<1>11. /\ toAdd' \in Seq(ForkRecords) /\ Len(toAdd') <= Len(toAdd) + MaxTargets
       /\ \A k \in DOMAIN toAdd' : toAdd'[k].branch.parent \in DOMAIN branches
  BY <1>5, <1>9, <1>10, BoundsAssumption
<1>12. Passed(b) \in Branches /\ Passed(b).parent = me.parent BY <1>1, <1>4, PassedTyped
<1>13. already' \subseteq (DOMAIN branches) \X Address(method) BY <1>1, AlreadyTyped DEF TestUndecided
<1>14. toTaint' \subseteq DOMAIN branches BY DEF TestUndecided, Inv, TypeOK
<1> QED BY <1>1, <1>5, <1>11, <1>12, <1>13, <1>14, TurnTyped

LEMMA SwitchInv == ASSUME Inv, Switch PROVE Inv'
<1>1. Turn /\ InLoop /\ Leaves([me EXCEPT !.finished = TRUE]) BY DEF Switch, On, Turn
<1>2. me \in Branches BY <1>1, TurnFacts
<1>3. [me EXCEPT !.finished = TRUE] \in Branches /\ [me EXCEPT !.finished = TRUE].parent = me.parent
  BY <1>2 DEF Branches
<1> DEFINE forks == [k \in DOMAIN ins.to |-> Fork(me, ins.to[k])]
<1>4. ins.to \in Seq(Int) /\ Len(ins.to) <= MaxTargets BY <1>1, InsFacts DEF WellFormed
<1>5. \A k \in DOMAIN ins.to : /\ Fork(me, ins.to[k]) \in ForkRecords
                              /\ Fork(me, ins.to[k]).branch.parent \in DOMAIN branches
  BY <1>1, <1>2, <1>4, ForkTyped
<1>6. forks \in Seq(ForkRecords) /\ Len(forks) <= MaxTargets
      /\ \A k \in DOMAIN forks : forks[k].branch.parent \in DOMAIN branches
  BY <1>4, <1>5
<1>7. toAdd' = toAdd \/ toAdd' = toAdd \o forks BY DEF Switch
<1> HIDE DEF forks
<1>8. toAdd \in Seq(ForkRecords) /\ \A k \in DOMAIN toAdd : toAdd[k].branch.parent \in DOMAIN branches
  BY DEF Inv, TypeOK, ForkRecords
<1>9. /\ toAdd' \in Seq(ForkRecords) /\ Len(toAdd') <= Len(toAdd) + MaxTargets
      /\ \A k \in DOMAIN toAdd' : toAdd'[k].branch.parent \in DOMAIN branches
  <2>1. CASE toAdd' = toAdd BY <2>1, <1>8, BoundsAssumption
  <2>2. CASE toAdd' = toAdd \o forks BY <2>2, <1>6, <1>8, BoundsAssumption
  <2> QED BY <2>1, <2>2, <1>7
<1>10. already' \subseteq (DOMAIN branches) \X Address(method) /\ toTaint' \subseteq DOMAIN branches
  BY DEF Switch, Inv, TypeOK
<1> QED BY <1>1, <1>3, <1>9, <1>10, TurnTyped

\* A register is written, or what was executed last is noted, and the turn passes on.
LEMMA WriteTyped ==
  ASSUME Inv, Turn, NEW v \in Values
  PROVE  [me EXCEPT !.regs[ins.dst] = v] \in Branches
         /\ [me EXCEPT !.regs[ins.dst] = v].parent = me.parent
<1>1. me \in Branches /\ ins.dst \in Regs(method) BY TurnFacts, InsFacts DEF Turn
<1>2. [me.regs EXCEPT ![ins.dst] = v] \in [Regs(method) -> Values] BY <1>1 DEF Branches
<1>3. [me EXCEPT !.regs[ins.dst] = v] = [me EXCEPT !.regs = [me.regs EXCEPT ![ins.dst] = v]]
  BY <1>1 DEF Branches
<1> QED BY <1>1, <1>2, <1>3 DEF Branches

LEMMA NoteTyped ==
  ASSUME Inv, NEW b \in Branches, NEW last \in LastInstructions
  PROVE  [b EXCEPT !.last = last] \in Branches /\ [b EXCEPT !.last = last].parent = b.parent
BY DEF Branches

LEMMA PassingInv ==
  ASSUME Inv, Turn, NEW b \in Branches, b.parent = me.parent, Leaves(Passed(b)),
         UNCHANGED <<already, toTaint, toAdd>>
  PROVE  Inv'
<1>1. Passed(b) \in Branches /\ Passed(b).parent = me.parent BY PassedTyped
<1> QED BY <1>1, QuietTurnTyped

LEMMA ResultTyped == ASSUME Inv, Turn PROVE Result \in Values
<1>1. WellFormed(ins, method) /\ {ins.dst, ins.left, ins.right} \subseteq Regs(method)
  BY InsFacts DEF WellFormed
<1>2. Reg(ins.left) \in Values /\ Reg(ins.right) \in Values BY <1>1, InsFacts
<1>3. Object \in Values /\ Invalid \in Values /\ Empty \in Values
  BY DEF Object, Invalid, Empty, Values
<1>4. PICK n : n = Literal(ins) OBVIOUS
<1>5. n \in Int /\ (ins.op = "binop_lit" /\ ins.how = "div" => n # 0) BY <1>1, <1>4, LiteralTyped
<1>6. Number(n) \in Values /\ IsNumber(Number(n)) /\ Number(n).n = n
  BY <1>5 DEF Number, Values, IsNumber
<1>7. CASE ins.op = "binop"
  <2>1. ins.how # "div" BY <1>1, <1>7 DEF WellFormed
  <2> QED BY <1>2, <1>7, <2>1, ArithmeticTyped DEF Result
<1>8. CASE ins.op = "div" BY <1>2, <1>8, ArithmeticTyped DEF Result
<1>9. CASE ins.op = "binop_lit"
  <2>1. Result = Arithmetic(ins.how, Reg(ins.left), Number(n)) BY <1>4, <1>9 DEF Result
  <2> QED BY <2>1, <1>2, <1>5, <1>6, <1>9, ArithmeticTyped
<1>10. CASE ins.op = "const" BY <1>4, <1>6, <1>10 DEF Result
<1>11. CASE ins.op \notin {"binop", "div", "binop_lit", "const"}
  BY <1>2, <1>3, <1>11 DEF Result
<1> QED BY <1>7, <1>8, <1>9, <1>10, <1>11

LEMMA AssignInv == ASSUME Inv, Assign PROVE Inv'
<1>1. Turn BY DEF Assign, On
<1>6. Result \in Values BY <1>1, ResultTyped
<1>7. [me EXCEPT !.regs[ins.dst] = Result] \in Branches
      /\ [me EXCEPT !.regs[ins.dst] = Result].parent = me.parent
  BY <1>1, <1>6, WriteTyped
<1> QED BY <1>1, <1>7, PassingInv DEF Assign

LEMMA StaticGetInv == ASSUME Inv, StaticGet PROVE Inv'
<1>1. Turn BY DEF StaticGet, On
<1>2. me.pc \in Int /\ me \in Branches BY <1>1, TurnFacts DEF Turn, Branches
<1>3. Empty \in Values /\ Read(me.pc) \in LastInstructions
  BY <1>2 DEF Empty, Values, Read, LastInstructions
<1> DEFINE w == [me EXCEPT !.regs[ins.dst] = Empty]
           b == [me EXCEPT !.regs[ins.dst] = Empty, !.last = Read(me.pc)]
<1>4. w \in Branches /\ w.parent = me.parent BY <1>1, <1>3, WriteTyped
<1>5. b = [w EXCEPT !.last = Read(me.pc)] BY <1>2 DEF Branches
<1>6. Leaves(Passed(b)) /\ UNCHANGED <<already, toTaint, toAdd>> BY DEF StaticGet
<1> HIDE DEF w, b
<1>7. b \in Branches /\ b.parent = me.parent BY <1>3, <1>4, <1>5, NoteTyped
<1> QED BY <1>1, <1>6, <1>7, PassingInv

LEMMA ArgumentsTyped ==
  ASSUME Inv, Turn
  PROVE  /\ Arguments \in Seq(Values) /\ DOMAIN Arguments = DOMAIN ins.args
         /\ me.pc \in Int
<1>1. ins.args \in Seq(Regs(method)) BY InsFacts DEF WellFormed
<1>2. \A r \in Regs(method) : Reg(r) \in Values BY InsFacts
<1>3. me.pc \in Int BY TurnFacts DEF Turn, Branches
<1> QED BY <1>1, <1>2, <1>3 DEF Arguments

LEMMA InvokeInv == ASSUME Inv, Invoke PROVE Inv'
<1>1. Turn /\ me \in Branches BY TurnFacts DEF Invoke, On, Turn
<1>2. Call(me.pc, Arguments) \in LastInstructions
  BY <1>1, ArgumentsTyped DEF Call, LastInstructions
<1>3. [me EXCEPT !.last = Call(me.pc, Arguments)] \in Branches
      /\ [me EXCEPT !.last = Call(me.pc, Arguments)].parent = me.parent
  BY <1>1, <1>2, NoteTyped
<1> QED BY <1>1, <1>3, PassingInv DEF Invoke

LEMMA InvokeInterfaceInv == ASSUME Inv, InvokeInterface PROVE Inv'
<1>1. Turn /\ me \in Branches BY TurnFacts DEF InvokeInterface, On, Turn
<1> DEFINE known == Call(me.pc, [Arguments EXCEPT ![1] = Object])
           last  == IF ins.how = "several" THEN Call(me.pc, Arguments)
                    ELSE IF ins.how = "own" \/ me.last = None THEN known ELSE me.last
<1>2. Leaves(Passed([me EXCEPT !.last = last])) /\ UNCHANGED <<already, toTaint, toAdd>>
  BY DEF InvokeInterface
<1>3. Arguments \in Seq(Values) /\ me.pc \in Int BY <1>1, ArgumentsTyped
<1>4. Object \in Values BY DEF Object, Values
<1>5. [Arguments EXCEPT ![1] = Object] \in Seq(Values)
  <2>1. Len(Arguments) \in Nat /\ Arguments \in [1 .. Len(Arguments) -> Values] BY <1>3, SeqElim
  <2>2. [Arguments EXCEPT ![1] = Object] \in [1 .. Len(Arguments) -> Values] BY <2>1, <1>4
  <2> QED BY <2>1, <2>2, SeqIntro
<1>6. /\ Call(me.pc, Arguments) \in LastInstructions /\ known \in LastInstructions
      /\ me.last \in LastInstructions
  BY <1>1, <1>3, <1>5 DEF Call, LastInstructions, Branches
<1> HIDE DEF known
<1>7. last \in LastInstructions BY <1>6
<1> HIDE DEF last
<1>8. [me EXCEPT !.last = last] \in Branches /\ [me EXCEPT !.last = last].parent = me.parent
  BY <1>1, <1>7, NoteTyped
<1> QED BY <1>1, <1>2, <1>8, PassingInv

LEMMA MoveResultInv == ASSUME Inv, MoveResult PROVE Inv'
<1>1. Turn /\ me \in Branches BY TurnFacts DEF MoveResult, On, Turn
<1>2. Variable \in Values BY DEF Variable, Values
<1>3. [me EXCEPT !.regs[ins.dst] = Variable] \in Branches
      /\ [me EXCEPT !.regs[ins.dst] = Variable].parent = me.parent
  BY <1>1, <1>2, WriteTyped
<1> DEFINE b == IF me.last = None THEN me ELSE [me EXCEPT !.regs[ins.dst] = Variable]
<1>4. b \in Branches /\ b.parent = me.parent
  <2>1. CASE me.last = None BY <2>1, <1>1
  <2>2. CASE me.last # None BY <2>2, <1>3
  <2> QED BY <2>1, <2>2
<1>5. Leaves(Passed(b)) /\ UNCHANGED <<already, toTaint, toAdd>> BY DEF MoveResult
<1> HIDE DEF b
<1> QED BY <1>1, <1>4, <1>5, PassingInv

LEMMA NotImplInv == ASSUME Inv, NotImpl PROVE Inv'
<1>1. Turn /\ InLoop /\ me \in Branches /\ at \in DOMAIN branches
  BY TurnFacts DEF NotImpl, On, Turn
<1> DEFINE b == [me EXCEPT !.regs = [r \in Regs(method) |-> Empty]]
<1>2. Empty \in Values BY DEF Empty, Values
<1>3. b \in Branches /\ b.parent = me.parent BY <1>1, <1>2 DEF Branches
<1>4. /\ Leaves(Passed(b)) /\ already' = already /\ toAdd' = toAdd
      /\ toTaint' = toTaint \cup {at}
  BY DEF NotImpl
<1> HIDE DEF b
<1>5. Passed(b) \in Branches /\ Passed(b).parent = me.parent BY <1>1, <1>3, PassedTyped
<1>6. already' \subseteq (DOMAIN branches) \X Address(method) /\ toTaint' \subseteq DOMAIN branches
  BY <1>1, <1>4 DEF Inv, TypeOK
<1> QED BY <1>1, <1>4, <1>5, <1>6, PlainTurnTyped

LEMMA IgnoredInv == ASSUME Inv, Ignored PROVE Inv'
<1>1. Turn /\ me \in Branches BY TurnFacts DEF Ignored, On, Turn
<1> QED BY <1>1, PassingInv DEF Ignored

(***************************************************************************)
(* The other steps                                                         *)
(***************************************************************************)
LEMMA SkipFinishedInv == ASSUME Inv, SkipFinished PROVE Inv'
<1>1. at \in Nat /\ at <= Len(branches) /\ phase = "loop" BY DEF SkipFinished, InLoop, Inv, TypeOK
<1>2. /\ method' = method /\ at' = at + 1
      /\ UNCHANGED <<conservative, query, branches, already, phase, toTaint, toAdd, iterations,
                     resets, decisions, found>>
  BY DEF SkipFinished, fixed
<1>3. Branches' = Branches /\ Decisions' = Decisions
  BY <1>2 DEF Branches, Decisions, Regs, Address
<1>4. TypeOK' BY <1>1, <1>2, <1>3 DEF Inv, TypeOK, Address
<1>5. Len(toAdd) <= (at - 1) * MaxTargets BY <1>1 DEF Inv, ForksBounded
<1>6. (at - 1) * MaxTargets <= (at' - 1) * MaxTargets
  <2>1. (at' - 1) * MaxTargets = (at - 1) * MaxTargets + MaxTargets BY <1>1, <1>2, BoundsAssumption
  <2>2. (at - 1) * MaxTargets \in Int BY <1>1, BoundsAssumption
  <2> HIDE <1>2
  <2> QED BY <2>1, <2>2, BoundsAssumption
<1>7. Len(toAdd) \in Nat /\ (at - 1) * MaxTargets \in Int /\ (at' - 1) * MaxTargets \in Int
  BY <1>1, <1>2, BoundsAssumption DEF Inv, TypeOK
<1>8. Len(toAdd') <= (at' - 1) * MaxTargets
  <2> DEFINE p == (at - 1) * MaxTargets
             q == (at' - 1) * MaxTargets
  <2>1. Len(toAdd) <= p /\ p <= q /\ p \in Int /\ q \in Int BY <1>5, <1>6, <1>7
  <2> HIDE DEF p, q
  <2>2. Len(toAdd) <= q BY <2>1, <1>7
  <2> QED BY <2>2, <1>2 DEF q
<1> QED BY <1>2, <1>4, <1>8 DEF Inv, ForksBounded, BranchesBounded

\* What one round can make of fewer branches than the limit.
LEMMA RoundBound ==
  ASSUME NEW n \in Nat, n < BranchLimit, NEW k \in Nat, k <= n * MaxTargets
  PROVE  n + k <= (BranchLimit - 1) * (MaxTargets + 1)
<1>1. BranchLimit \in Nat /\ MaxTargets \in Nat BY BoundsAssumption
<1>2. PICK d \in Nat : BranchLimit - 1 = n + d
  <2>1. BranchLimit - 1 - n \in Nat BY <1>1
  <2> WITNESS BranchLimit - 1 - n \in Nat
  <2> QED BY <1>1
<1>3. (n + d) * (MaxTargets + 1) = n * MaxTargets + n + d * (MaxTargets + 1) BY <1>1
<1>4. d * (MaxTargets + 1) \in Nat /\ n * MaxTargets \in Nat BY <1>1
<1> QED BY <1>1, <1>2, <1>3, <1>4

LEMMA EndLoopInv == ASSUME Inv, EndLoop PROVE Inv'
<1>1. /\ phase = "loop" /\ at > Len(branches) /\ method' = method
      /\ branches' = Tainted \o [k \in DOMAIN Forks |-> Forks[k].branch]
      /\ already' = already \cup {<<Len(branches) + k, Forks[k].from>> : k \in DOMAIN Forks}
      /\ phase' = IF query = "steps" THEN "idle" ELSE "collect"
      /\ at' = 1 /\ toTaint' = {} /\ toAdd' = <<>> /\ iterations' = iterations + 1
      /\ UNCHANGED <<conservative, query, resets, decisions, found>>
  BY DEF EndLoop, fixed
<1>2. Branches' = Branches /\ Decisions' = Decisions /\ Address(method)' = Address(method)
  BY <1>1 DEF Branches, Decisions, Regs, Address
<1>3. branches \in Seq(Branches) /\ at = Len(branches) + 1 /\ toAdd \in Seq(ForkRecords)
  BY <1>1 DEF Inv, TypeOK, ForkRecords
<1>4. Forks \in Seq(ForkRecords) /\ (Forks = toAdd \/ Forks = <<>>) BY <1>3 DEF Forks
<1>5. \A k \in DOMAIN Forks : Forks[k].branch.parent \in DOMAIN branches
  BY <1>4 DEF Inv, TypeOK
<1>6. \A i \in DOMAIN branches :
        /\ [branches[i] EXCEPT !.tainted = @ \/ i \in Reached(toTaint)] \in Branches
        /\ [branches[i] EXCEPT !.tainted = @ \/ i \in Reached(toTaint)].parent = branches[i].parent
  <2> SUFFICES ASSUME NEW i \in DOMAIN branches
               PROVE  /\ [branches[i] EXCEPT !.tainted = @ \/ i \in Reached(toTaint)] \in Branches
                      /\ [branches[i] EXCEPT !.tainted = @ \/ i \in Reached(toTaint)].parent
                            = branches[i].parent
    OBVIOUS
  <2>1. branches[i] \in Branches BY <1>3
  <2>2. (branches[i].tainted \/ i \in Reached(toTaint)) \in BOOLEAN OBVIOUS
  <2> QED BY <2>1, <2>2 DEF Branches
<1>7. /\ Tainted \in Seq(Branches) /\ Len(Tainted) = Len(branches)
      /\ \A i \in DOMAIN branches : Tainted[i].parent = branches[i].parent
  <2>1. Len(branches) \in Nat /\ DOMAIN branches = 1 .. Len(branches) BY <1>3, SeqElim
  <2>2. Tainted \in [1 .. Len(branches) -> Branches] BY <2>1, <1>6 DEF Tainted
  <2>3. \A i \in DOMAIN branches : Tainted[i].parent = branches[i].parent BY <1>6 DEF Tainted
  <2> QED BY <2>1, <2>2, <2>3, SeqIntro
<1> DEFINE new == [k \in DOMAIN Forks |-> Forks[k].branch]
<1>8. /\ new \in Seq(Branches) /\ Len(new) = Len(Forks)
      /\ \A k \in DOMAIN new : new[k].parent \in DOMAIN branches
  <2>1. Len(Forks) \in Nat /\ DOMAIN Forks = 1 .. Len(Forks) BY <1>4, SeqElim
  <2>2. \A k \in DOMAIN Forks : Forks[k] \in ForkRecords BY <1>4, <2>1
  <2>3. new \in [1 .. Len(Forks) -> Branches] BY <2>1, <2>2 DEF ForkRecords
  <2> QED BY <2>1, <2>3, <1>5, SeqIntro
<1>9. branches' = Tainted \o new BY <1>1
<1> HIDE DEF new
<1>10. /\ branches' \in Seq(Branches) /\ Len(branches') = Len(branches) + Len(Forks)
       /\ DOMAIN branches \subseteq DOMAIN branches'
  <2>1. branches' \in Seq(Branches) /\ Len(branches') = Len(branches) + Len(Forks)
    <3>1. Tainted \in Seq(Branches) /\ new \in Seq(Branches) BY <1>7, <1>8
    <3>2. Tainted \o new \in Seq(Branches) /\ Len(Tainted \o new) = Len(Tainted) + Len(new)
      BY <3>1, SeqConcat
    <3> QED BY <3>2, <1>7, <1>8, <1>9
  <2>2. Len(branches) \in Nat /\ Len(Forks) \in Nat BY <1>3, <1>4
  <2>3. DOMAIN branches = 1 .. Len(branches) /\ DOMAIN branches' = 1 .. Len(branches')
    BY <1>3, <2>1
  <2> QED BY <2>1, <2>2, <2>3
<1>11. \A i \in DOMAIN branches' : branches'[i].parent < i
  <2> SUFFICES ASSUME NEW i \in DOMAIN branches' PROVE branches'[i].parent < i
    OBVIOUS
  <2>1. i \in Nat /\ i <= Len(branches) + Len(Forks) /\ i >= 1 BY <1>3, <1>4, <1>10
  <2>2. CASE i <= Len(branches)
    <3>1. i \in DOMAIN branches BY <2>1, <2>2, <1>3
    <3>2. branches'[i] = Tainted[i] BY <2>1, <2>2, <1>3, <1>7, <1>8, <1>9, SeqConcat
    <3> QED BY <3>1, <3>2, <1>7 DEF Inv, TypeOK
  <2>3. CASE i > Len(branches)
    <3> DEFINE k == i - Len(branches)
    <3>1. k \in DOMAIN new BY <2>1, <2>3, <1>3, <1>4, <1>8
    <3>2. branches'[i] = new[k]
      <4>1. k \in 1 .. Len(new) /\ i = Len(Tainted) + k BY <2>1, <2>3, <1>3, <1>4, <1>7, <1>8
      <4> HIDE DEF k
      <4>2. (Tainted \o new)[Len(Tainted) + k] = new[k] BY <4>1, <1>7, <1>8, SeqConcat
      <4> QED BY <4>1, <4>2, <1>9
    <3>3. new[k].parent \in 1 .. Len(branches) BY <3>1, <1>8, <1>3
    <3> QED BY <3>2, <3>3, <2>1, <2>3, <1>3
  <2> QED BY <2>1, <2>2, <2>3, <1>3
<1>12. already' \subseteq (DOMAIN branches') \X Address(method)
  <2>1. already \subseteq (DOMAIN branches') \X Address(method) BY <1>10 DEF Inv, TypeOK
  <2>2. \A k \in DOMAIN Forks : <<Len(branches) + k, Forks[k].from>> \in (DOMAIN branches') \X Address(method)
    <3> SUFFICES ASSUME NEW k \in DOMAIN Forks
                 PROVE  Len(branches) + k \in DOMAIN branches' /\ Forks[k].from \in Address(method)
      OBVIOUS
    <3>1. /\ Len(branches) \in Nat /\ Len(Forks) \in Nat /\ k \in 1 .. Len(Forks)
          /\ DOMAIN branches' = 1 .. Len(branches')
      BY <1>3, <1>4, <1>10, SeqElim
    <3>2. Forks[k] \in ForkRecords BY <1>4, <3>1
    <3> QED BY <3>1, <3>2, <1>10 DEF ForkRecords
  <2> QED BY <1>1, <2>1, <2>2
<1>13. at' \in 1 .. Len(branches') + 1 BY <1>1, <1>10
<1>14. TypeOK'
  <2>1. /\ conservative' \in Modes /\ query' \in Queries /\ phase' \in Phases
        /\ phase' = "idle" => query' = "steps"
        /\ iterations' \in Nat /\ resets' \in Nat /\ found' \subseteq LastInstructions
    BY <1>1 DEF Inv, TypeOK, Phases
  <2>2. /\ toTaint' \subseteq DOMAIN branches' /\ toAdd' = <<>>
        /\ toAdd' \in Seq([from : Address(method)', branch : Branches'])
        /\ \A k \in DOMAIN toAdd' : toAdd'[k].branch.parent \in DOMAIN branches'
        /\ phase' # "loop" => at' = 1 /\ toTaint' = {} /\ toAdd' = <<>>
    BY <1>1
  <2>3. /\ decisions' \in Seq(Seq(Decisions')) /\ Len(decisions') <= Len(branches')
        /\ query' = "steps" => decisions' = <<>>
    <3>1. decisions' = decisions /\ query' = query BY <1>1
    <3>2. Len(decisions) <= Len(branches) /\ Len(branches') = Len(branches) + Len(Forks)
          /\ decisions \in Seq(Seq(Decisions)) /\ (query = "steps" => decisions = <<>>)
      BY <1>10 DEF Inv, TypeOK
    <3>3. Len(decisions) \in Nat /\ Len(branches) \in Nat /\ Len(Forks) \in Nat
      BY <3>2, <1>3, <1>4, SeqElim
    <3> QED BY <3>1, <3>2, <3>3, <1>2
  <2> QED BY <2>1, <2>2, <2>3, <1>2, <1>10, <1>11, <1>12, <1>13 DEF TypeOK
<1>15. BranchesBounded'
  <2>1. Len(Forks) \in Nat /\ Len(branches) \in Nat BY <1>3, <1>4
  <2>2. CASE Forks = <<>> BY <2>2, <1>3, <1>10 DEF Inv, ForksBounded, BranchesBounded
  <2>3. CASE Len(branches) < BranchLimit /\ Forks = toAdd
    <3>1. (at - 1) = Len(branches) BY <1>3
    <3>2. Len(toAdd) <= Len(branches) * MaxTargets BY <3>1, <1>1 DEF Inv, ForksBounded
    <3> QED BY <3>2, <2>1, <2>3, <1>10, RoundBound DEF BranchesBounded
  <2> QED BY <2>2, <2>3 DEF Forks
<1>16. ForksBounded' BY <1>1, <1>15, BoundsAssumption DEF ForksBounded
<1> QED BY <1>1, <1>14, <1>16 DEF Inv

\* A step that leaves the branches as they are, between two rounds.
LEMMA BetweenRounds ==
  ASSUME Inv, phase # "loop", method' = method,
         UNCHANGED <<conservative, query, branches, already, at, toTaint, toAdd, resets>>,
         iterations' \in Nat, phase' \in Phases, phase' = "idle" => query = "steps",
         decisions' \in Seq(Seq(Decisions)), Len(decisions') <= Len(branches),
         query = "steps" => decisions' = <<>>, found' \subseteq LastInstructions
  PROVE  Inv'
<1>1. Branches' = Branches /\ Decisions' = Decisions /\ Address(method)' = Address(method)
  BY DEF Branches, Decisions, Regs, Address
<1>2. toAdd = <<>> /\ toTaint = {} BY DEF Inv, TypeOK
<1>3. TypeOK' BY <1>1, <1>2 DEF Inv, TypeOK
<1>4. (at - 1) * MaxTargets >= 0
  <2>1. at - 1 \in Nat BY DEF Inv, TypeOK
  <2> QED BY <2>1, BoundsAssumption
<1>5. ForksBounded' BY <1>2, <1>4 DEF Inv, ForksBounded, BranchesBounded
<1> QED BY <1>3, <1>5 DEF Inv

LEMMA AgainPhase ==
  ASSUME Again
  PROVE  phase' \in Phases /\ phase' # "idle"
BY DEF Again, Phases

LEMMA DecisionTyped ==
  ASSUME Inv, NEW i \in DOMAIN branches, OnCode(i)
  PROVE  Decision(i) \in Decisions
<1>1. branches[i] \in Branches BY SeqElim DEF Inv, TypeOK
<1> QED BY <1>1 DEF OnCode, Decision, Decisions, Branches

LEMMA NotedTyped ==
  ASSUME Inv, NEW i \in DOMAIN branches
  PROVE  /\ Noted(i) \in Seq(Decisions)
         /\ Retaint(Noted(i), branches[i].tainted) \in Seq(Decisions)
<1>1. Noted(i) \in Seq(Decisions)
  <2>1. CASE i \in DOMAIN decisions BY <2>1 DEF Noted, Inv, TypeOK
  <2>2. CASE i \notin DOMAIN decisions BY <2>2 DEF Noted
  <2> QED BY <2>1, <2>2
<1>2. branches[i].tainted \in BOOLEAN
  <2>1. branches[i] \in Branches BY SeqElim DEF Inv, TypeOK
  <2> QED BY <2>1 DEF Branches
<1> DEFINE ds == Noted(i)
           t  == branches[i].tainted
<1> HIDE DEF ds, t
<1>3. Len(ds) \in Nat /\ DOMAIN ds = 1 .. Len(ds) /\ ds \in [1 .. Len(ds) -> Decisions]
  BY <1>1, SeqElim DEF ds
<1>4. \A k \in DOMAIN ds : [ds[k] EXCEPT !.tainted = t] \in Decisions
  BY <1>2, <1>3 DEF Decisions, t
<1>5. Retaint(ds, t) \in [1 .. Len(ds) -> Decisions] BY <1>3, <1>4 DEF Retaint
<1> QED BY <1>1, <1>3, <1>5, SeqIntro DEF ds, t

LEMMA CollectDecisionsInv == ASSUME Inv, CollectDecisions PROVE Inv'
<1> DEFINE old(i) == IF OnCode(i) THEN Retaint(Noted(i), branches[i].tainted) ELSE Noted(i)
           new(i) == IF AtATest(i) THEN <<Decision(i)>> ELSE <<>>
<1>1. /\ phase = "collect" /\ query = "decisions" /\ method' = method /\ Again
      /\ decisions' = [i \in DOMAIN branches |-> old(i) \o new(i)]
      /\ UNCHANGED <<conservative, query, branches, already, at, toTaint, toAdd, iterations, resets, found>>
  BY DEF CollectDecisions, fixed
<1>2. ASSUME NEW i \in DOMAIN branches PROVE old(i) \o new(i) \in Seq(Decisions)
  <2>1. old(i) \in Seq(Decisions) BY NotedTyped
  <2>2. new(i) \in Seq(Decisions)
    <3>1. CASE AtATest(i)
      <4>1. Decision(i) \in Decisions BY <3>1, DecisionTyped DEF AtATest
      <4> QED BY <3>1, <4>1
    <3>2. CASE ~AtATest(i) BY <3>2
    <3> QED BY <3>1, <3>2
  <2> HIDE DEF old, new
  <2> QED BY <2>1, <2>2, SeqConcat
<1> HIDE DEF old, new
<1>3. Len(branches) \in Nat /\ DOMAIN branches = 1 .. Len(branches) BY SeqElim DEF Inv, TypeOK
<1>4. decisions' \in [1 .. Len(branches) -> Seq(Decisions)] BY <1>1, <1>2, <1>3
<1>5. decisions' \in Seq(Seq(Decisions)) /\ Len(decisions') = Len(branches)
  BY <1>3, <1>4, SeqIntro
<1>6. iterations' \in Nat /\ found' \subseteq LastInstructions BY <1>1 DEF Inv, TypeOK
<1>7. phase' \in Phases /\ phase' # "idle" BY <1>1, AgainPhase
<1> QED BY <1>1, <1>3, <1>5, <1>6, <1>7, BetweenRounds

LEMMA CollectFoundInv == ASSUME Inv, CollectFound PROVE Inv'
<1>1. /\ phase = "collect" /\ query # "steps" /\ method' = method /\ Again
      /\ UNCHANGED <<conservative, query, branches, already, at, toTaint, toAdd, iterations, resets, decisions>>
  BY DEF CollectFound, fixed
<1>2. \A i \in DOMAIN branches : branches[i].last \in LastInstructions
  <2>1. \A i \in DOMAIN branches : branches[i] \in Branches BY SeqElim DEF Inv, TypeOK
  <2> QED BY <2>1 DEF Branches
<1>3. found' \subseteq LastInstructions BY <1>2 DEF CollectFound, Inv, TypeOK
<1>4. /\ iterations' \in Nat /\ decisions' \in Seq(Seq(Decisions))
      /\ Len(decisions') <= Len(branches)
  BY <1>1 DEF Inv, TypeOK
<1>5. phase' \in Phases /\ phase' # "idle" BY <1>1, AgainPhase
<1> QED BY <1>1, <1>3, <1>4, <1>5, BetweenRounds

LEMMA NextInstructionInv == ASSUME Inv, NextInstruction PROVE Inv'
<1>1. /\ phase = "idle" /\ phase' = "loop" /\ method' = method
      /\ UNCHANGED <<conservative, query, branches, already, at, toTaint, toAdd, iterations,
                     resets, decisions, found>>
  BY DEF NextInstruction, fixed
<1>2. /\ iterations' \in Nat /\ decisions' \in Seq(Seq(Decisions))
      /\ Len(decisions') <= Len(branches) /\ (query = "steps" => decisions' = <<>>)
      /\ found' \subseteq LastInstructions /\ phase' \in Phases
  BY <1>1 DEF Inv, TypeOK, Phases
<1> QED BY <1>1, <1>2, BetweenRounds

\* One new branch is within the bound.
LEMMA OneBranch == 1 <= (BranchLimit - 1) * (MaxTargets + 1)
<1>1. BranchLimit - 1 \in Nat /\ BranchLimit - 1 >= 1 /\ MaxTargets \in Nat BY BoundsAssumption
<1>2. (BranchLimit - 1) * (MaxTargets + 1) = (BranchLimit - 1) * MaxTargets + (BranchLimit - 1)
  BY <1>1
<1>3. (BranchLimit - 1) * MaxTargets \in Nat BY <1>1
<1> QED BY <1>1, <1>2, <1>3

\* Where a run begins that has a single new branch.
LEMMA BeginInv ==
  ASSUME NEW start \in Int, method \in Methods, method' = method,
         conservative' \in Modes, query' \in Queries, phase' \in Phases,
         phase' = "idle" => query' = "steps", branches' = <<NewBranch(start)>>, already' = {},
         at' = 1, toTaint' = {}, toAdd' = <<>>, iterations' = 0, resets' \in Nat,
         decisions' = <<>>, found' \subseteq LastInstructions
  PROVE  Inv'
<1>1. NewBranch(start) \in Branches /\ NewBranch(start).parent = 0 BY NewBranchTyped
<1>2. Branches' = Branches /\ Decisions' = Decisions /\ Address(method)' = Address(method)
  BY DEF Branches, Decisions, Regs, Address
<1>3. branches' \in Seq(Branches) /\ Len(branches') = 1 /\ DOMAIN branches' = 1 .. 1
      /\ branches'[1].parent = 0
  BY <1>1
<1>4. TypeOK' BY <1>2, <1>3 DEF TypeOK
<1>5. ForksBounded' BY <1>3, OneBranch, BoundsAssumption DEF ForksBounded, BranchesBounded
<1> QED BY <1>4, <1>5 DEF Inv

LEMMA ResetInv == ASSUME Inv, NEW start \in Address(method), Reset(start) PROVE Inv'
<1>1. start \in Int BY MethodFacts DEF Inv
<1>2. /\ phase = "idle" /\ query = "steps" /\ method' = method /\ phase' = phase
      /\ branches' = <<NewBranch(start)>> /\ already' = {} /\ iterations' = 0
      /\ resets' = resets + 1
      /\ UNCHANGED <<conservative, query, at, toTaint, toAdd, decisions, found>>
  BY DEF Reset, fixed, Inv, TypeOK
<1>3. /\ at' = 1 /\ toTaint' = {} /\ toAdd' = <<>> /\ method \in Methods
      /\ resets' \in Nat /\ conservative' \in Modes /\ query' \in Queries
      /\ phase' \in Phases /\ (phase' = "idle" => query' = "steps")
      /\ decisions' = <<>> /\ found' \subseteq LastInstructions
  BY <1>2 DEF Inv, TypeOK
<1> QED BY <1>1, <1>2, <1>3, BeginInv

\* Initially the analysis stands at the first instruction or has no branch at all.
LEMMA InitInv == Init => Inv
<1> SUFFICES ASSUME Init PROVE Inv
  OBVIOUS
<1>1. /\ method \in Methods /\ conservative \in Modes /\ query \in Queries
      /\ already = {} /\ at = 1 /\ toTaint = {} /\ toAdd = <<>>
      /\ iterations = 0 /\ resets = 0 /\ decisions = <<>> /\ found = {}
      /\ phase = IF query = "steps" THEN "idle" ELSE "loop"
      /\ branches = IF query = "steps" THEN <<>> ELSE <<NewBranch(0)>>
  BY DEF Init
<1>2. NewBranch(0) \in Branches /\ NewBranch(0).parent = 0 BY NewBranchTyped
<1>3. /\ branches \in Seq(Branches) /\ Len(branches) \in {0, 1}
      /\ \A i \in DOMAIN branches : branches[i].parent < i
  <2>1. CASE query = "steps" BY <2>1, <1>1
  <2>2. CASE query # "steps" BY <2>2, <1>1, <1>2
  <2> QED BY <2>1, <2>2
<1>4. TypeOK BY <1>1, <1>3 DEF TypeOK, Phases
<1>5. Len(branches) <= (BranchLimit - 1) * (MaxTargets + 1)
  <2> DEFINE q == (BranchLimit - 1) * (MaxTargets + 1)
  <2>1. 1 <= q /\ q \in Int BY OneBranch, BoundsAssumption
  <2> HIDE DEF q
  <2>2. Len(branches) <= q BY <2>1, <1>3
  <2> QED BY <2>2 DEF q
<1>6. Len(toAdd) <= (at - 1) * MaxTargets BY <1>1, BoundsAssumption
<1> QED BY <1>1, <1>4, <1>5, <1>6 DEF Inv, ForksBounded, BranchesBounded

LEMMA StutterInv == ASSUME Inv, UNCHANGED flowVars PROVE Inv'
BY DEF flowVars, Inv, TypeOK, ForksBounded, BranchesBounded, Branches, Decisions, Regs, Address

LEMMA StepInv == Inv /\ [Next]_flowVars => Inv'
<1> SUFFICES ASSUME Inv, [Next]_flowVars PROVE Inv'
  OBVIOUS
<1>1. CASE \E start \in Address(method) : Reset(start) BY <1>1, ResetInv
<1>2. CASE NextInstruction BY <1>2, NextInstructionInv
<1>3. CASE SkipFinished BY <1>3, SkipFinishedInv
<1>4. CASE Finish BY <1>4, FinishInv
<1>5. CASE Goto BY <1>5, GotoInv
<1>6. CASE TestAgain BY <1>6, TestAgainInv
<1>7. CASE TestDecided BY <1>7, TestDecidedInv
<1>8. CASE TestUndecided BY <1>8, TestUndecidedInv
<1>9. CASE Switch BY <1>9, SwitchInv
<1>10. CASE Assign BY <1>10, AssignInv
<1>11. CASE StaticGet BY <1>11, StaticGetInv
<1>12. CASE Invoke BY <1>12, InvokeInv
<1>13. CASE InvokeInterface BY <1>13, InvokeInterfaceInv
<1>14. CASE MoveResult BY <1>14, MoveResultInv
<1>15. CASE NotImpl BY <1>15, NotImplInv
<1>16. CASE Ignored BY <1>16, IgnoredInv
<1>17. CASE EndLoop BY <1>17, EndLoopInv
<1>18. CASE CollectDecisions BY <1>18, CollectDecisionsInv
<1>19. CASE CollectFound BY <1>19, CollectFoundInv
<1>20. CASE UNCHANGED flowVars BY <1>20, StutterInv
<1> QED
  BY <1>1, <1>2, <1>3, <1>4, <1>5, <1>6, <1>7, <1>8, <1>9, <1>10, <1>11, <1>12, <1>13,
     <1>14, <1>15, <1>16, <1>17, <1>18, <1>19, <1>20 DEF Next

\* The analysis is well typed, and every branch stands behind the one it was forked off.
THEOREM TypeCorrect == Spec => []TypeOK
<1>1. Inv => TypeOK BY DEF Inv
<1> QED BY <1>1, InitInv, StepInv, PTL DEF Spec

\* There are never more branches than those below the limit and all they may fork.
THEOREM BranchesCorrect == Spec => []BranchesBounded
<1>1. Inv => BranchesBounded BY DEF Inv, ForksBounded
<1> QED BY <1>1, InitInv, StepInv, PTL DEF Spec

-----------------------------------------------------------------------------
(* Untainted branches.  The claim is about the time between two rounds.    *)
(* In the middle of one the branches that had their turn are a step ahead  *)
(* of the executions, and so are the forks waiting to be added; a branch   *)
(* that was forced on is not tainted yet but waits to be.  ExactInv says   *)
(* so.  It also says more of the registers: what an untainted branch does  *)
(* not know, the execution does not know either, so that both find the     *)
(* same tests undecided.                                                   *)

\* The configuration of the execution that an untainted branch follows.
Image(b) ==
  [pc |-> b.pc,
   regs |-> [r \in Regs(method) |-> IF IsNumber(b.regs[r]) THEN b.regs[r] ELSE Unknown]]

Ahead == runs \cup UNION {Successors(c) : c \in runs}

Exact(b, S) == ~ReadAsWritten \/ b.tainted \/ Image(b) \in S

ExactInv ==
  /\ \A i \in DOMAIN branches :
       IF i < at THEN i \in toTaint \/ Exact(branches[i], Ahead) ELSE Exact(branches[i], runs)
  /\ \A k \in DOMAIN toAdd : Exact(toAdd[k].branch, Ahead)

\* A branch at a move of a result has the call, or will not have another turn.
HasResult(b) ==
  (b.pc \in Address(method) /\ method.code[b.pc].op = "move_result") =>
    b.last # None \/ b.prev = b.pc

ResultsInv ==
  /\ \A i \in DOMAIN branches : HasResult(branches[i])
  /\ \A k \in DOMAIN toAdd : HasResult(toAdd[k].branch)

AInv == Inv /\ (~Uses({"keep"}) => ExactInv /\ ResultsInv)

(***************************************************************************)
(* Executions                                                              *)
(***************************************************************************)
LEMMA TargetFacts ==
  ASSUME Inv, Turn
  PROVE  /\ \A k \in DOMAIN ins.to : me.pc + ins.to[k] \in Targets(method, me.pc)
         /\ me.pc \in Nat
<1>1. me.pc \in Address(method) /\ method \in Methods BY InsFacts DEF Inv
<1>2. me.pc \in Nat BY <1>1, MethodsAssumption
<1>3. ins.to \in Seq(Int) BY InsFacts DEF WellFormed
<1>4. \A k \in DOMAIN ins.to : ins.to[k] \in ToSet(ins.to) BY <1>3 DEF ToSet
<1> QED BY <1>2, <1>4 DEF Targets, ins

\* The address behind an instruction that can be passed.
LEMMA NextAddress ==
  ASSUME Inv, Turn, ins.op \notin {"return", "goto"}
  PROVE  me.pc + 1 \in Address(method)
<1>1. Verified(method) /\ me.pc \in Address(method) BY MethodsAssumption, InsFacts DEF Inv
<1> QED BY <1>1 DEF Verified, ins

\* Where no instruction is ignored that writes a register, the one before a move of a
\* result is a call, and no jump leads there.
LEMMA ResultFacts ==
  ASSUME Inv, ~Uses({"keep"}), NEW a \in Address(method), method.code[a].op = "move_result"
  PROVE  /\ a - 1 \in Address(method) /\ a \in Nat /\ a # 0
         /\ method.code[a - 1].op \in {"invoke", "invoke_interface"}
         /\ \A x \in Address(method) : a \notin Targets(method, x)
<1>1. method \in Methods BY DEF Inv
<1>2. Verified(method) /\ Address(method) \subseteq Nat BY <1>1, MethodsAssumption
<1>3. /\ a - 1 \in Address(method)
      /\ method.code[a - 1].op \in {"invoke", "invoke_interface", "keep"}
      /\ \A x \in Address(method) : a \notin Targets(method, x)
  BY <1>2 DEF Verified
<1>4. method.code[a - 1].op # "keep" BY <1>3 DEF Uses
<1>5. a \in Nat /\ a - 1 \in Nat BY <1>2, <1>3
<1> QED BY <1>3, <1>4, <1>5

\* Branches that got where they are by passing an instruction that is no call.
LEMMA HasResultPassing ==
  ASSUME Inv, Turn, ~Uses({"keep"}), ins.op \notin {"invoke", "invoke_interface"},
         NEW b, b.pc = me.pc + 1
  PROVE  HasResult(b)
<1> SUFFICES ASSUME b.pc \in Address(method), method.code[b.pc].op = "move_result" PROVE FALSE
  BY DEF HasResult
<1>1. method.code[b.pc - 1].op \in {"invoke", "invoke_interface"} BY ResultFacts
<1>2. b.pc - 1 = me.pc BY TargetFacts
<1> QED BY <1>1, <1>2 DEF ins

\* Branches that got where they are by a jump.
LEMMA HasResultJumping ==
  ASSUME Inv, Turn, ~Uses({"keep"}), NEW b, b.pc \in Targets(method, me.pc)
  PROVE  HasResult(b)
<1> SUFFICES ASSUME b.pc \in Address(method), method.code[b.pc].op = "move_result" PROVE FALSE
  BY DEF HasResult
<1>1. me.pc \in Address(method) BY InsFacts
<1> QED BY <1>1, ResultFacts

\* A branch with its turn that is not tainted has an execution, whose next configurations
\* are a round ahead.
LEMMA TurnImage ==
  ASSUME InLoop, Inv, ExactInv, ReadAsWritten, ~me.tainted
  PROVE  Image(me) \in runs /\ Image(me) \in Ahead /\ Successors(Image(me)) \subseteq Ahead
<1>1. at \in DOMAIN branches /\ at \in Nat BY TurnFacts
<1>2. Exact(me, runs) BY <1>1 DEF ExactInv, me
<1> QED BY <1>2 DEF Exact, Ahead

\* What an execution does at the instruction of the turn.
LEMMA ImageIns ==
  ASSUME Inv, Turn
  PROVE  /\ Image(me).pc = me.pc /\ Image(me).pc \in Address(method)
         /\ method.code[Image(me).pc] = ins
BY InsFacts DEF Image, ins

LEMMA SuccessorsWriting ==
  ASSUME Inv, Turn, ins.op \in Writing \ {"div"}
  PROVE  Successors(Image(me)) =
           {[[Image(me) EXCEPT !.pc = @ + 1] EXCEPT !.regs[ins.dst] = Written(ins, Image(me))]}
BY ImageIns DEF Successors, AtTestOf, Writing, Throws

LEMMA SuccessorsPassing ==
  ASSUME Inv, Turn, ins.op \in {"invoke", "invoke_interface", "nop"}
  PROVE  Successors(Image(me)) = {[Image(me) EXCEPT !.pc = @ + 1]}
BY ImageIns DEF Successors, AtTestOf, Writing, Throws

LEMMA SuccessorsGoto ==
  ASSUME Inv, Turn, ins.op = "goto"
  PROVE  Successors(Image(me)) = {[Image(me) EXCEPT !.pc = @ + ins.to[1]]}
BY ImageIns DEF Successors, AtTestOf, Writing, Throws

LEMMA SuccessorsSwitch ==
  ASSUME Inv, Turn, ins.op = "switch", NEW k \in DOMAIN ins.to
  PROVE  [Image(me) EXCEPT !.pc = @ + ins.to[k]] \in Successors(Image(me))
BY ImageIns DEF Successors, AtTestOf, Writing, Throws

LEMMA SuccessorsOfTest ==
  ASSUME Inv, AtTest
  PROVE  Successors(Image(me)) =
           {[Image(me) EXCEPT !.pc = @ + (IF o THEN ins.to[1] ELSE 1)] : o \in Outcomes(ins, Image(me))}
<1>1. Turn /\ ins.op \in {"test", "test_zero"} BY DEF AtTest, On
<1>2. AtTestOf(Image(me)) BY <1>1, ImageIns DEF AtTestOf
<1> QED BY <1>1, <1>2, ImageIns DEF Successors, Writing, Throws

LEMMA SuccessorsTest ==
  ASSUME Inv, AtTest, NEW o \in Outcomes(ins, Image(me))
  PROVE  [Image(me) EXCEPT !.pc = @ + (IF o THEN ins.to[1] ELSE 1)] \in Successors(Image(me))
BY SuccessorsOfTest

(***************************************************************************)
(* Turns                                                                   *)
(***************************************************************************)
LEMMA SameRuns ==
  ASSUME method' = method, runs' = runs
  PROVE  Ahead' = Ahead
<1>1. \A c \in runs : Successors(c)' = Successors(c)
  BY DEF Successors, AtTestOf, Outcomes, Written, Throws, Address
<1> QED BY <1>1 DEF Ahead

\* A turn that leaves a branch that is to be tainted or has the execution one step ahead.
LEMMA TurnExact ==
  ASSUME Inv, ExactInv, ResultsInv, InLoop, NEW b \in Branches, Leaves(b), runs' = runs,
         toTaint \subseteq toTaint', at \in toTaint' \/ Exact(b, Ahead),
         HasResult([b EXCEPT !.prev = me.pc]),
         \A k \in DOMAIN toAdd' :
            Exact(toAdd'[k].branch, Ahead) /\ HasResult(toAdd'[k].branch)
  PROVE  ExactInv' /\ ResultsInv'
<1> DEFINE new == [b EXCEPT !.prev = me.pc]
<1>1. at \in DOMAIN branches /\ at \in Nat /\ DOMAIN branches \subseteq Nat
  <2>1. DOMAIN branches = 1 .. Len(branches) /\ Len(branches) \in Nat BY SeqElim DEF Inv, TypeOK
  <2> QED BY <2>1, TurnFacts
<1>2. branches' = [branches EXCEPT ![at] = new] /\ at' = at + 1 /\ method' = method
  BY DEF Leaves, fixed
<1>3. new.tainted = b.tainted /\ new.pc = b.pc /\ new.regs = b.regs BY DEF Branches
<1>4. Image(new) = Image(b) BY <1>3 DEF Image
<1>0. ReadAsWritten' <=> ReadAsWritten BY <1>2 DEF ReadAsWritten, Address
<1>5. Ahead' = Ahead BY <1>2, SameRuns
<1>6. DOMAIN branches' = DOMAIN branches /\ branches'[at] = new
      /\ \A i \in DOMAIN branches : i # at => branches'[i] = branches[i]
  BY <1>1, <1>2
<1> HIDE DEF new
<1>7. ASSUME NEW i \in DOMAIN branches'
      PROVE  /\ Image(branches[i])' = Image(branches'[i])
             /\ HasResult(branches[i])' = HasResult(branches'[i])
  BY <1>2 DEF Image, HasResult, Regs, Address
<1>8. ASSUME NEW k \in DOMAIN toAdd'
      PROVE  /\ Image(toAdd[k].branch)' = Image(toAdd'[k].branch)
             /\ HasResult(toAdd[k].branch)' = HasResult(toAdd'[k].branch)
  BY <1>2 DEF Image, HasResult, Regs, Address
<1>9. ASSUME NEW i \in DOMAIN branches'
      PROVE  IF i < at' THEN i \in toTaint' \/ Exact(branches[i], Ahead)' ELSE Exact(branches[i], runs)'
  <2>1. CASE i = at
    <3>1. i < at' BY <2>1, <1>1, <1>2
    <3>2. i \in toTaint' \/ ~ReadAsWritten \/ new.tainted \/ Image(new) \in Ahead
      BY <2>1, <1>3, <1>4 DEF Exact
    <3> QED BY <3>1, <3>2, <2>1, <1>0, <1>5, <1>6, <1>7 DEF Exact
  <2>2. CASE i # at
    <3>1. branches'[i] = branches[i] /\ i \in DOMAIN branches /\ i \in Nat
      BY <2>2, <1>1, <1>6
    <3>2. i < at' <=> i < at BY <2>2, <3>1, <1>1, <1>2
    <3>3. IF i < at THEN i \in toTaint' \/ Exact(branches[i], Ahead) ELSE Exact(branches[i], runs)
      BY <3>1 DEF ExactInv
    <3> QED BY <3>1, <3>2, <3>3, <1>0, <1>5, <1>7 DEF Exact
  <2> QED BY <2>1, <2>2
<1>10. ASSUME NEW k \in DOMAIN toAdd' PROVE Exact(toAdd[k].branch, Ahead)'
  BY <1>0, <1>5, <1>8 DEF Exact
<1>11. ASSUME NEW i \in DOMAIN branches' PROVE HasResult(branches[i])'
  BY <1>6, <1>7 DEF ResultsInv, new
<1>12. ASSUME NEW k \in DOMAIN toAdd' PROVE HasResult(toAdd[k].branch)' BY <1>8
<1> QED BY <1>9, <1>10, <1>11, <1>12 DEF ExactInv, ResultsInv

\* A turn that forks nothing.
LEMMA QuietExact ==
  ASSUME Inv, ExactInv, ResultsInv, InLoop, NEW b \in Branches, Leaves(b), runs' = runs,
         toTaint \subseteq toTaint', at \in toTaint' \/ Exact(b, Ahead),
         HasResult([b EXCEPT !.prev = me.pc]), toAdd' = toAdd
  PROVE  ExactInv' /\ ResultsInv'
<1>1. \A k \in DOMAIN toAdd' :
        Exact(toAdd'[k].branch, Ahead) /\ HasResult(toAdd'[k].branch)
  BY DEF ExactInv, ResultsInv
<1> QED BY <1>1, TurnExact

\* A branch that passes on to the next address.
LEMMA PassHasResult ==
  ASSUME Inv, ~Uses({"keep"}), Turn, NEW b \in Branches, b.pc = me.pc,
         ins.op \notin {"invoke", "invoke_interface"} \/ Passed(b).last # None
  PROVE  /\ Passed(b) \in Branches /\ Passed(b).pc = me.pc + 1
         /\ HasResult([Passed(b) EXCEPT !.prev = me.pc])
<1> DEFINE new == [Passed(b) EXCEPT !.prev = me.pc]
<1>1. Passed(b) \in Branches BY PassedTyped
<1>2. Passed(b).pc = me.pc + 1 BY DEF Passed, Branches
<1>3. new.pc = me.pc + 1 /\ new.last = Passed(b).last BY <1>1, <1>2 DEF Branches
<1>4. HasResult(new)
  <2>1. CASE Passed(b).last # None BY <2>1, <1>3 DEF HasResult
  <2>2. CASE ins.op \notin {"invoke", "invoke_interface"}
    <3> HIDE DEF new
    <3> QED BY <2>2, <1>3, HasResultPassing
  <2> QED BY <2>1, <2>2
<1> QED BY <1>1, <1>2, <1>4

\* The turn leaves the branch as b, and that is how the one execution goes on that does, if
\* the instructions are read as they are.
Moves(b) ==
  /\ Leaves(b) /\ b \in Branches /\ ~b.finished /\ b.tainted = me.tainted
  /\ b.pc \in Address(method)
  /\ HasResult([b EXCEPT !.prev = me.pc])
  /\ ReadAsWritten => Successors(Image(me)) = {Image(b)}
  /\ b.pc = me.pc => Image(b) = Image(me)

LEMMA MovesExact ==
  ASSUME Inv, ExactInv, ResultsInv, InLoop, NEW b, Moves(b), runs' = runs,
         UNCHANGED <<toTaint, toAdd>>
  PROVE  ExactInv' /\ ResultsInv'
<1>1. ReadAsWritten /\ ~me.tainted => Successors(Image(me)) \subseteq Ahead BY TurnImage
<1>2. Exact(b, Ahead) BY <1>1 DEF Moves, Exact
<1> QED BY <1>2, QuietExact DEF Moves

LEMMA PassMoves ==
  ASSUME Inv, ~Uses({"keep"}), Turn, NEW b \in Branches, Leaves(Passed(b)),
         b.pc = me.pc, b.tainted = me.tainted, b.finished = me.finished,
         ins.op \notin {"invoke", "invoke_interface"} \/ Passed(b).last # None,
         ins.op \notin {"return", "goto"},
         ReadAsWritten => Successors(Image(me)) = {Image(Passed(b))}
  PROVE  Moves(Passed(b))
<1>1. /\ Passed(b) \in Branches /\ Passed(b).pc = me.pc + 1
      /\ HasResult([Passed(b) EXCEPT !.prev = me.pc])
  BY PassHasResult
<1>2. Passed(b).tainted = me.tainted /\ ~Passed(b).finished BY DEF Passed, Branches, Turn
<1>3. me.pc + 1 \in Address(method) BY NextAddress
<1>4. me.pc + 1 # me.pc BY TurnFacts DEF Turn, Branches
<1> QED BY <1>1, <1>2, <1>3, <1>4 DEF Moves

\* A jump leads to the method.
LEMMA JumpMoves ==
  ASSUME Inv, ~Uses({"keep"}), Turn, NEW b \in Branches, Leaves(b),
         ins.op \in {"goto", "test", "test_zero"}, b.pc = me.pc + ins.to[1],
         b.regs = me.regs, b.tainted = me.tainted, ~b.finished, Successors(Image(me)) = {Image(b)}
  PROVE  Moves(b)
<1>1. 1 \in DOMAIN ins.to
  <2>1. ins.to \in Seq(Int) /\ Len(ins.to) = 1 BY InsFacts DEF WellFormed
  <2> QED BY <2>1
<1>2. b.pc \in Targets(method, me.pc) BY <1>1, TargetFacts
<1>3. [b EXCEPT !.prev = me.pc].pc = b.pc BY DEF Branches
<1>4. HasResult([b EXCEPT !.prev = me.pc]) BY <1>2, <1>3, HasResultJumping
<1>5. Verified(method) /\ me.pc \in Address(method) BY MethodsAssumption, InsFacts DEF Inv
<1>6. b.pc \in Address(method) BY <1>2, <1>5 DEF Verified
<1>7. b.pc = me.pc => Image(b) = Image(me) BY DEF Image
<1> QED BY <1>4, <1>6, <1>7 DEF Moves

LEMMA FinishExact ==
  ASSUME Inv, ExactInv, ResultsInv, Finish, runs' = runs
  PROVE  ExactInv' /\ ResultsInv'
<1> DEFINE b == [me EXCEPT !.finished = TRUE]
<1>1. InLoop /\ Leaves(b) /\ UNCHANGED <<toTaint, toAdd>> BY DEF Finish
<1>2. me \in Branches BY <1>1, TurnFacts
<1>3. /\ b \in Branches /\ b.tainted = me.tainted /\ b.pc = me.pc /\ b.regs = me.regs
      /\ [b EXCEPT !.prev = me.pc].prev = me.pc /\ [b EXCEPT !.prev = me.pc].pc = me.pc
  BY <1>2 DEF Branches
<1>4. HasResult([b EXCEPT !.prev = me.pc]) BY <1>3 DEF HasResult
<1>5. Image(b) = Image(me) BY <1>3 DEF Image
<1>6. Exact(b, Ahead) BY <1>1, <1>3, <1>5, TurnImage DEF Exact
<1> QED BY <1>1, <1>3, <1>4, <1>6, QuietExact

\* The image of a branch that went on with the registers it had.
LEMMA JumpImage ==
  ASSUME NEW b, NEW x, b.regs = me.regs, b.pc = me.pc + x
  PROVE  Image(b) = [Image(me) EXCEPT !.pc = @ + x]
<1> DEFINE known == [r \in Regs(method) |-> IF IsNumber(me.regs[r]) THEN me.regs[r] ELSE Unknown]
<1>1. Image(me) = [pc |-> me.pc, regs |-> known] BY DEF Image
<1>2. Image(b) = [pc |-> me.pc + x, regs |-> known] BY DEF Image
<1> HIDE DEF known
<1> QED BY <1>1, <1>2

LEMMA GotoMoves ==
  ASSUME Inv, ~Uses({"keep"}), Goto
  PROVE  (\E b : Moves(b)) /\ UNCHANGED <<already, toTaint, toAdd>>
<1> DEFINE b == [me EXCEPT !.pc = @ + ins.to[1]]
<1>1. /\ Turn /\ InLoop /\ ins.op = "goto" /\ Leaves(b) /\ UNCHANGED <<already, toTaint, toAdd>>
      /\ ~me.finished
  BY DEF Goto, On, Turn
<1>2. me \in Branches /\ ins.to[1] \in Int BY <1>1, TurnFacts, OffsetTyped
<1>3. /\ b \in Branches /\ b.tainted = me.tainted /\ b.pc = me.pc + ins.to[1]
      /\ b.regs = me.regs /\ b.finished = me.finished
  BY <1>2 DEF Branches
<1> HIDE DEF b
<1>4. Image(b) = [Image(me) EXCEPT !.pc = @ + ins.to[1]] BY <1>3, JumpImage
<1>5. Successors(Image(me)) = {Image(b)} BY <1>1, <1>4, SuccessorsGoto
<1> QED BY <1>1, <1>3, <1>5, JumpMoves

LEMMA TestAgainExact ==
  ASSUME Inv, ExactInv, ResultsInv, ~Uses({"keep"}), TestAgain, runs' = runs
  PROVE  ExactInv' /\ ResultsInv'
<1> DEFINE b == [me EXCEPT !.pc = @ + 1]
<1>1. /\ Turn /\ InLoop /\ ins.op \in {"test", "test_zero"} /\ Leaves(b)
      /\ toTaint \subseteq toTaint' /\ at \in toTaint' /\ toAdd' = toAdd
  BY DEF TestAgain, AtTest, On, Turn
<1>2. me \in Branches BY <1>1, TurnFacts
<1>3. b \in Branches /\ [b EXCEPT !.prev = me.pc].pc = me.pc + 1 BY <1>2 DEF Branches
<1>4. HasResult([b EXCEPT !.prev = me.pc]) BY <1>1, <1>3, HasResultPassing
<1> QED BY <1>1, <1>3, <1>4, QuietExact

\* The execution knows the operands of a test exactly if the branch does.
LEMMA OutcomesFacts ==
  ASSUME Inv, AtTest
  PROVE  Outcomes(ins, Image(me)) =
           IF Decided THEN {Holds(ins.how, Left.n, Right.n)} ELSE BOOLEAN
<1>1. Turn BY DEF AtTest, On
<1>2. ins.left \in Regs(method) /\ ins.right \in Regs(method) BY <1>1, InsFacts
<1>3. \A r \in Regs(method) :
        Image(me).regs[r] = IF IsNumber(Reg(r)) THEN Reg(r) ELSE Unknown
  BY DEF Image, Reg
<1>4. ~IsNumber(Unknown) /\ IsNumber(Number(0)) BY DEF IsNumber, Unknown, Number
<1> QED BY <1>2, <1>3, <1>4 DEF Outcomes, Decided, Left, Right

\* An execution goes on from a test as a branch with the same registers does.
LEMMA TestImage ==
  ASSUME Inv, ExactInv, AtTest, ReadAsWritten, ~me.tainted, NEW o \in Outcomes(ins, Image(me)),
         NEW b, b.regs = me.regs, b.pc = me.pc + (IF o THEN ins.to[1] ELSE 1)
  PROVE  Image(b) \in Ahead
<1>1. InLoop BY DEF AtTest, On, Turn
<1>2. Image(b) = [Image(me) EXCEPT !.pc = @ + (IF o THEN ins.to[1] ELSE 1)] BY JumpImage
<1> QED BY <1>1, <1>2, TurnImage, SuccessorsTest

LEMMA TestDecidedMoves ==
  ASSUME Inv, ~Uses({"keep"}), TestDecided
  PROVE  (\E b : Moves(b)) /\ UNCHANGED <<toTaint, toAdd>>
<1> DEFINE b == [Counted EXCEPT !.pc = @ + ins.to[1]]
<1>1. PICK o : o = Holds(ins.how, Left.n, Right.n) OBVIOUS
<1>2. /\ AtTest /\ Turn /\ InLoop /\ ins.op \in {"test", "test_zero"} /\ Decided /\ ~me.finished
      /\ UNCHANGED <<toTaint, toAdd>> /\ Leaves(IF o THEN b ELSE Passed(Counted))
  BY <1>1 DEF TestDecided, AtTest, On, Turn
<1>3. me \in Branches /\ ins.to[1] \in Int BY <1>2, TurnFacts, OffsetTyped
<1>4. /\ Counted \in Branches /\ Counted.regs = me.regs /\ Counted.pc = me.pc
      /\ Counted.tainted = me.tainted /\ Counted.finished = me.finished
  BY <1>2, <1>3, CountedTyped DEF Counted, Branches
<1>5. Outcomes(ins, Image(me)) = {o} BY <1>1, <1>2, OutcomesFacts
<1>6. Successors(Image(me)) = {[Image(me) EXCEPT !.pc = @ + (IF o THEN ins.to[1] ELSE 1)]}
  BY <1>2, <1>5, SuccessorsOfTest
<1>7. CASE o
  <2>1. /\ b \in Branches /\ b.regs = me.regs /\ b.pc = me.pc + ins.to[1]
        /\ b.tainted = me.tainted /\ ~b.finished
    BY <1>2, <1>3, <1>4 DEF Branches
  <2> HIDE DEF b
  <2>2. Image(b) = [Image(me) EXCEPT !.pc = @ + ins.to[1]] BY <2>1, JumpImage
  <2>3. Successors(Image(me)) = {Image(b)} BY <2>2, <1>6, <1>7
  <2>4. Leaves(b) BY <1>2, <1>7
  <2> QED BY <1>2, <2>1, <2>3, <2>4, JumpMoves
<1>8. CASE ~o
  <2>1. Passed(Counted).regs = me.regs /\ Passed(Counted).pc = me.pc + 1
    BY <1>4 DEF Passed, Branches
  <2>2. Image(Passed(Counted)) = [Image(me) EXCEPT !.pc = @ + 1] BY <2>1, JumpImage
  <2>3. Successors(Image(me)) = {Image(Passed(Counted))} BY <2>2, <1>6, <1>8
  <2>4. Leaves(Passed(Counted)) BY <1>2, <1>8
  <2> QED BY <1>2, <1>4, <2>3, <2>4, PassMoves
<1> QED BY <1>7, <1>8

LEMMA TestUndecidedExact ==
  ASSUME Inv, ExactInv, ResultsInv, ~Uses({"keep"}), TestUndecided, runs' = runs
  PROVE  ExactInv' /\ ResultsInv'
<1> DEFINE b    == [Counted EXCEPT !.tainted = @ \/ Doubtful]
           zero == [a \in Address(method) |-> 0]
           new  == [Fork(b, ins.to[1]) EXCEPT !.branch.loops = zero]
<1>1. /\ AtTest /\ Turn /\ InLoop /\ ins.op \in {"test", "test_zero"} /\ ~Decided
      /\ toTaint' = toTaint /\ toAdd' = Append(toAdd, new) /\ Leaves(Passed(b))
  BY DEF TestUndecided, AtTest, On, Turn
<1>2. me \in Branches /\ ins.to[1] \in Int BY <1>1, TurnFacts, OffsetTyped
<1>3. /\ Counted \in Branches /\ Counted.regs = me.regs /\ Counted.pc = me.pc
      /\ Counted.tainted = me.tainted
  BY <1>1, <1>2, CountedTyped DEF Counted, Branches
<1>4. (Counted.tainted \/ Doubtful) \in BOOLEAN OBVIOUS
<1>5. /\ b \in Branches /\ b.regs = me.regs /\ b.pc = me.pc /\ (me.tainted => b.tainted)
  BY <1>3, <1>4 DEF Branches
<1> HIDE DEF b
<1>6. Outcomes(ins, Image(me)) = BOOLEAN BY <1>1, OutcomesFacts
<1>7. /\ Passed(b) \in Branches /\ Passed(b).regs = me.regs /\ Passed(b).pc = me.pc + 1
      /\ Passed(b).tainted = b.tainted /\ [Passed(b) EXCEPT !.prev = me.pc].pc = me.pc + 1
  BY <1>1, <1>5, PassedTyped DEF Passed, Branches
<1>8. /\ new.branch.regs = me.regs /\ new.branch.pc = me.pc + ins.to[1]
      /\ new.branch.tainted = b.tainted
  <2> DEFINE f == [b EXCEPT !.parent = at, !.prev = me.pc, !.pc = @ + ins.to[1]]
  <2>1. /\ f.regs = me.regs /\ f.pc = me.pc + ins.to[1] /\ f.tainted = b.tainted
    BY <1>5 DEF Branches
  <2>2. f \in Branches BY <1>1, <1>2, <1>5, ForkTyped DEF Fork, ForkRecords
  <2>3. new.branch = [f EXCEPT !.loops = zero] BY DEF Fork
  <2> HIDE DEF f, new
  <2> QED BY <2>1, <2>2, <2>3 DEF Branches
<1> HIDE DEF new
<1>9. Exact(Passed(b), Ahead)
  <2>1. ReadAsWritten /\ ~me.tainted => Image(Passed(b)) \in Ahead
    <3>1. FALSE \in Outcomes(ins, Image(me)) BY <1>6
    <3> QED BY <1>1, <1>7, <3>1, TestImage
  <2> QED BY <1>5, <1>7, <2>1 DEF Exact
<1>10. Exact(new.branch, Ahead)
  <2>1. ReadAsWritten /\ ~me.tainted => Image(new.branch) \in Ahead
    <3>1. TRUE \in Outcomes(ins, Image(me)) BY <1>6
    <3> QED BY <1>1, <1>8, <3>1, TestImage
  <2> QED BY <1>5, <1>8, <2>1 DEF Exact
<1>11. HasResult(new.branch)
  <2>1. ins.to \in Seq(Int) /\ Len(ins.to) = 1 BY <1>1, InsFacts DEF WellFormed
  <2>2. 1 \in DOMAIN ins.to BY <2>1
  <2> QED BY <1>1, <1>8, <2>2, TargetFacts, HasResultJumping
<1>12. HasResult([Passed(b) EXCEPT !.prev = me.pc]) BY <1>1, <1>7, HasResultPassing
<1>13. \A k \in DOMAIN toAdd' :
         Exact(toAdd'[k].branch, Ahead) /\ HasResult(toAdd'[k].branch)
  <2>1. toAdd \in Seq(ForkRecords) BY DEF Inv, TypeOK, ForkRecords
  <2>2. \A k \in DOMAIN toAdd' : toAdd'[k] = new \/ (k \in DOMAIN toAdd /\ toAdd'[k] = toAdd[k])
    BY <2>1, <1>1
  <2> QED BY <2>2, <1>10, <1>11 DEF ExactInv, ResultsInv
<1> QED BY <1>1, <1>7, <1>9, <1>12, <1>13, TurnExact

LEMMA SwitchExact ==
  ASSUME Inv, ExactInv, ResultsInv, ~Uses({"keep"}), Switch, runs' = runs
  PROVE  ExactInv' /\ ResultsInv'
<1> DEFINE b     == [me EXCEPT !.finished = TRUE]
           forks == [k \in DOMAIN ins.to |-> Fork(me, ins.to[k])]
<1>1. /\ Turn /\ InLoop /\ ins.op = "switch" /\ Leaves(b) /\ toTaint' = toTaint
      /\ toAdd' = toAdd \/ toAdd' = toAdd \o forks
  BY DEF Switch, On, Turn
<1>2. me \in Branches /\ ins.to \in Seq(Int) /\ at \in Nat BY <1>1, TurnFacts, InsFacts DEF WellFormed
<1>3. /\ b \in Branches /\ b.tainted = me.tainted /\ b.pc = me.pc /\ b.regs = me.regs
      /\ [b EXCEPT !.prev = me.pc].prev = me.pc /\ [b EXCEPT !.prev = me.pc].pc = me.pc
  BY <1>2 DEF Branches
<1> HIDE DEF b
<1>4. HasResult([b EXCEPT !.prev = me.pc]) BY <1>3 DEF HasResult
<1>5. Image(b) = Image(me) BY <1>3 DEF Image
<1>6. Exact(b, Ahead) BY <1>1, <1>3, <1>5, TurnImage DEF Exact
<1>7. ASSUME NEW k \in DOMAIN ins.to
      PROVE  Exact(Fork(me, ins.to[k]).branch, Ahead) /\ HasResult(Fork(me, ins.to[k]).branch)
  <2> DEFINE f == Fork(me, ins.to[k]).branch
  <2>1. /\ f.regs = me.regs /\ f.pc = me.pc + ins.to[k] /\ f.tainted = me.tainted
    BY <1>2 DEF Fork, Branches
  <2> HIDE DEF f
  <2>2. HasResult(f) BY <1>1, <2>1, TargetFacts, HasResultJumping
  <2>3. Image(f) = [Image(me) EXCEPT !.pc = @ + ins.to[k]] BY <2>1, JumpImage
  <2>4. Image(f) \in Successors(Image(me)) BY <1>1, <2>3, SuccessorsSwitch
  <2>5. Exact(f, Ahead) BY <1>1, <2>1, <2>4, TurnImage DEF Exact
  <2> QED BY <2>2, <2>5 DEF f
<1>8. DOMAIN forks = DOMAIN ins.to /\ \A k \in DOMAIN forks : forks[k] = Fork(me, ins.to[k])
  OBVIOUS
<1>9. forks \in Seq(ForkRecords)
  <2>1. Len(ins.to) \in Nat /\ DOMAIN ins.to = 1 .. Len(ins.to) /\ \A k \in DOMAIN ins.to : ins.to[k] \in Int
    BY <1>2
  <2>2. \A k \in DOMAIN ins.to : Fork(me, ins.to[k]) \in ForkRecords BY <1>1, <1>2, <2>1, ForkTyped
  <2> QED BY <2>1, <2>2, SeqIntro
<1> HIDE DEF forks
<1>10. \A k \in DOMAIN toAdd' :
         Exact(toAdd'[k].branch, Ahead) /\ HasResult(toAdd'[k].branch)
  <2>1. toAdd \in Seq(ForkRecords) BY DEF Inv, TypeOK, ForkRecords
  <2>2. ASSUME NEW k \in DOMAIN toAdd'
        PROVE  \/ k \in DOMAIN toAdd /\ toAdd'[k] = toAdd[k]
               \/ \E j \in DOMAIN forks : toAdd'[k] = forks[j]
    <3>1. CASE toAdd' = toAdd BY <3>1
    <3>2. CASE toAdd' = toAdd \o forks
      <4>1. k \in 1 .. Len(toAdd) + Len(forks) BY <3>2, <2>1, <1>9
      <4>2. CASE k <= Len(toAdd) BY <4>1, <4>2, <3>2, <2>1, <1>9
      <4>3. CASE k > Len(toAdd)
        <5>1. k - Len(toAdd) \in DOMAIN forks BY <4>1, <4>3, <2>1, <1>9
        <5>2. toAdd'[k] = forks[k - Len(toAdd)] BY <4>1, <4>3, <3>2, <2>1, <1>9
        <5> QED BY <5>1, <5>2
      <4> QED BY <4>1, <4>2, <4>3, <2>1
    <3> QED BY <3>1, <3>2, <1>1
  <2> QED BY <2>2, <1>7, <1>8 DEF ExactInv, ResultsInv
<1> QED BY <1>1, <1>3, <1>4, <1>6, <1>10, TurnExact

LEMMA WriteImage ==
  ASSUME Inv, Turn, NEW v, ins.op \in Writing \ {"div"},
         Written(ins, Image(me)) = IF IsNumber(v) THEN v ELSE Unknown,
         NEW b, b.pc = me.pc, b.regs = [me.regs EXCEPT ![ins.dst] = v],
         Passed(b).pc = b.pc + 1, Passed(b).regs = b.regs
  PROVE  Successors(Image(me)) = {Image(Passed(b))}
<1> DEFINE w   == Written(ins, Image(me))
           next == [Image(me) EXCEPT !.pc = @ + 1]
           new == [next EXCEPT !.regs[ins.dst] = w]
           known == [r \in Regs(method) |-> IF IsNumber(me.regs[r]) THEN me.regs[r] ELSE Unknown]
<1>1. me \in Branches /\ InLoop /\ ins.dst \in Regs(method) BY TurnFacts, InsFacts DEF Turn
<1>2. Image(me) = [pc |-> me.pc, regs |-> known] BY DEF Image
<1>3. [known EXCEPT ![ins.dst] = w] =
        [r \in Regs(method) |-> IF IsNumber(b.regs[r]) THEN b.regs[r] ELSE Unknown]
  BY <1>1 DEF Branches
<1>4. Image(Passed(b)) = [pc |-> me.pc + 1, regs |-> [known EXCEPT ![ins.dst] = w]]
  BY <1>3 DEF Image
<1> HIDE DEF known, w
<1>5. Image(Passed(b)) = new
  <2>1. next = [pc |-> me.pc + 1, regs |-> known] BY <1>2
  <2> HIDE DEF next
  <2> QED BY <2>1, <1>4
<1>6. Successors(Image(me)) = {new} BY SuccessorsWriting DEF w
<1> HIDE DEF new
<1> QED BY <1>5, <1>6

\* The instruction of the turn is not misread.
LEMMA ReadIns ==
  ASSUME Inv, Turn, ReadAsWritten
  PROVE  ~Misread(ins)
BY InsFacts DEF ReadAsWritten, ins

LEMMA WriteMoves ==
  ASSUME Inv, ~Uses({"keep"}), Turn, NEW v, NEW b \in Branches, ins.op \in Writing,
         ReadAsWritten => Written(ins, Image(me)) = IF IsNumber(v) THEN v ELSE Unknown,
         b.pc = me.pc, b.tainted = me.tainted, b.finished = me.finished,
         b.regs = [me.regs EXCEPT ![ins.dst] = v], Leaves(Passed(b))
  PROVE  Moves(Passed(b))
<1>1. Passed(b).pc = b.pc + 1 /\ Passed(b).regs = b.regs BY DEF Passed, Branches
<1>2. ReadAsWritten => Successors(Image(me)) = {Image(Passed(b))}
  <2> SUFFICES ASSUME ReadAsWritten PROVE Successors(Image(me)) = {Image(Passed(b))}
    OBVIOUS
  <2>1. ins.op # "div" BY ReadIns DEF Misread
  <2> QED BY <1>1, <2>1, WriteImage
<1>3. ins.op \notin {"invoke", "invoke_interface", "return", "goto"} BY DEF Writing
<1> QED BY <1>2, <1>3, PassMoves

LEMMA ArithmeticImage ==
  ASSUME NEW how, NEW l, NEW r
  PROVE  Sum(how, IF IsNumber(l) THEN l ELSE Unknown, IF IsNumber(r) THEN r ELSE Unknown) =
           IF IsNumber(Arithmetic(how, l, r)) THEN Arithmetic(how, l, r) ELSE Unknown
BY DEF Sum, Arithmetic, IsNumber, Unknown, Number, Variable, Invalid

LEMMA AssignMoves ==
  ASSUME Inv, ~Uses({"keep"}), Assign
  PROVE  (\E b : Moves(b)) /\ UNCHANGED <<already, toTaint, toAdd>>
<1> DEFINE b == [me EXCEPT !.regs[ins.dst] = Result]
           img(r) == Image(me).regs[r]
<1>1. /\ Turn /\ Leaves(Passed(b)) /\ UNCHANGED <<already, toTaint, toAdd>>
      /\ ins.op \in {"const", "move", "binop", "div", "binop_lit", "new", "array_length", "iget"}
  BY DEF Assign, On
<1>2. me \in Branches /\ ins.dst \in Regs(method) /\ ins.left \in Regs(method)
      /\ ins.right \in Regs(method)
  BY <1>1, TurnFacts, InsFacts DEF Turn, WellFormed
<1>3. \A r \in Regs(method) : img(r) = IF IsNumber(Reg(r)) THEN Reg(r) ELSE Unknown
  BY DEF Image, Reg
<1> HIDE DEF img
<1>4. ReadAsWritten => Written(ins, Image(me)) = IF IsNumber(Result) THEN Result ELSE Unknown
  <2> SUFFICES ASSUME ReadAsWritten
               PROVE  Written(ins, Image(me)) = IF IsNumber(Result) THEN Result ELSE Unknown
    OBVIOUS
  <2>6. /\ ins.op # "div"
        /\ ins.op \in {"const", "binop_lit"} => Literal(ins) = ins.lit
        /\ ins.op = "binop_lit" => ins.how # "sub"
    BY <1>1, ReadIns DEF Misread
  <2>1. CASE ins.op = "const" BY <2>1, <2>6 DEF Written, Result, Number, IsNumber
  <2>2. CASE ins.op = "move" BY <2>2, <1>2, <1>3 DEF Written, Result, img
  <2>3. CASE ins.op = "binop"
    <3>1. Written(ins, Image(me)) = Sum(ins.how, img(ins.left), img(ins.right))
      BY <2>3 DEF Written, img
    <3>2. Result = Arithmetic(ins.how, Reg(ins.left), Reg(ins.right)) BY <2>3 DEF Result
    <3> QED BY <3>1, <3>2, <1>2, <1>3, ArithmeticImage
  <2>4. CASE ins.op = "binop_lit"
    <3>1. Written(ins, Image(me)) = Sum(ins.how, img(ins.left), Number(ins.lit))
      BY <2>4, <2>6 DEF Written, img
    <3>2. Result = Arithmetic(ins.how, Reg(ins.left), Number(ins.lit)) BY <2>4, <2>6 DEF Result
    <3>3. IsNumber(Number(ins.lit)) BY DEF IsNumber, Number
    <3> QED BY <3>1, <3>2, <3>3, <1>2, <1>3, ArithmeticImage
  <2>5. CASE ins.op \in {"new", "array_length", "iget"}
    BY <2>5 DEF Written, Result, IsNumber, Object, Invalid, Empty
  <2> QED BY <1>1, <2>1, <2>2, <2>3, <2>4, <2>5, <2>6
<1>5. Result \in Values BY <1>1, ResultTyped
<1>6. b \in Branches BY <1>1, <1>5, WriteTyped
<1>7. b.pc = me.pc /\ b.tainted = me.tainted /\ b.finished = me.finished
      /\ b.regs = [me.regs EXCEPT ![ins.dst] = Result]
  BY <1>2 DEF Branches
<1>8. ins.op \in Writing BY <1>1 DEF Writing
<1> HIDE DEF b
<1> QED BY <1>1, <1>4, <1>6, <1>7, <1>8, WriteMoves

LEMMA StaticGetMoves ==
  ASSUME Inv, ~Uses({"keep"}), StaticGet
  PROVE  (\E b : Moves(b)) /\ UNCHANGED <<already, toTaint, toAdd>>
<1> DEFINE w == [me EXCEPT !.regs[ins.dst] = Empty]
           b == [me EXCEPT !.regs[ins.dst] = Empty, !.last = Read(me.pc)]
<1>1. Turn /\ ins.op = "sget" /\ Leaves(Passed(b)) /\ UNCHANGED <<already, toTaint, toAdd>>
  BY DEF StaticGet, On
<1>2. me \in Branches /\ ins.dst \in Regs(method) /\ me.pc \in Int
  BY <1>1, TurnFacts, InsFacts DEF Turn, Branches
<1>3. Empty \in Values /\ Read(me.pc) \in LastInstructions
  BY <1>2 DEF Empty, Values, Read, LastInstructions
<1>4. w \in Branches BY <1>1, <1>3, WriteTyped
<1>5. w.pc = me.pc /\ w.tainted = me.tainted /\ w.finished = me.finished
      /\ w.regs = [me.regs EXCEPT ![ins.dst] = Empty]
  BY <1>2 DEF Branches
<1>6. b = [w EXCEPT !.last = Read(me.pc)] BY <1>2 DEF Branches
<1> HIDE DEF w, b
<1>7. b \in Branches BY <1>1, <1>3, <1>4, <1>6, NoteTyped DEF Turn
<1>8. b.pc = w.pc /\ b.tainted = w.tainted /\ b.finished = w.finished /\ b.regs = w.regs BY <1>4, <1>6 DEF Branches
<1>9. Written(ins, Image(me)) = IF IsNumber(Empty) THEN Empty ELSE Unknown
  BY <1>1 DEF Written, IsNumber, Empty
<1>10. ins.op \in Writing BY <1>1 DEF Writing
<1> QED BY <1>1, <1>5, <1>7, <1>8, <1>9, <1>10, WriteMoves

\* A branch that has its turn at a move of a result has the call.
LEMMA MoveResultMoves ==
  ASSUME Inv, ResultsInv, ~Uses({"keep"}), MoveResult
  PROVE  (\E b : Moves(b)) /\ UNCHANGED <<already, toTaint, toAdd>>
<1> DEFINE b == [me EXCEPT !.regs[ins.dst] = Variable]
<1>1. Turn /\ InLoop /\ ins.op = "move_result" /\ UNCHANGED <<already, toTaint, toAdd>>
      /\ Leaves(Passed(IF me.last = None THEN me ELSE b))
  BY DEF MoveResult, On, Turn
<1>2. me \in Branches /\ ins.dst \in Regs(method) /\ at \in DOMAIN branches
  BY <1>1, TurnFacts, InsFacts
<1>3. me.last # None
  <2>1. me.pc \in Address(method) /\ method.code[me.pc].op = "move_result"
    BY <1>1, InsFacts DEF ins
  <2>2. HasResult(me) BY <1>2 DEF ResultsInv, me
  <2>3. me.pc # 0 BY <2>1, ResultFacts
  <2>4. me.prev # me.pc BY <1>1, <2>3 DEF Turn, Stuck
  <2> QED BY <2>1, <2>2, <2>4 DEF HasResult
<1>4. Leaves(Passed(b)) BY <1>1, <1>3
<1>5. Variable \in Values BY DEF Variable, Values
<1>6. b \in Branches BY <1>1, <1>5, WriteTyped
<1>7. b.pc = me.pc /\ b.tainted = me.tainted /\ b.finished = me.finished
      /\ b.regs = [me.regs EXCEPT ![ins.dst] = Variable]
  BY <1>2 DEF Branches
<1> HIDE DEF b
<1>8. Written(ins, Image(me)) = IF IsNumber(Variable) THEN Variable ELSE Unknown
  BY <1>1 DEF Written, IsNumber, Variable
<1>9. ins.op \in Writing BY <1>1 DEF Writing
<1> QED BY <1>1, <1>4, <1>6, <1>7, <1>8, <1>9, WriteMoves

\* A turn at an instruction that writes nothing.
LEMMA KeepMoves ==
  ASSUME Inv, ~Uses({"keep"}), Turn, NEW b \in Branches,
         ins.op \in {"invoke", "invoke_interface", "nop"},
         b.pc = me.pc, b.tainted = me.tainted, b.finished = me.finished, b.regs = me.regs,
         ins.op = "nop" \/ b.last # None, Leaves(Passed(b))
  PROVE  Moves(Passed(b))
<1>1. Passed(b).pc = me.pc + 1 /\ Passed(b).regs = me.regs BY DEF Passed, Branches
<1>2. Image(Passed(b)) = [Image(me) EXCEPT !.pc = @ + 1] BY <1>1, JumpImage
<1>3. Successors(Image(me)) = {Image(Passed(b))} BY <1>2, SuccessorsPassing
<1>4. ins.op \notin {"invoke", "invoke_interface"} \/ Passed(b).last # None
  BY DEF Passed, Forgets, Branches
<1> QED BY <1>3, <1>4, PassMoves

LEMMA InvokeMoves ==
  ASSUME Inv, ~Uses({"keep"}), Invoke
  PROVE  (\E b : Moves(b)) /\ UNCHANGED <<already, toTaint, toAdd>>
<1> DEFINE last == Call(me.pc, Arguments)
           b    == [me EXCEPT !.last = last]
<1>1. Turn /\ InLoop /\ ins.op = "invoke" /\ Leaves(Passed(b)) /\ UNCHANGED <<already, toTaint, toAdd>>
  BY DEF Invoke, On, Turn
<1>2. me \in Branches BY <1>1, TurnFacts
<1>3. last \in LastInstructions BY <1>1, ArgumentsTyped DEF Call, LastInstructions
<1>4. last # None BY DEF Call, None
<1> HIDE DEF last
<1>5. /\ b \in Branches /\ b.pc = me.pc /\ b.tainted = me.tainted /\ b.regs = me.regs
      /\ b.finished = me.finished /\ b.last = last
  BY <1>2, <1>3, NoteTyped DEF Branches
<1> QED BY <1>1, <1>4, <1>5, KeepMoves

LEMMA InvokeInterfaceMoves ==
  ASSUME Inv, ~Uses({"keep"}), InvokeInterface
  PROVE  (\E b : Moves(b)) /\ UNCHANGED <<already, toTaint, toAdd>>
<1> DEFINE known == Call(me.pc, [Arguments EXCEPT ![1] = Object])
           last  == IF ins.how = "several" THEN Call(me.pc, Arguments)
                    ELSE IF ins.how = "own" \/ me.last = None THEN known ELSE me.last
           b     == [me EXCEPT !.last = last]
<1>1. /\ Turn /\ InLoop /\ ins.op = "invoke_interface" /\ Leaves(Passed(b))
      /\ UNCHANGED <<already, toTaint, toAdd>>
  BY DEF InvokeInterface, On, Turn
<1>2. me \in Branches BY <1>1, TurnFacts
<1>3. known # None /\ Call(me.pc, Arguments) # None BY DEF Call, None
<1>4. known \in LastInstructions /\ Call(me.pc, Arguments) \in LastInstructions
      /\ me.last \in LastInstructions
  <2>1. Arguments \in Seq(Values) /\ me.pc \in Int BY <1>1, ArgumentsTyped
  <2>2. [Arguments EXCEPT ![1] = Object] \in Seq(Values)
    <3>1. Len(Arguments) \in Nat /\ Arguments \in [1 .. Len(Arguments) -> Values] BY <2>1, SeqElim
    <3>2. Object \in Values BY DEF Object, Values
    <3>3. [Arguments EXCEPT ![1] = Object] \in [1 .. Len(Arguments) -> Values] BY <3>1, <3>2
    <3> QED BY <3>1, <3>3, SeqIntro
  <2> QED BY <1>2, <2>1, <2>2 DEF Call, LastInstructions, Branches
<1> HIDE DEF known
<1>5. last # None /\ last \in LastInstructions
  <2>1. CASE ins.how = "several" BY <2>1, <1>3, <1>4
  <2>2. CASE ins.how # "several" /\ (ins.how = "own" \/ me.last = None) BY <2>2, <1>3, <1>4
  <2>3. CASE ins.how # "several" /\ ~(ins.how = "own" \/ me.last = None) BY <2>3, <1>4
  <2> QED BY <2>1, <2>2, <2>3
<1> HIDE DEF last
<1>6. /\ b \in Branches /\ b.pc = me.pc /\ b.tainted = me.tainted /\ b.regs = me.regs
      /\ b.finished = me.finished /\ b.last = last
  BY <1>2, <1>5, NoteTyped DEF Branches
<1> QED BY <1>1, <1>5, <1>6, KeepMoves

LEMMA NotImplExact ==
  ASSUME Inv, ExactInv, ResultsInv, ~Uses({"keep"}), NotImpl, runs' = runs
  PROVE  ExactInv' /\ ResultsInv'
<1> DEFINE b == [me EXCEPT !.regs = [r \in Regs(method) |-> Empty]]
<1>1. /\ Turn /\ InLoop /\ ins.op = "not_impl" /\ Leaves(Passed(b)) /\ toAdd' = toAdd
      /\ toTaint' = toTaint \cup {at}
  BY DEF NotImpl, On, Turn
<1>2. me \in Branches /\ Empty \in Values BY <1>1, TurnFacts DEF Empty, Values
<1>3. b \in Branches /\ b.pc = me.pc BY <1>2 DEF Branches
<1> HIDE DEF b
<1>4. /\ Passed(b) \in Branches /\ HasResult([Passed(b) EXCEPT !.prev = me.pc])
      /\ toTaint \subseteq toTaint' /\ at \in toTaint'
  BY <1>1, <1>3, PassHasResult
<1> QED BY <1>1, <1>4, QuietExact

LEMMA IgnoredMoves ==
  ASSUME Inv, ~Uses({"keep"}), Ignored
  PROVE  (\E b : Moves(b)) /\ UNCHANGED <<already, toTaint, toAdd>>
<1>1. /\ Turn /\ InLoop /\ ins.op \in {"nop", "keep"} /\ Leaves(Passed(me))
      /\ UNCHANGED <<already, toTaint, toAdd>>
  BY DEF Ignored, On, Turn
<1>2. me \in Branches /\ me.pc \in Address(method) BY <1>1, TurnFacts, InsFacts
<1>3. ins.op = "nop" BY <1>1, <1>2 DEF Uses, ins
<1> QED BY <1>1, <1>2, <1>3, KeepMoves

(***************************************************************************)
(* The other steps                                                         *)
(***************************************************************************)
LEMMA SkipFinishedExact ==
  ASSUME Inv, ExactInv, ResultsInv, SkipFinished, runs' = runs
  PROVE  ExactInv' /\ ResultsInv'
<1>1. /\ InLoop /\ at' = at + 1 /\ method' = method
      /\ UNCHANGED <<branches, toTaint, toAdd>>
  BY DEF SkipFinished, fixed
<1>2. at \in DOMAIN branches /\ at \in Nat BY <1>1, TurnFacts
<1>3. DOMAIN branches \subseteq Nat
  <2>1. DOMAIN branches = 1 .. Len(branches) /\ Len(branches) \in Nat BY SeqElim DEF Inv, TypeOK
  <2> QED BY <2>1
<1>0. ReadAsWritten' <=> ReadAsWritten BY <1>1 DEF ReadAsWritten, Address
<1>4. Ahead' = Ahead /\ runs \subseteq Ahead BY <1>1, SameRuns DEF Ahead
<1>5. ASSUME NEW i \in DOMAIN branches
      PROVE  Image(branches[i])' = Image(branches[i]) /\ HasResult(branches[i])' = HasResult(branches[i])
  BY <1>1 DEF Image, HasResult, Regs, Address
<1>6. ASSUME NEW k \in DOMAIN toAdd
      PROVE  /\ Image(toAdd[k].branch)' = Image(toAdd[k].branch)
             /\ HasResult(toAdd[k].branch)' = HasResult(toAdd[k].branch)
  BY <1>1 DEF Image, HasResult, Regs, Address
<1>7. ASSUME NEW i \in DOMAIN branches
      PROVE  IF i < at' THEN i \in toTaint' \/ Exact(branches[i], Ahead)' ELSE Exact(branches[i], runs)'
  <2>1. IF i < at THEN i \in toTaint \/ Exact(branches[i], Ahead) ELSE Exact(branches[i], runs)
    BY DEF ExactInv
  <2>2. i \in Nat /\ at' = at + 1 /\ at \in Nat BY <1>1, <1>2, <1>3
  <2>3. Exact(branches[i], runs) => Exact(branches[i], Ahead) BY <1>4 DEF Exact
  <2>4. IF i < at' THEN i \in toTaint \/ Exact(branches[i], Ahead) ELSE Exact(branches[i], runs)
    BY <2>1, <2>2, <2>3
  <2> QED BY <2>4, <1>0, <1>1, <1>4, <1>5 DEF Exact
<1>8. ASSUME NEW k \in DOMAIN toAdd PROVE Exact(toAdd[k].branch, Ahead)'
  <2>1. Exact(toAdd[k].branch, Ahead) BY DEF ExactInv
  <2> QED BY <2>1, <1>0, <1>1, <1>4, <1>6 DEF Exact
<1> QED BY <1>1, <1>5, <1>6, <1>7, <1>8 DEF ExactInv, ResultsInv

\* After a round a branch is one of before, or was waiting to be added.
LEMMA RoundBranches ==
  ASSUME Inv, EndLoop, NEW i \in DOMAIN branches'
  PROVE  \/ i \in DOMAIN branches /\ branches'[i] = Tainted[i]
         \/ \E k \in DOMAIN toAdd : branches'[i] = toAdd[k].branch
<1> DEFINE new == [k \in DOMAIN Forks |-> Forks[k].branch]
<1>1. branches \in Seq(Branches) /\ toAdd \in Seq(ForkRecords) /\ branches' = Tainted \o new
  BY DEF EndLoop, Inv, TypeOK, ForkRecords
<1>2. Forks = toAdd \/ Forks = <<>> BY DEF Forks
<1>3. Len(branches) \in Nat /\ DOMAIN branches = 1 .. Len(branches) BY <1>1, SeqElim
<1>4. Tainted \in [1 .. Len(branches) -> {Tainted[j] : j \in DOMAIN branches}]
  BY <1>3 DEF Tainted
<1>5. Tainted \in Seq({Tainted[j] : j \in DOMAIN branches}) /\ Len(Tainted) = Len(branches)
  BY <1>3, <1>4, SeqIntro
<1>6. Forks \in Seq(ForkRecords) BY <1>1, <1>2
<1>7. Len(Forks) \in Nat /\ DOMAIN Forks = 1 .. Len(Forks) BY <1>6, SeqElim
<1>8. new \in [1 .. Len(Forks) -> {Forks[k].branch : k \in DOMAIN Forks}] BY <1>7
<1>9. new \in Seq({Forks[k].branch : k \in DOMAIN Forks}) /\ Len(new) = Len(Forks)
  BY <1>7, <1>8, SeqIntro
<1> DEFINE S == {Tainted[j] : j \in DOMAIN branches} \cup {Forks[k].branch : k \in DOMAIN Forks}
<1>10. Tainted \in Seq(S) /\ new \in Seq(S)
  <2>1. Tainted \in [1 .. Len(branches) -> S] /\ new \in [1 .. Len(Forks) -> S] BY <1>4, <1>8
  <2> HIDE DEF S, new
  <2> QED BY <2>1, <1>3, <1>7, SeqIntro
<1>11. \A k \in DOMAIN new : k \in DOMAIN Forks /\ new[k] = Forks[k].branch OBVIOUS
<1> HIDE DEF S, new
<1>12. /\ Len(Tainted \o new) = Len(Tainted) + Len(new) /\ Tainted \o new \in Seq(S)
       /\ \A j \in 1 .. Len(Tainted) : (Tainted \o new)[j] = Tainted[j]
       /\ \A k \in 1 .. Len(new) : (Tainted \o new)[Len(Tainted) + k] = new[k]
  BY <1>10, SeqConcat
<1>13. i \in 1 .. Len(branches) + Len(new) /\ Len(new) \in Nat
  <2>1. DOMAIN branches' = 1 .. Len(branches') BY <1>1, <1>12, SeqElim
  <2> QED BY <2>1, <1>1, <1>5, <1>7, <1>9, <1>12
<1>14. CASE i <= Len(branches)
  <2>1. i \in 1 .. Len(branches) BY <1>3, <1>13, <1>14
  <2> QED BY <2>1, <1>1, <1>3, <1>5, <1>12
<1>15. CASE i > Len(branches)
  <2> DEFINE k == i - Len(branches)
  <2>1. k \in 1 .. Len(new) /\ i = Len(Tainted) + k BY <1>3, <1>5, <1>13, <1>15
  <2> HIDE DEF k
  <2>2. branches'[i] = new[k] BY <2>1, <1>1, <1>12
  <2>3. k \in DOMAIN new BY <2>1, <1>10, SeqElim
  <2>4. k \in DOMAIN Forks /\ new[k] = Forks[k].branch BY <2>3, <1>11
  <2>5. Forks = toAdd BY <2>4, <1>2
  <2> QED BY <2>2, <2>4, <2>5
<1> QED BY <1>3, <1>13, <1>14, <1>15

LEMMA EndLoopExact ==
  ASSUME Inv, ExactInv, ResultsInv, EndLoop, runs' = Ahead
  PROVE  ExactInv' /\ ResultsInv'
<1>1. /\ at > Len(branches) /\ method' = method /\ at' = 1 /\ toAdd' = <<>>
  BY DEF EndLoop, fixed
<1>0. ReadAsWritten' <=> ReadAsWritten BY <1>1 DEF ReadAsWritten, Address
<1>2. DOMAIN branches = 1 .. Len(branches) /\ Len(branches) \in Nat /\ at \in Nat
      /\ branches \in Seq(Branches)
  BY SeqElim DEF Inv, TypeOK
<1>3. ASSUME NEW i \in DOMAIN branches'
      PROVE  /\ ~ReadAsWritten \/ branches'[i].tainted \/ Image(branches'[i]) \in Ahead
             /\ HasResult(branches'[i])
  <2>1. CASE i \in DOMAIN branches /\ branches'[i] = Tainted[i]
    <3> DEFINE t == branches[i].tainted \/ i \in Reached(toTaint)
               b == Tainted[i]
    <3>1. branches[i] \in Branches BY <1>2, <2>1
    <3>2. b = [branches[i] EXCEPT !.tainted = t] BY <2>1 DEF Tainted
    <3> HIDE DEF t, b
    <3>3. /\ b.tainted = t /\ b.pc = branches[i].pc /\ b.regs = branches[i].regs
          /\ b.last = branches[i].last /\ b.prev = branches[i].prev
      BY <3>1, <3>2 DEF Branches
    <3>4. i < at BY <1>1, <1>2, <2>1
    <3>5. i \in toTaint \/ Exact(branches[i], Ahead) BY <2>1, <3>4 DEF ExactInv
    <3>6. i \in toTaint => t BY DEF Reached, t
    <3>7. Image(b) = Image(branches[i]) BY <3>3 DEF Image
    <3>8. HasResult(b) BY <2>1, <3>3 DEF ResultsInv, HasResult
    <3>9. ~ReadAsWritten \/ b.tainted \/ Image(b) \in Ahead BY <3>3, <3>5, <3>6, <3>7 DEF Exact, t
    <3> QED BY <2>1, <3>8, <3>9 DEF b
  <2>2. CASE \E k \in DOMAIN toAdd : branches'[i] = toAdd[k].branch
    BY <2>2 DEF ExactInv, ResultsInv, Exact
  <2> QED BY <2>1, <2>2, RoundBranches
<1>4. ASSUME NEW i \in DOMAIN branches'
      PROVE  Image(branches[i])' = Image(branches'[i]) /\ HasResult(branches[i])' = HasResult(branches'[i])
  BY <1>1 DEF Image, HasResult, Regs, Address
<1>5. ASSUME NEW i \in DOMAIN branches' PROVE Exact(branches[i], runs)'
  BY <1>0, <1>3, <1>4 DEF Exact
<1>6. ASSUME NEW i \in DOMAIN branches' PROVE ~(i < at')
  <2>1. Inv' BY EndLoopInv
  <2>2. DOMAIN branches' = 1 .. Len(branches') BY <2>1 DEF Inv, TypeOK
  <2>3. Len(branches') \in Nat BY <2>1 DEF Inv, TypeOK
  <2> QED BY <2>2, <2>3, <1>1
<1> QED BY <1>1, <1>3, <1>4, <1>5, <1>6 DEF ExactInv, ResultsInv

\* The steps between two rounds, and no step at all.
LEMMA BetweenExact ==
  ASSUME Inv, ExactInv, ResultsInv, runs' = runs, method' = method,
         UNCHANGED <<branches, at, toTaint, toAdd>>
  PROVE  ExactInv' /\ ResultsInv'
<1>0. ReadAsWritten' <=> ReadAsWritten BY DEF ReadAsWritten, Address
<1>1. Ahead' = Ahead BY SameRuns
<1>2. ASSUME NEW i \in DOMAIN branches
      PROVE  Image(branches[i])' = Image(branches[i]) /\ HasResult(branches[i])' = HasResult(branches[i])
  BY DEF Image, HasResult, Regs, Address
<1>3. ASSUME NEW k \in DOMAIN toAdd
      PROVE  /\ Image(toAdd[k].branch)' = Image(toAdd[k].branch)
             /\ HasResult(toAdd[k].branch)' = HasResult(toAdd[k].branch)
  BY DEF Image, HasResult, Regs, Address
<1>4. ASSUME NEW i \in DOMAIN branches
      PROVE  IF i < at' THEN i \in toTaint' \/ Exact(branches[i], Ahead)' ELSE Exact(branches[i], runs)'
  <2>1. IF i < at THEN i \in toTaint \/ Exact(branches[i], Ahead) ELSE Exact(branches[i], runs)
    BY DEF ExactInv
  <2> QED BY <2>1, <1>0, <1>1, <1>2 DEF Exact
<1>5. ASSUME NEW k \in DOMAIN toAdd PROVE Exact(toAdd[k].branch, Ahead)'
  <2>1. Exact(toAdd[k].branch, Ahead) BY DEF ExactInv
  <2> QED BY <2>1, <1>0, <1>1, <1>3 DEF Exact
<1> QED BY <1>2, <1>3, <1>4, <1>5 DEF ExactInv, ResultsInv

\* A new branch knows nothing, like an execution at its start.
LEMMA NewBranchExact ==
  ASSUME NEW start
  PROVE  /\ Image(NewBranch(start)) = Start(start) /\ HasResult(NewBranch(start))
         /\ NewBranch(start).pc = start
BY DEF Image, Start, HasResult, NewBranch, IsNumber, Empty

LEMMA ResetExact ==
  ASSUME Inv, NEW start \in Address(method), Reset(start), Observe
  PROVE  ExactInv' /\ ResultsInv'
<1>1. /\ phase = "idle" /\ method' = method /\ branches' = <<NewBranch(start)>>
      /\ resets' = resets + 1 /\ at' = at /\ toAdd' = toAdd
  BY DEF Reset, fixed
<1>2. resets \in Nat /\ at = 1 /\ toAdd = <<>> BY <1>1 DEF Inv, TypeOK
<1>3. resets' # resets BY <1>1, <1>2
<1>4. DOMAIN branches' = {1} /\ branches'[1] = NewBranch(start) BY <1>1
<1>5. runs' = {Start(start)'}
  <2>1. runs' = {Start(branches'[1].pc)} BY <1>3 DEF Observe
  <2>2. Start(start)' = Start(start) BY <1>1 DEF Start, Regs
  <2> QED BY <2>1, <2>2, <1>4, NewBranchExact
<1>6. Image(branches[1])' = Start(start)' /\ HasResult(branches[1])'
  <2>1. Image(branches[1])' = Image(branches'[1]) /\ HasResult(branches[1])' = HasResult(branches'[1])
    BY <1>1 DEF Image, HasResult, Regs, Address
  <2>2. Start(start)' = Start(start) BY <1>1 DEF Start, Regs
  <2> QED BY <2>1, <2>2, <1>4, NewBranchExact
<1> QED BY <1>1, <1>2, <1>4, <1>5, <1>6 DEF ExactInv, ResultsInv, Exact

LEMMA InitExact == AInit => AInv
<1> SUFFICES ASSUME AInit PROVE AInv
  OBVIOUS
<1>1. Init /\ runs = {Start(0)} BY DEF AInit
<1>2. Inv BY <1>1, InitInv
<1>3. at = 1 /\ toAdd = <<>> BY <1>1 DEF Init
<1>4. \A i \in DOMAIN branches : i = 1 /\ branches[i] = NewBranch(0)
  <2> DEFINE new == NewBranch(0)
  <2>1. branches = <<>> \/ branches = <<new>> BY <1>1 DEF Init
  <2> HIDE DEF new
  <2>2. \A i \in DOMAIN branches : i = 1 /\ branches[i] = new BY <2>1
  <2> QED BY <2>2 DEF new
<1> QED BY <1>1, <1>2, <1>3, <1>4, NewBranchExact DEF AInv, ExactInv, ResultsInv, Exact

\* Which steps the executions take: none in a turn and between rounds, one when a round ends.
LEMMA TurnRuns ==
  ASSUME Observe, resets' = resets, iterations' = iterations
  PROVE  runs' = runs
BY DEF Observe

LEMMA RoundRuns ==
  ASSUME Inv, EndLoop, Observe
  PROVE  runs' = Ahead
<1>1. resets' = resets /\ iterations' = iterations + 1 /\ iterations \in Nat
  BY DEF EndLoop, Inv, TypeOK
<1>2. iterations' # iterations BY <1>1
<1> QED BY <1>1, <1>2 DEF Observe, Ahead

Turns ==
  \/ SkipFinished \/ Finish \/ Goto \/ TestAgain \/ TestDecided \/ TestUndecided \/ Switch
  \/ Assign \/ StaticGet \/ Invoke \/ InvokeInterface \/ MoveResult \/ NotImpl \/ Ignored

\* The turns in which a branch goes the one way its execution can go.
Going ==
  \/ Goto \/ TestDecided \/ Assign \/ StaticGet \/ Invoke \/ InvokeInterface \/ MoveResult
  \/ Ignored

LEMMA GoingMoves ==
  ASSUME Inv, ResultsInv, ~Uses({"keep"}), Going
  PROVE  /\ (\E b : Moves(b)) /\ UNCHANGED <<toTaint, toAdd>> /\ Turn /\ InLoop
         /\ already' = already \/ TestDecided
<1>1. Turn /\ InLoop
  BY DEF Going, Goto, TestDecided, Assign, StaticGet, Invoke, InvokeInterface, MoveResult, Ignored,
         AtTest, On, Turn
<1>2. (\E b : Moves(b)) /\ UNCHANGED <<toTaint, toAdd>> /\ (already' = already \/ TestDecided)
  BY GotoMoves, TestDecidedMoves, AssignMoves, StaticGetMoves, InvokeMoves, InvokeInterfaceMoves,
     MoveResultMoves, IgnoredMoves DEF Going
<1> QED BY <1>1, <1>2

LEMMA TurnsExact ==
  ASSUME Inv, ExactInv, ResultsInv, ~Uses({"keep"}), Turns, Observe
  PROVE  ExactInv' /\ ResultsInv'
<1>1. resets' = resets /\ iterations' = iterations
  BY DEF Turns, SkipFinished, Finish, Goto, TestAgain, TestDecided, TestUndecided, Switch, Assign,
         StaticGet, Invoke, InvokeInterface, MoveResult, NotImpl, Ignored, Leaves
<1>2. runs' = runs BY <1>1, TurnRuns
<1>3. CASE SkipFinished BY <1>2, <1>3, SkipFinishedExact
<1>4. CASE Finish BY <1>2, <1>4, FinishExact
<1>5. CASE TestAgain BY <1>2, <1>5, TestAgainExact
<1>6. CASE TestUndecided BY <1>2, <1>6, TestUndecidedExact
<1>7. CASE Switch BY <1>2, <1>7, SwitchExact
<1>8. CASE NotImpl BY <1>2, <1>8, NotImplExact
<1>9. CASE Going BY <1>2, <1>9, GoingMoves, MovesExact
<1> QED BY <1>3, <1>4, <1>5, <1>6, <1>7, <1>8, <1>9 DEF Turns, Going

\* The flag, the query and the method never change.
LEMMA SameFixed ==
  ASSUME [ANext]_vars
  PROVE  conservative' = conservative /\ query' = query /\ method' = method
BY DEF ANext, vars, flowVars, fixed, Next, Reset, NextInstruction, SkipFinished, Finish, Goto,
       TestAgain, TestDecided, TestUndecided, Switch, Assign, StaticGet, Invoke, InvokeInterface,
       MoveResult, NotImpl, Ignored, EndLoop, CollectDecisions, CollectFound, Leaves

LEMMA StepExact == AInv /\ [ANext]_vars => AInv'
<1> SUFFICES ASSUME AInv, [ANext]_vars PROVE AInv'
  OBVIOUS
<1>1. Inv /\ Inv'
  <2>1. [Next]_flowVars BY DEF ANext, vars
  <2> QED BY <2>1, StepInv DEF AInv
<1>2. method' = method BY SameFixed
<1> SUFFICES ASSUME ~Uses({"keep"})' PROVE ExactInv' /\ ResultsInv'
  BY <1>1 DEF AInv
<1>3. ~Uses({"keep"}) BY <1>2 DEF Uses, Address
<1>4. ExactInv /\ ResultsInv BY <1>3 DEF AInv
<1>5. CASE UNCHANGED vars
  <2>1. runs' = runs /\ UNCHANGED <<branches, at, toTaint, toAdd>> BY <1>5 DEF vars, flowVars
  <2> QED BY <2>1, <1>1, <1>2, <1>4, BetweenExact
<1>6. CASE ANext
  <2>1. Next /\ Observe BY <1>6 DEF ANext
  <2>2. CASE \E start \in Address(method) : Reset(start) BY <2>1, <2>2, <1>1, ResetExact
  <2>3. CASE NextInstruction \/ CollectDecisions \/ CollectFound
    <3>1. /\ UNCHANGED <<branches, at, toTaint, toAdd>>
          /\ resets' = resets /\ iterations' = iterations
      BY <2>3 DEF NextInstruction, CollectDecisions, CollectFound
    <3>2. runs' = runs BY <2>1, <3>1, TurnRuns
    <3> QED BY <3>1, <3>2, <1>1, <1>2, <1>4, BetweenExact
  <2>4. CASE Turns BY <2>1, <2>4, <1>1, <1>3, <1>4, TurnsExact
  <2>5. CASE EndLoop
    <3>1. runs' = Ahead BY <2>1, <2>5, <1>1, RoundRuns
    <3> QED BY <3>1, <2>5, <1>1, <1>4, EndLoopExact
  <2> QED BY <2>1, <2>2, <2>3, <2>4, <2>5 DEF Next, Turns
<1> QED BY <1>5, <1>6 DEF ANext

\* Between two rounds the execution an untainted branch follows has come as far.
LEMMA ExactAnswers == AInv => UntaintedIsExact
<1> SUFFICES ASSUME AInv, phase # "loop", ReadAsWritten, NEW i \in DOMAIN branches,
                    ~branches[i].tainted
             PROVE  \E c \in runs : Follows(branches[i], c)
  BY DEF UntaintedIsExact
<1>0. ~Uses({"keep"}) BY DEF ReadAsWritten, Misread, Uses
<1>1. Inv /\ ExactInv BY <1>0 DEF AInv
<1>2. at = 1 BY <1>1 DEF Inv, TypeOK
<1>3. ~(i < at)
  <2>1. DOMAIN branches = 1 .. Len(branches) /\ Len(branches) \in Nat BY <1>1 DEF Inv, TypeOK
  <2> QED BY <2>1, <1>2
<1>4. Image(branches[i]) \in runs BY <1>1, <1>3 DEF ExactInv, Exact
<1>5. Follows(branches[i], Image(branches[i])) BY DEF Follows, Image
<1> QED BY <1>4, <1>5

\* In a method none of whose instructions is misread, whatever an untainted branch holds for a
\* number after any number of rounds is what some execution of the method has in that register
\* there.
THEOREM ExactCorrect == ASpec => []UntaintedIsExact
<1> QED BY InitExact, StepExact, ExactAnswers, PTL DEF ASpec

-----------------------------------------------------------------------------
(* Searches.  The addresses that branches have had turns at are closed     *)
(* under going on, apart from those where a branch, or a fork waiting to   *)
(* be added, is about to have one; a branch that goes no further had met a *)
(* test before, or stands where it was.  The executions are at such        *)
(* addresses, or where a branch is due in this round; and a call, once a   *)
(* branch had its turn at it, has been found or is what the branch did     *)
(* last.  That tests are on unknown values must be known of the branches,  *)
(* too: what a branch knows some execution knows.                          *)

Configurations == [pc : Int, regs : [Regs(method) -> Values \cup {Unknown}]]

\* What the claim on searches is about.
Searching ==
  /\ query \in {"calls", "reads"} /\ Len(branches) < BranchLimit /\ ~Uses({"switch", "keep", "div"})
  /\ \A a \in Address(method) :
       method.code[a].op = "invoke_interface" => method.code[a].how # "inherited"
  /\ \A c \in runs : AtTestOf(c) => Outcomes(method.code[c.pc], c) = BOOLEAN

\* The execution is where the branch is, and has a number in every register the branch has one
\* in.
Knows(b, c) ==
  c.pc = b.pc /\ \A r \in Regs(method) : IsNumber(b.regs[r]) => IsNumber(c.regs[r])

Followed(b, S) == \E c \in S : Knows(b, c)

FollowInv ==
  /\ \A i \in DOMAIN branches : Followed(branches[i], IF i < at THEN Ahead ELSE runs)
  /\ \A k \in DOMAIN toAdd : Followed(toAdd[k].branch, Ahead)

\* The branch will execute the instruction at an address when it has its turn.
Live(b, a) == b.pc = a /\ ~b.finished /\ (b.pc = 0 \/ b.prev # b.pc)

Due(a) == \E i \in DOMAIN branches : at <= i /\ Live(branches[i], a)
Awaited(a) ==
  \/ \E i \in DOMAIN branches : Live(branches[i], a)
  \/ \E k \in DOMAIN toAdd : Live(toAdd[k].branch, a)

\* The addresses an execution may go to from one.
After(a) ==
  LET i == method.code[a]
  IN  CASE i.op = "return"                 -> {}
        [] i.op = "goto"                   -> {a + i.to[1]}
        [] i.op \in {"test", "test_zero"} -> {a + 1, a + i.to[1]}
        [] OTHER                           -> {a + 1}

SoughtKind == IF query = "calls" THEN "call" ELSE "read"
HasNoted(b, a) == b.last.kind = SoughtKind /\ b.last.pc = a
Pending(a) ==
  \E i \in DOMAIN branches :
    (phase = "collect" \/ (phase = "loop" /\ i < at)) /\ HasNoted(branches[i], a)

\* D are addresses at which branches have had turns.
Covers(D) ==
  /\ \A c \in runs : c.pc \in Address(method) => c.pc \in D \/ Due(c.pc)
  /\ \A a \in D : \A s \in After(a) \cap Address(method) : s \in D \/ Awaited(s)
  /\ \A x \in already : x[2] \in D
  /\ \A k \in DOMAIN toAdd : toAdd[k].from \in D
  /\ \A a \in D : method.code[a].op \in Sought => (\E f \in found : f.pc = a) \/ Pending(a)
  /\ \A c \in passed : c.pc \in Address(method) => c.pc \in D
CoverInv == \E D \in SUBSET Address(method) : Covers(D)

SInv == AInv /\ runs \subseteq Configurations /\ (Searching => FollowInv /\ CoverInv)

(***************************************************************************)
(* Configurations                                                          *)
(***************************************************************************)
LEMMA SumTyped ==
  ASSUME NEW l \in Values \cup {Unknown}, NEW r \in Values \cup {Unknown}, NEW how,
         how = "div" => r # Number(0)
  PROVE  Sum(how, l, r) \in Values \cup {Unknown}
<1>1. CASE IsNumber(l) /\ IsNumber(r)
  <2>1. l.n \in Int /\ r.n \in Int /\ r = Number(r.n)
    BY <1>1 DEF Values, Number, IsNumber, Unknown
  <2>2. Apply(how, l.n, r.n) \in Int BY <2>1, ApplyTyped
  <2>3. Sum(how, l, r) = Number(Apply(how, l.n, r.n)) BY <1>1 DEF Sum
  <2> QED BY <2>2, <2>3 DEF Number, Values
<1>2. CASE ~(IsNumber(l) /\ IsNumber(r)) BY <1>2 DEF Sum
<1> QED BY <1>1, <1>2

LEMMA MovedTyped ==
  ASSUME NEW c \in Configurations, NEW x \in Int
  PROVE  [c EXCEPT !.pc = @ + x] \in Configurations
BY DEF Configurations

LEMMA ConfigurationIns ==
  ASSUME Inv, NEW c, c.pc \in Address(method), NEW i, i = method.code[c.pc]
  PROVE  /\ WellFormed(i, method) /\ {i.dst, i.left, i.right} \subseteq Regs(method)
         /\ \A k \in DOMAIN i.to : i.to[k] \in Int
         /\ i.op \in {"goto", "test", "test_zero"} => i.to[1] \in Int
<1>1. WellFormed(i, method) BY MethodFacts DEF Inv
<1>2. i.to \in Seq(Int) /\ (i.op \in {"goto", "test", "test_zero"} => Len(i.to) = 1)
  BY <1>1 DEF WellFormed
<1>3. \A k \in DOMAIN i.to : i.to[k] \in Int BY <1>2
<1>4. i.op \in {"goto", "test", "test_zero"} => 1 \in DOMAIN i.to BY <1>2
<1> QED BY <1>1, <1>3, <1>4 DEF WellFormed

LEMMA WrittenTyped ==
  ASSUME NEW c \in Configurations, NEW i, WellFormed(i, method), ~Throws(i, c)
  PROVE  Written(i, c) \in Values \cup {Unknown}
<1>1. i.left \in Regs(method) /\ i.right \in Regs(method) BY DEF WellFormed
<1>2. c.regs[i.left] \in Values \cup {Unknown} /\ c.regs[i.right] \in Values \cup {Unknown}
  BY <1>1 DEF Configurations
<1>3. i.lit \in Int /\ (i.op = "binop_lit" /\ i.how = "div" => i.lit # 0) BY LiteralTyped
<1>4. /\ Number(i.lit) \in Values
      /\ i.op = "binop_lit" /\ i.how = "div" => Number(i.lit) # Number(0)
  BY <1>3 DEF Number, Values
<1>5. CASE i.op = "const" BY <1>4, <1>5 DEF Written
<1>6. CASE i.op = "move" BY <1>2, <1>6 DEF Written
<1>7. CASE i.op = "binop"
  <2>1. i.how # "div" BY <1>7 DEF WellFormed
  <2> QED BY <2>1, <1>2, <1>7, SumTyped DEF Written
<1>8. CASE i.op = "div"
  <2>1. c.regs[i.right] # Number(0) BY <1>8 DEF Throws
  <2> QED BY <2>1, <1>2, <1>8, SumTyped DEF Written
<1>9. CASE i.op = "binop_lit"
  <2>1. CASE i.how = "sub"
    <3>1. Written(i, c) = Sum("sub", Number(i.lit), c.regs[i.left]) BY <1>9, <2>1 DEF Written
    <3> QED BY <3>1, <1>2, <1>4, SumTyped
  <2>2. CASE i.how # "sub"
    <3>1. Written(i, c) = Sum(i.how, c.regs[i.left], Number(i.lit)) BY <1>9, <2>2 DEF Written
    <3> QED BY <3>1, <1>2, <1>4, <1>9, SumTyped
  <2> QED BY <2>1, <2>2
<1>10. CASE i.op \notin {"const", "move", "binop", "div", "binop_lit"} BY <1>10 DEF Written
<1> QED BY <1>5, <1>6, <1>7, <1>8, <1>9, <1>10

\* The forms a successor d of c has, at an instruction i.
Form(i, c, d) ==
  \/ i.op = "goto" /\ d = [c EXCEPT !.pc = @ + i.to[1]]
  \/ /\ i.op \in {"test", "test_zero"}
     /\ d = [c EXCEPT !.pc = @ + i.to[1]] \/ d = [c EXCEPT !.pc = @ + 1]
  \/ /\ i.op = "switch"
     /\ \/ d = [c EXCEPT !.pc = @ + 1]
        \/ \E k \in DOMAIN i.to : d = [c EXCEPT !.pc = @ + i.to[k]]
  \/ /\ i.op \in Writing
     /\ d = [[c EXCEPT !.pc = @ + 1] EXCEPT !.regs[i.dst] = Written(i, c)]
  \/ /\ i.op \notin {"return", "goto", "test", "test_zero", "switch"} \cup Writing
     /\ d = [c EXCEPT !.pc = @ + 1]

LEMMA SuccessorForms ==
  ASSUME NEW c, NEW d \in Successors(c), NEW i, i = method.code[c.pc]
  PROVE  c.pc \in Address(method) /\ ~Throws(i, c) /\ i.op # "return" /\ Form(i, c, d)
<1> DEFINE go(off) == [c EXCEPT !.pc = @ + off]
<1>1. c.pc \in Address(method) /\ ~Throws(i, c) BY DEF Successors
<1>2. CASE i.op = "return"
  <2>1. Successors(c) = {} BY <1>1, <1>2 DEF Successors, AtTestOf, Writing
  <2> QED BY <2>1
<1>3. CASE i.op = "goto"
  <2>1. Successors(c) = {[c EXCEPT !.pc = @ + i.to[1]]}
    BY <1>1, <1>3 DEF Successors, AtTestOf, Writing
  <2> QED BY <1>1, <1>3, <2>1 DEF Form
<1>4. CASE i.op \in {"test", "test_zero"}
  <2>1. AtTestOf(c) BY <1>1, <1>4 DEF AtTestOf
  <2>2. Successors(c) = {go(IF o THEN i.to[1] ELSE 1) : o \in Outcomes(i, c)}
    BY <1>1, <1>4, <2>1 DEF Successors, Writing
  <2>3. \A o : go(IF o THEN i.to[1] ELSE 1) \in {go(i.to[1]), go(1)} OBVIOUS
  <2> QED BY <1>1, <1>4, <2>2, <2>3 DEF Form
<1>5. CASE i.op = "switch"
  <2>1. Successors(c) = {go(1)} \cup {go(i.to[k]) : k \in DOMAIN i.to}
    BY <1>1, <1>5 DEF Successors, AtTestOf, Writing
  <2> QED BY <1>1, <1>5, <2>1 DEF Form
<1>6. CASE i.op \in Writing
  BY <1>1, <1>6 DEF Successors, AtTestOf, Writing, Form
<1>7. CASE i.op \notin {"return", "goto", "test", "test_zero", "switch"} \cup Writing
  BY <1>1, <1>7 DEF Successors, AtTestOf, Form
<1> QED BY <1>2, <1>3, <1>4, <1>5, <1>6, <1>7

LEMMA SuccessorsTyped ==
  ASSUME Inv, NEW c \in Configurations
  PROVE  Successors(c) \subseteq Configurations
<1> SUFFICES ASSUME NEW d \in Successors(c) PROVE d \in Configurations
  OBVIOUS
<1>1. PICK i : i = method.code[c.pc] OBVIOUS
<1>2. c.pc \in Address(method) /\ ~Throws(i, c) /\ Form(i, c, d) BY <1>1, SuccessorForms
<1>3. /\ WellFormed(i, method) /\ {i.dst, i.left, i.right} \subseteq Regs(method)
      /\ \A k \in DOMAIN i.to : i.to[k] \in Int
      /\ i.op \in {"goto", "test", "test_zero"} => i.to[1] \in Int
  BY <1>1, <1>2, ConfigurationIns
<1>4. CASE \E x \in Int : d = [c EXCEPT !.pc = @ + x] BY <1>4, MovedTyped
<1>5. CASE d = [[c EXCEPT !.pc = @ + 1] EXCEPT !.regs[i.dst] = Written(i, c)]
  <2>1. PICK m : m = [c EXCEPT !.pc = @ + 1] OBVIOUS
  <2>2. m \in Configurations BY <2>1, MovedTyped
  <2>3. PICK w \in Values \cup {Unknown} : w = Written(i, c) BY <1>2, <1>3, WrittenTyped
  <2>4. d = [m EXCEPT !.regs[i.dst] = w] BY <1>5, <2>1, <2>3
  <2> QED BY <1>3, <2>2, <2>4 DEF Configurations
<1>6. CASE i.op \in Writing BY <1>2, <1>5, <1>6 DEF Form, Writing
<1>7. CASE i.op \in {"goto", "test", "test_zero"}
  <2>1. d = [c EXCEPT !.pc = @ + i.to[1]] \/ d = [c EXCEPT !.pc = @ + 1]
    BY <1>2, <1>7 DEF Form, Writing
  <2> QED BY <2>1, <1>3, <1>4, <1>7
<1>8. CASE i.op = "switch"
  <2>1. d = [c EXCEPT !.pc = @ + 1] \/ \E k \in DOMAIN i.to : d = [c EXCEPT !.pc = @ + i.to[k]]
    BY <1>2, <1>8 DEF Form, Writing
  <2> QED BY <2>1, <1>3, <1>4
<1>9. CASE i.op \notin {"goto", "test", "test_zero", "switch"} \cup Writing
  <2>1. d = [c EXCEPT !.pc = @ + 1] BY <1>2, <1>9 DEF Form
  <2> QED BY <2>1, <1>4
<1> QED BY <1>6, <1>7, <1>8, <1>9

LEMMA SuccessorAfter ==
  ASSUME ~Uses({"switch", "keep", "div"}), NEW c \in Configurations, NEW d \in Successors(c)
  PROVE  c.pc \in Address(method) /\ d.pc \in After(c.pc)
<1>1. PICK i : i = method.code[c.pc] OBVIOUS
<1>2. c.pc \in Address(method) /\ i.op # "return" /\ Form(i, c, d) BY <1>1, SuccessorForms
<1>3. i.op # "switch" BY <1>1, <1>2 DEF Uses
<1>4. \A x : [c EXCEPT !.pc = @ + x].pc = c.pc + x BY DEF Configurations
<1>5. [[c EXCEPT !.pc = @ + 1] EXCEPT !.regs[i.dst] = Written(i, c)].pc = c.pc + 1
  BY DEF Configurations
<1>6. \/ i.op = "goto" /\ d.pc = c.pc + i.to[1]
      \/ i.op \in {"test", "test_zero"} /\ (d.pc = c.pc + i.to[1] \/ d.pc = c.pc + 1)
      \/ i.op \notin {"return", "goto", "test", "test_zero"} /\ d.pc = c.pc + 1
  <2>1. CASE i.op = "goto"
    <3>1. d = [c EXCEPT !.pc = @ + i.to[1]] BY <1>2, <2>1 DEF Form, Writing
    <3> QED BY <2>1, <3>1, <1>4
  <2>2. CASE i.op \in {"test", "test_zero"}
    <3>1. d = [c EXCEPT !.pc = @ + i.to[1]] \/ d = [c EXCEPT !.pc = @ + 1]
      BY <1>2, <2>2 DEF Form, Writing
    <3> QED BY <2>2, <3>1, <1>4
  <2>3. CASE i.op \in Writing
    <3>1. d = [[c EXCEPT !.pc = @ + 1] EXCEPT !.regs[i.dst] = Written(i, c)]
      BY <1>2, <2>3 DEF Form, Writing
    <3>2. d.pc = c.pc + 1 BY <3>1, <1>5
    <3> QED BY <2>3, <3>2 DEF Writing
  <2>4. CASE i.op \notin {"goto", "test", "test_zero"} \cup Writing
    <3>1. d = [c EXCEPT !.pc = @ + 1] /\ i.op # "return" BY <1>2, <1>3, <2>4 DEF Form
    <3>2. d.pc = c.pc + 1 BY <3>1, <1>4
    <3> QED BY <2>4, <3>1, <3>2
  <2> QED BY <2>1, <2>2, <2>3, <2>4
<1> QED BY <1>1, <1>2, <1>6 DEF After

(***************************************************************************)
(* Turns                                                                   *)
(***************************************************************************)
\* A branch that has its turn follows an execution, whose tests are undecided.
LEMMA TurnFollowed ==
  ASSUME Inv, FollowInv, InLoop, runs \subseteq Configurations
  PROVE  \E c \in runs : Knows(me, c) /\ c \in Configurations
<1>1. at \in DOMAIN branches /\ at \in Nat BY TurnFacts
<1>2. Followed(me, runs) BY <1>1 DEF FollowInv, me
<1> QED BY <1>2 DEF Followed

LEMMA AheadOf ==
  ASSUME NEW c \in runs
  PROVE  c \in Ahead /\ Successors(c) \subseteq Ahead
BY DEF Ahead

\* FollowInv after a step in which the executions take none.
LEMMA FollowIntro ==
  ASSUME method' = method, runs' = runs,
         \A i \in DOMAIN branches' : Followed(branches'[i], IF i < at' THEN Ahead ELSE runs),
         \A k \in DOMAIN toAdd' : Followed(toAdd'[k].branch, Ahead)
  PROVE  FollowInv'
<1>1. Ahead' = Ahead BY SameRuns
<1>2. ASSUME NEW x, NEW S PROVE (\E c \in S : Knows(x, c)') <=> Followed(x, S)
  BY DEF Followed, Knows, Regs
<1>3. ASSUME NEW i \in DOMAIN branches'
      PROVE  Followed(branches[i], IF i < at THEN Ahead ELSE runs)'
  BY <1>1, <1>2 DEF Followed
<1>4. ASSUME NEW k \in DOMAIN toAdd' PROVE Followed(toAdd[k].branch, Ahead)'
  BY <1>1, <1>2 DEF Followed
<1> QED BY <1>3, <1>4 DEF FollowInv

LEMMA TurnFollows ==
  ASSUME Inv, FollowInv, InLoop, NEW b \in Branches, Leaves(b), runs' = runs,
         Followed(b, Ahead), \A k \in DOMAIN toAdd' : Followed(toAdd'[k].branch, Ahead)
  PROVE  FollowInv'
<1> DEFINE new == [b EXCEPT !.prev = me.pc]
<1>1. at \in DOMAIN branches /\ at \in Nat /\ DOMAIN branches \subseteq Nat
  <2>1. DOMAIN branches = 1 .. Len(branches) /\ Len(branches) \in Nat BY SeqElim DEF Inv, TypeOK
  <2> QED BY <2>1, TurnFacts
<1>2. branches' = [branches EXCEPT ![at] = new] /\ at' = at + 1 /\ method' = method
  BY DEF Leaves, fixed
<1>3. new.pc = b.pc /\ new.regs = b.regs BY DEF Branches
<1>4. Followed(new, Ahead) BY <1>3 DEF Followed, Knows
<1>6. DOMAIN branches' = DOMAIN branches /\ branches'[at] = new
      /\ \A i \in DOMAIN branches : i # at => branches'[i] = branches[i]
  BY <1>1, <1>2
<1> HIDE DEF new
<1>8. ASSUME NEW i \in DOMAIN branches'
      PROVE  Followed(branches'[i], IF i < at' THEN Ahead ELSE runs)
  <2>1. CASE i = at BY <2>1, <1>1, <1>2, <1>4, <1>6
  <2>2. CASE i # at
    <3>1. branches'[i] = branches[i] /\ i \in DOMAIN branches /\ i \in Nat
      BY <2>2, <1>1, <1>6
    <3>2. i < at' <=> i < at BY <2>2, <3>1, <1>1, <1>2
    <3> QED BY <3>1, <3>2 DEF FollowInv
  <2> QED BY <2>1, <2>2
<1> QED BY <1>2, <1>8, FollowIntro

LEMMA QuietFollows ==
  ASSUME Inv, FollowInv, InLoop, NEW b \in Branches, Leaves(b), runs' = runs,
         Followed(b, Ahead), toAdd' = toAdd
  PROVE  FollowInv'
<1>1. \A k \in DOMAIN toAdd' : Followed(toAdd'[k].branch, Ahead) BY DEF FollowInv
<1> QED BY <1>1, TurnFollows

\* Where the addresses after that of a turn are left to: done, or with a branch that goes there.
Goes(D, b, forks, s) ==
  \/ s \in D
  \/ b.pc = s /\ ~b.finished
  \/ \E k \in DOMAIN forks : forks[k].branch.pc = s /\ ~forks[k].branch.finished
                                /\ forks[k].branch.prev = me.pc

\* A turn that covers its address, unless it ends a branch that is not live.
LEMMA TurnCovers ==
  ASSUME Inv, InLoop, NEW b \in Branches, Leaves(b), runs' = runs, passed' = passed,
         NEW D \in SUBSET Address(method), NEW E \in SUBSET Address(method), Covers(D),
         D \subseteq E, E \subseteq D \cup {me.pc},
         \A a \in Address(method) : Live(me, a) => a \in E,
         \A x \in already' : x \in already \/ x[2] \in E,
         \A k \in DOMAIN toAdd' : toAdd'[k] \in {toAdd[l] : l \in DOMAIN toAdd} \/ toAdd'[k].from \in E,
         \A k \in DOMAIN toAdd : \E l \in DOMAIN toAdd' : toAdd'[l] = toAdd[k],
         \A a \in E \ D : \A s \in After(a) \cap Address(method) : Goes(E, b, toAdd', s),
         \A a \in E \ D : method.code[a].op \in Sought => HasNoted(b, a)
  PROVE  Covers(E)'
<1> DEFINE new == [b EXCEPT !.prev = me.pc]
<1>1. at \in DOMAIN branches /\ at \in Nat /\ DOMAIN branches \subseteq Nat /\ me \in Branches
  <2>1. DOMAIN branches = 1 .. Len(branches) /\ Len(branches) \in Nat BY SeqElim DEF Inv, TypeOK
  <2> QED BY <2>1, TurnFacts
<1>2. /\ branches' = [branches EXCEPT ![at] = new] /\ at' = at + 1 /\ method' = method
      /\ query' = query /\ phase' = phase /\ found' = found /\ phase = "loop"
  BY DEF Leaves, fixed, InLoop
<1>3. new.pc = b.pc /\ new.finished = b.finished /\ new.prev = me.pc /\ new.last = b.last
  BY <1>1 DEF Branches
<1>4. DOMAIN branches' = DOMAIN branches /\ branches'[at] = new
      /\ \A i \in DOMAIN branches : i # at => branches'[i] = branches[i]
  BY <1>1, <1>2
<1> HIDE DEF new
<1>5. ASSUME NEW a \in Address(method), NEW i \in DOMAIN branches, Live(branches[i], a), a \notin E
      PROVE  i # at /\ branches'[i] = branches[i]
  <2>1. i # at BY <1>5 DEF me
  <2> QED BY <2>1, <1>4
<1>6. ASSUME NEW c \in runs, c.pc \in Address(method)
      PROVE  c.pc \in E \/ \E i \in DOMAIN branches' : at' <= i /\ Live(branches'[i], c.pc)
  <2> SUFFICES ASSUME c.pc \notin E
               PROVE  \E i \in DOMAIN branches' : at' <= i /\ Live(branches'[i], c.pc)
    OBVIOUS
  <2>1. Due(c.pc) BY <1>6 DEF Covers
  <2>2. PICK i \in DOMAIN branches : at <= i /\ Live(branches[i], c.pc) BY <2>1 DEF Due
  <2>3. i # at /\ branches'[i] = branches[i] BY <2>2, <1>5, <1>6
  <2>4. at' <= i BY <2>2, <2>3, <1>1, <1>2
  <2> QED BY <2>2, <2>3, <2>4, <1>4
<1>7. ASSUME NEW a \in E, NEW s \in After(a) \cap Address(method)
      PROVE  \/ s \in E \/ \E i \in DOMAIN branches' : Live(branches'[i], s)
             \/ \E k \in DOMAIN toAdd' : Live(toAdd'[k].branch, s)
  <2> SUFFICES ASSUME s \notin E
               PROVE  \/ \E i \in DOMAIN branches' : Live(branches'[i], s)
                      \/ \E k \in DOMAIN toAdd' : Live(toAdd'[k].branch, s)
    OBVIOUS
  <2>1. CASE a \in D
    <3>1. Awaited(s) BY <2>1 DEF Covers
    <3>2. CASE \E i \in DOMAIN branches : Live(branches[i], s) BY <3>2, <1>4, <1>5
    <3>3. CASE \E k \in DOMAIN toAdd : Live(toAdd[k].branch, s)
      <4>1. PICK k \in DOMAIN toAdd : Live(toAdd[k].branch, s) BY <3>3
      <4>2. PICK l \in DOMAIN toAdd' : toAdd'[l] = toAdd[k] OBVIOUS
      <4> QED BY <4>1, <4>2
    <3> QED BY <3>1, <3>2, <3>3 DEF Awaited
  <2>2. CASE a \notin D
    <3>1. a = me.pc /\ s # me.pc BY <2>2
    <3>2. Goes(E, b, toAdd', s) BY <2>2
    <3>3. CASE b.pc = s /\ ~b.finished
      <4>1. Live(new, s) BY <3>1, <3>3, <1>3 DEF Live
      <4> QED BY <4>1, <1>1, <1>4
    <3>4. CASE \E k \in DOMAIN toAdd' :
                 toAdd'[k].branch.pc = s /\ ~toAdd'[k].branch.finished /\ toAdd'[k].branch.prev = me.pc
      BY <3>1, <3>4 DEF Live
    <3> QED BY <3>2, <3>3, <3>4 DEF Goes
  <2> QED BY <2>1, <2>2
<1>8. \A x \in already' : x[2] \in E BY DEF Covers
<1>9. \A k \in DOMAIN toAdd' : toAdd'[k].from \in E BY DEF Covers
<1>10. ASSUME NEW a \in E, method.code[a].op \in Sought
       PROVE  \/ \E f \in found : f.pc = a
              \/ \E i \in DOMAIN branches' : i < at' /\ HasNoted(branches'[i], a)
  <2>1. CASE a \in D
    <3>1. (\E f \in found : f.pc = a) \/ Pending(a) BY <2>1, <1>10 DEF Covers
    <3>2. CASE Pending(a)
      <4>1. PICK i \in DOMAIN branches : i < at /\ HasNoted(branches[i], a)
        BY <3>2, <1>2 DEF Pending
      <4>2. i # at /\ i < at' BY <4>1, <1>1, <1>2
      <4> QED BY <4>1, <4>2, <1>4
    <3> QED BY <3>1, <3>2
  <2>2. CASE a \notin D
    <3>1. HasNoted(b, a) BY <2>2, <1>10
    <3>2. HasNoted(new, a) BY <3>1, <1>3 DEF HasNoted
    <3> QED BY <3>2, <1>1, <1>2, <1>4
  <2> QED BY <2>1, <2>2
<1>11. \A c \in passed : c.pc \in Address(method) => c.pc \in E BY DEF Covers
<1>12. Address(method)' = Address(method) /\ Sought' = Sought BY <1>2 DEF Address, Sought
<1>13. \A a : After(a)' = After(a) BY <1>2 DEF After
<1>14. \A a : Due(a)' <=> \E i \in DOMAIN branches' : at' <= i /\ Live(branches'[i], a)
  BY DEF Due, Live
<1>15. \A a : Awaited(a)' <=> (\/ \E i \in DOMAIN branches' : Live(branches'[i], a)
                               \/ \E k \in DOMAIN toAdd' : Live(toAdd'[k].branch, a))
  BY DEF Awaited, Live
<1>16. \A a : Pending(a)' <=> \E i \in DOMAIN branches' : i < at' /\ HasNoted(branches'[i], a)
  BY <1>2 DEF Pending, HasNoted, SoughtKind
<1> QED
  BY <1>2, <1>6, <1>7, <1>8, <1>9, <1>10, <1>11, <1>12, <1>13, <1>14, <1>15, <1>16 DEF Covers

\* A turn at an instruction that forks nothing and leads to a single address or none.
LEMMA QuietSearch ==
  ASSUME Inv, FollowInv, CoverInv, Turn, NEW b \in Branches, Leaves(b),
         runs' = runs, passed' = passed, UNCHANGED <<already, toAdd>>, Followed(b, Ahead),
         \A s \in After(me.pc) : b.pc = s /\ ~b.finished,
         ins.op \in Sought => HasNoted(b, me.pc)
  PROVE  FollowInv' /\ CoverInv'
<1>1. InLoop /\ me.pc \in Address(method) BY DEF Turn
<1>2. FollowInv' BY <1>1, QuietFollows
<1>3. PICK D \in SUBSET Address(method) : Covers(D) BY DEF CoverInv
<1>4. PICK E \in SUBSET Address(method) : E = D \cup {me.pc} BY <1>1
<1>5. \A a \in Address(method) : Live(me, a) => a \in E BY <1>4 DEF Live
<1>6. \A a \in E \ D : a = me.pc /\ method.code[a] = ins BY <1>4 DEF ins
<1>7. \A a \in E \ D : \A s \in After(a) \cap Address(method) : Goes(E, b, toAdd', s)
  BY <1>6 DEF Goes
<1>8. Covers(E)' BY <1>1, <1>3, <1>4, <1>5, <1>6, <1>7, TurnCovers
<1>9. Address(method)' = Address(method) BY DEF Leaves, fixed, Address
<1> QED BY <1>2, <1>8, <1>9 DEF CoverInv

\* One that passes on to the next address.
LEMMA PassSearch ==
  ASSUME Inv, FollowInv, CoverInv, Turn, NEW b \in Branches, Leaves(Passed(b)),
         runs' = runs, passed' = passed, UNCHANGED <<already, toAdd>>, Followed(Passed(b), Ahead),
         b.pc = me.pc, b.finished = me.finished,
         ins.op \notin {"return", "goto", "test", "test_zero"},
         ins.op \in Sought => HasNoted(b, me.pc)
  PROVE  FollowInv' /\ CoverInv'
<1>1. Passed(b) \in Branches BY PassedTyped
<1>2. Passed(b).pc = me.pc + 1 /\ ~Passed(b).finished BY DEF Passed, Branches, Turn
<1>3. After(me.pc) = {me.pc + 1} BY DEF After, ins
<1>4. ins.op \in Sought => HasNoted(Passed(b), me.pc)
  <2> SUFFICES ASSUME ins.op \in Sought PROVE HasNoted(Passed(b), me.pc)
    OBVIOUS
  <2>1. HasNoted(b, me.pc) OBVIOUS
  <2>2. Passed(b).last = Forgets(b.last) BY DEF Passed, Branches
  <2>3. ins.op \in {"invoke", "invoke_interface"} \/ b.last.kind = "read"
    BY <2>1 DEF HasNoted, Sought, SoughtKind
  <2>4. Forgets(b.last) = b.last BY <2>3 DEF Forgets
  <2> QED BY <2>1, <2>2, <2>4 DEF HasNoted
<1> QED BY <1>1, <1>2, <1>3, <1>4, QuietSearch

\* One that writes a number only if the execution does.
LEMMA WriteSearch ==
  ASSUME Inv, FollowInv, CoverInv, runs \subseteq Configurations, Turn, NEW v, NEW b \in Branches,
         Leaves(Passed(b)), runs' = runs, passed' = passed, UNCHANGED <<already, toAdd>>,
         ins.op \in Writing \ {"div"}, b.pc = me.pc, b.finished = me.finished,
         b.regs = [me.regs EXCEPT ![ins.dst] = v],
         \A c \in Configurations : Knows(me, c) /\ IsNumber(v) => IsNumber(Written(ins, c)),
         ins.op \in Sought => HasNoted(b, me.pc)
  PROVE  FollowInv' /\ CoverInv'
<1>1. InLoop /\ me.pc \in Address(method) /\ ins.dst \in Regs(method) /\ me \in Branches
  BY TurnFacts, InsFacts DEF Turn
<1>2. PICK c \in runs : Knows(me, c) /\ c \in Configurations BY <1>1, TurnFollowed
<1>3. c.pc = me.pc BY <1>2 DEF Knows
<1>4. PICK w : w = Written(ins, c) OBVIOUS
<1>5. PICK d : d = [[c EXCEPT !.pc = @ + 1] EXCEPT !.regs[ins.dst] = w] OBVIOUS
<1>6. Successors(c) = {d}
  BY <1>1, <1>3, <1>4, <1>5 DEF Successors, Throws, AtTestOf, Writing, ins
<1>7. d \in Ahead BY <1>2, <1>6, AheadOf
<1>8. d.pc = c.pc + 1 /\ d.regs = [c.regs EXCEPT ![ins.dst] = w]
  BY <1>2, <1>5 DEF Configurations
<1>9. Passed(b).pc = b.pc + 1 /\ Passed(b).regs = b.regs BY DEF Passed, Branches
<1>10. ASSUME NEW r \in Regs(method), IsNumber(b.regs[r]) PROVE IsNumber(d.regs[r])
  <2>1. me.regs \in [Regs(method) -> Values] /\ DOMAIN c.regs = Regs(method)
    BY <1>1, <1>2 DEF Branches, Configurations
  <2>2. CASE r = ins.dst BY <2>1, <2>2, <1>2, <1>4, <1>8, <1>10
  <2>3. CASE r # ins.dst
    <3>1. b.regs[r] = me.regs[r] /\ d.regs[r] = c.regs[r] BY <2>1, <2>3, <1>8
    <3> QED BY <3>1, <1>2, <1>10 DEF Knows
  <2> QED BY <2>2, <2>3
<1>11. Followed(Passed(b), Ahead)
  <2>1. Passed(b).pc = d.pc BY <1>3, <1>8, <1>9
  <2>2. Knows(Passed(b), d) BY <2>1, <1>9, <1>10 DEF Knows
  <2> QED BY <2>2, <1>7 DEF Followed
<1>12. ins.op \notin {"return", "goto", "test", "test_zero"} BY DEF Writing
<1> QED BY <1>11, <1>12, PassSearch

LEMMA ArithmeticKnown ==
  ASSUME NEW how, NEW l, NEW r, NEW x, NEW y, IsNumber(l) => IsNumber(x),
         IsNumber(r) => IsNumber(y), IsNumber(Arithmetic(how, l, r)), NEW other
  PROVE  IsNumber(Sum(other, x, y)) /\ IsNumber(Sum(other, y, x))
<1>1. IsNumber(l) /\ IsNumber(r) BY DEF Arithmetic, IsNumber, Variable, Invalid
<1> QED BY <1>1 DEF Sum, Number, IsNumber

LEMMA AssignSearch ==
  ASSUME Inv, FollowInv, CoverInv, runs \subseteq Configurations, ~Uses({"switch", "keep", "div"}),
         Assign, runs' = runs, passed' = passed
  PROVE  FollowInv' /\ CoverInv'
<1> DEFINE b == [me EXCEPT !.regs[ins.dst] = Result]
<1>1. /\ Turn /\ Leaves(Passed(b)) /\ UNCHANGED <<already, toTaint, toAdd>>
      /\ ins.op \in {"const", "move", "binop", "div", "binop_lit", "new", "array_length", "iget"}
  BY DEF Assign, On
<1>2. me \in Branches /\ ins.dst \in Regs(method) /\ ins.left \in Regs(method)
      /\ ins.right \in Regs(method) /\ ins.op # "div"
  BY <1>1, TurnFacts, InsFacts DEF Turn, Uses, ins
<1>3. ASSUME NEW c \in Configurations, Knows(me, c), IsNumber(Result)
      PROVE  IsNumber(Written(ins, c))
  <2>1. \A r \in Regs(method) : IsNumber(Reg(r)) => IsNumber(c.regs[r])
    BY <1>3 DEF Knows, Reg
  <2>2. CASE ins.op = "const" BY <2>2 DEF Written, Number, IsNumber
  <2>3. CASE ins.op = "move" BY <2>1, <2>3, <1>2, <1>3 DEF Written, Result
  <2>4. CASE ins.op = "binop"
    <3>1. Written(ins, c) = Sum(ins.how, c.regs[ins.left], c.regs[ins.right]) BY <2>4 DEF Written
    <3>2. Result = Arithmetic(ins.how, Reg(ins.left), Reg(ins.right)) BY <2>4 DEF Result
    <3> QED BY <3>1, <3>2, <2>1, <1>2, <1>3, ArithmeticKnown
  <2>5. CASE ins.op = "binop_lit"
    <3>1. \/ Written(ins, c) = Sum("sub", Number(ins.lit), c.regs[ins.left])
          \/ Written(ins, c) = Sum(ins.how, c.regs[ins.left], Number(ins.lit))
      BY <2>5 DEF Written
    <3>2. Result = Arithmetic(ins.how, Reg(ins.left), Number(Literal(ins))) BY <2>5 DEF Result
    <3>3. IsNumber(Number(ins.lit)) BY DEF IsNumber, Number
    <3> QED BY <3>1, <3>2, <3>3, <2>1, <1>2, <1>3, ArithmeticKnown
  <2>6. CASE ins.op \in {"new", "array_length", "iget"}
    BY <2>6, <1>3 DEF Result, IsNumber, Object, Invalid, Empty
  <2> QED BY <1>1, <1>2, <2>2, <2>3, <2>4, <2>5, <2>6
<1>4. Result \in Values BY <1>1, ResultTyped
<1>5. b \in Branches BY <1>1, <1>4, WriteTyped
<1>6. b.pc = me.pc /\ b.finished = me.finished /\ b.regs = [me.regs EXCEPT ![ins.dst] = Result]
  BY <1>2 DEF Branches
<1>7. ins.op \in Writing \ {"div"} /\ ins.op \notin Sought BY <1>1, <1>2 DEF Writing, Sought
<1> HIDE DEF b
<1> QED BY <1>1, <1>3, <1>5, <1>6, <1>7, WriteSearch

LEMMA StaticGetSearch ==
  ASSUME Inv, FollowInv, CoverInv, runs \subseteq Configurations, StaticGet, runs' = runs,
         passed' = passed, query \in {"calls", "reads"}
  PROVE  FollowInv' /\ CoverInv'
<1> DEFINE w == [me EXCEPT !.regs[ins.dst] = Empty]
           b == [me EXCEPT !.regs[ins.dst] = Empty, !.last = Read(me.pc)]
<1>1. Turn /\ ins.op = "sget" /\ Leaves(Passed(b)) /\ UNCHANGED <<already, toTaint, toAdd>>
  BY DEF StaticGet, On
<1>2. me \in Branches /\ ins.dst \in Regs(method) /\ me.pc \in Int
  BY <1>1, TurnFacts, InsFacts DEF Turn, Branches
<1>3. Empty \in Values /\ Read(me.pc) \in LastInstructions
  BY <1>2 DEF Empty, Values, Read, LastInstructions
<1>4. w \in Branches BY <1>1, <1>3, WriteTyped
<1>5. w.pc = me.pc /\ w.finished = me.finished /\ w.regs = [me.regs EXCEPT ![ins.dst] = Empty]
  BY <1>2 DEF Branches
<1>6. b = [w EXCEPT !.last = Read(me.pc)] BY <1>2 DEF Branches
<1> HIDE DEF w, b
<1>7. b \in Branches BY <1>1, <1>3, <1>4, <1>6, NoteTyped DEF Turn
<1>8. b.pc = w.pc /\ b.finished = w.finished /\ b.regs = w.regs /\ b.last = Read(me.pc)
  BY <1>4, <1>6 DEF Branches
<1>9. ins.op \in Writing \ {"div"} /\ ~IsNumber(Empty) BY <1>1 DEF Writing, IsNumber, Empty
<1>10. ins.op \in Sought => HasNoted(b, me.pc)
  BY <1>1, <1>8 DEF Sought, HasNoted, SoughtKind, Read
<1> QED BY <1>1, <1>5, <1>7, <1>8, <1>9, <1>10, WriteSearch

LEMMA MoveResultSearch ==
  ASSUME Inv, FollowInv, CoverInv, ResultsInv, ~Uses({"keep"}), runs \subseteq Configurations,
         MoveResult, runs' = runs, passed' = passed
  PROVE  FollowInv' /\ CoverInv'
<1> DEFINE b == [me EXCEPT !.regs[ins.dst] = Variable]
<1>1. Turn /\ InLoop /\ ins.op = "move_result" /\ UNCHANGED <<already, toTaint, toAdd>>
      /\ Leaves(Passed(IF me.last = None THEN me ELSE b))
  BY DEF MoveResult, On, Turn
<1>2. me \in Branches /\ ins.dst \in Regs(method) /\ at \in DOMAIN branches
  BY <1>1, TurnFacts, InsFacts
<1>3. me.last # None
  <2>1. me.pc \in Address(method) /\ method.code[me.pc].op = "move_result"
    BY <1>1, InsFacts DEF ins
  <2>2. HasResult(me) BY <1>2 DEF ResultsInv, me
  <2>3. me.pc # 0 BY <2>1, ResultFacts
  <2>4. me.prev # me.pc BY <1>1, <2>3 DEF Turn, Stuck
  <2> QED BY <2>1, <2>2, <2>4 DEF HasResult
<1>4. Leaves(Passed(b)) BY <1>1, <1>3
<1>5. Variable \in Values /\ ~IsNumber(Variable) BY DEF Variable, Values, IsNumber
<1>6. b \in Branches BY <1>1, <1>5, WriteTyped
<1>7. b.pc = me.pc /\ b.finished = me.finished /\ b.regs = [me.regs EXCEPT ![ins.dst] = Variable]
  BY <1>2 DEF Branches
<1> HIDE DEF b
<1>8. ins.op \in Writing \ {"div"} /\ ins.op \notin Sought BY <1>1 DEF Writing, Sought
<1> QED BY <1>1, <1>4, <1>5, <1>6, <1>7, <1>8, WriteSearch

LEMMA NotImplSearch ==
  ASSUME Inv, FollowInv, CoverInv, runs \subseteq Configurations, NotImpl, runs' = runs,
         passed' = passed
  PROVE  FollowInv' /\ CoverInv'
<1> DEFINE b == [me EXCEPT !.regs = [r \in Regs(method) |-> Empty]]
<1>1. Turn /\ InLoop /\ ins.op = "not_impl" /\ Leaves(Passed(b)) /\ UNCHANGED <<already, toAdd>>
  BY DEF NotImpl, On, Turn
<1>2. me \in Branches /\ Empty \in Values BY <1>1, TurnFacts DEF Empty, Values
<1>3. b \in Branches /\ b.pc = me.pc /\ b.finished = me.finished
      /\ \A r \in Regs(method) : ~IsNumber(b.regs[r])
  BY <1>2 DEF Branches, IsNumber, Empty
<1> HIDE DEF b
<1>4. PICK c \in runs : Knows(me, c) /\ c \in Configurations BY <1>1, TurnFollowed
<1>5. c.pc = me.pc /\ me.pc \in Address(method) BY <1>1, <1>4 DEF Knows, Turn
<1>6. PICK d : d = [[c EXCEPT !.pc = @ + 1] EXCEPT !.regs[ins.dst] = Written(ins, c)] OBVIOUS
<1>7. Successors(c) = {d}
  BY <1>1, <1>5, <1>6 DEF Successors, Throws, AtTestOf, Writing, ins
<1>8. d \in Ahead /\ d.pc = c.pc + 1 BY <1>4, <1>6, <1>7, AheadOf DEF Configurations
<1>9. Passed(b).pc = b.pc + 1 /\ Passed(b).regs = b.regs BY <1>3 DEF Passed, Branches
<1>10. Followed(Passed(b), Ahead) BY <1>3, <1>5, <1>8, <1>9 DEF Followed, Knows
<1> QED BY <1>1, <1>3, <1>10, PassSearch DEF Sought

\* A branch that goes on with the registers it has follows the execution that goes the same way.
LEMMA FollowedOn ==
  ASSUME NEW c \in Configurations, Knows(me, c), NEW x, [c EXCEPT !.pc = @ + x] \in Ahead,
         NEW b, b.pc = me.pc + x, b.regs = me.regs
  PROVE  Followed(b, Ahead)
<1>1. PICK d : d = [c EXCEPT !.pc = @ + x] OBVIOUS
<1>2. d.pc = c.pc + x /\ d.regs = c.regs BY <1>1 DEF Configurations
<1> QED BY <1>1, <1>2 DEF Followed, Knows

LEMMA KeepSearch ==
  ASSUME Inv, FollowInv, CoverInv, runs \subseteq Configurations, Turn, NEW b \in Branches,
         ins.op \in {"invoke", "invoke_interface", "nop"},
         b.pc = me.pc, b.finished = me.finished, b.regs = me.regs,
         ins.op \in Sought => HasNoted(b, me.pc),
         Leaves(Passed(b)), runs' = runs, passed' = passed, UNCHANGED <<already, toAdd>>
  PROVE  FollowInv' /\ CoverInv'
<1>1. InLoop /\ me.pc \in Address(method) BY DEF Turn
<1>2. PICK c \in runs : Knows(me, c) /\ c \in Configurations BY <1>1, TurnFollowed
<1>3. c.pc = me.pc BY <1>2 DEF Knows
<1>4. Successors(c) = {[c EXCEPT !.pc = @ + 1]}
  BY <1>1, <1>3 DEF Successors, Throws, AtTestOf, Writing, ins
<1>5. [c EXCEPT !.pc = @ + 1] \in Ahead BY <1>2, <1>4, AheadOf
<1>6. Passed(b).pc = me.pc + 1 /\ Passed(b).regs = me.regs BY DEF Passed, Branches
<1>7. Followed(Passed(b), Ahead) BY <1>2, <1>5, <1>6, FollowedOn
<1> QED BY <1>7, PassSearch

LEMMA IgnoredSearch ==
  ASSUME Inv, FollowInv, CoverInv, runs \subseteq Configurations, ~Uses({"switch", "keep", "div"}),
         Ignored, runs' = runs, passed' = passed
  PROVE  FollowInv' /\ CoverInv'
<1>1. /\ Turn /\ InLoop /\ ins.op \in {"nop", "keep"} /\ Leaves(Passed(me))
      /\ UNCHANGED <<already, toAdd>>
  BY DEF Ignored, On, Turn
<1>2. me \in Branches /\ me.pc \in Address(method) BY <1>1, TurnFacts, InsFacts
<1>3. ins.op = "nop" BY <1>1, <1>2 DEF Uses, ins
<1> QED BY <1>1, <1>2, <1>3, KeepSearch DEF Sought

LEMMA InvokeSearch ==
  ASSUME Inv, FollowInv, CoverInv, runs \subseteq Configurations, query \in {"calls", "reads"},
         Invoke, runs' = runs, passed' = passed
  PROVE  FollowInv' /\ CoverInv'
<1> DEFINE last == Call(me.pc, Arguments)
           b    == [me EXCEPT !.last = last]
<1>1. Turn /\ InLoop /\ ins.op = "invoke" /\ Leaves(Passed(b)) /\ UNCHANGED <<already, toAdd>>
  BY DEF Invoke, On, Turn
<1>2. me \in Branches BY <1>1, TurnFacts
<1>3. last \in LastInstructions BY <1>1, ArgumentsTyped DEF Call, LastInstructions
<1>4. last.kind = "call" /\ last.pc = me.pc BY DEF Call
<1> HIDE DEF last
<1>5. /\ b \in Branches /\ b.pc = me.pc /\ b.finished = me.finished /\ b.regs = me.regs
      /\ b.last = last
  BY <1>2, <1>3, NoteTyped DEF Branches
<1>6. ins.op \in Sought => HasNoted(b, me.pc)
  BY <1>1, <1>4, <1>5 DEF Sought, HasNoted, SoughtKind
<1> QED BY <1>1, <1>5, <1>6, KeepSearch

\* A call of an interface is noted unless its method is inherited.
LEMMA InvokeInterfaceSearch ==
  ASSUME Inv, FollowInv, CoverInv, runs \subseteq Configurations, query \in {"calls", "reads"},
         \A a \in Address(method) :
           method.code[a].op = "invoke_interface" => method.code[a].how # "inherited",
         InvokeInterface, runs' = runs, passed' = passed
  PROVE  FollowInv' /\ CoverInv'
<1> DEFINE known == Call(me.pc, [Arguments EXCEPT ![1] = Object])
           last  == IF ins.how = "several" THEN Call(me.pc, Arguments)
                    ELSE IF ins.how = "own" \/ me.last = None THEN known ELSE me.last
           b     == [me EXCEPT !.last = last]
<1>1. /\ Turn /\ InLoop /\ ins.op = "invoke_interface" /\ Leaves(Passed(b))
      /\ UNCHANGED <<already, toAdd>>
  BY DEF InvokeInterface, On, Turn
<1>2. me \in Branches /\ me.pc \in Address(method) BY <1>1, TurnFacts, InsFacts
<1>3. ins.how \in {"several", "own"}
  <2>1. WellFormed(ins, method) BY <1>1, InsFacts
  <2> QED BY <2>1, <1>1, <1>2 DEF WellFormed, ins
<1>4. known \in LastInstructions /\ Call(me.pc, Arguments) \in LastInstructions
  <2>1. Arguments \in Seq(Values) /\ me.pc \in Int BY <1>1, ArgumentsTyped
  <2>2. [Arguments EXCEPT ![1] = Object] \in Seq(Values)
    <3>1. Len(Arguments) \in Nat /\ Arguments \in [1 .. Len(Arguments) -> Values] BY <2>1, SeqElim
    <3>2. Object \in Values BY DEF Object, Values
    <3>3. [Arguments EXCEPT ![1] = Object] \in [1 .. Len(Arguments) -> Values] BY <3>1, <3>2
    <3> QED BY <3>1, <3>3, SeqIntro
  <2> QED BY <1>2, <2>1, <2>2 DEF Call, LastInstructions
<1>5. /\ known.kind = "call" /\ known.pc = me.pc
      /\ Call(me.pc, Arguments).kind = "call" /\ Call(me.pc, Arguments).pc = me.pc
  BY DEF Call
<1> HIDE DEF known
<1>6. last \in {known, Call(me.pc, Arguments)}
  <2>1. CASE ins.how = "several" BY <2>1
  <2>2. CASE ins.how = "own" BY <2>2
  <2> QED BY <2>1, <2>2, <1>3
<1>7. last \in LastInstructions /\ last.kind = "call" /\ last.pc = me.pc BY <1>4, <1>5, <1>6
<1> HIDE DEF last
<1>8. /\ b \in Branches /\ b.pc = me.pc /\ b.finished = me.finished /\ b.regs = me.regs
      /\ b.last = last
  BY <1>2, <1>7, NoteTyped DEF Branches
<1>9. ins.op \in Sought => HasNoted(b, me.pc)
  BY <1>1, <1>7, <1>8 DEF Sought, HasNoted, SoughtKind
<1> QED BY <1>1, <1>8, <1>9, KeepSearch

LEMMA GotoSearch ==
  ASSUME Inv, FollowInv, CoverInv, runs \subseteq Configurations, Goto, runs' = runs,
         passed' = passed
  PROVE  FollowInv' /\ CoverInv'
<1> DEFINE b == [me EXCEPT !.pc = @ + ins.to[1]]
<1>1. Turn /\ InLoop /\ ins.op = "goto" /\ Leaves(b) /\ UNCHANGED <<already, toAdd>>
      /\ me.pc \in Address(method) /\ ~me.finished
  BY DEF Goto, On, Turn
<1>2. me \in Branches /\ ins.to[1] \in Int BY <1>1, TurnFacts, OffsetTyped
<1>3. /\ b \in Branches /\ b.pc = me.pc + ins.to[1] /\ b.regs = me.regs /\ ~b.finished
  BY <1>1, <1>2 DEF Branches
<1> HIDE DEF b
<1>4. PICK c \in runs : Knows(me, c) /\ c \in Configurations BY <1>1, TurnFollowed
<1>5. c.pc = me.pc BY <1>4 DEF Knows
<1>6. Successors(c) = {[c EXCEPT !.pc = @ + ins.to[1]]}
  BY <1>1, <1>5 DEF Successors, Throws, AtTestOf, Writing, ins
<1>7. [c EXCEPT !.pc = @ + ins.to[1]] \in Ahead BY <1>4, <1>6, AheadOf
<1>8. Followed(b, Ahead) BY <1>3, <1>4, <1>7, FollowedOn
<1>9. After(me.pc) = {b.pc} BY <1>1, <1>3 DEF After, ins
<1> QED BY <1>1, <1>3, <1>8, <1>9, QuietSearch DEF Sought

LEMMA FinishSearch ==
  ASSUME Inv, FollowInv, CoverInv, runs \subseteq Configurations, Finish, runs' = runs,
         passed' = passed
  PROVE  FollowInv' /\ CoverInv'
<1> DEFINE b == [me EXCEPT !.finished = TRUE]
<1>1. InLoop /\ Leaves(b) /\ UNCHANGED <<already, toAdd>> BY DEF Finish
<1>2. me \in Branches BY <1>1, TurnFacts
<1>3. b \in Branches /\ b.pc = me.pc /\ b.regs = me.regs BY <1>2 DEF Branches
<1> HIDE DEF b
<1>4. PICK c \in runs : Knows(me, c) BY <1>1, TurnFollowed
<1>5. Followed(b, Ahead) BY <1>3, <1>4, AheadOf DEF Followed, Knows
<1>6. FollowInv' BY <1>1, <1>3, <1>5, QuietFollows
<1>7. PICK D \in SUBSET Address(method) : Covers(D) BY DEF CoverInv
<1>8. Address(method)' = Address(method) BY <1>1 DEF Leaves, fixed, Address
<1>9. CASE ~(~Stuck /\ me.pc \in Address(method))
  <2>1. \A a \in Address(method) : ~Live(me, a) BY <1>9 DEF Live, Stuck
  <2>2. Covers(D)' BY <1>1, <1>3, <1>7, <2>1, TurnCovers
  <2> QED BY <1>6, <1>8, <2>2 DEF CoverInv
<1>10. CASE ~Stuck /\ me.pc \in Address(method)
  <2>1. ins.op = "return" BY <1>10 DEF Finish
  <2>2. PICK E \in SUBSET Address(method) : E = D \cup {me.pc} BY <1>10
  <2>3. \A a \in Address(method) : Live(me, a) => a \in E BY <2>2 DEF Live
  <2>4. \A a \in E \ D : a = me.pc /\ method.code[a] = ins BY <2>2 DEF ins
  <2>5. After(me.pc) = {} BY <2>1 DEF After, ins
  <2>6. \A a \in E \ D : \A s \in After(a) \cap Address(method) : Goes(E, b, toAdd', s)
    BY <2>4, <2>5
  <2>7. \A a \in E \ D : method.code[a].op \in Sought => HasNoted(b, a) BY <2>1, <2>4 DEF Sought
  <2>8. Covers(E)' BY <1>1, <1>3, <1>7, <2>2, <2>3, <2>6, <2>7, TurnCovers
  <2> QED BY <1>6, <1>8, <2>8 DEF CoverInv
<1> QED BY <1>9, <1>10

\* The tests of an execution that is followed are all undecided.
LEMMA TestOpen ==
  ASSUME Inv, FollowInv, runs \subseteq Configurations, AtTest,
         \A c \in runs : AtTestOf(c) => Outcomes(method.code[c.pc], c) = BOOLEAN
  PROVE  /\ ~Decided
         /\ \A b : b.regs = me.regs /\ (b.pc = me.pc + 1 \/ b.pc = me.pc + ins.to[1])
                     => Followed(b, Ahead)
<1>1. Turn /\ InLoop /\ me.pc \in Address(method) /\ ins.op \in {"test", "test_zero"}
  BY DEF AtTest, On, Turn
<1>2. PICK c \in runs : Knows(me, c) /\ c \in Configurations BY <1>1, TurnFollowed
<1>3. c.pc = me.pc /\ AtTestOf(c) /\ method.code[c.pc] = ins
  BY <1>1, <1>2 DEF Knows, AtTestOf, ins
<1>4. Outcomes(ins, c) = BOOLEAN BY <1>3
<1>5. ~Decided
  <2> SUFFICES ASSUME Decided PROVE FALSE
    OBVIOUS
  <2>1. ins.left \in Regs(method) /\ ins.right \in Regs(method) BY <1>1, InsFacts
  <2>2. IsNumber(c.regs[ins.left]) /\ (ins.op = "test" => IsNumber(c.regs[ins.right]))
    BY <2>1, <1>2 DEF Decided, Left, Right, Knows, Reg
  <2>3. IsNumber(Number(0)) BY DEF IsNumber, Number
  <2>4. PICK h : Outcomes(ins, c) = {h} BY <2>2, <2>3 DEF Outcomes
  <2>5. TRUE \in {h} /\ FALSE \in {h} BY <2>4, <1>4
  <2> QED BY <2>5
<1>6. Successors(c) = {[c EXCEPT !.pc = @ + (IF o THEN ins.to[1] ELSE 1)] : o \in BOOLEAN}
  BY <1>1, <1>3, <1>4 DEF Successors, Throws, Writing
<1>7. [c EXCEPT !.pc = @ + 1] \in Ahead /\ [c EXCEPT !.pc = @ + ins.to[1]] \in Ahead
  <2>1. Successors(c) \subseteq Ahead BY <1>2, AheadOf
  <2>2. [c EXCEPT !.pc = @ + (IF TRUE THEN ins.to[1] ELSE 1)] \in Successors(c)
        /\ [c EXCEPT !.pc = @ + (IF FALSE THEN ins.to[1] ELSE 1)] \in Successors(c)
    BY <1>6
  <2> QED BY <2>1, <2>2
<1>8. \A b : b.regs = me.regs /\ (b.pc = me.pc + 1 \/ b.pc = me.pc + ins.to[1])
               => Followed(b, Ahead)
  BY <1>2, <1>7, FollowedOn
<1> QED BY <1>5, <1>8

\* A test met again: the way it goes behind the test it covers, the other was left to a fork.
LEMMA TestAgainSearch ==
  ASSUME Inv, FollowInv, CoverInv, runs \subseteq Configurations, TestAgain, runs' = runs,
         passed' = passed,
         \A c \in runs : AtTestOf(c) => Outcomes(method.code[c.pc], c) = BOOLEAN
  PROVE  FollowInv' /\ CoverInv'
<1> DEFINE b == [me EXCEPT !.pc = @ + 1]
<1>1. /\ AtTest /\ InLoop /\ Branched /\ Leaves(b) /\ UNCHANGED <<already, toAdd>>
      /\ me.pc \in Address(method)
  BY DEF TestAgain, AtTest, On, Turn
<1>2. me \in Branches BY <1>1, TurnFacts
<1>3. b \in Branches /\ b.pc = me.pc + 1 /\ b.regs = me.regs BY <1>2 DEF Branches
<1> HIDE DEF b
<1>4. Followed(b, Ahead) BY <1>1, <1>3, TestOpen
<1>5. FollowInv' BY <1>1, <1>3, <1>4, QuietFollows
<1>6. PICK D \in SUBSET Address(method) : Covers(D) BY DEF CoverInv
<1>7. me.pc \in D
  <2>1. <<at, me.pc>> \in already BY <1>1 DEF Branched
  <2>2. \A x \in already : x[2] \in D BY <1>6 DEF Covers
  <2> QED BY <2>1, <2>2
<1>8. \A a \in Address(method) : Live(me, a) => a \in D BY <1>7 DEF Live
<1>9. Covers(D)' BY <1>1, <1>3, <1>6, <1>8, TurnCovers
<1>10. Address(method)' = Address(method) BY <1>1 DEF Leaves, fixed, Address
<1> QED BY <1>5, <1>9, <1>10 DEF CoverInv

LEMMA TestUndecidedSearch ==
  ASSUME Inv, FollowInv, CoverInv, runs \subseteq Configurations, TestUndecided, runs' = runs,
         passed' = passed,
         \A c \in runs : AtTestOf(c) => Outcomes(method.code[c.pc], c) = BOOLEAN
  PROVE  FollowInv' /\ CoverInv'
<1> DEFINE b    == [Counted EXCEPT !.tainted = @ \/ Doubtful]
           zero == [a \in Address(method) |-> 0]
           new  == [Fork(b, ins.to[1]) EXCEPT !.branch.loops = zero]
<1>1. /\ AtTest /\ Turn /\ InLoop /\ ins.op \in {"test", "test_zero"}
      /\ toAdd' = Append(toAdd, new) /\ Leaves(Passed(b))
      /\ already' = already \cup {<<at, me.pc>>}
      /\ me.pc \in Address(method) /\ ~me.finished
  BY DEF TestUndecided, AtTest, On, Turn
<1>2. me \in Branches /\ ins.to[1] \in Int BY <1>1, TurnFacts, OffsetTyped
<1>3. /\ Counted \in Branches /\ Counted.regs = me.regs /\ Counted.pc = me.pc
      /\ Counted.finished = me.finished
  BY <1>1, <1>2, CountedTyped DEF Counted, Branches
<1>4. (Counted.tainted \/ Doubtful) \in BOOLEAN OBVIOUS
<1>5. b \in Branches /\ b.regs = me.regs /\ b.pc = me.pc /\ ~b.finished
  BY <1>1, <1>3, <1>4 DEF Branches
<1> HIDE DEF b
<1>6. /\ Passed(b) \in Branches /\ Passed(b).regs = me.regs /\ Passed(b).pc = me.pc + 1
      /\ ~Passed(b).finished
  BY <1>1, <1>5, PassedTyped DEF Passed, Branches
<1>7. /\ new.branch.regs = me.regs /\ new.branch.pc = me.pc + ins.to[1]
      /\ ~new.branch.finished /\ new.branch.prev = me.pc /\ new.from = me.pc
  <2> DEFINE f == [b EXCEPT !.parent = at, !.prev = me.pc, !.pc = @ + ins.to[1]]
  <2>1. /\ f.regs = me.regs /\ f.pc = me.pc + ins.to[1] /\ ~f.finished /\ f.prev = me.pc
    BY <1>5 DEF Branches
  <2>2. f \in Branches BY <1>1, <1>2, <1>5, ForkTyped DEF Fork, ForkRecords
  <2>3. new.branch = [f EXCEPT !.loops = zero] /\ new.from = me.pc BY DEF Fork
  <2> HIDE DEF f, new
  <2> QED BY <2>1, <2>2, <2>3 DEF Branches
<1> HIDE DEF new
<1>8. Followed(Passed(b), Ahead) /\ Followed(new.branch, Ahead) BY <1>1, <1>6, <1>7, TestOpen
<1>9. /\ \A k \in DOMAIN toAdd' : toAdd'[k] = new \/ (k \in DOMAIN toAdd /\ toAdd'[k] = toAdd[k])
      /\ \A k \in DOMAIN toAdd : k \in DOMAIN toAdd' /\ toAdd'[k] = toAdd[k]
      /\ \E k \in DOMAIN toAdd' : toAdd'[k] = new
  <2>1. toAdd \in Seq(ForkRecords) BY DEF Inv, TypeOK, ForkRecords
  <2>2. Len(toAdd) + 1 \in DOMAIN toAdd' /\ toAdd'[Len(toAdd) + 1] = new BY <2>1, <1>1
  <2>3. \A k \in DOMAIN toAdd' : toAdd'[k] = new \/ (k \in DOMAIN toAdd /\ toAdd'[k] = toAdd[k])
    BY <2>1, <1>1
  <2>4. \A k \in DOMAIN toAdd : k \in DOMAIN toAdd' /\ toAdd'[k] = toAdd[k] BY <2>1, <1>1
  <2> QED BY <2>2, <2>3, <2>4
<1>10. \A k \in DOMAIN toAdd' : Followed(toAdd'[k].branch, Ahead) BY <1>8, <1>9 DEF FollowInv
<1>11. FollowInv' BY <1>1, <1>6, <1>8, <1>10, TurnFollows
<1>12. PICK D \in SUBSET Address(method) : Covers(D) BY DEF CoverInv
<1>13. PICK E \in SUBSET Address(method) : E = D \cup {me.pc} BY <1>1
<1>14. \A a \in Address(method) : Live(me, a) => a \in E BY <1>13 DEF Live
<1>15. \A x \in already' : x \in already \/ x[2] \in E BY <1>1, <1>13
<1>16. \A k \in DOMAIN toAdd' :
         toAdd'[k] \in {toAdd[l] : l \in DOMAIN toAdd} \/ toAdd'[k].from \in E
  BY <1>7, <1>9, <1>13
<1>17. \A k \in DOMAIN toAdd : \E l \in DOMAIN toAdd' : toAdd'[l] = toAdd[k] BY <1>9
<1>18. ASSUME NEW a \in E \ D, NEW s \in After(a) \cap Address(method)
       PROVE  Goes(E, Passed(b), toAdd', s)
  <2>1. a = me.pc BY <1>13
  <2>2. s = me.pc + 1 \/ s = me.pc + ins.to[1] BY <2>1, <1>1 DEF After, ins
  <2>3. CASE s = me.pc + 1 BY <2>3, <1>6 DEF Goes
  <2>4. CASE s = me.pc + ins.to[1]
    <3>1. PICK k \in DOMAIN toAdd' : toAdd'[k] = new BY <1>9
    <3> QED BY <3>1, <2>4, <1>7 DEF Goes
  <2> QED BY <2>2, <2>3, <2>4
<1>19. \A a \in E \ D : method.code[a].op \notin Sought BY <1>1, <1>13 DEF ins, Sought
<1>20. Covers(E)'
  BY <1>1, <1>6, <1>12, <1>13, <1>14, <1>15, <1>16, <1>17, <1>18, <1>19, TurnCovers
<1>21. Address(method)' = Address(method) BY <1>1 DEF Leaves, fixed, Address
<1> QED BY <1>11, <1>20, <1>21 DEF CoverInv

LEMMA SkipFinishedSearch ==
  ASSUME Inv, FollowInv, CoverInv, SkipFinished, runs' = runs, passed' = passed
  PROVE  FollowInv' /\ CoverInv'
<1>1. /\ InLoop /\ me.finished /\ at' = at + 1 /\ method' = method
      /\ UNCHANGED <<branches, already, phase, query, toAdd, found>>
  BY DEF SkipFinished, fixed
<1>2. at \in DOMAIN branches /\ at \in Nat /\ phase = "loop" BY <1>1, TurnFacts
<1>3. DOMAIN branches \subseteq Nat
  <2>1. DOMAIN branches = 1 .. Len(branches) /\ Len(branches) \in Nat BY SeqElim DEF Inv, TypeOK
  <2> QED BY <2>1
<1>4. Ahead' = Ahead /\ runs \subseteq Ahead BY <1>1, SameRuns DEF Ahead
<1>6. ASSUME NEW i \in DOMAIN branches
      PROVE  Followed(branches[i], IF i < at' THEN Ahead ELSE runs)
  <2>1. Followed(branches[i], IF i < at THEN Ahead ELSE runs) BY DEF FollowInv
  <2>2. i \in Nat /\ at' = at + 1 /\ at \in Nat BY <1>1, <1>2, <1>3
  <2>3. i < at => i < at' BY <2>2
  <2> QED BY <2>1, <2>3, <1>4 DEF Followed
<1>7. FollowInv'
  <2>1. \A k \in DOMAIN toAdd : Followed(toAdd[k].branch, Ahead) BY DEF FollowInv
  <2> QED BY <2>1, <1>1, <1>6, FollowIntro
<1>8. PICK D \in SUBSET Address(method) : Covers(D) BY DEF CoverInv
<1>9. ASSUME NEW a, Due(a) PROVE Due(a)'
  <2>1. PICK i \in DOMAIN branches : at <= i /\ Live(branches[i], a) BY <1>9 DEF Due
  <2>2. i # at BY <2>1, <1>1 DEF Live, me
  <2>3. at' <= i BY <2>1, <2>2, <1>1, <1>2, <1>3
  <2> QED BY <2>1, <2>3, <1>1 DEF Due, Live
<1>10. ASSUME NEW a, Pending(a) PROVE Pending(a)'
  <2>1. PICK i \in DOMAIN branches : i < at /\ HasNoted(branches[i], a) BY <1>2, <1>10 DEF Pending
  <2>2. i < at' BY <2>1, <1>1, <1>2, <1>3
  <2> QED BY <2>1, <2>2, <1>1, <1>2 DEF Pending, HasNoted, SoughtKind
<1>11. \A a : (Awaited(a)' <=> Awaited(a)) /\ After(a)' = After(a)
  BY <1>1 DEF Awaited, Live, After
<1>12. Address(method)' = Address(method) /\ Sought' = Sought BY <1>1 DEF Address, Sought
<1>13. Covers(D)' BY <1>1, <1>8, <1>9, <1>10, <1>11, <1>12 DEF Covers
<1> QED BY <1>7, <1>8, <1>12, <1>13 DEF CoverInv

(***************************************************************************)
(* The other steps                                                         *)
(***************************************************************************)
\* At the end of a round no branch is lost, and below the limit no fork.
LEMMA RoundKeeps ==
  ASSUME Inv, EndLoop
  PROVE  /\ Len(branches) <= Len(branches')
         /\ \A i \in DOMAIN branches : i \in DOMAIN branches' /\ branches'[i] = Tainted[i]
         /\ Len(branches) < BranchLimit =>
              \A k \in DOMAIN toAdd : \E i \in DOMAIN branches' : branches'[i] = toAdd[k].branch
<1> DEFINE new == [k \in DOMAIN Forks |-> Forks[k].branch]
           S   == {Tainted[j] : j \in DOMAIN branches} \cup {Forks[k].branch : k \in DOMAIN Forks}
<1>1. branches \in Seq(Branches) /\ toAdd \in Seq(ForkRecords) /\ branches' = Tainted \o new
  BY DEF EndLoop, Inv, TypeOK, ForkRecords
<1>2. Forks \in Seq(ForkRecords) /\ (Len(branches) < BranchLimit => Forks = toAdd)
  <2>1. Forks = toAdd \/ Forks = <<>> BY DEF Forks
  <2>2. Len(branches) < BranchLimit => Forks = toAdd BY DEF Forks
  <2> QED BY <2>1, <2>2, <1>1
<1>3. Len(branches) \in Nat /\ DOMAIN branches = 1 .. Len(branches) BY <1>1, SeqElim
<1>4. Len(Forks) \in Nat /\ DOMAIN Forks = 1 .. Len(Forks) BY <1>2, SeqElim
<1>5. Tainted \in [1 .. Len(branches) -> S] /\ new \in [1 .. Len(Forks) -> S]
  BY <1>3, <1>4 DEF Tainted
<1>6. \A k \in DOMAIN Forks : new[k] = Forks[k].branch OBVIOUS
<1> HIDE DEF S, new
<1>7. /\ Tainted \in Seq(S) /\ Len(Tainted) = Len(branches)
      /\ new \in Seq(S) /\ Len(new) = Len(Forks)
  BY <1>3, <1>4, <1>5, SeqIntro
<1>8. /\ branches' \in Seq(S) /\ Len(branches') = Len(branches) + Len(Forks)
      /\ \A j \in 1 .. Len(branches) : branches'[j] = Tainted[j]
      /\ \A k \in 1 .. Len(Forks) : branches'[Len(branches) + k] = new[k]
  <2>1. /\ Len(Tainted \o new) = Len(Tainted) + Len(new) /\ Tainted \o new \in Seq(S)
        /\ \A j \in 1 .. Len(Tainted) : (Tainted \o new)[j] = Tainted[j]
        /\ \A k \in 1 .. Len(new) : (Tainted \o new)[Len(Tainted) + k] = new[k]
    <3>1. Tainted \in Seq(S) /\ new \in Seq(S) BY <1>7
    <3> QED BY <3>1, SeqConcat
  <2> QED BY <2>1, <1>1, <1>7
<1>9. DOMAIN branches' = 1 .. Len(branches) + Len(Forks)
  <2>1. DOMAIN branches' = 1 .. Len(branches') BY <1>8, SeqElim
  <2> QED BY <2>1, <1>8
<1>10. Len(branches) <= Len(branches') BY <1>3, <1>4, <1>8
<1>11. \A i \in DOMAIN branches : i \in DOMAIN branches' /\ branches'[i] = Tainted[i]
  BY <1>3, <1>4, <1>8, <1>9
<1>12. ASSUME NEW k \in DOMAIN Forks
       PROVE  \E i \in DOMAIN branches' : branches'[i] = Forks[k].branch
  <2>1. Len(branches) + k \in DOMAIN branches' BY <1>3, <1>4, <1>9
  <2>2. branches'[Len(branches) + k] = Forks[k].branch BY <1>4, <1>6, <1>8
  <2> QED BY <2>1, <2>2
<1> QED BY <1>2, <1>10, <1>11, <1>12

\* Tainting changes nothing else.
LEMMA TaintedFacts ==
  ASSUME Inv, NEW i \in DOMAIN branches
  PROVE  /\ Tainted[i].pc = branches[i].pc /\ Tainted[i].prev = branches[i].prev
         /\ Tainted[i].finished = branches[i].finished /\ Tainted[i].regs = branches[i].regs
         /\ Tainted[i].last = branches[i].last
<1> DEFINE t == branches[i].tainted \/ i \in Reached(toTaint)
<1>1. branches[i] \in Branches
  <2>1. branches \in Seq(Branches) BY DEF Inv, TypeOK
  <2> QED BY <2>1
<1>2. Tainted[i] = [branches[i] EXCEPT !.tainted = t] BY DEF Tainted
<1> HIDE DEF t
<1> QED BY <1>1, <1>2 DEF Branches

LEMMA EndLoopSearch ==
  ASSUME Inv, FollowInv, CoverInv, EndLoop, runs' = Ahead, passed' = runs,
         runs \subseteq Configurations, ~Uses({"switch", "keep", "div"}), Len(branches) < BranchLimit,
         query \in {"calls", "reads"}
  PROVE  FollowInv' /\ CoverInv'
<1>1. /\ at > Len(branches) /\ method' = method /\ at' = 1 /\ toAdd' = <<>> /\ query' = query
      /\ phase = "loop" /\ phase' = "collect" /\ found' = found
  BY DEF EndLoop, fixed
<1>2. DOMAIN branches = 1 .. Len(branches) /\ Len(branches) \in Nat /\ at \in Nat
  BY SeqElim DEF Inv, TypeOK
<1>3. \A i \in DOMAIN branches : i < at BY <1>1, <1>2
<1>4. \A i \in DOMAIN branches' : 1 <= i
  <2>1. Inv' BY EndLoopInv
  <2>2. DOMAIN branches' = 1 .. Len(branches') BY <2>1 DEF Inv, TypeOK
  <2> QED BY <2>2
<1>5. ASSUME NEW i \in DOMAIN branches' PROVE Followed(branches'[i], Ahead)
  <2>1. CASE i \in DOMAIN branches /\ branches'[i] = Tainted[i]
    <3>1. Followed(branches[i], Ahead) BY <2>1, <1>3 DEF FollowInv
    <3> QED BY <3>1, <2>1, TaintedFacts DEF Followed, Knows
  <2>2. CASE \E k \in DOMAIN toAdd : branches'[i] = toAdd[k].branch BY <2>2 DEF FollowInv
  <2> QED BY <2>1, <2>2, RoundBranches
<1>6. FollowInv'
  <2>1. ASSUME NEW i \in DOMAIN branches'
        PROVE  \E c \in runs' : Knows(branches'[i], c)
    BY <1>5 DEF Followed
  <2>2. \A i \in DOMAIN branches' : ~(i < at') BY <1>1, <1>4
  <2> QED BY <2>1, <2>2, <1>1 DEF FollowInv, Followed, Knows, Regs
<1>7. PICK D \in SUBSET Address(method) : Covers(D) BY DEF CoverInv
<1>8. \A c \in runs : c.pc \in Address(method) => c.pc \in D
  <2>1. \A a : ~Due(a) BY <1>1, <1>2 DEF Due
  <2> QED BY <2>1, <1>7 DEF Covers
<1>9. ASSUME NEW a, Awaited(a) PROVE \E i \in DOMAIN branches' : Live(branches'[i], a)
  <2>1. CASE \E i \in DOMAIN branches : Live(branches[i], a)
    <3>1. PICK i \in DOMAIN branches : Live(branches[i], a) BY <2>1
    <3>2. i \in DOMAIN branches' /\ branches'[i] = Tainted[i] BY RoundKeeps
    <3>3. Live(Tainted[i], a) BY <3>1, TaintedFacts DEF Live
    <3> QED BY <3>2, <3>3
  <2>2. CASE \E k \in DOMAIN toAdd : Live(toAdd[k].branch, a)
    <3>1. PICK k \in DOMAIN toAdd : Live(toAdd[k].branch, a) BY <2>2
    <3>2. PICK i \in DOMAIN branches' : branches'[i] = toAdd[k].branch BY RoundKeeps
    <3> QED BY <3>1, <3>2
  <2> QED BY <2>1, <2>2, <1>9 DEF Awaited
<1>10. ASSUME NEW c \in Ahead, c.pc \in Address(method)
       PROVE  c.pc \in D \/ \E i \in DOMAIN branches' : Live(branches'[i], c.pc)
  <2>1. CASE c \in runs BY <2>1, <1>8, <1>10
  <2>2. CASE \E d \in runs : c \in Successors(d)
    <3>1. PICK d \in runs : c \in Successors(d) BY <2>2
    <3>2. d.pc \in Address(method) /\ c.pc \in After(d.pc) BY <3>1, SuccessorAfter
    <3>3. d.pc \in D BY <3>2, <1>8
    <3>4. c.pc \in D \/ Awaited(c.pc) BY <3>2, <3>3, <1>7, <1>10 DEF Covers
    <3> QED BY <3>4, <1>9
  <2> QED BY <2>1, <2>2, <1>10 DEF Ahead
<1>11. \A x \in already' : x[2] \in D
  <2> SUFFICES ASSUME NEW x \in already' PROVE x[2] \in D
    OBVIOUS
  <2>1. CASE x \in already BY <2>1, <1>7 DEF Covers
  <2>2. CASE \E k \in DOMAIN Forks : x = <<Len(branches) + k, Forks[k].from>>
    <3>1. PICK k \in DOMAIN Forks : x = <<Len(branches) + k, Forks[k].from>> BY <2>2
    <3>2. Forks = toAdd BY DEF Forks
    <3>3. Forks[k].from \in D BY <3>2, <1>7 DEF Covers
    <3> QED BY <3>1, <3>3
  <2> QED BY <2>1, <2>2 DEF EndLoop
<1>12. ASSUME NEW a, Pending(a) PROVE Pending(a)'
  <2>1. PICK i \in DOMAIN branches : HasNoted(branches[i], a) BY <1>12 DEF Pending
  <2>2. i \in DOMAIN branches' /\ branches'[i] = Tainted[i] BY RoundKeeps
  <2>3. HasNoted(branches'[i], a) BY <2>1, <2>2, TaintedFacts DEF HasNoted
  <2> QED BY <2>2, <2>3, <1>1 DEF Pending, HasNoted, SoughtKind
<1>13. Address(method)' = Address(method) /\ Sought' = Sought BY <1>1 DEF Address, Sought
<1>14. \A a : After(a)' = After(a) BY <1>1 DEF After
<1>15. \A a : (\E i \in DOMAIN branches' : Live(branches'[i], a)) => Due(a)' /\ Awaited(a)'
  BY <1>1, <1>4 DEF Due, Awaited, Live
<1>16. Covers(D)'
  <2>1. ASSUME NEW c \in runs', c.pc \in Address(method) PROVE c.pc \in D \/ Due(c.pc)'
    BY <2>1, <1>10, <1>15
  <2>2. ASSUME NEW a \in D, NEW s \in After(a) \cap Address(method) PROVE s \in D \/ Awaited(s)'
    <3>1. s \in D \/ Awaited(s) BY <1>7 DEF Covers
    <3> QED BY <3>1, <1>9, <1>15
  <2>3. \A k \in DOMAIN toAdd' : toAdd'[k].from \in D BY <1>1
  <2>4. ASSUME NEW a \in D, method.code[a].op \in Sought
        PROVE  (\E f \in found' : f.pc = a) \/ Pending(a)'
    BY <2>4, <1>1, <1>7, <1>12 DEF Covers
  <2>5. \A c \in passed' : c.pc \in Address(method) => c.pc \in D BY <1>8
  <2> QED BY <2>1, <2>2, <2>3, <2>4, <2>5, <1>1, <1>11, <1>13, <1>14 DEF Covers
<1> QED BY <1>6, <1>7, <1>13, <1>16 DEF CoverInv

\* What is pending when the answers are collected is found.
LEMMA CollectFoundSearch ==
  ASSUME Inv, FollowInv, CoverInv, CollectFound, runs' = runs, passed' = passed
  PROVE  FollowInv' /\ CoverInv'
<1>1. /\ method' = method /\ phase = "collect" /\ phase' \in {"loop", "done"}
      /\ UNCHANGED <<branches, already, query, at, toAdd>>
      /\ found' = found \cup {branches[i].last : i \in
                     {j \in DOMAIN branches : branches[j].last.kind = SoughtKind}}
  BY DEF CollectFound, fixed, Again, SoughtKind
<1>2. at = 1 BY <1>1 DEF Inv, TypeOK
<1>5. FollowInv'
  <2>1. /\ \A i \in DOMAIN branches : Followed(branches[i], IF i < at THEN Ahead ELSE runs)
        /\ \A k \in DOMAIN toAdd : Followed(toAdd[k].branch, Ahead)
    BY DEF FollowInv
  <2> QED BY <2>1, <1>1, FollowIntro
<1>6. PICK D \in SUBSET Address(method) : Covers(D) BY DEF CoverInv
<1>7. ASSUME NEW a, (\E f \in found : f.pc = a) \/ Pending(a) PROVE \E f \in found' : f.pc = a
  <2>1. CASE \E f \in found : f.pc = a BY <2>1, <1>1
  <2>2. CASE Pending(a)
    <3>1. PICK i \in DOMAIN branches : HasNoted(branches[i], a) BY <2>2 DEF Pending
    <3> QED BY <3>1, <1>1 DEF HasNoted
  <2> QED BY <2>1, <2>2, <1>7
<1>8. \A a : (Due(a)' <=> Due(a)) /\ (Awaited(a)' <=> Awaited(a)) /\ After(a)' = After(a)
  BY <1>1 DEF Due, Awaited, Live, After
<1>9. Address(method)' = Address(method) /\ Sought' = Sought BY <1>1 DEF Address, Sought
<1>10. Covers(D)' BY <1>1, <1>6, <1>7, <1>8, <1>9 DEF Covers
<1> QED BY <1>5, <1>6, <1>9, <1>10 DEF CoverInv

LEMMA InitSearch == AInit => SInv
<1> SUFFICES ASSUME AInit PROVE SInv
  OBVIOUS
<1>1. Init /\ runs = {Start(0)} /\ passed = {} BY DEF AInit
<1>2. AInv /\ Inv BY InitExact DEF AInv
<1>3. Start(0) \in Configurations BY DEF Start, Configurations, Unknown
<1>4. SUFFICES ASSUME Searching PROVE FollowInv /\ CoverInv
  BY <1>1, <1>2, <1>3 DEF SInv
<1>5. at = 1 /\ toAdd = <<>> /\ already = {} /\ query # "steps"
  BY <1>1, <1>4 DEF Init, Searching
<1>6. PICK new : new = NewBranch(0) OBVIOUS
<1>7. branches = <<new>> BY <1>1, <1>5, <1>6 DEF Init
<1>8. DOMAIN branches = {1} /\ branches[1] = new BY <1>7
<1>9. Knows(new, Start(0)) BY <1>6 DEF Knows, NewBranch, Start, IsNumber, Empty
<1>10. FollowInv BY <1>1, <1>5, <1>8, <1>9 DEF FollowInv, Followed
<1>11. Live(new, 0) BY <1>6 DEF Live, NewBranch
<1>12. Start(0).pc = 0 BY DEF Start
<1>13. Due(0) BY <1>5, <1>8, <1>11 DEF Due
<1>14. Covers({}) BY <1>1, <1>5, <1>12, <1>13 DEF Covers
<1> QED BY <1>10, <1>14 DEF CoverInv

\* What a claim on an earlier state needs, given that of a later one.
LEMMA SearchingBefore ==
  ASSUME Inv, Inv', Searching', method' = method, query' = query, runs \subseteq runs',
         Len(branches) <= Len(branches')
  PROVE  Searching
<1>1. Len(branches) \in Nat /\ Len(branches') \in Nat
  <2>1. branches \in Seq(Branches) BY DEF Inv, TypeOK
  <2>2. branches' \in Seq(Branches') BY DEF Inv, TypeOK
  <2> QED BY <2>1, <2>2
<1>2. Len(branches) < BranchLimit BY <1>1, BoundsAssumption DEF Searching
<1>3. ASSUME NEW c \in runs, AtTestOf(c) PROVE Outcomes(method.code[c.pc], c) = BOOLEAN
  <2>1. c \in runs' /\ AtTestOf(c)' BY <1>3 DEF AtTestOf, Address
  <2>2. Outcomes(method.code[c.pc], c)' = BOOLEAN BY <2>1 DEF Searching
  <2> QED BY <2>2 DEF Outcomes
<1> QED BY <1>2, <1>3 DEF Searching, Uses, Address

LEMMA TurnObserved ==
  ASSUME Inv, Turns, Observe
  PROVE  runs' = runs /\ passed' = passed /\ query' = query /\ Len(branches') = Len(branches)
<1>1. resets' = resets /\ iterations' = iterations /\ query' = query
  BY DEF Turns, SkipFinished, Finish, Goto, TestAgain, TestDecided, TestUndecided, Switch, Assign,
         StaticGet, Invoke, InvokeInterface, MoveResult, NotImpl, Ignored, Leaves, fixed
<1>2. runs' = runs /\ passed' = passed BY <1>1 DEF Observe
<1>3. branches' = branches \/ \E x : branches' = [branches EXCEPT ![at] = x]
  BY DEF Turns, SkipFinished, Finish, Goto, TestAgain, TestDecided, TestUndecided, Switch, Assign,
         StaticGet, Invoke, InvokeInterface, MoveResult, NotImpl, Ignored, Leaves
<1>4. branches \in Seq(Branches) BY DEF Inv, TypeOK
<1>5. Len(branches') = Len(branches) BY <1>3, <1>4
<1> QED BY <1>1, <1>2, <1>5

LEMMA TurnsSearch ==
  ASSUME Inv, ResultsInv, Searching, FollowInv, CoverInv, runs \subseteq Configurations, Turns, Observe
  PROVE  FollowInv' /\ CoverInv'
<1>1. runs' = runs /\ passed' = passed BY TurnObserved
<1>2. /\ query \in {"calls", "reads"} /\ ~Uses({"switch", "keep", "div"})
      /\ \A a \in Address(method) :
           method.code[a].op = "invoke_interface" => method.code[a].how # "inherited"
      /\ \A c \in runs : AtTestOf(c) => Outcomes(method.code[c.pc], c) = BOOLEAN
  BY DEF Searching
<1>3. ~Uses({"keep"}) BY <1>2 DEF Uses
<1>4. CASE SkipFinished BY <1>1, <1>4, SkipFinishedSearch
<1>5. CASE Finish BY <1>1, <1>5, FinishSearch
<1>6. CASE Goto BY <1>1, <1>6, GotoSearch
<1>7. CASE TestAgain BY <1>1, <1>2, <1>7, TestAgainSearch
<1>8. CASE TestDecided BY <1>2, <1>8, TestOpen DEF TestDecided
<1>9. CASE TestUndecided BY <1>1, <1>2, <1>9, TestUndecidedSearch
<1>10. CASE Switch BY <1>2, <1>10 DEF Switch, On, Turn, ins, Uses
<1>11. CASE Assign BY <1>1, <1>2, <1>11, AssignSearch
<1>12. CASE StaticGet BY <1>1, <1>2, <1>12, StaticGetSearch
<1>13. CASE Invoke BY <1>1, <1>2, <1>13, InvokeSearch
<1>14. CASE InvokeInterface BY <1>1, <1>2, <1>14, InvokeInterfaceSearch
<1>15. CASE MoveResult BY <1>1, <1>3, <1>15, MoveResultSearch
<1>16. CASE NotImpl BY <1>1, <1>16, NotImplSearch
<1>17. CASE Ignored BY <1>1, <1>2, <1>17, IgnoredSearch
<1> QED
  BY <1>4, <1>5, <1>6, <1>7, <1>8, <1>9, <1>10, <1>11, <1>12, <1>13, <1>14, <1>15, <1>16, <1>17
  DEF Turns

LEMMA BetweenSearch ==
  ASSUME FollowInv, CoverInv, UNCHANGED vars
  PROVE  FollowInv' /\ CoverInv'
<1>1. UNCHANGED <<method, query, branches, already, phase, at, toAdd, found, runs, passed>>
  BY DEF vars, flowVars
<1>2. FollowInv'
  <2>1. /\ \A i \in DOMAIN branches : Followed(branches[i], IF i < at THEN Ahead ELSE runs)
        /\ \A k \in DOMAIN toAdd : Followed(toAdd[k].branch, Ahead)
    BY DEF FollowInv
  <2> QED BY <2>1, <1>1, FollowIntro
<1>3. CoverInv'
  BY <1>1 DEF CoverInv, Covers, Due, Awaited, Pending, Live, After, HasNoted, SoughtKind, Sought, Address
<1> QED BY <1>2, <1>3

LEMMA StepSearch == SInv /\ [ANext]_vars => SInv'
<1> SUFFICES ASSUME SInv, [ANext]_vars PROVE SInv'
  OBVIOUS
<1>1. AInv /\ AInv' /\ Inv /\ Inv' /\ runs \subseteq Configurations
  BY StepExact DEF SInv, AInv
<1>2. method' = method BY SameFixed
<1>3. Configurations' = Configurations BY <1>2 DEF Configurations, Regs
<1>4. Ahead \subseteq Configurations BY <1>1, SuccessorsTyped DEF Ahead
<1>5. CASE UNCHANGED vars
  <2>1. runs' = runs BY <1>5 DEF vars
  <2>2. Searching' => Searching
    <3>1. query' = query /\ branches' = branches BY <1>5 DEF vars, flowVars
    <3>2. Len(branches) \in Nat BY <1>1 DEF Inv, TypeOK
    <3>3. Len(branches) <= Len(branches') /\ runs \subseteq runs' BY <2>1, <3>1, <3>2
    <3> QED BY <3>1, <3>3, <1>1, <1>2, SearchingBefore
  <2> QED BY <2>1, <2>2, <1>1, <1>3, <1>5, BetweenSearch DEF SInv
<1>6. CASE \E start \in Address(method) : Reset(start) /\ Observe
  <2>1. PICK start \in Address(method) : Reset(start) /\ Observe BY <1>6
  <2>2. /\ phase = "idle" /\ query' = query /\ resets' = resets + 1 /\ resets \in Nat
        /\ branches' = <<NewBranch(start)>>
    BY <2>1, <1>1 DEF Reset, fixed, Inv, TypeOK
  <2>3. query = "steps" BY <2>2, <1>1 DEF Inv, TypeOK
  <2>4. resets' # resets BY <2>2
  <2>5. branches'[1].pc = start BY <2>2, NewBranchExact
  <2>6. runs' = {Start(start)'} BY <2>1, <2>4, <2>5, <1>2 DEF Observe, Start, Regs
  <2>7. Start(start)' \in Configurations
    <3>1. start \in Int BY <1>1, MethodFacts DEF Inv
    <3> QED BY <3>1, <1>2 DEF Start, Configurations, Regs
  <2> QED BY <2>2, <2>3, <2>6, <2>7, <1>1, <1>3 DEF SInv, Searching
<1>7. CASE NextInstruction /\ Observe
  <2>1. query = "steps" /\ query' = query BY <1>1, <1>7 DEF NextInstruction, fixed, Inv, TypeOK
  <2>2. runs' = runs BY <1>7 DEF NextInstruction, Observe
  <2> QED BY <2>1, <2>2, <1>1, <1>3 DEF SInv, Searching
<1>8. CASE Turns /\ Observe
  <2>1. runs' = runs /\ query' = query /\ Len(branches') = Len(branches)
    BY <1>1, <1>8, TurnObserved
  <2> SUFFICES ASSUME Searching' PROVE FollowInv' /\ CoverInv'
    BY <2>1, <1>1, <1>3 DEF SInv
  <2>2. Searching
    <3>1. Len(branches) <= Len(branches') BY <2>1, <1>1 DEF Inv, TypeOK
    <3> QED BY <2>1, <3>1, <1>1, <1>2, SearchingBefore
  <2>3. ~Uses({"keep"}) BY <2>2 DEF Searching, Uses
  <2> QED BY <2>2, <2>3, <1>1, <1>8, TurnsSearch DEF SInv, AInv
<1>9. CASE EndLoop /\ Observe
  <2>1. runs' = Ahead BY <1>1, <1>9, RoundRuns
  <2>2. query' = query BY <1>9 DEF EndLoop, fixed
  <2>3. passed' = runs
    <3>1. resets' = resets /\ iterations' = iterations + 1 /\ iterations \in Nat
      BY <1>1, <1>9 DEF EndLoop, Inv, TypeOK
    <3>2. iterations' # iterations BY <3>1
    <3> QED BY <3>1, <3>2, <1>9 DEF Observe
  <2> SUFFICES ASSUME Searching' PROVE FollowInv' /\ CoverInv'
    BY <2>1, <1>1, <1>3, <1>4 DEF SInv
  <2>4. Searching
    <3>1. Len(branches) <= Len(branches') /\ runs \subseteq runs' BY <2>1, <1>1, <1>9, RoundKeeps DEF Ahead
    <3> QED BY <2>2, <3>1, <1>1, <1>2, SearchingBefore
  <2>5. /\ query \in {"calls", "reads"} /\ ~Uses({"switch", "keep", "div"})
        /\ Len(branches) < BranchLimit
    BY <2>4 DEF Searching
  <2> QED BY <2>1, <2>3, <2>4, <2>5, <1>1, <1>9, EndLoopSearch DEF SInv
<1>10. CASE CollectDecisions /\ Observe
  <2>1. query = "decisions" /\ query' = query BY <1>10 DEF CollectDecisions, fixed
  <2>2. runs' = runs BY <1>10 DEF CollectDecisions, Observe
  <2> QED BY <2>1, <2>2, <1>1, <1>3 DEF SInv, Searching
<1>11. CASE CollectFound /\ Observe
  <2>1. /\ query' = query /\ branches' = branches /\ runs' = runs /\ passed' = passed
    BY <1>11 DEF CollectFound, fixed, Observe
  <2> SUFFICES ASSUME Searching' PROVE FollowInv' /\ CoverInv'
    BY <2>1, <1>1, <1>3 DEF SInv
  <2>2. Searching
    <3>1. Len(branches) <= Len(branches') BY <2>1, <1>1 DEF Inv, TypeOK
    <3> QED BY <2>1, <3>1, <1>1, <1>2, SearchingBefore
  <2> QED BY <2>1, <2>2, <1>1, <1>11, CollectFoundSearch DEF SInv
<1> QED BY <1>5, <1>6, <1>7, <1>8, <1>9, <1>10, <1>11 DEF ANext, Next, Turns

LEMMA SearchAnswers == SInv => SearchIsComplete
<1> SUFFICES ASSUME SInv, Searching, phase = "done",
                    NEW c \in passed, c.pc \in Address(method), method.code[c.pc].op \in Sought
             PROVE  \E f \in found : f.pc = c.pc
  BY DEF SearchIsComplete, Finds, Searching
<1>1. PICK D \in SUBSET Address(method) : Covers(D) BY DEF SInv, CoverInv
<1>2. c.pc \in D BY <1>1 DEF Covers
<1>3. ~Pending(c.pc) BY DEF Pending
<1> QED BY <1>1, <1>2, <1>3 DEF Covers

\* Of any method whose tests are all on unknown values, with neither a switch, nor an ignored
\* write, nor a division of registers, and below the limit on branches, a search finds every
\* call (or read) that an execution makes within as many instructions as there were rounds.
THEOREM SearchCorrect == ASpec => []SearchIsComplete
<1> QED BY InitSearch, StepSearch, SearchAnswers, PTL DEF ASpec

-----------------------------------------------------------------------------
(* Dead branches.  In conservative mode a test that is not decided taints  *)
(* its branch and the fork, so that as long as the first branch is not     *)
(* tainted it is the only one, and the method has had no choice: the       *)
(* configurations of the executions are the places the branch has been at, *)
(* one behind the other.  Having met a test again it would be tainted, so  *)
(* there is one configuration at every test, unless the branch is about to *)
(* have its turn there.                                                    *)

Straight == conservative /\ query = "decisions" /\ ~Uses({"switch"}) /\ ReadAsWritten

LEMMA NothingIgnored == ReadAsWritten => ~Uses({"keep"})
BY DEF ReadAsWritten, Misread, Uses

\* The branch is where the execution is, and about to execute the instruction.
Here(b, c) == c = Image(b) /\ Live(b, c.pc)

\* S is what the first branch left behind.
Traced(b, met, S) ==
  /\ Image(b) \in S
  /\ \A c \in S : Successors(c) \subseteq S \/ Here(b, c)
  /\ \A c \in S : AtTestOf(c) => <<1, c.pc>> \in met \/ Here(b, c)
  /\ \A c, d \in S : (AtTestOf(c) /\ d.pc = c.pc) => c = d \/ Live(b, c.pc)

AloneInv ==
  /\ 1 \in DOMAIN branches
  /\ \A i \in DOMAIN branches : i = 1 \/ branches[i].tainted
  /\ \A k \in DOMAIN toAdd : toAdd[k].branch.tainted
  /\ branches[1].tainted \/ (DOMAIN branches = {1} /\ toAdd = <<>>)

TraceInv ==
  \/ branches[1].tainted \/ 1 \in toTaint
  \/ Traced(branches[1], already, IF at = 1 THEN runs ELSE Ahead)

\* A decision of branch i that is not tainted is where the execution has been.
Founded(i, d) ==
  /\ AtTestOf(Image(d))
  /\ i = 1 \/ d.tainted
  /\ phase = "done" => d.tainted \/ ~branches[1].tainted
  /\ i = 1 /\ ~branches[1].tainted => Image(d) \in runs

NotedInv ==
  /\ OnCode(1) \/ Noted(1) = <<>>
  /\ \A i \in DOMAIN decisions : \A k \in DOMAIN decisions[i] : Founded(i, decisions[i][k])

DInv == AInv /\ (Straight => AloneInv /\ TraceInv /\ NotedInv)

\* What a later state says of a trace.
LEMMA TracedNext ==
  ASSUME method' = method, NEW S, S = (IF at' = 1 THEN runs' ELSE Ahead'),
         Traced(branches'[1], already', S)
  PROVE  TraceInv'
<1>1. Image(branches[1])' = Image(branches'[1]) BY DEF Image, Regs
<1>2. \A c : Successors(c)' = Successors(c) /\ (AtTestOf(c)' <=> AtTestOf(c))
  BY DEF Successors, AtTestOf, Outcomes, Written, Throws, Address
<1>3. \A c : Here(branches[1], c)' <=> Here(branches'[1], c) BY <1>1 DEF Here, Live
<1>4. \A a : Live(branches[1], a)' <=> Live(branches'[1], a) BY DEF Live
<1>5. Image(branches[1])' \in S BY <1>1 DEF Traced
<1>6. \A c \in S : Successors(c)' \subseteq S \/ Here(branches[1], c)' BY <1>2, <1>3 DEF Traced
<1>7. \A c \in S : AtTestOf(c)' => <<1, c.pc>> \in already' \/ Here(branches[1], c)'
  BY <1>2, <1>3 DEF Traced
<1>8. \A c, d \in S : (AtTestOf(c)' /\ d.pc = c.pc) => c = d \/ Live(branches[1], c.pc)'
  <2> SUFFICES ASSUME NEW c \in S, NEW d \in S, AtTestOf(c)', d.pc = c.pc, c # d
               PROVE  Live(branches[1], c.pc)'
    OBVIOUS
  <2>1. AtTestOf(c) BY <1>2
  <2>2. Live(branches'[1], c.pc) BY <2>1 DEF Traced
  <2> QED BY <2>2 DEF Live
<1>9. Traced(branches[1], already, IF at = 1 THEN runs ELSE Ahead)'
  BY <1>5, <1>6, <1>7, <1>8 DEF Traced
<1> QED BY <1>9 DEF TraceInv

\* What was noted stays founded while its branch is not tainted.
LEMMA NotedNext ==
  ASSUME Inv, NotedInv, method' = method, decisions' = decisions, phase' # "done",
         runs \subseteq runs', branches'[1].tainted \/ ~branches[1].tainted,
         OnCode(1) => branches'[1].pc \in Address(method)
  PROVE  NotedInv'
<1>1. OnCode(1)' \/ Noted(1)' = <<>> BY DEF NotedInv, OnCode, Noted, Address
<1>2. ASSUME NEW i \in DOMAIN decisions, NEW k \in DOMAIN decisions[i]
      PROVE  Founded(i, decisions[i][k])'
  <2>1. Founded(i, decisions[i][k]) BY DEF NotedInv
  <2>2. Image(decisions[i][k])' = Image(decisions[i][k]) BY DEF Image, Regs
  <2>3. AtTestOf(Image(decisions[i][k]))' <=> AtTestOf(Image(decisions[i][k]))
    BY <2>2 DEF AtTestOf, Address
  <2> QED BY <2>1, <2>2, <2>3 DEF Founded
<1> QED BY <1>1, <1>2 DEF NotedInv

\* A turn.  A branch tainted stays so, what it forks is tainted with it, and the first
\* leaves a trace.
LEMMA TurnDead ==
  ASSUME Inv, AloneInv, TraceInv, NotedInv, InLoop, NEW b \in Branches, Leaves(b), runs' = runs,
         me.tainted => b.tainted, \A k \in DOMAIN toAdd' : toAdd'[k].branch.tainted,
         toAdd' = toAdd \/ b.tainted, me.pc \in Address(method) => b.pc \in Address(method),
         (at = 1 /\ ~b.tainted /\ 1 \notin toTaint') =>
           Traced([b EXCEPT !.prev = me.pc], already', Ahead)
  PROVE  AloneInv' /\ TraceInv' /\ NotedInv'
<1> DEFINE new == [b EXCEPT !.prev = me.pc]
<1>1. at \in DOMAIN branches /\ at \in Nat /\ phase = "loop" /\ 1 \in DOMAIN branches
  BY TurnFacts DEF AloneInv
<1>2. /\ branches' = [branches EXCEPT ![at] = new] /\ at' = at + 1 /\ method' = method
      /\ phase' = phase /\ decisions' = decisions
  BY DEF Leaves, fixed
<1>3. new.tainted = b.tainted /\ new.pc = b.pc BY DEF Branches
<1>4. Ahead' = Ahead BY <1>2, SameRuns
<1>5. DOMAIN branches' = DOMAIN branches /\ branches'[at] = new
      /\ \A i \in DOMAIN branches : i # at => branches'[i] = branches[i]
  BY <1>1, <1>2
<1>6. (at = 1 /\ ~new.tainted /\ 1 \notin toTaint') => Traced(new, already', Ahead) BY <1>3
<1> HIDE DEF new
<1>7. at # 1 => branches[1].tainted /\ branches'[1] = branches[1] BY <1>1, <1>5 DEF AloneInv
<1>8. AloneInv'
  <2>1. \A i \in DOMAIN branches' : i = 1 \/ branches'[i].tainted BY <1>3, <1>5 DEF AloneInv, me
  <2>2. branches'[1].tainted \/ (DOMAIN branches' = {1} /\ toAdd' = <<>>)
    BY <1>3, <1>5, <1>7 DEF AloneInv, me
  <2> QED BY <2>1, <2>2, <1>1, <1>5 DEF AloneInv
<1>9. TraceInv'
  <2>1. CASE branches'[1].tainted \/ 1 \in toTaint' BY <2>1 DEF TraceInv
  <2>2. CASE at = 1 /\ ~branches'[1].tainted /\ 1 \notin toTaint'
    <3>1. Traced(branches'[1], already', Ahead) BY <2>2, <1>5, <1>6
    <3>2. Ahead = (IF at' = 1 THEN runs' ELSE Ahead') BY <2>2, <1>2, <1>4
    <3> QED BY <3>1, <3>2, <1>2, TracedNext
  <2> QED BY <2>1, <2>2, <1>7
<1>10. NotedInv'
  <2>1. branches'[1].tainted \/ ~branches[1].tainted BY <1>3, <1>5, <1>7 DEF me
  <2>2. OnCode(1) => branches'[1].pc \in Address(method) BY <1>3, <1>5, <1>7 DEF OnCode, me
  <2> QED BY <2>1, <2>2, <1>1, <1>2, NotedNext
<1> QED BY <1>8, <1>9, <1>10

\* A branch that goes no further leaves its trace as it is.
LEMMA TracedStays ==
  ASSUME Traced(me, already, runs), NEW b, Image(b) = Image(me), b.finished,
         Live(me, me.pc) => Successors(Image(me)) = {} /\ ~AtTestOf(Image(me))
  PROVE  Traced(b, already, Ahead)
<1>1. Image(me).pc = me.pc BY DEF Image
<1>2. \A c : Live(me, c.pc) => c.pc = me.pc /\ Live(me, me.pc) BY DEF Live
<1>3. \A c \in runs : Successors(c) \subseteq runs BY <1>1, <1>2 DEF Traced, Here
<1>4. Ahead = runs BY <1>3 DEF Ahead
<1>5. \A c : AtTestOf(c) => ~Live(me, c.pc) BY <1>1, <1>2 DEF AtTestOf
<1> QED BY <1>3, <1>4, <1>5 DEF Traced, Here

LEMMA FinishDead ==
  ASSUME Inv, AloneInv, TraceInv, NotedInv, Finish, runs' = runs
  PROVE  AloneInv' /\ TraceInv' /\ NotedInv'
<1> DEFINE b == [me EXCEPT !.finished = TRUE]
<1>1. /\ InLoop /\ Leaves(b) /\ UNCHANGED <<already, toTaint, toAdd>>
      /\ (~Stuck /\ me.pc \in Address(method)) => ins.op = "return"
  BY DEF Finish
<1>2. me \in Branches BY <1>1, TurnFacts
<1>3. /\ b \in Branches /\ b.tainted = me.tainted /\ b.pc = me.pc
      /\ [b EXCEPT !.prev = me.pc].pc = me.pc /\ [b EXCEPT !.prev = me.pc].regs = me.regs
      /\ [b EXCEPT !.prev = me.pc].finished
  BY <1>2 DEF Branches
<1>4. Image([b EXCEPT !.prev = me.pc]) = Image(me) BY <1>3 DEF Image
<1>5. ASSUME Live(me, me.pc) PROVE Successors(Image(me)) = {} /\ ~AtTestOf(Image(me))
  <2>1. me.pc \in Address(method) => ins.op = "return" BY <1>1, <1>5 DEF Live, Stuck
  <2>2. Image(me).pc = me.pc BY DEF Image
  <2> QED BY <2>1, <2>2 DEF Successors, Throws, AtTestOf, ins, Writing
<1>6. ASSUME at = 1, ~b.tainted, 1 \notin toTaint'
      PROVE  Traced([b EXCEPT !.prev = me.pc], already', Ahead)
  <2>1. Traced(me, already, runs) BY <1>1, <1>3, <1>6 DEF TraceInv, me
  <2> QED BY <2>1, <1>1, <1>3, <1>4, <1>5, TracedStays
<1>7. \A k \in DOMAIN toAdd' : toAdd'[k].branch.tainted BY <1>1 DEF AloneInv
<1> HIDE DEF b
<1> QED BY <1>1, <1>3, <1>6, <1>7, TurnDead

LEMMA SkipFinishedDead ==
  ASSUME Inv, AloneInv, TraceInv, NotedInv, SkipFinished, runs' = runs
  PROVE  AloneInv' /\ TraceInv' /\ NotedInv'
<1>1. /\ InLoop /\ me.finished /\ at' = at + 1 /\ method' = method
      /\ UNCHANGED <<branches, already, phase, toTaint, toAdd, decisions>>
  BY DEF SkipFinished, fixed
<1>2. at \in DOMAIN branches /\ at \in Nat /\ phase = "loop" BY <1>1, TurnFacts
<1>3. Ahead' = Ahead BY <1>1, SameRuns
<1>4. AloneInv' BY <1>1 DEF AloneInv
<1>5. TraceInv'
  <2>1. CASE branches[1].tainted \/ 1 \in toTaint BY <2>1, <1>1 DEF TraceInv
  <2>2. CASE ~branches[1].tainted /\ 1 \notin toTaint
    <3>1. at = 1 BY <2>2, <1>2 DEF AloneInv
    <3>2. Traced(me, already, runs) BY <2>2, <3>1 DEF TraceInv, me
    <3>3. ~Live(me, me.pc) BY <1>1 DEF Live
    <3>4. Traced(me, already, Ahead) BY <3>2, <3>3, <1>1, TracedStays
    <3>5. Traced(branches'[1], already', Ahead) BY <3>1, <3>4, <1>1 DEF me
    <3>6. Ahead = (IF at' = 1 THEN runs' ELSE Ahead') BY <3>1, <1>1, <1>3
    <3> QED BY <3>5, <3>6, <1>1, TracedNext
  <2> QED BY <2>1, <2>2
<1>6. NotedInv' BY <1>1, <1>2, NotedNext DEF OnCode
<1> QED BY <1>4, <1>5, <1>6

\* The one way on adds one configuration to the trace, and a test is left behind only once.
LEMMA TracedMoves ==
  ASSUME Inv, ReadAsWritten, Turn, at = 1, NEW b, Moves(b), Traced(me, already, runs),
         already \subseteq already',
         AtTestOf(Image(me)) => <<1, me.pc>> \notin already /\ <<1, me.pc>> \in already'
  PROVE  Traced([b EXCEPT !.prev = me.pc], already', Ahead)
<1> DEFINE new == [b EXCEPT !.prev = me.pc]
<1>1. /\ b \in Branches /\ ~b.finished /\ b.pc \in Address(method)
      /\ Successors(Image(me)) = {Image(b)} /\ (b.pc = me.pc => Image(b) = Image(me))
  BY DEF Moves
<1>2. /\ new.pc = b.pc /\ new.regs = b.regs /\ ~new.finished /\ new.prev = me.pc
  BY <1>1 DEF Branches
<1> HIDE DEF new
<1>3. Image(new) = Image(b) /\ Image(b).pc = b.pc /\ Image(me).pc = me.pc BY <1>2 DEF Image
<1>4. \A c \in runs : Successors(c) \subseteq runs \/ c = Image(me) BY DEF Traced, Here
<1>5. Image(me) \in runs BY DEF Traced
<1>6. Ahead = runs \cup {Image(b)} BY <1>1, <1>4, <1>5 DEF Ahead
<1>7. Live(new, b.pc) \/ b.pc = me.pc BY <1>2 DEF Live
<1>8. \A c : c.pc = me.pc => (AtTestOf(c) <=> AtTestOf(Image(me))) BY <1>3 DEF AtTestOf
<1>9. ASSUME NEW c \in Ahead PROVE Successors(c) \subseteq Ahead \/ Here(new, c)
  <2>1. CASE c \in runs BY <2>1, <1>1, <1>4, <1>6
  <2>2. CASE c = Image(b)
    <3>1. CASE Live(new, b.pc) BY <2>2, <3>1, <1>3 DEF Here
    <3>2. CASE b.pc = me.pc BY <2>2, <3>2, <1>1, <1>6
    <3> QED BY <3>1, <3>2, <1>7
  <2> QED BY <2>1, <2>2, <1>6
<1>10. ASSUME NEW c \in Ahead, AtTestOf(c) PROVE <<1, c.pc>> \in already' \/ Here(new, c)
  <2>1. CASE c \in runs
    <3>1. <<1, c.pc>> \in already \/ c = Image(me) BY <2>1, <1>10 DEF Traced, Here
    <3> QED BY <3>1, <1>3, <1>10
  <2>2. CASE c = Image(b)
    <3>1. CASE Live(new, b.pc) BY <2>2, <3>1, <1>3 DEF Here
    <3>2. CASE b.pc = me.pc BY <2>2, <3>2, <1>1, <1>3, <1>10
    <3> QED BY <3>1, <3>2, <1>7
  <2> QED BY <2>1, <2>2, <1>6
<1>11. ASSUME NEW c \in runs, NEW d \in runs, AtTestOf(c), d.pc = c.pc PROVE c = d
  <2>1. CASE c.pc = me.pc
    <3>1. <<1, me.pc>> \notin already BY <2>1, <1>8, <1>11
    <3>2. AtTestOf(d) BY <1>11 DEF AtTestOf
    <3>3. c = Image(me) /\ d = Image(me) BY <2>1, <3>1, <3>2, <1>11 DEF Traced, Here
    <3> QED BY <3>3
  <2>2. CASE c.pc # me.pc
    <3>1. ~Live(me, c.pc) BY <2>2 DEF Live
    <3> QED BY <3>1, <1>11 DEF Traced
  <2> QED BY <2>1, <2>2
<1>12. ASSUME NEW c \in Ahead, NEW d \in Ahead, AtTestOf(c), d.pc = c.pc
       PROVE  c = d \/ Live(new, c.pc)
  <2>1. CASE c \in runs /\ d \in runs BY <2>1, <1>11, <1>12
  <2>2. CASE c = Image(b) \/ d = Image(b)
    <3>1. c.pc = b.pc BY <2>2, <1>3, <1>12
    <3>2. CASE Live(new, b.pc) BY <3>1, <3>2
    <3>3. CASE b.pc = me.pc
      <4>1. c \in runs /\ d \in runs BY <3>3, <1>1, <1>5, <1>6
      <4> QED BY <4>1, <1>11, <1>12
    <3> QED BY <3>2, <3>3, <1>7
  <2> QED BY <2>1, <2>2, <1>6
<1>13. Traced(new, already', Ahead) BY <1>3, <1>6, <1>9, <1>10, <1>12 DEF Traced
<1> QED BY <1>13 DEF new

LEMMA GoingDead ==
  ASSUME Inv, ResultsInv, ReadAsWritten, AloneInv, TraceInv, NotedInv, Going, runs' = runs
  PROVE  AloneInv' /\ TraceInv' /\ NotedInv'
<1>0. ~Uses({"keep"}) BY NothingIgnored
<1>1. PICK b : Moves(b) BY <1>0, GoingMoves
<1>2. UNCHANGED <<toTaint, toAdd>> /\ Turn /\ InLoop BY <1>0, GoingMoves
<1>3. b \in Branches /\ Leaves(b) /\ b.tainted = me.tainted /\ b.pc \in Address(method)
  BY <1>1 DEF Moves
<1>4. CASE TestDecided
  <2>1. <<at, me.pc>> \notin already /\ already' = already \cup {<<at, me.pc>>}
    BY <1>4 DEF TestDecided, Branched
  <2>2. ASSUME at = 1, ~b.tainted, 1 \notin toTaint'
        PROVE  Traced([b EXCEPT !.prev = me.pc], already', Ahead)
    <3>1. Traced(me, already, runs) BY <2>2, <1>2, <1>3 DEF TraceInv, me
    <3> QED BY <3>1, <2>1, <2>2, <1>1, <1>2, TracedMoves
  <2>3. \A k \in DOMAIN toAdd' : toAdd'[k].branch.tainted BY <1>2 DEF AloneInv
  <2> QED BY <2>2, <2>3, <1>2, <1>3, TurnDead
<1>5. CASE ~TestDecided
  <2>1. already' = already BY <1>0, <1>5, GoingMoves
  <2>2. ~AtTestOf(Image(me))
    <3>1. ins.op \notin {"test", "test_zero"}
      BY <1>5 DEF Going, Goto, Assign, StaticGet, Invoke, InvokeInterface, MoveResult, Ignored, On
    <3>2. Image(me).pc = me.pc BY DEF Image
    <3> QED BY <3>1, <3>2 DEF AtTestOf, ins
  <2>3. ASSUME at = 1, ~b.tainted, 1 \notin toTaint'
        PROVE  Traced([b EXCEPT !.prev = me.pc], already', Ahead)
    <3>1. Traced(me, already, runs) BY <2>3, <1>2, <1>3 DEF TraceInv, me
    <3> QED BY <3>1, <2>1, <2>2, <2>3, <1>1, <1>2, TracedMoves
  <2>4. \A k \in DOMAIN toAdd' : toAdd'[k].branch.tainted BY <1>2 DEF AloneInv
  <2> QED BY <2>3, <2>4, <1>2, <1>3, TurnDead
<1> QED BY <1>4, <1>5

\* Turns that pass on where the branch, or all of them, will be tainted.
LEMMA TestAgainDead ==
  ASSUME Inv, AloneInv, TraceInv, NotedInv, TestAgain, runs' = runs
  PROVE  AloneInv' /\ TraceInv' /\ NotedInv'
<1> DEFINE b == [me EXCEPT !.pc = @ + 1]
<1>1. /\ Turn /\ InLoop /\ ins.op \in {"test", "test_zero"} /\ Leaves(b) /\ toAdd' = toAdd
      /\ toTaint' = toTaint \cup {at} \cup {x[1] : x \in already}
  BY DEF TestAgain, AtTest, On, Turn
<1>2. me \in Branches BY <1>1, TurnFacts
<1>3. b \in Branches /\ b.pc = me.pc + 1 /\ b.tainted = me.tainted BY <1>2 DEF Branches
<1> HIDE DEF b
<1>4. b.pc \in Address(method) BY <1>1, <1>3, NextAddress
<1>5. at = 1 => 1 \in toTaint' BY <1>1
<1>6. \A k \in DOMAIN toAdd' : toAdd'[k].branch.tainted BY <1>1 DEF AloneInv
<1> QED BY <1>1, <1>3, <1>4, <1>5, <1>6, TurnDead

LEMMA NotImplDead ==
  ASSUME Inv, AloneInv, TraceInv, NotedInv, NotImpl, runs' = runs
  PROVE  AloneInv' /\ TraceInv' /\ NotedInv'
<1> DEFINE b == [me EXCEPT !.regs = [r \in Regs(method) |-> Empty]]
<1>1. /\ Turn /\ InLoop /\ ins.op = "not_impl" /\ Leaves(Passed(b)) /\ toAdd' = toAdd
      /\ toTaint' = toTaint \cup {at}
  BY DEF NotImpl, On, Turn
<1>2. me \in Branches /\ Empty \in Values BY <1>1, TurnFacts DEF Empty, Values
<1>3. b \in Branches /\ b.pc = me.pc /\ b.tainted = me.tainted BY <1>2 DEF Branches
<1> HIDE DEF b
<1>4. Passed(b) \in Branches /\ Passed(b).pc = me.pc + 1 /\ Passed(b).tainted = me.tainted
  BY <1>1, <1>3, PassedTyped DEF Passed, Branches
<1>5. Passed(b).pc \in Address(method) BY <1>1, <1>4, NextAddress
<1>6. at = 1 => 1 \in toTaint' BY <1>1
<1>7. \A k \in DOMAIN toAdd' : toAdd'[k].branch.tainted BY <1>1 DEF AloneInv
<1> QED BY <1>1, <1>4, <1>5, <1>6, <1>7, TurnDead

\* In conservative mode a test that is not decided taints the branch and its fork.
LEMMA TestUndecidedDead ==
  ASSUME Inv, conservative, AloneInv, TraceInv, NotedInv, TestUndecided, runs' = runs
  PROVE  AloneInv' /\ TraceInv' /\ NotedInv'
<1> DEFINE b    == [Counted EXCEPT !.tainted = @ \/ Doubtful]
           zero == [a \in Address(method) |-> 0]
           new  == [Fork(b, ins.to[1]) EXCEPT !.branch.loops = zero]
<1>1. /\ Turn /\ InLoop /\ ins.op \in {"test", "test_zero"} /\ Leaves(Passed(b))
      /\ toAdd' = Append(toAdd, new)
  BY DEF TestUndecided, AtTest, On, Turn
<1>2. me \in Branches /\ ins.to[1] \in Int BY <1>1, TurnFacts, OffsetTyped
<1>3. Counted \in Branches /\ Counted.pc = me.pc
  BY <1>1, <1>2, CountedTyped DEF Counted, Branches
<1>4. (Counted.tainted \/ Doubtful) = TRUE BY DEF Doubtful
<1>5. b = [Counted EXCEPT !.tainted = TRUE] BY <1>4
<1>6. b \in Branches /\ b.pc = me.pc /\ b.tainted BY <1>3, <1>5 DEF Branches
<1> HIDE DEF b
<1>7. Passed(b) \in Branches /\ Passed(b).pc = me.pc + 1 /\ Passed(b).tainted
  BY <1>1, <1>6, PassedTyped DEF Passed, Branches
<1>8. new.branch.tainted
  <2> DEFINE f == [b EXCEPT !.parent = at, !.prev = me.pc, !.pc = @ + ins.to[1]]
  <2>1. f.tainted BY <1>6 DEF Branches
  <2>2. f \in Branches BY <1>1, <1>2, <1>6, ForkTyped DEF Fork, ForkRecords
  <2>3. new.branch = [f EXCEPT !.loops = zero] BY DEF Fork
  <2> HIDE DEF f, new
  <2> QED BY <2>1, <2>2, <2>3 DEF Branches
<1> HIDE DEF new
<1>9. \A k \in DOMAIN toAdd' : toAdd'[k].branch.tainted
  <2>1. toAdd \in Seq(ForkRecords) BY DEF Inv, TypeOK, ForkRecords
  <2>2. \A k \in DOMAIN toAdd' : toAdd'[k] = new \/ (k \in DOMAIN toAdd /\ toAdd'[k] = toAdd[k])
    BY <2>1, <1>1
  <2> QED BY <2>2, <1>8 DEF AloneInv
<1>10. Passed(b).pc \in Address(method) BY <1>1, <1>7, NextAddress
<1> QED BY <1>1, <1>7, <1>9, <1>10, TurnDead

\* At the end of a round nothing is added to a first branch that is not tainted.
LEMMA EndLoopDead ==
  ASSUME Inv, AloneInv, TraceInv, NotedInv, EndLoop, query = "decisions", runs' = Ahead
  PROVE  AloneInv' /\ TraceInv' /\ NotedInv'
<1>1. /\ phase = "loop" /\ at > Len(branches) /\ method' = method /\ at' = 1 /\ toTaint' = {}
      /\ toAdd' = <<>> /\ phase' = "collect" /\ decisions' = decisions
      /\ already' = already \cup {<<Len(branches) + k, Forks[k].from>> : k \in DOMAIN Forks}
  BY DEF EndLoop, fixed
<1>2. /\ DOMAIN branches = 1 .. Len(branches) /\ Len(branches) \in Nat /\ at \in Nat
      /\ branches \in Seq(Branches)
  BY SeqElim DEF Inv, TypeOK
<1>3. \A i \in DOMAIN branches : i \in DOMAIN branches' /\ branches'[i] = Tainted[i] BY RoundKeeps
<1>4. ASSUME NEW i \in DOMAIN branches
      PROVE  Tainted[i].tainted = (branches[i].tainted \/ i \in Reached(toTaint))
  <2> DEFINE t == branches[i].tainted \/ i \in Reached(toTaint)
  <2>1. branches[i] \in Branches BY <1>2
  <2>2. Tainted[i] = [branches[i] EXCEPT !.tainted = t] BY DEF Tainted
  <2> HIDE DEF t
  <2>3. Tainted[i].tainted = t BY <2>1, <2>2 DEF Branches
  <2> QED BY <2>3 DEF t
<1>5. 1 \in DOMAIN branches /\ at # 1 BY <1>1, <1>2 DEF AloneInv
<1>6. ~branches'[1].tainted => ~branches[1].tainted /\ 1 \notin toTaint
  BY <1>3, <1>4, <1>5 DEF Reached
<1>7. AloneInv'
  <2>1. ASSUME NEW i \in DOMAIN branches' PROVE i = 1 \/ branches'[i].tainted
    <3>1. CASE i \in DOMAIN branches /\ branches'[i] = Tainted[i] BY <3>1, <1>4 DEF AloneInv
    <3>2. CASE \E k \in DOMAIN toAdd : branches'[i] = toAdd[k].branch BY <3>2 DEF AloneInv
    <3> QED BY <3>1, <3>2, RoundBranches
  <2>2. ASSUME ~branches'[1].tainted PROVE DOMAIN branches' = {1}
    <3>1. DOMAIN branches = {1} /\ toAdd = <<>> BY <2>2, <1>6 DEF AloneInv
    <3>2. \A i \in DOMAIN branches' : i = 1
      <4>1. DOMAIN toAdd = {} BY <3>1
      <4> QED BY <3>1, <4>1, RoundBranches
    <3> QED BY <3>2, <1>3, <1>5
  <2> QED BY <2>1, <2>2, <1>1, <1>3, <1>5 DEF AloneInv
<1>8. TraceInv'
  <2>1. CASE branches'[1].tainted BY <2>1 DEF TraceInv
  <2>2. CASE ~branches'[1].tainted
    <3>1. Traced(branches[1], already, Ahead) BY <2>2, <1>5, <1>6 DEF TraceInv
    <3>2. /\ Tainted[1].pc = branches[1].pc /\ Tainted[1].prev = branches[1].prev
          /\ Tainted[1].finished = branches[1].finished /\ Tainted[1].regs = branches[1].regs
      BY <1>5, TaintedFacts
    <3>3. PICK b : b = branches'[1] OBVIOUS
    <3>4. /\ b.pc = branches[1].pc /\ b.prev = branches[1].prev
          /\ b.finished = branches[1].finished /\ b.regs = branches[1].regs
      BY <3>2, <3>3, <1>3, <1>5
    <3>5. Image(b) = Image(branches[1]) /\ (\A a : Live(b, a) <=> Live(branches[1], a))
      BY <3>4 DEF Image, Live
    <3>6. Traced(b, already', Ahead) BY <3>1, <3>5, <1>1 DEF Traced, Here
    <3>7. Ahead = (IF at' = 1 THEN runs' ELSE Ahead') BY <1>1
    <3> QED BY <3>3, <3>6, <3>7, <1>1, TracedNext
  <2> QED BY <2>1, <2>2
<1>9. NotedInv'
  <2>1. branches'[1].pc = branches[1].pc BY <1>3, <1>5, TaintedFacts
  <2>2. runs \subseteq runs' BY DEF Ahead
  <2> QED BY <2>1, <2>2, <1>1, <1>6, NotedNext DEF OnCode
<1> QED BY <1>7, <1>8, <1>9

\* The branches and the executions are as before.
LEMMA SameDead ==
  ASSUME AloneInv, TraceInv, method' = method, runs' = runs,
         UNCHANGED <<branches, already, at, toTaint, toAdd>>
  PROVE  AloneInv' /\ TraceInv'
<1>1. AloneInv' BY DEF AloneInv
<1>2. Ahead' = Ahead BY SameRuns
<1>3. CASE branches[1].tainted \/ 1 \in toTaint BY <1>1, <1>3 DEF TraceInv
<1>4. CASE ~branches[1].tainted /\ 1 \notin toTaint
  <2>1. PICK S : S = IF at = 1 THEN runs ELSE Ahead OBVIOUS
  <2>2. Traced(branches'[1], already', S) BY <2>1, <1>4 DEF TraceInv
  <2>3. S = (IF at' = 1 THEN runs' ELSE Ahead') BY <2>1, <1>2
  <2> QED BY <2>2, <2>3, <1>1, TracedNext
<1> QED BY <1>3, <1>4

\* What is noted of a branch: what was, with the taint the branch has now, and where it is.
LEMMA CollectedForms ==
  ASSUME Inv, CollectDecisions, NEW i \in DOMAIN decisions', NEW k \in DOMAIN decisions'[i]
  PROVE  /\ i \in DOMAIN branches
         /\ \/ /\ i \in DOMAIN decisions /\ k \in DOMAIN decisions[i]
               /\ decisions'[i][k] =
                    IF OnCode(i) THEN [decisions[i][k] EXCEPT !.tainted = branches[i].tainted]
                    ELSE decisions[i][k]
            \/ AtATest(i) /\ decisions'[i][k] = Decision(i)
<1> DEFINE old == IF OnCode(i) THEN Retaint(Noted(i), branches[i].tainted) ELSE Noted(i)
           new == IF AtATest(i) THEN <<Decision(i)>> ELSE <<>>
<1>1. i \in DOMAIN branches /\ decisions'[i] = old \o new BY DEF CollectDecisions
<1>2. old \in Seq(Decisions) BY <1>1, NotedTyped
<1>3. new \in Seq(Decisions)
  <2>1. CASE AtATest(i)
    <3>1. Decision(i) \in Decisions BY <2>1, <1>1, DecisionTyped DEF AtATest
    <3> QED BY <2>1, <3>1
  <2>2. CASE ~AtATest(i) BY <2>2
  <2> QED BY <2>1, <2>2
<1>4. \A l \in DOMAIN old :
        /\ i \in DOMAIN decisions /\ l \in DOMAIN decisions[i]
        /\ old[l] = IF OnCode(i) THEN [decisions[i][l] EXCEPT !.tainted = branches[i].tainted]
                    ELSE decisions[i][l]
  BY DEF Noted, Retaint
<1>5. \A l \in DOMAIN new : AtATest(i) /\ new[l] = Decision(i) OBVIOUS
<1> HIDE DEF old, new
<1>6. /\ old \o new \in Seq(Decisions) /\ Len(old \o new) = Len(old) + Len(new)
      /\ \A l \in 1 .. Len(old) : (old \o new)[l] = old[l]
      /\ \A l \in 1 .. Len(new) : (old \o new)[Len(old) + l] = new[l]
  BY <1>2, <1>3, SeqConcat
<1>7. /\ Len(old) \in Nat /\ DOMAIN old = 1 .. Len(old)
      /\ Len(new) \in Nat /\ DOMAIN new = 1 .. Len(new)
  BY <1>2, <1>3, SeqElim
<1>8. k \in 1 .. Len(old) + Len(new)
  <2>1. DOMAIN (old \o new) = 1 .. Len(old \o new) BY <1>6, SeqElim
  <2> QED BY <2>1, <1>1, <1>6
<1>9. CASE k <= Len(old)
  <2>1. k \in DOMAIN old BY <1>7, <1>8, <1>9
  <2>2. decisions'[i][k] = old[k] BY <2>1, <1>1, <1>6, <1>7
  <2> QED BY <2>1, <2>2, <1>1, <1>4
<1>10. CASE k > Len(old)
  <2>1. PICK l \in 1 .. Len(new) : k = Len(old) + l
    <3>1. k - Len(old) \in 1 .. Len(new) /\ k = Len(old) + (k - Len(old)) BY <1>7, <1>8, <1>10
    <3> QED BY <3>1
  <2>2. decisions'[i][k] = new[l] /\ l \in DOMAIN new BY <2>1, <1>1, <1>6, <1>7
  <2> QED BY <2>2, <1>1, <1>5
<1> QED BY <1>7, <1>8, <1>9, <1>10

LEMMA CollectDecisionsDead ==
  ASSUME Inv, AloneInv, TraceInv, NotedInv, CollectDecisions, runs' = runs
  PROVE  AloneInv' /\ TraceInv' /\ NotedInv'
<1>1. /\ phase = "collect" /\ method' = method
      /\ UNCHANGED <<branches, already, at, toTaint, toAdd>>
      /\ decisions' = [i \in DOMAIN branches |->
           (IF OnCode(i) THEN Retaint(Noted(i), branches[i].tainted) ELSE Noted(i))
           \o IF AtATest(i) THEN <<Decision(i)>> ELSE <<>>]
  BY DEF CollectDecisions, fixed
<1>2. AloneInv' /\ TraceInv' BY <1>1, SameDead
<1>3. at = 1 /\ toTaint = {} BY <1>1 DEF Inv, TypeOK
<1>4. branches[1].tainted \/ Image(branches[1]) \in runs BY <1>3 DEF TraceInv, Traced
<1>5. OnCode(1)' \/ Noted(1)' = <<>>
  <2>1. OnCode(1)' = OnCode(1) BY <1>1 DEF OnCode, Address
  <2>2. CASE ~OnCode(1)
    <3>1. Noted(1) = <<>> /\ ~AtATest(1) BY <2>2 DEF NotedInv, AtATest
    <3>2. 1 \in DOMAIN branches BY DEF AloneInv
    <3>3. decisions'[1] = <<>> \o <<>> BY <2>2, <3>1, <3>2, <1>1
    <3>4. decisions'[1] = <<>> BY <3>3
    <3> QED BY <3>4 DEF Noted
  <2> QED BY <2>1, <2>2
<1>6. ASSUME NEW i \in DOMAIN decisions', NEW k \in DOMAIN decisions'[i]
      PROVE  Founded(i, decisions[i][k])'
  <2>1. PICK d : d = decisions'[i][k] OBVIOUS
  <2>2. Image(decisions[i][k])' = Image(d) BY <2>1, <1>1 DEF Image, Regs
  <2>3. AtTestOf(Image(decisions[i][k]))' <=> AtTestOf(Image(d)) BY <2>2, <1>1 DEF AtTestOf, Address
  <2>4. i \in DOMAIN branches BY CollectedForms
  <2>5. /\ AtTestOf(Image(d)) /\ (i = 1 \/ d.tainted) /\ (d.tainted \/ ~branches[1].tainted)
        /\ (i = 1 /\ ~branches[1].tainted) => Image(d) \in runs
    <3>1. CASE AtATest(i) /\ d = Decision(i)
      <4>1. d.pc = branches[i].pc /\ d.regs = branches[i].regs /\ d.tainted = branches[i].tainted
        BY <3>1 DEF Decision
      <4>2. Image(d) = Image(branches[i]) /\ Image(d).pc = branches[i].pc BY <4>1 DEF Image
      <4>3. AtTestOf(Image(d)) BY <3>1, <4>2 DEF AtTestOf, AtATest, OnCode
      <4> QED BY <4>1, <4>2, <4>3, <2>4, <1>4 DEF AloneInv
    <3>2. CASE /\ i \in DOMAIN decisions /\ k \in DOMAIN decisions[i]
               /\ d = IF OnCode(i) THEN [decisions[i][k] EXCEPT !.tainted = branches[i].tainted]
                      ELSE decisions[i][k]
      <4>1. PICK e : e = decisions[i][k] OBVIOUS
      <4>2. e \in Decisions
        <5>1. decisions \in Seq(Seq(Decisions)) BY DEF Inv, TypeOK
        <5>2. decisions[i] \in Seq(Decisions) BY <5>1, <3>2
        <5> QED BY <5>2, <3>2, <4>1
      <4>3. Founded(i, e) BY <3>2, <4>1 DEF NotedInv
      <4>4. /\ d.pc = e.pc /\ d.regs = e.regs
            /\ d.tainted = IF OnCode(i) THEN branches[i].tainted ELSE e.tainted
        BY <3>2, <4>1, <4>2 DEF Decisions
      <4>5. Image(d) = Image(e) BY <4>4 DEF Image
      <4>6. i = 1 => OnCode(1) BY <3>2 DEF NotedInv, Noted
      <4> QED BY <4>3, <4>4, <4>5, <4>6, <2>4 DEF Founded, AloneInv
    <3> QED BY <3>1, <3>2, <2>1, CollectedForms
  <2> QED BY <2>1, <2>2, <2>3, <2>5, <1>1 DEF Founded
<1>7. NotedInv' BY <1>5, <1>6 DEF NotedInv
<1> QED BY <1>2, <1>7

LEMMA TurnsDead ==
  ASSUME Inv, ResultsInv, Straight, AloneInv, TraceInv, NotedInv, Turns, Observe
  PROVE  AloneInv' /\ TraceInv' /\ NotedInv'
<1>1. runs' = runs /\ conservative /\ ~Uses({"switch"}) /\ ReadAsWritten
  BY TurnObserved DEF Straight
<1>3. CASE SkipFinished BY <1>1, <1>3, SkipFinishedDead
<1>4. CASE Finish BY <1>1, <1>4, FinishDead
<1>5. CASE TestAgain BY <1>1, <1>5, TestAgainDead
<1>6. CASE TestUndecided BY <1>1, <1>6, TestUndecidedDead
<1>7. CASE Switch BY <1>1, <1>7 DEF Switch, On, Turn, ins, Uses
<1>8. CASE NotImpl BY <1>1, <1>8, NotImplDead
<1>9. CASE Going BY <1>1, <1>9, GoingDead
<1> QED BY <1>3, <1>4, <1>5, <1>6, <1>7, <1>8, <1>9 DEF Turns, Going

LEMMA InitDead == AInit => DInv
<1> SUFFICES ASSUME AInit PROVE DInv
  OBVIOUS
<1>1. Init /\ runs = {Start(0)} /\ AInv BY InitExact DEF AInit
<1> SUFFICES ASSUME Straight PROVE AloneInv /\ TraceInv /\ NotedInv
  BY <1>1 DEF DInv
<1>2. PICK new : new = NewBranch(0) OBVIOUS
<1>3. /\ branches = <<new>> /\ at = 1 /\ toAdd = <<>> /\ already = {} /\ decisions = <<>>
  BY <1>1, <1>2 DEF Init, Straight
<1>4. DOMAIN branches = {1} /\ branches[1] = new BY <1>3
<1>5. Image(new) = Start(0) /\ Live(new, 0) BY <1>2, NewBranchExact DEF Live, NewBranch
<1>6. Start(0).pc = 0 BY DEF Start
<1>7. \A c \in runs : Here(new, c) BY <1>1, <1>5, <1>6 DEF Here
<1>8. Traced(new, already, runs) BY <1>1, <1>5, <1>7 DEF Traced, Here
<1>9. AloneInv BY <1>3, <1>4 DEF AloneInv
<1>10. TraceInv BY <1>3, <1>4, <1>8 DEF TraceInv
<1>11. NotedInv BY <1>3 DEF NotedInv, Noted
<1> QED BY <1>9, <1>10, <1>11

LEMMA StepDead == DInv /\ [ANext]_vars => DInv'
<1> SUFFICES ASSUME DInv, [ANext]_vars PROVE DInv'
  OBVIOUS
<1>1. AInv /\ AInv' /\ Inv BY StepExact DEF DInv, AInv
<1>2. conservative' = conservative /\ query' = query /\ method' = method BY SameFixed
<1> SUFFICES ASSUME Straight' PROVE AloneInv' /\ TraceInv' /\ NotedInv'
  BY <1>1 DEF DInv
<1>3. Straight BY <1>2 DEF Straight, ReadAsWritten, Uses, Address
<1>4. AloneInv /\ TraceInv /\ NotedInv BY <1>3 DEF DInv
<1>5. query = "decisions" /\ phase # "idle" BY <1>1, <1>3 DEF Straight, Inv, TypeOK
<1>6. CASE UNCHANGED vars
  <2>1. UNCHANGED <<method, branches, already, at, toTaint, toAdd, decisions, phase, runs>>
    BY <1>6 DEF vars, flowVars
  <2>2. AloneInv' /\ TraceInv' BY <2>1, <1>4, SameDead
  <2>3. NotedInv' BY <2>1, <1>4 DEF NotedInv, OnCode, Noted, Founded, AtTestOf, Image, Regs, Address
  <2> QED BY <2>2, <2>3
<1>7. CASE Turns /\ Observe
  <2>1. ResultsInv BY <1>1, <1>3, NothingIgnored DEF AInv, Straight
  <2> QED BY <2>1, <1>1, <1>3, <1>4, <1>7, TurnsDead
<1>8. CASE EndLoop /\ Observe
  <2>1. runs' = Ahead BY <1>1, <1>8, RoundRuns
  <2> QED BY <2>1, <1>1, <1>4, <1>5, <1>8, EndLoopDead
<1>9. CASE CollectDecisions /\ Observe
  <2>1. runs' = runs BY <1>9 DEF CollectDecisions, Observe
  <2> QED BY <2>1, <1>1, <1>4, <1>9, CollectDecisionsDead
<1>10. ~CollectFound /\ ~NextInstruction /\ ~(\E start \in Address(method) : Reset(start))
  BY <1>5 DEF CollectFound, NextInstruction, Reset
<1> QED BY <1>6, <1>7, <1>8, <1>9, <1>10 DEF ANext, Next, Turns

\* An execution at the test of a decision that is not tainted holds what the decision holds.
LEMMA DeadAnswers == DInv => DeadBranchIsDeadHere
<1> SUFFICES ASSUME DInv, ~Uses({"switch"}), ReadAsWritten,
                    phase = "done", query = "decisions", conservative, NEW d \in DeadBranches,
                    \A i \in DOMAIN branches : branches[i].pc = d.pc => branches[i].finished,
                    NEW c \in runs, c.pc = d.pc
             PROVE  AgreesWith(d, c)
  BY DEF DeadBranchIsDeadHere, IsDead
<1>1. Inv /\ AloneInv /\ TraceInv /\ NotedInv BY DEF DInv, AInv, Straight
<1>2. d \in Answer /\ ~d.tainted /\ IsNumber(LeftOf(d)) /\ IsNumber(RightOf(d))
  BY DEF DeadBranches
<1>3. PICK i \in DOMAIN decisions : \E k \in DOMAIN decisions[i] : d = decisions[i][k]
  BY <1>2 DEF Answer, ToSet
<1>4. Founded(i, d) BY <1>1, <1>3 DEF NotedInv
<1>5. AtTestOf(Image(d)) /\ ~branches[1].tainted /\ Image(d) \in runs BY <1>2, <1>4 DEF Founded
<1>6. Traced(branches[1], already, runs) BY <1>1, <1>5 DEF TraceInv, Inv, TypeOK
<1>7. Image(d).pc = d.pc BY DEF Image
<1>8. d.pc \in Address(method) /\ method.code[d.pc].op \in {"test", "test_zero"}
  BY <1>5, <1>7 DEF AtTestOf
<1>9. ~Live(branches[1], d.pc) BY <1>1 DEF Live, AloneInv
<1>10. c = Image(d) BY <1>5, <1>6, <1>7, <1>9 DEF Traced
<1>11. method.code[d.pc].left \in Regs(method) /\ method.code[d.pc].right \in Regs(method)
  BY <1>1, <1>8, MethodFacts DEF Inv, WellFormed
<1>12. \A r \in Regs(method) : c.regs[r] = IF IsNumber(d.regs[r]) THEN d.regs[r] ELSE Unknown
  BY <1>10 DEF Image
<1> QED BY <1>2, <1>8, <1>11, <1>12 DEF AgreesWith, Outcomes, LeftOf, RightOf

\* In conservative mode, in a method without a switch none of whose instructions is misread, a
\* test that is called dead goes one way in every execution of as many instructions as there
\* were rounds, unless the analysis was cut off when a branch was about to make it.
THEOREM DeadBranchCorrect == ASpec => []DeadBranchIsDeadHere
<1> QED BY InitDead, StepDead, DeadAnswers, PTL DEF ASpec
=============================================================================
