---------------------------- MODULE StaticAnswers ----------------------------
(***************************************************************************)
(* StaticFlow beside the executions of the method it follows.  paths holds *)
(* for every branch what an execution along its path would hold: of each   *)
(* register, and of the result a move_result would fetch, where the value  *)
(* comes from.  reached holds the addresses executions get to in fewer     *)
(* instructions than the flow has made rounds, whatever the tests say.     *)
(***************************************************************************)
EXTENDS StaticFlow

VARIABLES
  paths, forkPaths,     \* the paths of branches, by id, and of new_branches
  reached, pruned       \* history, all four: they guard nothing

vars == <<flowVars, paths, forkPaths, reached, pruned>>

\* Where a value comes from.
Source(kind, n, name) == [kind |-> kind, n |-> n, name |-> name]
From(kind, n) == Source(kind, n, NoCallee)
\* Written by an instruction the flow takes no notice of, or an array of unknown size.
Unseen == From("unseen", 0)

\* tested: the last test for zero; plain: whether what arraycopy wrote to was always described
\* by the register it was passed in.
NewPath(m) ==
  [regs   |-> [r \in Regs(m) |-> From("start", r)],
   result |-> Unseen,
   tested |-> [noted |-> FALSE, nonZero |-> FALSE, value |-> Unseen],
   plain  |-> TRUE]

\* The path that the instruction of this turn makes of p, unless it is a test for zero.
Behind(p) ==
  LET set(s)   == [p EXCEPT !.regs[ins.dst] = s]
      fetch(s) == [p EXCEPT !.result = s]
  IN CASE ins.op = "const"            -> set(From("literal", ins.lit))
       [] ins.op = "string"           -> set(From("string", ins.lit))
       [] ins.op \in {"sget", "iget"} -> set(From("field", ins.lit))
       [] ins.op = "new"              -> set(From("object", me.next))
       [] ins.op = "new_array"        -> set(IF Reg(ins.src).data.kind = "literal"
                                             THEN From("object", me.next) ELSE Unseen)
       [] ins.op = "unseen"           -> set(Unseen)
       [] ins.op = "move"             -> set(p.regs[ins.src])
       [] ins.op = "move_result"      -> set(p.result)
       [] ins.op = "filled"           -> fetch(Unseen)
       [] ins.op = "invoke_range"     -> fetch(Source("call", 0, ins.name))
       [] ins.op = "invoke"           ->
            IF ins.name # NoCallee /\ Copies
            THEN [p EXCEPT !.regs[ins.args[3]] = p.regs[ins.args[1]],
                           !.result = Unseen,
                           !.plain  = @ /\ Arguments[3].reg = ins.args[3]]
            ELSE fetch(IF ins.name = NoCallee THEN Unseen ELSE Source("call", 0, ins.name))
       [] OTHER                       -> p

\* A test for zero on the path, that jumps or does not.
Noting == me.next \notin already /\ ~Dead(Reg(ins.src)) /\ MayFork
Tested(p, jumps) ==
  [p EXCEPT !.tested = [noted   |-> Noting /\ ins.how \in {"eq", "ne"},
                        nonZero |-> (ins.how = "eq") # jumps,
                        value   |-> p.regs[ins.src]]]

\* One branch's turn, and the branches forked in it.
ObserveTurn ==
  LET path == paths[me.id]
      test == Turn /\ ins.op = "test_zero"
      new  == Len(forks') - Len(forks)
  IN /\ paths' = IF ~Turn THEN paths
                 ELSE [paths EXCEPT ![me.id] =
                         IF test THEN Tested(@, branches'[at].next # me.next + 1) ELSE Behind(@)]
     /\ forkPaths' = forkPaths \o [k \in 1 .. new |-> IF test THEN Tested(path, TRUE) ELSE path]
     /\ pruned' = (pruned \/ (test /\ me.next \notin already /\ Dead(Reg(ins.src))))
     /\ UNCHANGED reached

Successors(a) ==
  LET i == method.code[a]
      jumps == {a + i.to[k] : k \in DOMAIN i.to}
  IN CASE i.op \in {"return", "throw"}             -> {}
       [] i.op = "goto"                            -> jumps
       [] i.op \in {"test", "test_zero", "switch"} -> jumps \cup {a + 1}
       [] OTHER                                    -> {a + 1}

ObserveRound ==
  /\ paths' = [id \in {branches'[k].id : k \in DOMAIN branches'} |->
                 IF id <= total THEN paths[id] ELSE forkPaths[id - total]]
  /\ forkPaths' = <<>>
  /\ reached' = {0} \cup UNION {Successors(a) \cup {a} : a \in reached \cap Address(method)}
  /\ UNCHANGED pruned

AInit == /\ Init
         /\ paths = [id \in {1} |-> NewPath(method)] /\ forkPaths = <<>>
         /\ reached = {} /\ pruned = FALSE
ANext ==
  /\ Next
  /\ IF at' > at THEN ObserveTurn
     ELSE IF at' < at THEN ObserveRound
     ELSE UNCHANGED <<paths, forkPaths, reached, pruned>>

\* build_information_graph calls next_instruction in a loop that waits for nothing.
ASpec == AInit /\ [][ANext]_vars /\ WF_vars(ANext)

(***************************************************************************)
(* Properties                                                              *)
(***************************************************************************)
\* What a branch says of a register is so: the call, the literal, the string or the field that
\* the graph names as an argument's origin is where the value on the branch's path comes from,
\* through moves, results and copies - unless the value was written by an instruction the flow
\* has no arm for, or a copy went to another register than the one passed.
Says(v, s) ==
  /\ v.call # NoCall => s.kind = "call" /\ s.name = v.call.callee
  /\ v.data.kind \in {"literal", "string", "field"} => s.kind = v.data.kind /\ s.n = v.data.n
KnownIsReal ==
  \A k \in DOMAIN branches :
    LET b == branches[k]
        p == paths[b.id]
    IN p.plain => \A r \in DOMAIN b.regs : p.regs[r] # Unseen => Says(b.regs[r], p.regs[r])

\* The condition that arguments are shown under is that of the last test for zero on the
\* branch's path, and says of its value what the way taken implies - if it tests for equality or
\* inequality, no branch has met it before and the number of branches allowed a fork.
ConditionIsTheLast ==
  \A k \in DOMAIN branches :
    LET b == branches[k]
        t == paths[b.id].tested
    IN t.noted =>
         /\ b.condition.set /\ b.condition.is = t.nonZero
         /\ paths[b.id].plain /\ t.value # Unseen /\ b.condition.call # NoCall
              => t.value.kind = "call" /\ t.value.name = b.condition.call.callee

\* After every round, the methods called from the method are among those that executions
\* call, going either way at tests, in as many instructions; and all of those, unless a test was
\* computed or there were too many branches to fork.
CallsFrom(where) ==
  {method.code[a].name : a \in {b \in where \cap Address(method) :
     /\ method.code[b].op \in {"invoke", "invoke_range"}
     /\ method.code[b].name # NoCallee /\ Callees[method.code[b].name].inGraph}}
CallsNoted ==
  {changes[k].destination : k \in {j \in DOMAIN changes : changes[j].kind = "edge"
     /\ changes[j].origin = "method" /\ changes[j].destination \in DOMAIN Callees}}
CallsAreExact ==
  at = 1 /\ forks = <<>> /\ finished = {} =>
    /\ CallsNoted \subseteq CallsFrom(reached)
    /\ ~pruned /\ total < BranchLimit => CallsNoted = CallsFrom(reached)

\* The limit on branches is looked at before the forks of a round count, so that all of a
\* round's branches may fork: this is how far beyond it they get.
BranchesBounded == total <= (BranchLimit - 1) * (1 + MaxTargets)

\* Following a method ends, whatever loops it has.
FlowEnds == <>(phase = "done")
=============================================================================
