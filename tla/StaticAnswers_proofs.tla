------------------------- MODULE StaticAnswers_proofs -------------------------
(***************************************************************************)
(* Proofs about StaticFlow and StaticAnswers, for all methods and limits:  *)
(* what the flow says is so on the paths of its branches, the methods it   *)
(* notes are those that executions call, and its branches are bounded.     *)
(***************************************************************************)
EXTENDS StaticAnswers, Lists_proofs

-----------------------------------------------------------------------------
(* The invariant.                                                          *)

Value(m) == [reg : Regs(m), data : [kind : DataKinds, n : Int], call : Calls,
             isArg : BOOLEAN, isArray : BOOLEAN, inner : Seq(0 .. 255)]
Branch(m) == [id : Nat \ {0}, next : Int, call : Calls,
              condition : [is : BOOLEAN, set : BOOLEAN, call : Calls], regs : [Regs(m) -> Value(m)]]

TypeInv ==
  /\ method \in Methods
  /\ branches \in Seq(Branch(method)) /\ forks \in Seq(Branch(method))
  /\ at \in 1 .. Len(branches) + 1 /\ total \in Nat \ {0}
  /\ already \subseteq Address(method) /\ IsSequence(changes)

\* Branches have numbers of their own.
IdInv ==
  /\ \A k \in DOMAIN branches : branches[k].id <= total
  /\ \A j, k \in DOMAIN branches : j # k => branches[j].id # branches[k].id

\* Every branch that had its turn may have forked.
BoundInv ==
  /\ Len(branches) <= total
  /\ Len(forks) <= (at - 1) * MaxTargets
  /\ forks # <<>> => total < BranchLimit
  /\ BranchesBounded

Origins == [kind : {"start", "unseen", "literal", "string", "field", "object", "call"},
            n : Int, name : DOMAIN Callees \cup {NoCallee}]
Path(m) == [regs : [Regs(m) -> Origins], result : Origins,
            tested : [noted : BOOLEAN, nonZero : BOOLEAN, value : Origins], plain : BOOLEAN]

\* What branch b says is so on path p.
Known(b, p) ==
  /\ p.plain => \A r \in DOMAIN b.regs : p.regs[r] # Unseen => Says(b.regs[r], p.regs[r])
  /\ b.call # NoCall => p.result = Unseen \/ (p.result.kind = "call" /\ p.result.name = b.call.callee)
  /\ p.tested.noted =>
       /\ b.condition.set /\ b.condition.is = p.tested.nonZero
       /\ p.plain /\ p.tested.value # Unseen /\ b.condition.call # NoCall
            => p.tested.value.kind = "call" /\ p.tested.value.name = b.condition.call.callee

PathInv ==
  /\ forkPaths \in Seq(Path(method)) /\ Len(forkPaths) = Len(forks)
  /\ \A k \in DOMAIN forks : Known(forks[k], forkPaths[k])
  /\ \A k \in DOMAIN branches :
       LET id == branches[k].id
       IN id \in DOMAIN paths /\ paths[id] \in Path(method) /\ Known(branches[k], paths[id])

\* Where executions get to that have one instruction more.
Further == {0} \cup UNION {Successors(a) \cup {a} : a \in reached \cap Address(method)}
Next1(D) == UNION {Successors(a) : a \in D}

\* D: the instructions that have been met.
Met(D) ==
  /\ reached \cap Address(method) \subseteq D /\ D \subseteq Further \cap Address(method)
  /\ at = 1 => D = reached \cap Address(method)
  /\ already \subseteq D
  /\ CallsNoted \subseteq CallsFrom(D)
  /\ \A k \in DOMAIN branches :
       \/ branches[k].next \in (IF k < at THEN Next1(D) ELSE Further)
       \/ branches[k].id \in finished
  /\ \A k \in DOMAIN branches : k >= at => branches[k].id \notin finished
  /\ \A k \in DOMAIN forks : forks[k].next \in Next1(D)
AllMet(D) ==
  /\ CallsFrom(D) \subseteq CallsNoted
  /\ \A a \in Further \cap Address(method) :
       a \in D \/ \E k \in at .. Len(branches) : branches[k].next = a
  /\ \A a \in Next1(D) \cap Address(method) :
       \/ a \in D
       \/ \E k \in DOMAIN branches : branches[k].id \notin finished /\ branches[k].next = a
       \/ \E k \in DOMAIN forks : forks[k].next = a
MetInv ==
  \E D \in SUBSET Address(method) :
    /\ Met(D)
    /\ ~pruned /\ total < BranchLimit => AllMet(D)

-----------------------------------------------------------------------------
(* One branch's turn.                                                      *)

\* The branch becomes b, forks new and ends if it is in ended.
Turned(b, new, ended) ==
  /\ at \in DOMAIN branches
  /\ b \in Branch(method) /\ b.id = me.id
  /\ new \in Seq(Branch(method)) /\ Len(new) <= MaxTargets /\ (new # <<>> => MayFork)
  /\ branches' = [branches EXCEPT ![at] = b] /\ at' = at + 1
  /\ forks' = forks \o new /\ finished' = finished \cup ended /\ ended \subseteq {me.id}
  /\ already' \subseteq already \cup ({me.next} \cap Address(method))
  /\ method' = method /\ total' = total /\ IsSequence(changes')

LEMMA TypeStep ==
  ASSUME TypeInv, IdInv, BoundInv, NEW b, NEW new, NEW ended, Turned(b, new, ended)
  PROVE  /\ TypeInv' /\ IdInv' /\ BoundInv'
         /\ Len(branches') = Len(branches) /\ DOMAIN branches' = DOMAIN branches
         /\ branches'[at] = b /\ \A k \in DOMAIN branches : k # at => branches'[k] = branches[k]
         /\ \A k \in DOMAIN branches : branches'[k].id = branches[k].id
<1>. DEFINE B == Branch(method)
<1>1. /\ branches \in Seq(B) /\ Len(branches) \in Nat /\ DOMAIN branches = 1 .. Len(branches)
      /\ at \in 1 .. Len(branches) /\ b \in B
  BY DEF TypeInv, Turned
<1>2. /\ branches' \in Seq(B) /\ Len(branches') = Len(branches) /\ DOMAIN branches' = DOMAIN branches
      /\ branches'[at] = b /\ \A k \in DOMAIN branches : k # at => branches'[k] = branches[k]
  BY <1>1 DEF Turned
<1>3. \A k \in DOMAIN branches : branches'[k].id = branches[k].id
  BY <1>2 DEF Turned, me
<1>4. forks \in Seq(B) /\ new \in Seq(B) /\ forks' = forks \o new
  BY DEF TypeInv, Turned
<1>. HIDE DEF B
<1>5. forks' \in Seq(B) /\ Len(forks') = Len(forks) + Len(new) /\ Len(forks) \in Nat /\ Len(new) \in Nat
  BY <1>4
<1>6. at' = at + 1 /\ total' = total /\ method' = method /\ total \in Nat \ {0}
  BY DEF Turned, TypeInv
<1>7. TypeInv'
  <2>1. at' \in 1 .. Len(branches') + 1
    BY <1>1, <1>2, <1>6
  <2>2. already' \subseteq Address(method')
    BY <1>6 DEF Turned, TypeInv
  <2>3. method' \in Methods /\ IsSequence(changes')
    BY <1>6 DEF TypeInv, Turned
  <2>. QED  BY <1>2, <1>5, <1>6, <2>1, <2>2, <2>3 DEF TypeInv, B
<1>8. IdInv'
  BY <1>2, <1>3, <1>6 DEF IdInv
<1>9. BoundInv'
  <2>1. MaxTargets \in Nat /\ BranchLimit \in Nat
    BY BoundsAssumption
  <2>2. Len(forks) <= (at - 1) * MaxTargets /\ Len(new) <= MaxTargets
    BY DEF BoundInv, Turned
  <2>3. /\ (at' - 1) * MaxTargets = (at - 1) * MaxTargets + MaxTargets
        /\ (at - 1) * MaxTargets \in Int
    BY <1>1, <1>6, <2>1
  <2>4. Len(forks') <= (at' - 1) * MaxTargets
    <3>. DEFINE p == (at - 1) * MaxTargets
                q == (at' - 1) * MaxTargets
    <3>1. q = p + MaxTargets /\ p \in Int /\ Len(forks) <= p
      BY <2>2, <2>3
    <3>. HIDE DEF p, q
    <3>2. Len(forks') <= q
      BY <1>5, <2>1, <2>2, <3>1
    <3>. QED  BY <3>2 DEF q
  <2>5. forks' # <<>> => total' < BranchLimit
    <3>1. CASE new = <<>>
      <4>1. forks' = forks
        BY <1>4, <3>1
      <4>. QED  BY <1>6, <4>1 DEF BoundInv
    <3>2. CASE new # <<>>
      BY <1>6, <3>2 DEF Turned, MayFork
    <3>. QED  BY <3>1, <3>2
  <2>6. Len(branches') <= total' /\ BranchesBounded'
    BY <1>2, <1>6 DEF BoundInv, BranchesBounded
  <2>. QED  BY <2>4, <2>5, <2>6 DEF BoundInv
<1>. QED  BY <1>2, <1>3, <1>7, <1>8, <1>9

\* The branch's path becomes q, those of what it forks are qs.
Observed(b, new, q, qs) ==
  /\ q \in Path(method) /\ Known(b, q) /\ DOMAIN paths' = DOMAIN paths
  /\ \A id \in DOMAIN paths : paths'[id] = IF id = me.id THEN q ELSE paths[id]
  /\ qs \in Seq(Path(method)) /\ Len(qs) = Len(new) /\ forkPaths' = forkPaths \o qs
  /\ \A k \in DOMAIN new : Known(new[k], qs[k])

LEMMA PathStep ==
  ASSUME TypeInv, IdInv, BoundInv, PathInv,
         NEW b, NEW new, NEW ended, Turned(b, new, ended),
         NEW q, NEW qs, Observed(b, new, q, qs)
  PROVE  PathInv'
<1>1. /\ DOMAIN branches' = DOMAIN branches /\ at \in DOMAIN branches /\ method' = method
      /\ branches'[at] = b /\ \A k \in DOMAIN branches : k # at => branches'[k] = branches[k]
      /\ \A k \in DOMAIN branches : branches'[k].id = branches[k].id
  BY TypeStep DEF Turned
<1>2. ASSUME NEW k \in DOMAIN branches
      PROVE  LET id == branches'[k].id
             IN id \in DOMAIN paths' /\ paths'[id] \in Path(method) /\ Known(branches'[k], paths'[id])
  <2>. DEFINE id == branches[k].id
  <2>1. id \in DOMAIN paths /\ paths[id] \in Path(method) /\ Known(branches[k], paths[id])
    BY DEF PathInv
  <2>2. /\ DOMAIN paths' = DOMAIN paths
        /\ \A i \in DOMAIN paths : paths'[i] = IF i = me.id THEN q ELSE paths[i]
    BY DEF Observed
  <2>3. CASE k = at
    <3>1. id = me.id /\ paths'[id] = q
      BY <2>1, <2>2, <2>3 DEF me
    <3>. QED  BY <1>1, <2>1, <2>2, <2>3, <3>1 DEF Observed
  <2>4. CASE k # at
    <3>1. id # me.id
      BY <1>1, <2>4 DEF IdInv, me
    <3>2. paths'[id] = paths[id]
      BY <2>1, <2>2, <3>1
    <3>3. branches'[k] = branches[k]
      BY <1>1, <2>4
    <3>. QED  BY <2>1, <2>2, <3>2, <3>3
  <2>. QED  BY <2>3, <2>4
<1>3. forkPaths \in Seq(Path(method)) /\ Len(forkPaths) = Len(forks)
  BY DEF PathInv
<1>4. /\ forks \in Seq(Branch(method)) /\ new \in Seq(Branch(method)) /\ forks' = forks \o new
      /\ qs \in Seq(Path(method)) /\ Len(qs) = Len(new) /\ forkPaths' = forkPaths \o qs
  BY DEF TypeInv, Turned, Observed
<1>5. forkPaths' \in Seq(Path(method)) /\ Len(forkPaths') = Len(forks')
  <2>1. forkPaths' \in Seq(Path(method)) /\ Len(forkPaths') = Len(forkPaths) + Len(qs)
    BY <1>3, <1>4, SeqConcat
  <2>2. Len(forks') = Len(forks) + Len(new)
    BY <1>4, SeqConcat
  <2>. QED  BY <1>3, <1>4, <2>1, <2>2
<1>6. ASSUME NEW k \in DOMAIN forks'
      PROVE  Known(forks'[k], forkPaths'[k])
  <2>1. k \in 1 .. Len(forks) \/ \E j \in 1 .. Len(new) : k = Len(forks) + j
    BY <1>4, <1>6, SeqConcat
  <2>2. CASE k \in 1 .. Len(forks)
    <3>1. forks'[k] = forks[k] /\ forkPaths'[k] = forkPaths[k]
      BY <1>3, <1>4, <2>2, SeqConcat
    <3>2. k \in DOMAIN forks
      BY <1>4, <2>2
    <3>. QED  BY <3>1, <3>2 DEF PathInv
  <2>3. CASE \E j \in 1 .. Len(new) : k = Len(forks) + j
    <3>1. PICK j \in 1 .. Len(new) : k = Len(forks) + j
      BY <2>3
    <3>2. forks'[k] = new[j] /\ forkPaths'[k] = qs[j] /\ j \in DOMAIN new
      BY <1>3, <1>4, <3>1, SeqConcat
    <3>. QED  BY <3>2 DEF Observed
  <2>. QED  BY <2>1, <2>2, <2>3
<1>. QED  BY <1>1, <1>2, <1>5, <1>6 DEF PathInv

\* The branch goes on to where executions go on, and the call is noted.
Goes(b, new, ended) ==
  /\ me.next \notin Address(method) => ended = {me.id} /\ new = <<>>
  /\ me.next \in Address(method) =>
       /\ ended = {} => b.next \in Successors(me.next)
       /\ \A k \in DOMAIN new : new[k].next \in Successors(me.next)
       /\ ~pruned' /\ MayFork /\ me.next \notin already =>
            \A a \in Successors(me.next) :
              (ended = {} /\ b.next = a) \/ \E k \in DOMAIN new : new[k].next = a
  /\ CallsNoted' = CallsNoted \cup CallsFrom({me.next})
  /\ (pruned => pruned') /\ reached' = reached

LEMMA CallsOf ==
  ASSUME NEW S, NEW T
  PROVE  /\ CallsFrom(S \cup T) = CallsFrom(S) \cup CallsFrom(T)
         /\ S \subseteq T => CallsFrom(S) \subseteq CallsFrom(T)
         /\ CallsFrom(S) = CallsFrom(S \cap Address(method))
  BY DEF CallsFrom

LEMMA MetStep ==
  ASSUME TypeInv, IdInv, BoundInv, MetInv,
         NEW b, NEW new, NEW ended, Turned(b, new, ended), Goes(b, new, ended)
  PROVE  MetInv'
<1>1. /\ DOMAIN branches' = DOMAIN branches /\ Len(branches') = Len(branches)
      /\ at \in DOMAIN branches /\ method' = method
      /\ branches'[at] = b /\ \A k \in DOMAIN branches : k # at => branches'[k] = branches[k]
      /\ \A k \in DOMAIN branches : branches'[k].id = branches[k].id
  BY TypeStep DEF Turned
<1>2. /\ DOMAIN branches = 1 .. Len(branches) /\ Len(branches) \in Nat /\ at \in Nat \ {0}
      /\ at' = at + 1 /\ total' = total /\ finished' = finished \cup ended /\ ended \subseteq {me.id}
      /\ forks \in Seq(Branch(method)) /\ new \in Seq(Branch(method)) /\ forks' = forks \o new
      /\ me = branches[at]
  BY DEF TypeInv, Turned, me
<1>3. PICK D \in SUBSET Address(method) :
        Met(D) /\ (~pruned /\ total < BranchLimit => AllMet(D))
  BY DEF MetInv
<1>. PICK E : E = D \cup ({me.next} \cap Address(method))
  OBVIOUS
<1>4. /\ Further' = Further /\ \A a : Successors(a)' = Successors(a)
      /\ \A S : Next1(S)' = Next1(S) /\ CallsFrom(S)' = CallsFrom(S)
  <2>1. reached' = reached /\ method' = method
    BY <1>1 DEF Goes
  <2>2. Further' = Further
    BY <2>1 DEF Further, Successors, Address
  <2>3. \A a : Successors(a)' = Successors(a)
    BY <2>1 DEF Successors
  <2>4. \A S : Next1(S)' = Next1(S) /\ CallsFrom(S)' = CallsFrom(S)
    BY <2>1 DEF Next1, Successors, CallsFrom, Address
  <2>. QED  BY <2>2, <2>3, <2>4
<1>5. /\ CallsFrom(E) = CallsFrom(D) \cup CallsFrom({me.next})
      /\ Next1(D) \subseteq Next1(E)
      /\ me.next \in Address(method) => Successors(me.next) \subseteq Next1(E)
      /\ \A a \in Next1(E) : a \in Next1(D) \/ (me.next \in Address(method) /\ a \in Successors(me.next))
  <2>1. CallsFrom(E) = CallsFrom(D) \cup CallsFrom({me.next})
    <3>1. CallsFrom(E) = CallsFrom(D) \cup CallsFrom({me.next} \cap Address(method))
      BY CallsOf
    <3>2. CallsFrom({me.next} \cap Address(method)) = CallsFrom({me.next})
      BY CallsOf
    <3>. QED  BY <3>1, <3>2
  <2>. QED  BY <2>1 DEF Next1
<1>6. me.id \notin finished /\ me.next \in Further
  <2>1. me.id \notin finished
    BY <1>1, <1>2, <1>3 DEF Met
  <2>. QED  BY <1>1, <1>2, <1>3, <2>1 DEF Met
<1>7. \A k \in DOMAIN branches : k # at => (branches[k].id \in finished' <=> branches[k].id \in finished)
  <2>1. \A k \in DOMAIN branches : k # at => branches[k].id # me.id
    BY <1>1, <1>2 DEF IdInv
  <2>. QED  BY <1>2, <2>1
<1>8. Met(E)'
  <2>1. reached \cap Address(method) \subseteq E /\ E \subseteq Further \cap Address(method)
    BY <1>3, <1>6 DEF Met
  <2>2. at' # 1
    BY <1>2
  <2>3. already' \subseteq E
    BY <1>3 DEF Met, Turned
  <2>4. CallsNoted' \subseteq CallsFrom(E)
    BY <1>3, <1>5 DEF Met, Goes
  <2>5. ASSUME NEW k \in DOMAIN branches
        PROVE  \/ branches'[k].next \in (IF k < at' THEN Next1(E) ELSE Further)
               \/ branches'[k].id \in finished'
    <3>1. CASE k = at
      <4>1. k < at' /\ branches'[k] = b /\ b.id = me.id
        BY <1>1, <1>2, <3>1 DEF Turned
      <4>2. b.next \in Next1(E) \/ me.id \in ended
        <5>1. CASE ended = {}
          BY <1>5, <5>1 DEF Goes
        <5>2. CASE ended # {}
          BY <1>2, <5>2
        <5>. QED  BY <5>1, <5>2
      <4>. QED  BY <1>2, <4>1, <4>2
    <3>2. CASE k # at
      <4>1. branches'[k] = branches[k] /\ (k < at' <=> k < at)
        BY <1>1, <1>2, <3>2
      <4>2. \/ branches[k].next \in (IF k < at THEN Next1(D) ELSE Further)
            \/ branches[k].id \in finished
        BY <1>3 DEF Met
      <4>. QED  BY <1>2, <1>5, <4>1, <4>2
    <3>. QED  BY <3>1, <3>2
  <2>6. ASSUME NEW k \in DOMAIN branches, k >= at'
        PROVE  branches'[k].id \notin finished'
    <3>1. k # at /\ k >= at
      BY <1>2, <2>6
    <3>2. branches[k].id \notin finished
      BY <1>3, <3>1 DEF Met
    <3>. QED  BY <1>1, <1>7, <3>1, <3>2
  <2>7. ASSUME NEW k \in DOMAIN forks'
        PROVE  forks'[k].next \in Next1(E)
    <3>1. k \in 1 .. Len(forks) \/ \E j \in 1 .. Len(new) : k = Len(forks) + j
      BY <1>2, <2>7, SeqConcat
    <3>2. CASE k \in 1 .. Len(forks)
      <4>1. forks'[k] = forks[k] /\ k \in DOMAIN forks
        BY <1>2, <3>2, SeqConcat
      <4>. QED  BY <1>3, <1>5, <4>1 DEF Met
    <3>3. CASE \E j \in 1 .. Len(new) : k = Len(forks) + j
      <4>1. PICK j \in 1 .. Len(new) : k = Len(forks) + j
        BY <3>3
      <4>2. forks'[k] = new[j] /\ j \in DOMAIN new
        BY <1>2, <4>1, SeqConcat
      <4>3. me.next \in Address(method) /\ new[j].next \in Successors(me.next)
        <5>1. new # <<>>
          BY <1>2, <4>2
        <5>. QED  BY <4>2, <5>1 DEF Goes
      <4>. QED  BY <1>5, <4>2, <4>3
    <3>. QED  BY <3>1, <3>2, <3>3
  <2>8. reached' = reached /\ Address(method)' = Address(method)
    BY <1>1 DEF Goes, Address
  <2>. QED  BY <1>1, <1>4, <2>1, <2>2, <2>3, <2>4, <2>5, <2>6, <2>7, <2>8 DEF Met
<1>9. ASSUME ~pruned', total' < BranchLimit
      PROVE  AllMet(E)'
  <2>1. AllMet(D) /\ MayFork
    BY <1>2, <1>3, <1>9 DEF Goes, MayFork
  <2>2. CallsFrom(E) \subseteq CallsNoted'
    BY <1>5, <2>1 DEF AllMet, Goes
  <2>3. ASSUME NEW a \in Further \cap Address(method), a \notin E
        PROVE  \E k \in at' .. Len(branches') : branches'[k].next = a
    <3>1. PICK k \in at .. Len(branches) : branches[k].next = a
      BY <2>1, <2>3 DEF AllMet
    <3>2. k # at
      BY <1>2, <2>3, <3>1
    <3>3. k \in at' .. Len(branches') /\ branches'[k] = branches[k]
      BY <1>1, <1>2, <3>1, <3>2
    <3>. QED  BY <3>1, <3>3
  <2>4. ASSUME NEW a \in Next1(E) \cap Address(method), a \notin E
        PROVE  \/ \E k \in DOMAIN branches' : branches'[k].id \notin finished' /\ branches'[k].next = a
               \/ \E k \in DOMAIN forks' : forks'[k].next = a
    <3>. DEFINE There == \/ \E k \in DOMAIN branches' : branches'[k].id \notin finished' /\ branches'[k].next = a
                         \/ \E k \in DOMAIN forks' : forks'[k].next = a
    <3>1. CASE a \in Next1(D)
      <4>1. \/ \E k \in DOMAIN branches : branches[k].id \notin finished /\ branches[k].next = a
            \/ \E k \in DOMAIN forks : forks[k].next = a
        BY <2>1, <2>4, <3>1 DEF AllMet
      <4>2. ASSUME NEW k \in DOMAIN branches, branches[k].id \notin finished, branches[k].next = a
            PROVE  There
        <5>1. k # at
          BY <1>2, <2>4, <4>2
        <5>2. branches'[k] = branches[k] /\ branches'[k].id \notin finished'
          BY <1>1, <1>7, <4>2, <5>1
        <5>. QED  BY <1>1, <4>2, <5>2
      <4>3. ASSUME NEW k \in DOMAIN forks, forks[k].next = a
            PROVE  There
        <5>1. k \in 1 .. Len(forks)
          BY <1>2
        <5>2. forks'[k] = forks[k] /\ k \in DOMAIN forks'
          BY <1>2, <5>1, SeqConcat
        <5>. QED  BY <4>3, <5>2
      <4>. QED  BY <4>1, <4>2, <4>3
    <3>2. CASE a \notin Next1(D)
      <4>1. me.next \in Address(method) /\ a \in Successors(me.next)
        BY <1>5, <2>4, <3>2
      <4>2. me.next \notin D
        BY <3>2, <4>1 DEF Next1
      <4>3. me.next \notin already
        BY <1>3, <4>2 DEF Met
      <4>4. (ended = {} /\ b.next = a) \/ \E k \in DOMAIN new : new[k].next = a
        BY <1>9, <2>1, <4>1, <4>3 DEF Goes
      <4>5. CASE ended = {} /\ b.next = a
        <5>1. branches'[at] = b /\ at \in DOMAIN branches' /\ b.id = me.id /\ finished' = finished
          BY <1>1, <1>2, <4>5 DEF Turned
        <5>. QED  BY <1>6, <4>5, <5>1
      <4>6. CASE \E k \in DOMAIN new : new[k].next = a
        <5>1. PICK k \in DOMAIN new : new[k].next = a
          BY <4>6
        <5>2. k \in 1 .. Len(new) /\ Len(forks) + k \in 1 .. Len(forks) + Len(new)
          BY <1>2
        <5>3. forks'[Len(forks) + k] = new[k] /\ Len(forks) + k \in DOMAIN forks'
          BY <1>2, <5>2, SeqConcat
        <5>. QED  BY <5>1, <5>3
      <4>. QED  BY <4>4, <4>5, <4>6
    <3>. QED  BY <3>1, <3>2
  <2>5. Address(method)' = Address(method)
    BY <1>1 DEF Address
  <2>. QED  BY <1>4, <2>2, <2>3, <2>4, <2>5 DEF AllMet
<1>10. E \in SUBSET Address(method)'
  BY <1>1 DEF Address
<1>. QED  BY <1>8, <1>9, <1>10 DEF MetInv

-----------------------------------------------------------------------------
(* The end of a round.                                                     *)
Renamed(k) == [forks[k] EXCEPT !.id = total + k]
Unfinished == {k \in DOMAIN branches : branches[k].id \notin finished}

LEMMA RenamedIs ==
  ASSUME TypeInv, NEW k \in DOMAIN forks
  PROVE  /\ Renamed(k) \in Branch(method) /\ Renamed(k).id = total + k /\ Renamed(k).id > total
         /\ Renamed(k).next = forks[k].next
         /\ \A p : Known(forks[k], p) => Known(Renamed(k), p)
<1>1. forks[k] \in Branch(method) /\ k \in Nat \ {0} /\ total \in Nat \ {0}
  BY SeqElim DEF TypeInv
<1>2. /\ Renamed(k) \in Branch(method) /\ Renamed(k).id = total + k /\ Renamed(k).next = forks[k].next
      /\ Renamed(k).regs = forks[k].regs /\ Renamed(k).call = forks[k].call
      /\ Renamed(k).condition = forks[k].condition
  BY <1>1 DEF Renamed, Branch
<1>. QED  BY <1>1, <1>2 DEF Known

LEMMA RoundIs ==
  ASSUME TypeInv, IdInv, EndRound
  PROVE  /\ branches' \in Seq(Branch(method)) /\ Len(branches') <= Len(branches) + Len(forks)
         /\ \A k \in DOMAIN branches' :
              (\E j \in Unfinished : branches'[k] = branches[j]) \/ (\E j \in DOMAIN forks : branches'[k] = Renamed(j))
         /\ \A j, k \in DOMAIN branches' : j # k => branches'[j].id # branches'[k].id
         /\ \A j \in Unfinished : \E k \in DOMAIN branches' : branches'[k] = branches[j]
         /\ \A j \in DOMAIN forks : \E k \in DOMAIN branches' : branches'[k] = Renamed(j)
<1>. DEFINE news == [k \in DOMAIN forks |-> Renamed(k)]
<1>1. branches' = Lasting \o news
  BY DEF EndRound, Renamed
<1>2. branches \in Seq(Branch(method)) /\ forks \in Seq(Branch(method))
  BY DEF TypeInv
<1>3. news \in Seq(Branch(method)) /\ Len(news) = Len(forks) /\ DOMAIN news = DOMAIN forks
  <2>1. Len(forks) \in Nat /\ DOMAIN forks = 1 .. Len(forks)
    BY <1>2
  <2>2. news \in [1 .. Len(forks) -> Branch(method)]
    BY <2>1, RenamedIs
  <2>. HIDE DEF news
  <2>. QED  BY <2>1, <2>2, SeqIntro
<1>4. Lasting = Sublist(branches, Unfinished)
  BY DEF Lasting, Unfinished
<1>5. /\ Lasting \in Seq(Branch(method)) /\ Len(Lasting) <= Len(branches)
      /\ \E pos : Picks(Lasting, branches, Unfinished, Len(branches), pos)
  BY <1>2, <1>4, SublistPicks
<1>6. PICK pos : Picks(Lasting, branches, Unfinished, Len(branches), pos)
  BY <1>5
<1>7. Unfinished \cap 1 .. Len(branches) = Unfinished /\ Unfinished \subseteq DOMAIN branches
  BY <1>2 DEF Unfinished
<1>8. /\ \A k \in DOMAIN Lasting : pos[k] \in Unfinished /\ Lasting[k] = branches[pos[k]]
      /\ \A j, k \in DOMAIN Lasting : j # k => pos[j] # pos[k]
      /\ \A i \in Unfinished : \E k \in DOMAIN Lasting : pos[k] = i
  BY <1>6, <1>7 DEF Picks
<1>9. \A k \in DOMAIN news : news[k] = Renamed(k)
  OBVIOUS
<1>. HIDE DEF news
<1>10. /\ branches' \in Seq(Branch(method)) /\ Len(branches') = Len(Lasting) + Len(forks)
       /\ DOMAIN branches' = 1 .. Len(Lasting) + Len(forks)
       /\ \A k \in 1 .. Len(Lasting) : branches'[k] = Lasting[k]
       /\ \A k \in 1 .. Len(forks) : branches'[Len(Lasting) + k] = Renamed(k)
       /\ \A k \in DOMAIN branches' : k \in 1 .. Len(Lasting) \/ \E j \in 1 .. Len(forks) : k = Len(Lasting) + j
  <2>1. \A k \in 1 .. Len(forks) : k \in DOMAIN news
    BY <1>2, <1>3
  <2>. DEFINE all == Lasting \o news
  <2>2. /\ all \in Seq(Branch(method)) /\ Len(all) = Len(Lasting) + Len(news)
        /\ DOMAIN all = 1 .. Len(Lasting) + Len(news)
        /\ \A k \in 1 .. Len(Lasting) : all[k] = Lasting[k]
        /\ \A k \in 1 .. Len(news) : all[Len(Lasting) + k] = news[k]
        /\ \A k \in DOMAIN all : k \in 1 .. Len(Lasting) \/ \E j \in 1 .. Len(news) : k = Len(Lasting) + j
    BY <1>3, <1>5, SeqConcat
  <2>3. branches' = all
    BY <1>1
  <2>. HIDE DEF all
  <2>. QED  BY <1>3, <1>9, <2>1, <2>2, <2>3
<1>11. /\ DOMAIN Lasting = 1 .. Len(Lasting) /\ DOMAIN forks = 1 .. Len(forks)
       /\ Len(Lasting) \in Nat /\ Len(forks) \in Nat /\ Len(branches) \in Nat
  BY <1>2, <1>5, SeqElim
<1>12. \A k \in DOMAIN branches' :
         (\E j \in Unfinished : branches'[k] = branches[j]) \/ (\E j \in DOMAIN forks : branches'[k] = Renamed(j))
  <2>1. ASSUME NEW k \in 1 .. Len(Lasting)
        PROVE  \E j \in Unfinished : branches'[k] = branches[j]
    BY <1>8, <1>10, <1>11
  <2>2. \A j \in 1 .. Len(forks) : branches'[Len(Lasting) + j] = Renamed(j) /\ j \in DOMAIN forks
    BY <1>10, <1>11
  <2>. QED  BY <1>10, <2>1, <2>2
<1>13. \A j \in Unfinished : \E k \in DOMAIN branches' : branches'[k] = branches[j]
  <2>1. \A k \in DOMAIN Lasting : k \in DOMAIN branches' /\ branches'[k] = Lasting[k]
    BY <1>10, <1>11
  <2>. QED  BY <1>8, <2>1
<1>14. \A j \in DOMAIN forks : \E k \in DOMAIN branches' : branches'[k] = Renamed(j)
  <2>1. \A j \in 1 .. Len(forks) : Len(Lasting) + j \in DOMAIN branches'
    BY <1>10, <1>11
  <2>. QED  BY <1>10, <1>11, <2>1
<1>15. ASSUME NEW j \in DOMAIN branches', NEW k \in DOMAIN branches', j # k
       PROVE  branches'[j].id # branches'[k].id
  <2>1. \A i \in 1 .. Len(Lasting) :
          /\ branches'[i] = branches[pos[i]] /\ pos[i] \in DOMAIN branches
          /\ branches'[i].id <= total /\ branches'[i].id \in Nat
    <3>1. \A i \in DOMAIN branches : branches[i].id <= total /\ branches[i].id \in Nat
      <4>1. \A i \in DOMAIN branches : branches[i] \in Branch(method)
        BY <1>2, SeqElim
      <4>. QED  BY <4>1 DEF IdInv, Branch
    <3>2. ASSUME NEW i \in 1 .. Len(Lasting)
          PROVE  branches'[i] = branches[pos[i]] /\ pos[i] \in DOMAIN branches
      BY <1>7, <1>8, <1>10, <1>11
    <3>. QED  BY <3>1, <3>2
  <2>2. \A i \in 1 .. Len(forks) :
          branches'[Len(Lasting) + i].id = total + i /\ branches'[Len(Lasting) + i].id > total
    BY <1>10, <1>11, RenamedIs
  <2>3. total \in Nat
    BY DEF TypeInv
  <2>4. CASE j \in 1 .. Len(Lasting) /\ k \in 1 .. Len(Lasting)
    BY <1>8, <1>11, <1>15, <2>1, <2>4 DEF IdInv
  <2>5. CASE j \in 1 .. Len(Lasting) /\ k \notin 1 .. Len(Lasting)
    <3>1. PICK i \in 1 .. Len(forks) : k = Len(Lasting) + i
      BY <1>10, <2>5
    <3>. QED  BY <2>1, <2>2, <2>3, <2>5, <3>1
  <2>6. CASE k \in 1 .. Len(Lasting) /\ j \notin 1 .. Len(Lasting)
    <3>1. PICK i \in 1 .. Len(forks) : j = Len(Lasting) + i
      BY <1>10, <2>6
    <3>. QED  BY <2>1, <2>2, <2>3, <2>6, <3>1
  <2>7. CASE j \notin 1 .. Len(Lasting) /\ k \notin 1 .. Len(Lasting)
    <3>1. PICK i \in 1 .. Len(forks) : j = Len(Lasting) + i
      BY <1>10, <2>7
    <3>2. PICK h \in 1 .. Len(forks) : k = Len(Lasting) + h
      BY <1>10, <2>7
    <3>. QED  BY <1>15, <2>2, <2>3, <3>1, <3>2
  <2>. QED  BY <2>4, <2>5, <2>6, <2>7
<1>16. Len(branches') <= Len(branches) + Len(forks)
  BY <1>5, <1>10, <1>11
<1>. QED  BY <1>10, <1>12, <1>13, <1>14, <1>15, <1>16

LEMMA TypeRound ==
  ASSUME TypeInv, IdInv, BoundInv, EndRound
  PROVE  TypeInv' /\ IdInv' /\ BoundInv'
<1>1. /\ branches' \in Seq(Branch(method)) /\ Len(branches') <= Len(branches) + Len(forks)
      /\ Len(branches') \in Nat /\ Len(branches) \in Nat /\ Len(forks) \in Nat
  BY RoundIs, SeqElim DEF TypeInv
<1>2. /\ method' = method /\ total' = total + Len(forks) /\ at' = 1 /\ finished' = {} /\ forks' = <<>>
      /\ already' = already /\ total \in Nat \ {0} /\ at = Len(branches) + 1 /\ changes' = changes
  BY <1>1 DEF EndRound, TypeInv
<1>3. TypeInv'
  <2>1. at' \in 1 .. Len(branches') + 1
    BY <1>1, <1>2
  <2>2. forks' \in Seq(Branch(method))
    BY <1>2
  <2>3. /\ method' \in Methods /\ total' \in Nat \ {0} /\ already' \subseteq Address(method')
        /\ IsSequence(changes')
    BY <1>1, <1>2 DEF TypeInv
  <2>. QED  BY <1>1, <1>2, <2>1, <2>2, <2>3 DEF TypeInv
<1>4. IdInv'
  <2>1. \A k \in DOMAIN branches' : branches'[k].id <= total'
    <3>1. \A j \in Unfinished : branches[j].id <= total /\ branches[j].id \in Nat
      <4>1. \A j \in DOMAIN branches : branches[j] \in Branch(method)
        BY SeqElim DEF TypeInv
      <4>. QED  BY <4>1 DEF IdInv, Unfinished, Branch
    <3>2. \A j \in DOMAIN forks : Renamed(j).id = total + j /\ j \in 1 .. Len(forks)
      BY RenamedIs, SeqElim DEF TypeInv
    <3>. QED  BY <1>1, <1>2, <3>1, <3>2, RoundIs
  <2>2. \A j, k \in DOMAIN branches' : j # k => branches'[j].id # branches'[k].id
    BY RoundIs
  <2>. QED  BY <2>1, <2>2 DEF IdInv
<1>5. BoundInv'
  <2>1. MaxTargets \in Nat /\ BranchLimit \in Nat
    BY BoundsAssumption
  <2>2. Len(branches') <= total'
    BY <1>1, <1>2 DEF BoundInv
  <2>3. BranchesBounded'
    <3>. DEFINE Limit == (BranchLimit - 1) * (1 + MaxTargets)
                More  == Len(branches) * MaxTargets
                Most  == (BranchLimit - 1) * MaxTargets
    <3>1. total <= Limit
      BY DEF BoundInv, BranchesBounded
    <3>2. CASE forks = <<>>
      <4>1. total' = total
        BY <1>2, <3>2
      <4>. QED  BY <3>1, <4>1 DEF BranchesBounded
    <3>3. CASE forks # <<>>
      <4>1. total < BranchLimit /\ Len(branches) <= total /\ Len(forks) <= More
        BY <1>1, <1>2, <3>3 DEF BoundInv
      <4>2. Len(branches) <= BranchLimit - 1
        BY <1>1, <1>2, <2>1, <4>1
      <4>3. More <= Most
        BY <1>1, <2>1, <4>2
      <4>4. Limit = (BranchLimit - 1) + Most
        BY <2>1
      <4>5. More \in Int /\ Most \in Int /\ Limit \in Int
        BY <1>1, <2>1
      <4>. HIDE DEF Limit, More, Most
      <4>6. total' <= Limit
        BY <1>1, <1>2, <2>1, <4>1, <4>3, <4>4, <4>5
      <4>. QED  BY <4>6 DEF BranchesBounded, Limit
    <3>. QED  BY <3>2, <3>3
  <2>4. Len(forks') <= (at' - 1) * MaxTargets /\ ~ (forks' # <<>>)
    BY <1>2, <2>1
  <2>. QED  BY <2>2, <2>3, <2>4 DEF BoundInv
<1>. QED  BY <1>3, <1>4, <1>5

LEMMA PathRound ==
  ASSUME TypeInv, IdInv, BoundInv, PathInv, EndRound, ObserveRound
  PROVE  PathInv'
<1>1. method' = method /\ forks' = <<>> /\ forkPaths' = <<>>
  BY DEF EndRound, ObserveRound
<1>2. forkPaths \in Seq(Path(method)) /\ Len(forkPaths) = Len(forks) /\ forks \in Seq(Branch(method)) /\ total \in Nat
  BY DEF PathInv, TypeInv
<1>3. ASSUME NEW k \in DOMAIN branches'
      PROVE  LET id == branches'[k].id
             IN id \in DOMAIN paths' /\ paths'[id] \in Path(method) /\ Known(branches'[k], paths'[id])
  <2>. DEFINE id == branches'[k].id
  <2>1. id \in DOMAIN paths' /\ paths'[id] = IF id <= total THEN paths[id] ELSE forkPaths[id - total]
    BY DEF ObserveRound
  <2>2. CASE \E j \in Unfinished : branches'[k] = branches[j]
    <3>1. PICK j \in DOMAIN branches : branches'[k] = branches[j]
      BY <2>2 DEF Unfinished
    <3>2. id <= total
      BY <3>1 DEF IdInv
    <3>3. paths[id] \in Path(method) /\ Known(branches[j], paths[id])
      BY <3>1 DEF PathInv
    <3>. QED  BY <2>1, <3>1, <3>2, <3>3
  <2>3. CASE \E j \in DOMAIN forks : branches'[k] = Renamed(j)
    <3>1. PICK j \in DOMAIN forks : branches'[k] = Renamed(j)
      BY <2>3
    <3>2. j \in Nat /\ id = total + j /\ ~ (id <= total) /\ id - total = j
      <4>1. j \in Nat \ {0} /\ id = total + j
        BY <1>2, <3>1, RenamedIs, SeqElim
      <4>. QED  BY <1>2, <4>1
    <3>3. paths'[id] = forkPaths[j]
      BY <2>1, <3>2
    <3>4. forkPaths[j] \in Path(method) /\ Known(forks[j], forkPaths[j])
      <4>1. j \in DOMAIN forkPaths
        BY <1>2, SeqElim
      <4>. QED  BY <1>2, <4>1, SeqElim DEF PathInv
    <3>5. Known(Renamed(j), forkPaths[j])
      BY <3>4, RenamedIs
    <3>. QED  BY <2>1, <3>1, <3>3, <3>4, <3>5
  <2>. QED  BY <2>2, <2>3, RoundIs
<1>4. forkPaths' \in Seq(Path(method')) /\ Len(forkPaths') = Len(forks') /\ DOMAIN forks' = {}
  BY <1>1
<1>. QED  BY <1>1, <1>3, <1>4 DEF PathInv

LEMMA MetRound ==
  ASSUME TypeInv, IdInv, BoundInv, MetInv, EndRound, ObserveRound
  PROVE  MetInv'
<1>1. /\ method' = method /\ forks' = <<>> /\ finished' = {} /\ at' = 1 /\ already' = already /\ changes' = changes
      /\ reached' = Further /\ pruned' = pruned /\ total' = total + Len(forks)
      /\ at = Len(branches) + 1 /\ Len(branches) \in Nat /\ Len(forks) \in Nat /\ total \in Nat
  BY SeqElim DEF EndRound, ObserveRound, Further, TypeInv
<1>2. DOMAIN branches = 1 .. Len(branches) /\ branches' \in Seq(Branch(method)) /\ DOMAIN branches' = 1 .. Len(branches')
  BY RoundIs, SeqElim DEF TypeInv
<1>3. PICK D0 \in SUBSET Address(method) :
        Met(D0) /\ (~pruned /\ total < BranchLimit => AllMet(D0))
  BY DEF MetInv
<1>4. PICK D : D = Further \cap Address(method)
  OBVIOUS
<1>5. /\ \A S : Next1(S)' = Next1(S) /\ CallsFrom(S)' = CallsFrom(S)
      /\ Further' = {0} \cup UNION {Successors(a) \cup {a} : a \in D}
      /\ CallsNoted' = CallsNoted /\ Address(method)' = Address(method)
  <2>1. \A S : Next1(S)' = Next1(S) /\ CallsFrom(S)' = CallsFrom(S)
    BY <1>1 DEF Next1, Successors, CallsFrom, Address
  <2>2. \A a : Successors(a)' = Successors(a)
    BY <1>1 DEF Successors
  <2>3. Further' = {0} \cup UNION {Successors(a) \cup {a} : a \in D}
    BY <1>1, <1>4, <2>2 DEF Further, Address, Successors
  <2>4. CallsNoted' = CallsNoted /\ Address(method)' = Address(method)
    BY <1>1 DEF CallsNoted, Address
  <2>. QED  BY <2>1, <2>3, <2>4
<1>6. D0 \subseteq D /\ Next1(D0) \subseteq Next1(D) /\ Next1(D) \subseteq Further' /\ D \subseteq Further'
  <2>1. D0 \subseteq D
    BY <1>3, <1>4 DEF Met
  <2>. QED  BY <1>5, <2>1 DEF Next1
<1>7. Met(D)'
  <2>1. reached' \cap Address(method)' = D /\ D \subseteq (Further \cap Address(method))'
    BY <1>1, <1>4, <1>5, <1>6
  <2>2. already' \subseteq D
    BY <1>1, <1>3, <1>6 DEF Met
  <2>3. CallsNoted' \subseteq CallsFrom(D)
    <3>1. CallsNoted \subseteq CallsFrom(D0) /\ CallsFrom(D0) \subseteq CallsFrom(D)
      BY <1>3, <1>6, CallsOf DEF Met
    <3>. QED  BY <1>5, <3>1
  <2>4. ASSUME NEW k \in DOMAIN branches'
        PROVE  branches'[k].next \in Further' /\ ~ (k < at') /\ branches'[k].id \notin finished'
    <3>1. ~ (k < at') /\ branches'[k].id \notin finished'
      BY <1>1, <1>2
    <3>2. CASE \E j \in Unfinished : branches'[k] = branches[j]
      <4>1. PICK j \in Unfinished : branches'[k] = branches[j]
        BY <3>2
      <4>2. j \in DOMAIN branches /\ branches[j].id \notin finished /\ j < at
        BY <1>1, <1>2 DEF Unfinished
      <4>3. branches[j].next \in Next1(D0)
        BY <1>3, <4>2 DEF Met
      <4>. QED  BY <1>6, <3>1, <4>1, <4>3
    <3>3. CASE \E j \in DOMAIN forks : branches'[k] = Renamed(j)
      <4>1. PICK j \in DOMAIN forks : branches'[k] = Renamed(j)
        BY <3>3
      <4>2. forks[j].next \in Next1(D0)
        BY <1>3 DEF Met
      <4>. QED  BY <1>6, <3>1, <4>1, <4>2, RenamedIs
    <3>. QED  BY <3>2, <3>3, RoundIs
  <2>5. DOMAIN forks' = {}
    BY <1>1
  <2>. QED  BY <1>1, <1>5, <2>1, <2>2, <2>3, <2>4, <2>5 DEF Met
<1>8. ASSUME ~pruned', total' < BranchLimit
      PROVE  AllMet(D)'
  <2>1. total < BranchLimit
    BY <1>1, <1>8, BoundsAssumption
  <2>2. AllMet(D0)
    BY <1>1, <1>3, <1>8, <2>1
  <2>3. D = D0
    BY <1>1, <1>4, <1>6, <2>2 DEF AllMet
  <2>4. CallsFrom(D) \subseteq CallsNoted'
    BY <1>5, <2>2, <2>3 DEF AllMet
  <2>5. ASSUME NEW a \in Next1(D) \cap Address(method), a \notin D
        PROVE  \E k \in DOMAIN branches' : branches'[k].next = a
    <3>1. \/ \E j \in DOMAIN branches : branches[j].id \notin finished /\ branches[j].next = a
          \/ \E j \in DOMAIN forks : forks[j].next = a
      BY <2>2, <2>3, <2>5 DEF AllMet
    <3>2. CASE \E j \in DOMAIN branches : branches[j].id \notin finished /\ branches[j].next = a
      <4>1. PICK j \in Unfinished : branches[j].next = a
        BY <3>2 DEF Unfinished
      <4>. QED  BY <4>1, RoundIs
    <3>3. CASE \E j \in DOMAIN forks : forks[j].next = a
      <4>1. PICK j \in DOMAIN forks : forks[j].next = a
        BY <3>3
      <4>2. PICK k \in DOMAIN branches' : branches'[k] = Renamed(j)
        BY RoundIs
      <4>. QED  BY <4>1, <4>2, RenamedIs
    <3>. QED  BY <3>1, <3>2, <3>3
  <2>6. ASSUME NEW a \in Further' \cap Address(method), a \notin D
        PROVE  a \in Next1(D)
    <3>1. 0 \in Further
      BY DEF Further
    <3>. QED  BY <1>4, <1>5, <2>6, <3>1 DEF Next1
  <2>7. \A k \in DOMAIN branches' : k \in at' .. Len(branches') /\ branches'[k].id \notin finished'
    BY <1>1, <1>2
  <2>8. \A a \in Further' \cap Address(method) : a \in D \/ \E k \in at' .. Len(branches') : branches'[k].next = a
    BY <2>5, <2>6, <2>7
  <2>9. \A a \in Next1(D) \cap Address(method) :
          a \in D \/ \E k \in DOMAIN branches' : branches'[k].id \notin finished' /\ branches'[k].next = a
    BY <2>5, <2>7
  <2>. QED  BY <1>5, <2>4, <2>8, <2>9 DEF AllMet
<1>9. D \in SUBSET Address(method)'
  BY <1>4, <1>5
<1>. QED  BY <1>7, <1>8, <1>9 DEF MetInv

-----------------------------------------------------------------------------
(* What a turn does.                                                       *)
Inv == TypeInv /\ IdInv /\ BoundInv /\ PathInv /\ MetInv

LEMMA TurnKeeps ==
  ASSUME Inv, NEW b, NEW new, NEW ended, NEW q, NEW qs,
         Turned(b, new, ended), Observed(b, new, q, qs), Goes(b, new, ended)
  PROVE  Inv'
BY TypeStep, PathStep, MetStep DEF Inv

\* The branch whose turn it is, and its path.
LEMMA Ahead ==
  ASSUME TypeInv, InRound
  PROVE  /\ at \in DOMAIN branches /\ me \in Branch(method) /\ method \in Methods
         /\ me.id \in Nat /\ me.next \in Int /\ me.call \in Calls /\ me.regs \in [Regs(method) -> Value(method)]
<1>1. at \in DOMAIN branches /\ method \in Methods /\ \A k \in DOMAIN branches : branches[k] \in Branch(method)
  BY SeqElim DEF TypeInv, InRound
<1>2. me \in Branch(method)
  BY <1>1 DEF me
<1>. QED  BY <1>1, <1>2 DEF Branch

LEMMA PathAhead ==
  ASSUME TypeInv, PathInv, InRound
  PROVE  me.id \in DOMAIN paths /\ paths[me.id] \in Path(method) /\ Known(me, paths[me.id])
BY Ahead DEF PathInv, me

LEMMA Instruction ==
  ASSUME TypeInv, Turn
  PROVE  WellFormed(ins, method) /\ ins = method.code[me.next]
<1>1. method \in Methods /\ me.next \in Address(method)
  BY DEF TypeInv, Turn
<1>. QED  BY <1>1, MethodsAssumption DEF ins

Noted(s) ==
  {s[k].destination : k \in {j \in DOMAIN s : s[j].kind = "edge"
     /\ s[j].origin = "method" /\ s[j].destination \in DOMAIN Callees}}

LEMMA NotedConcat ==
  ASSUME NEW s, NEW t, IsSequence(s), IsSequence(t)
  PROVE  Noted(s \o t) = Noted(s) \cup Noted(t)
<1>. PICK u : u = s \o t
  OBVIOUS
<1>1. /\ DOMAIN u = 1 .. Len(s) + Len(t)
      /\ Len(s) \in Nat /\ DOMAIN s = 1 .. Len(s) /\ Len(t) \in Nat /\ DOMAIN t = 1 .. Len(t)
      /\ \A k \in 1 .. Len(s) : u[k] = s[k]
      /\ \A k \in 1 .. Len(t) : u[Len(s) + k] = t[k]
      /\ \A k \in DOMAIN u : k \in 1 .. Len(s) \/ \E j \in 1 .. Len(t) : k = Len(s) + j
  <2>1. Joined(u, s, t)
    BY OwnConcat
  <2>. QED  BY <2>1 DEF Joined
<1>2. \A k \in DOMAIN s : k \in DOMAIN u /\ u[k] = s[k]
  BY <1>1
<1>3. \A k \in DOMAIN t : Len(s) + k \in DOMAIN u /\ u[Len(s) + k] = t[k]
  BY <1>1
<1>4. \A k \in DOMAIN u : (\E j \in DOMAIN s : u[k] = s[j]) \/ (\E j \in DOMAIN t : u[k] = t[j])
  BY <1>1
<1>5. Noted(s) \subseteq Noted(u)
  BY <1>2 DEF Noted
<1>6. Noted(t) \subseteq Noted(u)
  <2>1. \A k \in DOMAIN t : \E j \in DOMAIN u : u[j] = t[k]
    BY <1>3
  <2>. QED  BY <2>1 DEF Noted
<1>7. Noted(u) \subseteq Noted(s) \cup Noted(t)
  BY <1>4 DEF Noted
<1>. QED  BY <1>5, <1>6, <1>7

LEMMA NotedNothing == IsSequence(<<>>) /\ Noted(<<>>) = {}
<1>1. <<>> \in Seq({})
  OBVIOUS
<1>2. IsSequence(<<>>)
  BY <1>1, OfItsOwn
<1>3. DOMAIN <<>> = {}
  OBVIOUS
<1>4. Noted(<<>>) = {}
  BY <1>3, Zenon DEF Noted
<1>. QED  BY <1>2, <1>4

LEMMA LeavesTurned ==
  ASSUME TypeInv, InRound, NEW b \in Branch(method), b.id = me.id,
         NEW added, IsSequence(added), Leaves(b, added),
         NEW new \in Seq(Branch(method)), Len(new) <= MaxTargets, new # <<>> => MayFork, forks' = forks \o new,
         NEW ended, ended \subseteq {me.id}, finished' = finished \cup ended,
         already' \subseteq already \cup ({me.next} \cap Address(method))
  PROVE  Turned(b, new, ended) /\ CallsNoted' = CallsNoted \cup Noted(added)
<1>1. IsSequence(changes) /\ changes' = changes \o added
  BY DEF TypeInv, Leaves
<1>2. IsSequence(changes') /\ Noted(changes') = Noted(changes) \cup Noted(added)
  BY <1>1, OwnConcat, NotedConcat
<1>3. CallsNoted = Noted(changes) /\ CallsNoted' = Noted(changes')
  BY DEF CallsNoted, Noted
<1>. QED  BY <1>2, <1>3, Ahead DEF Turned, Leaves

LEMMA TurnedObserved ==
  ASSUME TypeInv, PathInv, Turn, ins.op # "test_zero", ObserveTurn,
         NEW b, NEW new \in Seq(Branch(method)), forks' = forks \o new,
         Behind(paths[me.id]) \in Path(method), Known(b, Behind(paths[me.id])),
         \A k \in DOMAIN new : Known(new[k], paths[me.id])
  PROVE  Observed(b, new, Behind(paths[me.id]), [k \in 1 .. Len(new) |-> paths[me.id]])
<1>. DEFINE p == paths[me.id]
            qs == [k \in 1 .. Len(new) |-> p]
<1>1. Len(forks) \in Nat /\ Len(new) \in Nat /\ DOMAIN new = 1 .. Len(new) /\ Len(forks') = Len(forks) + Len(new)
  BY SeqElim, SeqConcat DEF TypeInv
<1>2. Len(forks') - Len(forks) = Len(new)
  BY <1>1
<1>3. forkPaths' = forkPaths \o qs /\ paths' = [paths EXCEPT ![me.id] = Behind(p)]
  BY <1>2 DEF ObserveTurn
<1>4. p \in Path(method) /\ me.id \in DOMAIN paths
  BY PathAhead DEF Turn
<1>5. qs \in Seq(Path(method)) /\ Len(qs) = Len(new)
  <2>1. qs \in [1 .. Len(new) -> Path(method)]
    BY <1>4
  <2>. HIDE DEF qs
  <2>. QED  BY <1>1, <2>1, SeqIntro
<1>6. /\ DOMAIN paths' = DOMAIN paths
      /\ \A id \in DOMAIN paths : paths'[id] = IF id = me.id THEN Behind(p) ELSE paths[id]
  BY <1>3, <1>4
<1>. QED  BY <1>1, <1>3, <1>5, <1>6 DEF Observed

LEMMA NotCalling ==
  ASSUME Turn, ins.op \in {"invoke", "invoke_range"} => ins.name = NoCallee
  PROVE  CallsFrom({me.next}) = {}
BY DEF CallsFrom, Turn, ins

LEMMA CallingIs ==
  ASSUME Turn, ins.op \in {"invoke", "invoke_range"}, ins.name # NoCallee
  PROVE  CallsFrom({me.next}) = IF Callees[ins.name].inGraph THEN {ins.name} ELSE {}
<1>1. CallsFrom({me.next}) \subseteq {ins.name}
  BY DEF CallsFrom, Turn, ins
<1>2. ins.name \in CallsFrom({me.next}) <=> Callees[ins.name].inGraph
  BY DEF CallsFrom, Turn, ins
<1>. QED  BY <1>1, <1>2

Straight == ins.op \notin {"return", "throw", "goto", "test", "test_zero", "switch"}

\* An instruction that execution goes on behind.
LEMMA StraightOn ==
  ASSUME Inv, Turn, Straight, ObserveTurn, NoFork,
         NEW b \in Branch(method), b.id = me.id, b.next = me.next + 1,
         NEW added, IsSequence(added), Noted(added) = CallsFrom({me.next}), Leaves(b, added),
         Behind(paths[me.id]) \in Path(method), Known(b, Behind(paths[me.id]))
  PROVE  Inv'
<1>1. <<>> \in Seq(Branch(method)) /\ Len(<<>>) = 0 /\ MaxTargets \in Nat /\ InRound /\ DOMAIN <<>> = {}
  BY BoundsAssumption DEF Turn
<1>2. forks' = forks \o <<>> /\ finished' = finished \cup {} /\ already' = already
  <2>1. forks' = forks /\ finished' = finished /\ already' = already /\ forks \in Seq(Branch(method))
    BY DEF NoFork, Inv, TypeInv
  <2>. QED  BY <2>1
<1>3. Turned(b, <<>>, {}) /\ CallsNoted' = CallsNoted \cup CallsFrom({me.next})
  <2>1. /\ TypeInv /\ {} \subseteq {me.id} /\ Len(<<>>) <= MaxTargets /\ (<<>> # <<>> => MayFork)
        /\ already' \subseteq already \cup ({me.next} \cap Address(method))
    BY <1>1, <1>2 DEF Inv
  <2>2. Turned(b, <<>>, {}) /\ CallsNoted' = CallsNoted \cup Noted(added)
    BY <1>1, <1>2, <2>1, LeavesTurned
  <2>. QED  BY <2>2
<1>4. Observed(b, <<>>, Behind(paths[me.id]), [k \in 1 .. Len(<<>>) |-> paths[me.id]])
  <2>1. ins.op # "test_zero"
    BY DEF Straight
  <2>. QED  BY <1>1, <1>2, <2>1, TurnedObserved DEF Inv
<1>5. Goes(b, <<>>, {})
  <2>1. Successors(me.next) = {me.next + 1}
    BY DEF Straight, Successors, ins
  <2>2. (pruned => pruned') /\ reached' = reached
    BY DEF ObserveTurn
  <2>. QED  BY <1>1, <1>3, <2>1, <2>2 DEF Goes, Turn
<1>. QED  BY <1>3, <1>4, <1>5, TurnKeeps

-----------------------------------------------------------------------------
(* Instructions that execution goes on behind, one at a time.              *)

\* The branch goes on with v in r and the call c noted.
Becomes(b, r, v, c) ==
  /\ b \in Branch(method) /\ b.id = me.id /\ b.next = me.next + 1 /\ b.condition = me.condition
  /\ r \in Regs(method) /\ v \in Value(method) /\ b.regs = [me.regs EXCEPT ![r] = v] /\ b.call = c

Record(m) == [id : Nat \ {0}, next : Int, call : Calls,
              condition : [is : BOOLEAN, set : BOOLEAN, call : Calls], regs : [Regs(m) -> Value(m)]]

LEMMA PassedIs ==
  ASSUME TypeInv, InRound
  PROVE  /\ Passed \in Record(method) /\ Passed.id = me.id /\ Passed.next = me.next + 1
         /\ Passed.call = me.call /\ Passed.condition = me.condition /\ Passed.regs = me.regs
<1>1. me \in Record(method)
  BY Ahead DEF Branch, Record
<1>. QED  BY <1>1 DEF Passed, Record

LEMMA Passing ==
  ASSUME TypeInv, InRound, NEW r \in Regs(method), NEW c \in Calls
  PROVE  Becomes(Passed, r, me.regs[r], me.call) /\ Becomes([Passed EXCEPT !.call = c], r, me.regs[r], c)
<1>1. me.regs[r] \in Value(method) /\ [me.regs EXCEPT ![r] = me.regs[r]] = me.regs
  BY Ahead
<1>2. PICK p : p = Passed
  OBVIOUS
<1>3. /\ p \in Record(method) /\ p.id = me.id /\ p.next = me.next + 1
      /\ p.call = me.call /\ p.condition = me.condition /\ p.regs = me.regs
  BY <1>2, PassedIs
<1>4. PICK q : q = [p EXCEPT !.call = c]
  OBVIOUS
<1>5. /\ q \in Record(method) /\ q.id = me.id /\ q.next = me.next + 1
      /\ q.call = c /\ q.condition = me.condition /\ q.regs = me.regs
  BY <1>3, <1>4 DEF Record
<1>6. Becomes(p, r, me.regs[r], me.call) /\ Becomes(q, r, me.regs[r], c)
  BY <1>1, <1>3, <1>5 DEF Becomes, Branch, Record
<1>. QED  BY <1>2, <1>4, <1>6

LEMMA Writing ==
  ASSUME TypeInv, InRound, NEW r \in Regs(method), NEW v \in Value(method), NEW c \in Calls
  PROVE  /\ Becomes([Passed EXCEPT !.regs[r] = v], r, v, me.call)
         /\ Becomes([[Passed EXCEPT !.regs[r] = v] EXCEPT !.call = c], r, v, c)
<1>1. [me.regs EXCEPT ![r] = v] \in [Regs(method) -> Value(method)]
  BY Ahead
<1>2. PICK p : p = Passed
  OBVIOUS
<1>3. /\ p \in Record(method) /\ p.id = me.id /\ p.next = me.next + 1
      /\ p.call = me.call /\ p.condition = me.condition /\ p.regs = me.regs
  BY <1>2, PassedIs
<1>4. PICK q : q = [p EXCEPT !.regs[r] = v]
  OBVIOUS
<1>5. /\ q \in Record(method) /\ q.id = me.id /\ q.next = me.next + 1
      /\ q.call = me.call /\ q.condition = me.condition /\ q.regs = [me.regs EXCEPT ![r] = v]
  BY <1>1, <1>3, <1>4 DEF Record
<1>6. PICK w : w = [q EXCEPT !.call = c]
  OBVIOUS
<1>7. /\ w \in Record(method) /\ w.id = me.id /\ w.next = me.next + 1
      /\ w.call = c /\ w.condition = me.condition /\ w.regs = [me.regs EXCEPT ![r] = v]
  BY <1>5, <1>6 DEF Record
<1>8. Becomes(q, r, v, me.call) /\ Becomes(w, r, v, c)
  BY <1>5, <1>7 DEF Becomes, Branch, Record
<1>. QED  BY <1>2, <1>4, <1>6, <1>8

Trail == paths[me.id]

\* Path q is the branch's with s in r and the result res.
Follows(q, r, s, res) ==
  /\ q \in Path(method) /\ q.tested = Trail.tested /\ q.result = res /\ (q.plain => Trail.plain)
  /\ r \in Regs(method) /\ s \in Origins /\ q.regs = [Trail.regs EXCEPT ![r] = s]

LEMMA Trails ==
  ASSUME TypeInv, PathInv, InRound, NEW r \in Regs(method), NEW s \in Origins
  PROVE  /\ Follows(Trail, r, Trail.regs[r], Trail.result)
         /\ Follows([Trail EXCEPT !.result = s], r, Trail.regs[r], s)
         /\ Follows([Trail EXCEPT !.regs[r] = s], r, s, Trail.result)
<1>1. Trail \in [regs : [Regs(method) -> Origins], result : Origins,
                 tested : [noted : BOOLEAN, nonZero : BOOLEAN, value : Origins], plain : BOOLEAN]
  BY PathAhead DEF Path, Trail
<1>2. Trail.regs[r] \in Origins /\ [Trail.regs EXCEPT ![r] = Trail.regs[r]] = Trail.regs
  BY <1>1
<1>3. [Trail.regs EXCEPT ![r] = s] \in [Regs(method) -> Origins]
  BY <1>1
<1>. QED  BY <1>1, <1>2, <1>3 DEF Follows, Path

LEMMA GoesOn ==
  ASSUME Inv, Turn, Straight, ObserveTurn, NoFork,
         NEW b, NEW r, NEW v, NEW c, Becomes(b, r, v, c),
         NEW q, q = Behind(Trail), NEW x, NEW s, NEW res, Follows(q, x, s, res),
         q.plain => x = r /\ (s # Unseen => Says(v, s)),
         c # NoCall => res = Unseen \/ (res.kind = "call" /\ res.name = c.callee),
         NEW added, IsSequence(added), Noted(added) = CallsFrom({me.next}), Leaves(b, added)
  PROVE  Inv'
<1>1. me \in Branch(method) /\ me.regs \in [Regs(method) -> Value(method)]
  BY Ahead DEF Inv, Turn
<1>2. Trail \in Path(method) /\ Known(me, Trail) /\ Trail.regs \in [Regs(method) -> Origins]
  BY PathAhead DEF Inv, Turn, Trail, Path
<1>3. Known(b, q)
  <2>1. ASSUME q.plain, NEW y \in DOMAIN b.regs, q.regs[y] # Unseen
        PROVE  Says(b.regs[y], q.regs[y])
    <3>1. y \in Regs(method) /\ x = r /\ Trail.plain
      BY <1>1, <2>1 DEF Becomes, Follows
    <3>2. CASE y = r
      <4>1. b.regs[y] = v /\ q.regs[y] = s
        BY <1>1, <1>2, <3>1, <3>2 DEF Becomes, Follows
      <4>. QED  BY <2>1, <4>1
    <3>3. CASE y # r
      <4>1. b.regs[y] = me.regs[y] /\ q.regs[y] = Trail.regs[y] /\ y \in DOMAIN me.regs
        BY <1>1, <1>2, <3>1, <3>3 DEF Becomes, Follows
      <4>. QED  BY <1>2, <2>1, <3>1, <4>1 DEF Known
    <3>. QED  BY <3>2, <3>3
  <2>2. b.call # NoCall => q.result = Unseen \/ (q.result.kind = "call" /\ q.result.name = b.call.callee)
    BY DEF Becomes, Follows
  <2>3. b.condition = me.condition /\ q.tested = Trail.tested /\ (q.plain => Trail.plain)
    BY DEF Becomes, Follows
  <2>. QED  BY <1>2, <2>1, <2>2, <2>3 DEF Known
<1>4. q \in Path(method) /\ b \in Branch(method) /\ b.id = me.id /\ b.next = me.next + 1
  BY DEF Becomes, Follows
<1>. QED  BY <1>3, <1>4, StraightOn DEF Trail

\* What the branch says of a register is so on its path.
LEMMA SaidBefore ==
  ASSUME Inv, Turn, NEW r \in Regs(method)
  PROVE  /\ Trail.plain /\ Trail.regs[r] # Unseen => Says(me.regs[r], Trail.regs[r])
         /\ me.regs[r] \in Value(method) /\ Trail.regs[r] \in Origins
         /\ me.call # NoCall => Trail.result = Unseen \/ (Trail.result.kind = "call" /\ Trail.result.name = me.call.callee)
         /\ me.call \in Calls /\ Trail.result \in Origins
<1>1. me.regs \in [Regs(method) -> Value(method)] /\ me.call \in Calls
  BY Ahead DEF Inv, Turn
<1>2. Trail \in Path(method) /\ Known(me, Trail)
  BY PathAhead DEF Inv, Turn, Trail
<1>. QED  BY <1>1, <1>2 DEF Known, Path

LEMMA Operands ==
  ASSUME Inv, Turn
  PROVE  /\ ins.dst \in Regs(method) /\ ins.src \in Regs(method) /\ ins.index \in Regs(method)
         /\ ins.lit \in Int /\ ins.to \in Seq(Int) /\ Len(ins.to) <= MaxTargets /\ ins.args \in Seq(Regs(method))
         /\ ins.op \in {"goto", "test", "test_zero", "fill_array"} => Len(ins.to) = 1
         /\ ins.op \in {"invoke", "invoke_range"} => ins.name \in DOMAIN Callees \cup {NoCallee}
         /\ TypeInv /\ PathInv /\ InRound
BY Instruction DEF Inv, Turn, WellFormed

LEMMA FromIs ==
  ASSUME NEW kind \in {"unseen", "literal", "string", "field", "object", "call"}, NEW n \in Int
  PROVE  From(kind, n) \in Origins
BY DEF Source, From, Origins

LEMMA RegisterIs ==
  ASSUME NEW r \in Regs(method), NEW kind \in DataKinds, NEW n \in Int
  PROVE  Register(r, Data(kind, n)) \in Value(method)
<1>1. NoCall \in Calls /\ <<>> \in Seq(0 .. 255)
  BY DEF NoCall, Calls
<1>. QED  BY <1>1 DEF Register, Data, Value

LEMMA OneEdge ==
  ASSUME NEW e
  PROVE  /\ IsSequence(<<e>>)
         /\ (e.kind = "edge" /\ e.origin = "method" => e.destination \notin DOMAIN Callees) => Noted(<<e>>) = {}
<1>1. <<e>> \in Seq({e}) /\ DOMAIN <<e>> = {1} /\ <<e>>[1] = e
  OBVIOUS
<1>2. IsSequence(<<e>>)
  BY <1>1, OfItsOwn
<1>3. ASSUME e.kind = "edge" /\ e.origin = "method" => e.destination \notin DOMAIN Callees
      PROVE  Noted(<<e>>) = {}
  <2>. PICK s : s = <<e>>
    OBVIOUS
  <2>. QED  BY <1>1, <1>3 DEF Noted
<1>. QED  BY <1>2, <1>3

LEMMA Turning ==
  ASSUME Turn, NEW ops, On(ops)
  PROVE  ins.op \in ops
BY DEF On

IsCall(i) == i.op \in {"invoke", "invoke_range"} /\ i.name # NoCallee

\* The destination is written.
LEMMA WriteKeeps ==
  ASSUME Inv, Turn, Straight, ObserveTurn, NoFork, NEW v \in Value(method), NEW s \in Origins,
         Behind(Trail) = [Trail EXCEPT !.regs[ins.dst] = s], Trail.plain /\ s # Unseen => Says(v, s),
         ~IsCall(ins), NEW added, IsSequence(added), Noted(added) = {}, Leaves(Writes(v), added)
  PROVE  Inv'
<1>1. Becomes(Writes(v), ins.dst, v, me.call)
  BY Operands, Writing, SaidBefore DEF Writes
<1>2. Follows(Behind(Trail), ins.dst, s, Trail.result)
  BY Operands, Trails
<1>3. Behind(Trail).plain => ins.dst = ins.dst /\ (s # Unseen => Says(v, s))
  BY <1>2 DEF Follows
<1>4. Noted(added) = CallsFrom({me.next})
  BY NotCalling DEF IsCall
<1>5. me.call # NoCall => Trail.result = Unseen \/ (Trail.result.kind = "call" /\ Trail.result.name = me.call.callee)
  BY Operands, SaidBefore
<1>. QED  BY <1>1, <1>2, <1>3, <1>4, <1>5, GoesOn

\* The branch goes on; a value that its path has in a register or as the result is unseen.
LEMMA PassKeeps ==
  ASSUME Inv, Turn, Straight, ObserveTurn, NoFork,
         \/ Behind(Trail) = Trail
         \/ Behind(Trail) = [Trail EXCEPT !.result = Unseen]
         \/ Behind(Trail) = [Trail EXCEPT !.regs[ins.dst] = Unseen],
         ~IsCall(ins), NEW added, IsSequence(added), Noted(added) = {}, Leaves(Passed, added)
  PROVE  Inv'
<1>1. /\ ins.dst \in Regs(method) /\ TypeInv /\ PathInv /\ InRound /\ me.call \in Calls
      /\ Trail.regs[ins.dst] \in Origins
      /\ Trail.plain /\ Trail.regs[ins.dst] # Unseen => Says(me.regs[ins.dst], Trail.regs[ins.dst])
  BY Operands, SaidBefore
<1>8. Unseen \in Origins
  BY DEF Unseen, From, Source, Origins
<1>2. Becomes(Passed, ins.dst, me.regs[ins.dst], me.call)
  BY <1>1, Passing
<1>3. me.call # NoCall => Trail.result = Unseen \/ (Trail.result.kind = "call" /\ Trail.result.name = me.call.callee)
  BY <1>1, Operands, SaidBefore
<1>4. Noted(added) = CallsFrom({me.next})
  BY NotCalling DEF IsCall
<1>5. CASE Behind(Trail) = Trail
  <2>1. Follows(Behind(Trail), ins.dst, Trail.regs[ins.dst], Trail.result)
    BY <1>1, <1>5, Trails
  <2>2. Behind(Trail).plain => Trail.plain
    BY <2>1 DEF Follows
  <2>. QED  BY <1>1, <1>2, <1>3, <1>4, <2>1, <2>2, GoesOn
<1>6. CASE Behind(Trail) = [Trail EXCEPT !.result = Unseen]
  <2>1. Follows(Behind(Trail), ins.dst, Trail.regs[ins.dst], Unseen)
    BY <1>1, <1>6, <1>8, Trails
  <2>2. Behind(Trail).plain => Trail.plain
    BY <2>1 DEF Follows
  <2>. QED  BY <1>1, <1>2, <1>4, <2>1, <2>2, GoesOn
<1>7. CASE Behind(Trail) = [Trail EXCEPT !.regs[ins.dst] = Unseen]
  <2>1. Follows(Behind(Trail), ins.dst, Unseen, Trail.result)
    BY <1>1, <1>7, <1>8, Trails
  <2>2. Behind(Trail).plain => Trail.plain
    BY <2>1 DEF Follows
  <2>. QED  BY <1>1, <1>2, <1>3, <1>4, <1>8, <2>1, <2>2, GoesOn
<1>. QED  BY <1>5, <1>6, <1>7

LEMMA MoveKeeps ==
  ASSUME Inv, ObserveTurn, Move
  PROVE  Inv'
<1>1. Turn /\ ins.op = "move" /\ Straight /\ NoFork /\ Leaves(Writes(Reg(ins.src)), <<>>) /\ ~IsCall(ins)
  BY DEF Move, On, Straight, IsCall
<1>. DEFINE s == Trail.regs[ins.src]
<1>2. Behind(Trail) = [Trail EXCEPT !.regs[ins.dst] = s]
  BY <1>1 DEF Behind
<1>3. s \in Origins /\ Reg(ins.src) \in Value(method) /\ (Trail.plain /\ s # Unseen => Says(Reg(ins.src), s))
  BY <1>1, Operands, SaidBefore DEF Reg
<1>. HIDE DEF s
<1>. QED  BY <1>1, <1>2, <1>3, NotedNothing, WriteKeeps

LEMMA ConstKeeps ==
  ASSUME Inv, ObserveTurn, Const
  PROVE  Inv'
<1>. DEFINE v == Register(ins.dst, Literal(ins.lit))
            s == From("literal", ins.lit)
<1>1. Turn /\ ins.op = "const" /\ Straight /\ NoFork /\ Leaves(Writes(v), <<>>) /\ ~IsCall(ins)
  BY DEF Const, On, Straight, IsCall
<1>2. Behind(Trail) = [Trail EXCEPT !.regs[ins.dst] = s]
  BY <1>1 DEF Behind
<1>3. s \in Origins /\ v \in Value(method)
  BY <1>1, Operands, FromIs, RegisterIs DEF Literal, DataKinds
<1>4. Says(v, s)
  BY DEF Says, Register, Literal, Data, From, Source
<1>. HIDE DEF s, v
<1>. QED  BY <1>1, <1>2, <1>3, <1>4, NotedNothing, WriteKeeps

LEMMA NewKeeps ==
  ASSUME Inv, ObserveTurn, New
  PROVE  Inv'
<1>. DEFINE v == Register(ins.dst, NoData)
            s == From("object", me.next)
<1>1. Turn /\ ins.op = "new" /\ Straight /\ NoFork /\ Leaves(Writes(v), <<>>) /\ ~IsCall(ins)
  BY DEF New, On, Straight, IsCall
<1>2. Behind(Trail) = [Trail EXCEPT !.regs[ins.dst] = s]
  BY <1>1 DEF Behind
<1>3. me.next \in Int
  BY <1>1, Operands, Ahead
<1>4. s \in Origins /\ v \in Value(method)
  BY <1>1, <1>3, Operands, FromIs, RegisterIs DEF NoData, DataKinds
<1>5. Says(v, s)
  BY DEF Says, Register, NoData, Data, From, Source
<1>. HIDE DEF s, v
<1>. QED  BY <1>1, <1>2, <1>4, <1>5, NotedNothing, WriteKeeps

LEMMA StringKeeps ==
  ASSUME Inv, ObserveTurn, String
  PROVE  Inv'
<1>. DEFINE v == Register(ins.dst, Data("string", ins.lit))
            s == From("string", ins.lit)
            e == Edge("method", "string")
<1>1. Turn /\ ins.op = "string" /\ Straight /\ NoFork /\ Leaves(Writes(v), <<e>>) /\ ~IsCall(ins)
  BY DEF String, On, Straight, IsCall
<1>2. Behind(Trail) = [Trail EXCEPT !.regs[ins.dst] = s]
  BY <1>1 DEF Behind
<1>3. s \in Origins /\ v \in Value(method)
  BY <1>1, Operands, FromIs, RegisterIs DEF DataKinds
<1>4. Says(v, s)
  BY DEF Says, Register, Data, From, Source
<1>5. IsSequence(<<e>>) /\ Noted(<<e>>) = {}
  <2>1. e.destination \notin DOMAIN Callees
    BY NamesAssumption DEF Edge
  <2>. HIDE DEF e
  <2>. QED  BY <2>1, OneEdge
<1>. HIDE DEF s, v, e
<1>. QED  BY <1>1, <1>2, <1>3, <1>4, <1>5, WriteKeeps

LEMMA GetKeeps ==
  ASSUME Inv, ObserveTurn, Get
  PROVE  Inv'
<1>. DEFINE v == Register(ins.dst, Data("field", ins.lit))
            s == From("field", ins.lit)
            e == Edge(ins.name, "method")
<1>1. /\ Turn /\ ins.op \in {"sget", "iget"} /\ Straight /\ NoFork /\ Leaves(Writes(v), <<e>>)
      /\ ~IsCall(ins)
  BY DEF Get, On, Straight, IsCall
<1>2. Behind(Trail) = [Trail EXCEPT !.regs[ins.dst] = s]
  BY <1>1 DEF Behind
<1>3. s \in Origins /\ v \in Value(method)
  BY <1>1, Operands, FromIs, RegisterIs DEF DataKinds
<1>4. Says(v, s)
  BY DEF Says, Register, Data, From, Source
<1>5. IsSequence(<<e>>) /\ Noted(<<e>>) = {}
  <2>1. e.destination \notin DOMAIN Callees
    BY NamesAssumption DEF Edge
  <2>. HIDE DEF e
  <2>. QED  BY <2>1, OneEdge
<1>. HIDE DEF s, v, e
<1>. QED  BY <1>1, <1>2, <1>3, <1>4, <1>5, WriteKeeps

LEMMA NewArrayKeeps ==
  ASSUME Inv, ObserveTurn, NewArray
  PROVE  Inv'
<1>. DEFINE size == Reg(ins.src).data
<1>1. Turn /\ ins.op = "new_array" /\ Straight /\ NoFork /\ ~IsCall(ins)
  BY DEF NewArray, On, Straight, IsCall
<1>2. size.kind # "literal" => Leaves(Passed, <<>>)
  BY DEF NewArray
<1>3. CASE size.kind # "literal"
  <2>1. Behind(Trail) = [Trail EXCEPT !.regs[ins.dst] = Unseen]
    BY <1>1, <1>3 DEF Behind
  <2>. QED  BY <1>1, <1>2, <1>3, <2>1, NotedNothing, PassKeeps
<1>4. CASE size.kind = "literal"
  <2>. DEFINE z == [k \in 1 .. Smaller(size.n) |-> 0]
              w == Register(ins.dst, NoData)
              v == [w EXCEPT !.isArray = TRUE, !.inner = z]
              s == From("object", me.next)
  <2>1. Behind(Trail) = [Trail EXCEPT !.regs[ins.dst] = s]
    BY <1>1, <1>4 DEF Behind
  <2>2. Leaves(Writes(v), <<>>)
    BY <1>4 DEF NewArray
  <2>3. me.next \in Int
    BY <1>1, Operands, Ahead
  <2>4. s \in Origins /\ w \in Value(method)
    BY <1>1, <2>3, Operands, FromIs, RegisterIs DEF NoData, DataKinds
  <2>5. size.n \in Int
    BY <1>1, Operands, SaidBefore DEF Reg, Value
  <2>6. Smaller(size.n) \in Nat
    BY <2>5, BoundsAssumption DEF Smaller
  <2>7. z \in Seq(0 .. 255)
    <3>1. z \in [1 .. Smaller(size.n) -> 0 .. 255]
      OBVIOUS
    <3>. HIDE DEF z
    <3>. QED  BY <2>6, <3>1, SeqIntro
  <2>8. w.call = NoCall /\ w.data = NoData
    BY DEF Register
  <2>. HIDE DEF w, z
  <2>9. v \in Value(method) /\ v.call = NoCall /\ v.data = NoData
    BY <2>4, <2>7, <2>8 DEF Value
  <2>10. Says(v, s)
    BY <2>9 DEF Says, NoData, Data
  <2>. HIDE DEF s, v
  <2>. QED  BY <1>1, <2>1, <2>2, <2>4, <2>9, <2>10, NotedNothing, WriteKeeps
<1>. QED  BY <1>3, <1>4

LEMMA ArrayPutKeeps ==
  ASSUME Inv, ObserveTurn, ArrayPut
  PROVE  Inv'
<1>. DEFINE byte  == IF Reg(ins.dst).data.kind = "literal" THEN Reg(ins.dst).data.n % 256 ELSE 0
            index == Reg(ins.index).data
            array == Reg(ins.src)
            Puts  == index.kind = "literal" /\ array.isArray /\ index.n + 1 \in DOMAIN array.inner
            v     == [array EXCEPT !.inner[index.n + 1] = byte]
            b     == [Passed EXCEPT !.regs[ins.src].inner[index.n + 1] = byte]
            s     == Trail.regs[ins.src]
<1>1. Turn /\ ins.op = "array_put" /\ Straight /\ NoFork /\ ~IsCall(ins) /\ (Puts => Leaves(b, <<>>)) /\ (~Puts => Leaves(Passed, <<>>))
  BY DEF ArrayPut, On, Straight, IsCall
<1>2. Behind(Trail) = Trail
  BY <1>1 DEF Behind
<1>3. CASE ~Puts
  BY <1>1, <1>2, <1>3, NotedNothing, PassKeeps
<1>4. CASE Puts
  <2>1. /\ array \in Value(method) /\ s \in Origins /\ ins.src \in Regs(method)
        /\ TypeInv /\ PathInv /\ InRound /\ me.call \in Calls
        /\ Trail.plain /\ s # Unseen => Says(array, s)
        /\ me.call # NoCall => Trail.result = Unseen \/ (Trail.result.kind = "call" /\ Trail.result.name = me.call.callee)
    BY <1>1, Operands, SaidBefore DEF Reg
  <2>2. byte \in 0 .. 255
    <3>1. Reg(ins.dst).data.n \in Int
      BY <1>1, Operands, SaidBefore DEF Reg, Value
    <3>2. \A n \in Int : n % 256 \in 0 .. 255
      OBVIOUS
    <3>. QED  BY <3>1, <3>2
  <2>3. b = [Passed EXCEPT !.regs[ins.src] = v]
    <3>1. Passed.regs = me.regs
      BY <2>1, PassedIs
    <3>. QED  BY <3>1 DEF Reg
  <2>. HIDE DEF byte, index, b
  <2>4. v \in Value(method) /\ v.call = array.call /\ v.data = array.data
    <3>1. array.inner \in Seq(0 .. 255)
      BY <2>1 DEF Value
    <3>. DEFINE i == index.n + 1
                inner == array.inner
    <3>. HIDE DEF array, i
    <3>2. [inner EXCEPT ![i] = byte] \in Seq(0 .. 255)
      <4>1. Len(inner) \in Nat /\ inner \in [1 .. Len(inner) -> 0 .. 255]
        BY <3>1, SeqElim
      <4>2. [inner EXCEPT ![i] = byte] \in [1 .. Len(inner) -> 0 .. 255]
        <5>. HIDE DEF inner
        <5>. QED  BY <2>2, <4>1
      <4>. QED  BY <4>1, <4>2, SeqIntro
    <3>. HIDE DEF inner
    <3>3. v = [array EXCEPT !.inner = [inner EXCEPT ![i] = byte]]
      BY DEF i, inner
    <3>. HIDE DEF v
    <3>. QED  BY <2>1, <3>2, <3>3 DEF Value
  <2>. HIDE DEF v
  <2>5. Becomes(b, ins.src, v, me.call)
    BY <2>1, <2>3, <2>4, Writing
  <2>6. Follows(Behind(Trail), ins.src, s, Trail.result)
    BY <1>2, <2>1, Trails DEF s
  <2>7. Behind(Trail).plain => ins.src = ins.src /\ (s # Unseen => Says(v, s))
    BY <2>1, <2>4, <2>6 DEF Follows, Says
  <2>8. Noted(<<>>) = CallsFrom({me.next}) /\ IsSequence(<<>>)
    BY <1>1, NotCalling, NotedNothing
  <2>. HIDE DEF s
  <2>. QED  BY <1>1, <1>4, <2>1, <2>5, <2>6, <2>7, <2>8, GoesOn
<1>. QED  BY <1>3, <1>4

LEMMA FillArrayKeeps ==
  ASSUME Inv, ObserveTurn, FillArray
  PROVE  Inv'
<1>. DEFINE there == ins.to[1]
            w     == Register(ins.dst, Data("array", there))
            v     == [w EXCEPT !.isArray = TRUE]
            Found == there \in Address(method) /\ method.code[there].op = "array_data"
            s     == Trail.regs[ins.dst]
<1>1. /\ Turn /\ ins.op = "fill_array" /\ Straight /\ NoFork /\ ~IsCall(ins)
      /\ (Found => Leaves(Writes(v), <<>>)) /\ (~Found => Leaves(Passed, <<>>))
  BY DEF FillArray, On, Straight, IsCall
<1>2. Behind(Trail) = Trail
  BY <1>1 DEF Behind
<1>3. CASE ~Found
  BY <1>1, <1>2, <1>3, NotedNothing, PassKeeps
<1>4. CASE Found
  <2>1. ins.to \in Seq(Int) /\ Len(ins.to) = 1 /\ ins.dst \in Regs(method)
    BY <1>1, Operands
  <2>2. there \in Int
    BY <2>1
  <2>3. w \in Value(method) /\ w.call = NoCall /\ w.data.kind = "array"
    <3>1. w \in Value(method)
      BY <2>1, <2>2, RegisterIs DEF DataKinds
    <3>. QED  BY <3>1 DEF Register, Data
  <2>. HIDE DEF w
  <2>4. v \in Value(method) /\ v.call = NoCall /\ v.data.kind = "array"
    BY <2>3 DEF Value
  <2>5. s \in Origins /\ Trail.regs \in [Regs(method) -> Origins]
    BY <1>1, <2>1, PathAhead, Operands DEF Trail, Path
  <2>6. Trail \in Path(method)
    BY <1>1, PathAhead, Operands DEF Trail
  <2>7. Behind(Trail) = [Trail EXCEPT !.regs[ins.dst] = s]
    BY <1>2, <2>1, <2>5, <2>6 DEF Path
  <2>8. Says(v, s)
    BY <2>4 DEF Says
  <2>. HIDE DEF v, s
  <2>. QED  BY <1>1, <1>4, <2>4, <2>5, <2>7, <2>8, NotedNothing, WriteKeeps
<1>. QED  BY <1>3, <1>4

LEMMA ArrayDataKeeps ==
  ASSUME Inv, ObserveTurn, ArrayData
  PROVE  Inv'
<1>. DEFINE e == NodeTo("method", ArrayNode(me.next))
<1>1. Turn /\ ins.op = "array_data" /\ Straight /\ NoFork /\ ~IsCall(ins) /\ Leaves(Passed, <<e>>)
  BY DEF ArrayData, On, Straight, IsCall
<1>2. Behind(Trail) = Trail
  BY <1>1 DEF Behind
<1>3. e.kind # "edge"
  BY DEF NodeTo
<1>. HIDE DEF e
<1>4. IsSequence(<<e>>) /\ Noted(<<e>>) = {}
  BY <1>3, OneEdge
<1>. QED  BY <1>1, <1>2, <1>4, PassKeeps

LEMMA IgnoredKeeps ==
  ASSUME Inv, ObserveTurn, Ignored
  PROVE  Inv'
<1>1. /\ Turn /\ Straight /\ NoFork /\ ~IsCall(ins) /\ Leaves(Passed, <<>>)
      /\ ins.op \in {"nop", "unseen", "filled"} \/ (ins.op = "invoke" /\ ins.name = NoCallee)
  BY DEF Ignored, Straight, IsCall
<1>2. \/ Behind(Trail) = Trail
      \/ Behind(Trail) = [Trail EXCEPT !.result = Unseen]
      \/ Behind(Trail) = [Trail EXCEPT !.regs[ins.dst] = Unseen]
  <2>1. CASE ins.op = "nop"
    BY <2>1 DEF Behind
  <2>2. CASE ins.op = "unseen"
    BY <2>2 DEF Behind
  <2>3. CASE ins.op = "filled"
    BY <2>3 DEF Behind
  <2>4. CASE ins.op = "invoke" /\ ins.name = NoCallee
    BY <2>4 DEF Behind
  <2>. QED  BY <1>1, <2>1, <2>2, <2>3, <2>4
<1>. QED  BY <1>1, <1>2, NotedNothing, PassKeeps

\* A field's edge is not a call's.
LEMMA FieldEdge ==
  ASSUME Inv, Turn, ins.op \in {"iput", "sput"}
  PROVE  IsSequence(<<Edge("method", ins.name)>>) /\ Noted(<<Edge("method", ins.name)>>) = {}
<1>. DEFINE e == Edge("method", ins.name)
<1>1. ins.name \notin DOMAIN Callees
  BY Ahead, Instruction, NamesAssumption DEF Inv, Turn
<1>2. e.destination \notin DOMAIN Callees
  BY <1>1 DEF Edge
<1>. HIDE DEF e
<1>3. IsSequence(<<e>>) /\ Noted(<<e>>) = {}
  BY <1>2, OneEdge
<1>. QED  BY <1>3 DEF e

LEMMA InstancePutKeeps ==
  ASSUME Inv, ObserveTurn, InstancePut
  PROVE  Inv'
<1>1. Turn /\ ins.op = "iput" /\ Straight /\ NoFork /\ ~IsCall(ins) /\ Leaves(Passed, <<Edge("method", ins.name)>>)
  BY DEF InstancePut, On, Straight, IsCall
<1>2. Behind(Trail) = Trail
  BY <1>1 DEF Behind
<1>. QED  BY <1>1, <1>2, FieldEdge, PassKeeps

LEMMA TwoAdded ==
  ASSUME NEW e, NEW n
  PROVE  IsSequence(<<e, n>>) /\ Noted(<<e, n>>) = Noted(<<e>>) \cup Noted(<<n>>)
<1>1. PICK s : s = <<e, n>>
  OBVIOUS
<1>2. s \in Seq({e, n}) /\ DOMAIN s = {1, 2} /\ s[1] = e /\ s[2] = n
  <2>1. <<e, n>> \in Seq({e, n}) /\ DOMAIN <<e, n>> = 1 .. 2 /\ <<e, n>>[1] = e /\ <<e, n>>[2] = n
    OBVIOUS
  <2>2. 1 .. 2 = {1, 2}
    OBVIOUS
  <2>. QED  BY <1>1, <2>1, <2>2
<1>3. PICK t : t = <<e>>
  OBVIOUS
<1>4. DOMAIN t = {1} /\ t[1] = e
  BY <1>3
<1>5. PICK u : u = <<n>>
  OBVIOUS
<1>6. DOMAIN u = {1} /\ u[1] = n
  BY <1>5
<1>7. Noted(s) = Noted(t) \cup Noted(u)
  BY <1>2, <1>4, <1>6 DEF Noted
<1>. QED  BY <1>1, <1>2, <1>3, <1>5, <1>7, OfItsOwn

LEMMA StaticPutKeeps ==
  ASSUME Inv, ObserveTurn, StaticPut
  PROVE  Inv'
<1>. DEFINE e == Edge("method", ins.name)
            n == NodeFrom(ins.name, Argument(Reg(ins.src), 0, me.condition, me.id))
<1>1. Turn /\ ins.op = "sput" /\ Straight /\ NoFork /\ ~IsCall(ins) /\ Leaves(Passed, <<e, n>>)
  BY DEF StaticPut, On, Straight, IsCall
<1>2. Behind(Trail) = Trail
  BY <1>1 DEF Behind
<1>3. IsSequence(<<e>>) /\ Noted(<<e>>) = {}
  BY <1>1, FieldEdge
<1>4. n.kind # "edge"
  BY DEF NodeFrom
<1>. HIDE DEF e, n
<1>5. IsSequence(<<n>>) /\ Noted(<<n>>) = {}
  BY <1>4, OneEdge
<1>7. IsSequence(<<e, n>>) /\ Noted(<<e, n>>) = {}
  BY <1>3, <1>5, TwoAdded
<1>. QED  BY <1>1, <1>2, <1>7, PassKeeps

\* The edges that a call adds are noted, if the method called is in the graph.
LEMMA CallEdgesNoted ==
  ASSUME Inv, Turn, ins.op \in {"invoke", "invoke_range"}, ins.name # NoCallee
  PROVE  IsSequence(CallEdges) /\ Noted(CallEdges) = CallsFrom({me.next})
<1>1. ins.name \in DOMAIN Callees
  BY Operands
<1>2. CASE ~InGraph
  <2>1. CallEdges = <<>>
    BY <1>2 DEF CallEdges
  <2>2. CallsFrom({me.next}) = {}
    BY <1>2, CallingIs DEF InGraph
  <2>. QED  BY <2>1, <2>2, NotedNothing
<1>3. CASE InGraph
  <2>. DEFINE e == Edge("method", ins.name)
              n == Edge(ins.name, "type")
  <2>1. CallEdges = <<e, n>>
    BY <1>3 DEF CallEdges
  <2>2. CallsFrom({me.next}) = {ins.name}
    BY <1>3, CallingIs DEF InGraph
  <2>3. n.destination \notin DOMAIN Callees
    BY NamesAssumption DEF Edge
  <2>4. e.kind = "edge" /\ e.origin = "method" /\ e.destination = ins.name
    BY DEF Edge
  <2>. HIDE DEF e, n
  <2>5. Noted(<<n>>) = {}
    BY <2>3, OneEdge
  <2>6. Noted(<<e>>) = {ins.name}
    <3>1. PICK s : s = <<e>>
      OBVIOUS
    <3>2. DOMAIN s = {1} /\ s[1] = e
      BY <3>1
    <3>3. Noted(s) = {ins.name}
      BY <1>1, <2>4, <3>2 DEF Noted
    <3>. QED  BY <3>1, <3>3
  <2>. QED  BY <2>1, <2>2, <2>5, <2>6, TwoAdded
<1>. QED  BY <1>2, <1>3

\* The branch has no result noted.
LEMMA InvokeRangeKeeps ==
  ASSUME Inv, ObserveTurn, InvokeRange
  PROVE  Inv'
<1>. DEFINE b     == [Passed EXCEPT !.call = NoCall]
            added == IF ins.name = NoCallee THEN <<>> ELSE CallEdges
            s     == Source("call", 0, ins.name)
<1>1. Turn /\ ins.op = "invoke_range" /\ Straight /\ NoFork /\ Leaves(b, added)
  BY DEF InvokeRange, On, Straight
<1>2. Behind(Trail) = [Trail EXCEPT !.result = s]
  BY <1>1 DEF Behind
<1>3. IsSequence(added) /\ Noted(added) = CallsFrom({me.next})
  <2>1. CASE ins.name = NoCallee
    BY <1>1, <2>1, NotedNothing, NotCalling
  <2>2. CASE ins.name # NoCallee
    BY <1>1, <2>2, CallEdgesNoted
  <2>. QED  BY <2>1, <2>2
<1>4. /\ ins.dst \in Regs(method) /\ TypeInv /\ PathInv /\ InRound /\ ins.name \in DOMAIN Callees \cup {NoCallee}
      /\ me.regs[ins.dst] \in Value(method) /\ Trail.regs[ins.dst] \in Origins
      /\ Trail.plain /\ Trail.regs[ins.dst] # Unseen => Says(me.regs[ins.dst], Trail.regs[ins.dst])
  BY <1>1, Operands, SaidBefore
<1>5. s \in Origins /\ NoCall \in Calls
  BY <1>4 DEF Source, Origins, NoCall, Calls
<1>6. Becomes(b, ins.dst, me.regs[ins.dst], NoCall)
  BY <1>4, <1>5, Passing
<1>. HIDE DEF s, b, added
<1>7. Follows(Behind(Trail), ins.dst, Trail.regs[ins.dst], s)
  BY <1>2, <1>4, <1>5, Trails
<1>8. Behind(Trail).plain =>
        ins.dst = ins.dst /\ (Trail.regs[ins.dst] # Unseen => Says(me.regs[ins.dst], Trail.regs[ins.dst]))
  BY <1>4, <1>7 DEF Follows
<1>. QED  BY <1>1, <1>3, <1>6, <1>7, <1>8, GoesOn

LEMMA MoveResultKeeps ==
  ASSUME Inv, ObserveTurn, MoveResult
  PROVE  Inv'
<1>. DEFINE w == Register(ins.dst, NoData)
            v == [w EXCEPT !.call = me.call, !.isArg = me.call.arg,
                           !.isArray = me.call # NoCall /\ Callees[me.call.callee].returns = "array"]
            b == [Writes(v) EXCEPT !.call = NoCall]
            s == Trail.result
<1>1. Turn /\ ins.op = "move_result" /\ Straight /\ NoFork /\ ~IsCall(ins) /\ Leaves(b, <<>>)
  BY DEF MoveResult, On, Straight, IsCall
<1>2. Behind(Trail) = [Trail EXCEPT !.regs[ins.dst] = s]
  BY <1>1 DEF Behind
<1>3. /\ ins.dst \in Regs(method) /\ TypeInv /\ PathInv /\ InRound /\ me.call \in Calls /\ s \in Origins
      /\ me.call # NoCall => s = Unseen \/ (s.kind = "call" /\ s.name = me.call.callee)
  BY <1>1, Operands, SaidBefore
<1>4. w \in Value(method) /\ w.data = NoData
  <2>1. w \in Value(method)
    BY <1>3, RegisterIs DEF NoData, DataKinds
  <2>. QED  BY <2>1 DEF Register
<1>5. NoCall \in Calls /\ me.call.arg \in BOOLEAN
  BY <1>3 DEF NoCall, Calls
<1>. HIDE DEF w
<1>6. v \in Value(method) /\ v.call = me.call /\ v.data = NoData
  <2>1. PICK x \in BOOLEAN : x = (me.call # NoCall /\ Callees[me.call.callee].returns = "array")
    OBVIOUS
  <2>2. PICK c \in Calls : c = me.call
    BY <1>3
  <2>3. PICK a \in BOOLEAN : a = me.call.arg
    BY <1>5
  <2>4. v = [w EXCEPT !.call = c, !.isArg = a, !.isArray = x]
    BY <2>1, <2>2, <2>3
  <2>. HIDE DEF v
  <2>. QED  BY <1>4, <2>2, <2>4 DEF Value
<1>. HIDE DEF v
<1>7. Becomes(b, ins.dst, v, NoCall)
  BY <1>3, <1>5, <1>6, Writing DEF Writes
<1>. HIDE DEF b
<1>8. Follows(Behind(Trail), ins.dst, s, Trail.result)
  BY <1>2, <1>3, Trails
<1>9. s # Unseen => Says(v, s)
  BY <1>3, <1>6 DEF Says, NoData, Data
<1>10. Noted(<<>>) = CallsFrom({me.next}) /\ IsSequence(<<>>)
  BY <1>1, NotCalling, NotedNothing DEF IsCall
<1>. HIDE DEF s
<1>. QED  BY <1>1, <1>7, <1>8, <1>9, <1>10, GoesOn

LEMMA ArgumentNodesNotNoted ==
  ASSUME Inv, Turn
  PROVE  IsSequence(ArgumentNodes) /\ Noted(ArgumentNodes) = {}
<1>. DEFINE s == [k \in DOMAIN ins.args |-> k]
            P == {k \in DOMAIN ins.args : InGraph => Reg(ins.args[k]).data # NoData}
<1>1. Len(ins.args) \in Nat /\ DOMAIN ins.args = 1 .. Len(ins.args)
  BY Operands, SeqElim
<1>2. s \in Seq(Nat)
  <2>1. s \in [1 .. Len(ins.args) -> Nat]
    BY <1>1
  <2>. HIDE DEF s
  <2>. QED  BY <1>1, <2>1, SeqIntro
<1>3. Saying = Sublist(s, P)
  BY DEF Saying
<1>. HIDE DEF s, P
<1>4. Saying \in Seq(Nat)
  BY <1>2, <1>3, SublistPicks
<1>5. Len(Saying) \in Nat /\ DOMAIN Saying = 1 .. Len(Saying)
  BY <1>4, SeqElim
<1>6. ArgumentNodes \in [1 .. Len(Saying) -> {ArgumentNodes[k] : k \in DOMAIN Saying}]
  BY <1>5 DEF ArgumentNodes
<1>7. IsSequence(ArgumentNodes)
  BY <1>5, <1>6, SeqIntro, OfItsOwn
<1>8. ASSUME NEW k \in DOMAIN ArgumentNodes PROVE ArgumentNodes[k].kind # "edge"
  <2>1. ArgumentNodes[k] = ArgumentNode(Saying[k])
    BY <1>8 DEF ArgumentNodes
  <2>2. \A i : ArgumentNode(i).kind # "edge"
    BY DEF ArgumentNode, NodeFromTo, NodeTo
  <2>. QED  BY <2>1, <2>2
<1>9. Noted(ArgumentNodes) = {}
  BY <1>8 DEF Noted
<1>. QED  BY <1>7, <1>9

LEMMA InvokeAdds ==
  ASSUME Inv, Turn, ins.op = "invoke", ins.name # NoCallee
  PROVE  /\ IsSequence(CallEdges \o ArgumentNodes)
         /\ Noted(CallEdges \o ArgumentNodes) = CallsFrom({me.next})
<1>1. IsSequence(CallEdges) /\ Noted(CallEdges) = CallsFrom({me.next})
  BY CallEdgesNoted
<1>2. IsSequence(ArgumentNodes) /\ Noted(ArgumentNodes) = {}
  BY ArgumentNodesNotNoted
<1>3. PICK u : u = CallEdges \o ArgumentNodes
  OBVIOUS
<1>4. IsSequence(u)
  BY <1>1, <1>2, <1>3, OwnConcat
<1>5. Noted(CallEdges \o ArgumentNodes) = Noted(CallEdges) \cup Noted(ArgumentNodes)
  BY <1>1, <1>2, NotedConcat
<1>. QED  BY <1>1, <1>2, <1>3, <1>4, <1>5

LEMMA ArgumentsAre ==
  ASSUME Inv, Turn, NEW k \in DOMAIN ins.args
  PROVE  /\ Arguments[k] = Reg(ins.args[k]) /\ ins.args[k] \in Regs(method) /\ Arguments[k] \in Value(method)
         /\ Arguments[k].reg \in Regs(method)
<1>1. ins.args[k] \in Regs(method)
  BY Operands, SeqElim
<1>2. Arguments[k] = Reg(ins.args[k])
  BY DEF Arguments
<1>3. Reg(ins.args[k]) \in Value(method)
  BY <1>1, SaidBefore DEF Reg
<1>. QED  BY <1>1, <1>2, <1>3 DEF Value

\* The result of the call is noted, whatever is known of it.
LEMMA CallKeeps ==
  ASSUME Inv, ObserveTurn, Invoke, ~Copies
  PROVE  Inv'
<1>. DEFINE b     == [Passed EXCEPT !.call = TransformedBy]
            added == CallEdges \o ArgumentNodes
            s     == Source("call", 0, ins.name)
<1>1. Turn /\ ins.op = "invoke" /\ Straight /\ NoFork /\ ins.name # NoCallee /\ Leaves(b, added)
  BY DEF Invoke, On, Straight
<1>2. Behind(Trail) = [Trail EXCEPT !.result = s]
  BY <1>1 DEF Behind
<1>3. IsSequence(added) /\ Noted(added) = CallsFrom({me.next})
  BY <1>1, InvokeAdds
<1>4. /\ ins.dst \in Regs(method) /\ TypeInv /\ PathInv /\ InRound /\ ins.name \in DOMAIN Callees \cup {NoCallee}
      /\ me.regs[ins.dst] \in Value(method) /\ Trail.regs[ins.dst] \in Origins
      /\ Trail.plain /\ Trail.regs[ins.dst] # Unseen => Says(me.regs[ins.dst], Trail.regs[ins.dst])
  BY <1>1, Operands, SaidBefore
<1>5. s \in Origins /\ s.kind = "call" /\ s.name = ins.name
  BY <1>4 DEF Source, Origins
<1>6. TransformedBy \in Calls /\ TransformedBy.callee = ins.name
  <2>1. PICK x \in BOOLEAN : x = \A k \in DOMAIN Arguments : Evaluates(Arguments[k])
    OBVIOUS
  <2>2. PICK y \in BOOLEAN : y = \E k \in DOMAIN Arguments : Arguments[k].isArg
    OBVIOUS
  <2>3. TransformedBy = [callee |-> ins.name, known |-> x, arg |-> y]
    BY <2>1, <2>2 DEF TransformedBy
  <2>. QED  BY <1>4, <2>3 DEF Calls
<1>7. Becomes(b, ins.dst, me.regs[ins.dst], TransformedBy)
  BY <1>4, <1>6, Passing
<1>. HIDE DEF s, b, added
<1>8. Follows(Behind(Trail), ins.dst, Trail.regs[ins.dst], s)
  BY <1>2, <1>4, <1>5, Trails
<1>9. Behind(Trail).plain =>
        ins.dst = ins.dst /\ (Trail.regs[ins.dst] # Unseen => Says(me.regs[ins.dst], Trail.regs[ins.dst]))
  BY <1>4, <1>8 DEF Follows
<1>10. TransformedBy # NoCall => s = Unseen \/ (s.kind = "call" /\ s.name = TransformedBy.callee)
  BY <1>5, <1>6
<1>. QED  BY <1>1, <1>3, <1>7, <1>8, <1>9, <1>10, GoesOn

\* System.arraycopy.
LEMMA CopyKeeps ==
  ASSUME Inv, ObserveTurn, Invoke, Copies
  PROVE  Inv'
<1>. DEFINE r     == Arguments[3].reg
            x     == ins.args[3]
            b     == [Passed EXCEPT !.regs[r] = Copied]
            added == CallEdges \o ArgumentNodes
            s     == Trail.regs[ins.args[1]]
            q     == [Trail EXCEPT !.regs[x] = s, !.result = Unseen, !.plain = @ /\ r = x]
<1>1. Turn /\ ins.op = "invoke" /\ Straight /\ NoFork /\ ins.name # NoCallee /\ Leaves(b, added)
  BY DEF Invoke, On, Straight
<1>2. Behind(Trail) = q
  BY <1>1 DEF Behind
<1>3. IsSequence(added) /\ Noted(added) = CallsFrom({me.next})
  BY <1>1, InvokeAdds
<1>4. 1 \in DOMAIN ins.args /\ 3 \in DOMAIN ins.args
  <2>1. Len(ins.args) \in Nat /\ DOMAIN ins.args = 1 .. Len(ins.args) /\ Len(ins.args) >= 3
    BY <1>1, Operands, SeqElim DEF Copies
  <2>. QED  BY <2>1
<1>5. /\ r \in Regs(method) /\ x \in Regs(method) /\ ins.args[1] \in Regs(method)
      /\ Arguments[1] \in Value(method) /\ Arguments[1] = me.regs[ins.args[1]]
  BY <1>1, <1>4, ArgumentsAre DEF Reg
<1>6. Copied \in Value(method) /\ Copied.call = Arguments[1].call /\ Copied.data = Arguments[1].data
  BY <1>5 DEF Copied, Value
<1>7. s \in Origins /\ (Trail.plain /\ s # Unseen => Says(Copied, s))
  BY <1>1, <1>5, <1>6, SaidBefore DEF Says
<1>8. /\ TypeInv /\ PathInv /\ InRound /\ me.call \in Calls
  BY <1>1, Operands, SaidBefore
<1>. HIDE DEF r
<1>9. Becomes(b, r, Copied, me.call)
  BY <1>5, <1>6, <1>8, Writing
<1>10. Follows(q, x, s, Unseen) /\ (q.plain => x = r)
  <2>1. Trail \in [regs : [Regs(method) -> Origins], result : Origins,
                   tested : [noted : BOOLEAN, nonZero : BOOLEAN, value : Origins], plain : BOOLEAN]
    BY <1>8, PathAhead DEF Path, Trail
  <2>2. Unseen \in Origins
    BY DEF Unseen, From, Source, Origins
  <2>3. PICK g : g = [Trail.regs EXCEPT ![x] = s]
    OBVIOUS
  <2>4. g \in [Regs(method) -> Origins]
    BY <1>5, <1>7, <2>1, <2>3
  <2>5. PICK y \in BOOLEAN : y = (Trail.plain /\ r = x)
    OBVIOUS
  <2>6. q = [Trail EXCEPT !.regs = g, !.result = Unseen, !.plain = y]
    BY <2>3, <2>5
  <2>7. (y => Trail.plain) /\ (y => x = r)
    BY <2>5
  <2>. HIDE DEF q, s, x
  <2>8. q \in Path(method) /\ q.regs = g /\ q.result = Unseen /\ q.plain = y /\ q.tested = Trail.tested
    BY <2>1, <2>2, <2>4, <2>6 DEF Path
  <2>. QED  BY <1>5, <1>7, <2>3, <2>7, <2>8 DEF Follows
<1>11. q.plain => x = r /\ (s # Unseen => Says(Copied, s))
  BY <1>7, <1>10 DEF Follows
<1>. HIDE DEF s, b, added, q, x
<1>. QED  BY <1>1, <1>2, <1>3, <1>9, <1>10, <1>11, GoesOn

-----------------------------------------------------------------------------
(* Jumps, tests and ends.                                                  *)
LEMMA Moved ==
  ASSUME TypeInv, InRound, NEW d \in Int, NEW b, b = [me EXCEPT !.next = @ + d]
  PROVE  /\ b \in Branch(method) /\ b.id = me.id /\ b.next = me.next + d
         /\ \A p : Known(me, p) => Known(b, p)
<1>1. me \in Record(method)
  BY Ahead DEF Branch, Record
<1>2. /\ b \in Record(method) /\ b.id = me.id /\ b.next = me.next + d
      /\ b.call = me.call /\ b.condition = me.condition /\ b.regs = me.regs
  BY <1>1 DEF Record
<1>. QED  BY <1>2 DEF Known, Branch, Record

LEMMA PassedOn ==
  ASSUME TypeInv, PathInv, InRound
  PROVE  Passed \in Branch(method) /\ Passed.id = me.id /\ Passed.next = me.next + 1 /\ Known(Passed, Trail)
<1>1. Passed = [me EXCEPT !.next = @ + 1] /\ 1 \in Int
  BY DEF Passed
<1>2. Known(me, Trail)
  BY PathAhead DEF Trail
<1>. QED  BY <1>1, <1>2, Moved

LEMMA Forked ==
  ASSUME NEW S, NEW b \in S, NEW s \in Seq(S)
  PROVE  /\ <<b>> \in Seq(S) /\ Len(<<b>>) = 1 /\ DOMAIN <<b>> = {1} /\ <<b>>[1] = b /\ Append(s, b) = s \o <<b>>
         /\ <<>> \in Seq(S) /\ Len(<<>>) = 0 /\ DOMAIN <<>> = {} /\ s = s \o <<>>
OBVIOUS

LEMMA FinishKeeps ==
  ASSUME Inv, ObserveTurn, Finish
  PROVE  Inv'
<1>. DEFINE b == IF me.next \in Address(method) THEN Passed ELSE me
<1>1. /\ InRound /\ Leaves(b, <<>>) /\ finished' = finished \cup {me.id} /\ already' = already /\ forks' = forks
      /\ TypeInv /\ PathInv /\ (Turn <=> me.next \in Address(method))
  BY DEF Finish, Inv, Turn
<1>2. /\ Trail \in Path(method) /\ Known(me, Trail) /\ me.id \in DOMAIN paths /\ me \in Branch(method)
      /\ forks \in Seq(Branch(method)) /\ forkPaths \in Seq(Path(method))
  BY <1>1, PathAhead, Ahead DEF Trail, TypeInv, PathInv
<1>3. b \in Branch(method) /\ b.id = me.id /\ Known(b, Trail)
  BY <1>1, <1>2, PassedOn
<1>4. /\ <<>> \in Seq(Branch(method)) /\ Len(<<>>) = 0 /\ DOMAIN <<>> = {} /\ MaxTargets \in Nat
      /\ <<>> \in Seq(Path(method)) /\ forks' = forks \o <<>> /\ 1 .. Len(<<>>) = {}
  BY <1>1, <1>2, BoundsAssumption
<1>. HIDE DEF b
<1>5. Turned(b, <<>>, {me.id}) /\ CallsNoted' = CallsNoted \cup Noted(<<>>)
  <2>1. /\ {me.id} \subseteq {me.id} /\ Len(<<>>) <= MaxTargets /\ (<<>> # <<>> => MayFork)
        /\ already' \subseteq already \cup ({me.next} \cap Address(method))
    BY <1>1, <1>4
  <2>. QED  BY <1>1, <1>3, <1>4, <2>1, LeavesTurned, NotedNothing
<1>6. Observed(b, <<>>, Trail, <<>>)
  <2>1. Turn => ins.op \in {"throw", "return"}
    BY DEF Finish, Turn
  <2>2. /\ DOMAIN paths' = DOMAIN paths
        /\ \A id \in DOMAIN paths : paths'[id] = IF id = me.id THEN Trail ELSE paths[id]
    <3>1. CASE Turn
      <4>1. Behind(Trail) = Trail
        BY <2>1, <3>1 DEF Behind
      <4>2. paths' = [paths EXCEPT ![me.id] = Trail]
        BY <2>1, <3>1, <4>1 DEF ObserveTurn, Trail
      <4>. QED  BY <1>2, <4>2
    <3>2. CASE ~Turn
      BY <3>2 DEF ObserveTurn, Trail
    <3>. QED  BY <3>1, <3>2
  <2>3. forkPaths' = forkPaths \o <<>>
    <3>1. Len(forks') - Len(forks) = 0
      BY <1>1, <1>2
    <3>2. \A y : [k \in 1 .. 0 |-> y] = <<>>
      OBVIOUS
    <3>. QED  BY <3>1, <3>2 DEF ObserveTurn
  <2>. QED  BY <1>2, <1>3, <1>4, <2>2, <2>3 DEF Observed
<1>7. Goes(b, <<>>, {me.id})
  <2>1. Turn => ins.op \in {"throw", "return"}
    BY DEF Finish, Turn
  <2>2. me.next \in Address(method) => Successors(me.next) = {}
    BY <1>1, <2>1 DEF Successors, ins
  <2>3. CallsFrom({me.next}) = {}
    BY <1>1, <2>1 DEF CallsFrom, ins
  <2>4. (pruned => pruned') /\ reached' = reached
    BY DEF ObserveTurn
  <2>. QED  BY <1>4, <1>5, <2>2, <2>3, <2>4, NotedNothing DEF Goes
<1>. QED  BY <1>5, <1>6, <1>7, TurnKeeps

\* A turn that adds nothing, at an instruction that jumps.
Jumps(i) == i.op \in {"goto", "test", "test_zero", "switch"}
Ways(i) == {me.next + i.to[k] : k \in DOMAIN i.to}

LEMMA WaysAre ==
  ASSUME Inv, Turn
  PROVE  /\ Successors(me.next) = IF ins.op \in {"return", "throw"} THEN {}
                                  ELSE IF ins.op = "goto" THEN Ways(ins)
                                  ELSE IF ins.op \in {"test", "test_zero", "switch"} THEN Ways(ins) \cup {me.next + 1}
                                  ELSE {me.next + 1}
         /\ ins.op \in {"goto", "test", "test_zero"} => Ways(ins) = {me.next + ins.to[1]} /\ ins.to[1] \in Int
         /\ \A k \in DOMAIN ins.to : ins.to[k] \in Int
<1>1. ins.to \in Seq(Int) /\ (ins.op \in {"goto", "test", "test_zero"} => Len(ins.to) = 1)
  BY Operands
<1>2. \A k \in DOMAIN ins.to : ins.to[k] \in Int
  BY <1>1, SeqElim
<1>3. ins.op \in {"goto", "test", "test_zero"} => DOMAIN ins.to = {1}
  <2>1. 1 .. 1 = {1}
    OBVIOUS
  <2>. QED  BY <1>1, <2>1, SeqElim
<1>4. ins = method.code[me.next]
  BY DEF ins
<1>5. Successors(me.next) = CASE ins.op \in {"return", "throw"}             -> {}
                              [] ins.op = "goto"                            -> Ways(ins)
                              [] ins.op \in {"test", "test_zero", "switch"} -> Ways(ins) \cup {me.next + 1}
                              [] OTHER                                      -> {me.next + 1}
  BY <1>4 DEF Successors, Ways
<1>6. Successors(me.next) = IF ins.op \in {"return", "throw"} THEN {}
                            ELSE IF ins.op = "goto" THEN Ways(ins)
                            ELSE IF ins.op \in {"test", "test_zero", "switch"} THEN Ways(ins) \cup {me.next + 1}
                            ELSE {me.next + 1}
  BY <1>5
<1>7. ins.op \in {"goto", "test", "test_zero"} => Ways(ins) = {me.next + ins.to[1]}
  BY <1>3 DEF Ways
<1>. QED  BY <1>2, <1>3, <1>6, <1>7

\* The turn of a jump or a test that is not for zero.
LEMMA JumpKeeps ==
  ASSUME Inv, ObserveTurn, Turn, Jumps(ins), ins.op # "test_zero",
         NEW b \in Branch(method), b.id = me.id, Known(b, Trail), Leaves(b, <<>>),
         NEW new \in Seq(Branch(method)), Len(new) <= MaxTargets, new # <<>> => MayFork,
         forks' = forks \o new, finished' = finished, already' \subseteq already \cup {me.next},
         \A k \in DOMAIN new : Known(new[k], Trail) /\ new[k].next \in Successors(me.next),
         b.next \in Successors(me.next),
         MayFork /\ me.next \notin already =>
           \A a \in Successors(me.next) : b.next = a \/ \E k \in DOMAIN new : new[k].next = a
  PROVE  Inv'
<1>1. TypeInv /\ PathInv /\ InRound /\ me.next \in Address(method) /\ finished' = finished \cup {}
  BY DEF Inv, Turn
<1>2. {me.next} \cap Address(method) = {me.next} /\ {} \subseteq {me.id}
  BY <1>1
<1>3. Turned(b, new, {}) /\ CallsNoted' = CallsNoted \cup Noted(<<>>)
  BY <1>1, <1>2, LeavesTurned, NotedNothing
<1>4. Behind(Trail) = Trail /\ ~IsCall(ins)
  BY DEF Behind, Jumps, IsCall
<1>5. Observed(b, new, Behind(paths[me.id]), [k \in 1 .. Len(new) |-> paths[me.id]])
  BY <1>1, <1>4, TurnedObserved, PathAhead DEF Trail
<1>6. Goes(b, new, {})
  <2>1. CallsFrom({me.next}) = {}
    BY <1>4, NotCalling DEF IsCall
  <2>2. (pruned => pruned') /\ reached' = reached
    BY DEF ObserveTurn
  <2>. QED  BY <1>1, <1>3, <2>1, <2>2, NotedNothing DEF Goes
<1>. QED  BY <1>3, <1>5, <1>6, TurnKeeps

LEMMA GotoKeeps ==
  ASSUME Inv, ObserveTurn, Goto
  PROVE  Inv'
<1>1. Turn /\ ins.op = "goto" /\ NoFork /\ Leaves(Jumped, <<>>) /\ InRound /\ TypeInv /\ PathInv
  BY DEF Goto, On, Inv, Turn
<1>2. Successors(me.next) = {me.next + ins.to[1]} /\ ins.to[1] \in Int
  BY <1>1, WaysAre
<1>3. Jumped \in Branch(method) /\ Jumped.id = me.id /\ Jumped.next = me.next + ins.to[1] /\ Known(Jumped, Trail)
  BY <1>1, <1>2, Moved, PathAhead DEF Jumped, Trail
<1>4. /\ <<>> \in Seq(Branch(method)) /\ Len(<<>>) <= MaxTargets /\ ~ (<<>> # <<>>) /\ DOMAIN <<>> = {}
      /\ forks' = forks \o <<>> /\ finished' = finished /\ already' \subseteq already \cup {me.next}
  BY <1>1, BoundsAssumption, Forked DEF NoFork, TypeInv
<1>. QED  BY <1>1, <1>2, <1>3, <1>4, JumpKeeps DEF Jumps

LEMMA TestAgainKeeps ==
  ASSUME Inv, ObserveTurn, TestAgain, ins.op # "test_zero"
  PROVE  Inv'
<1>1. /\ Turn /\ ins.op = "test" /\ me.next \in already /\ NoFork /\ Leaves(Passed, <<>>)
      /\ InRound /\ TypeInv /\ PathInv
  BY DEF TestAgain, On, Inv, Turn
<1>2. me.next + 1 \in Successors(me.next)
  BY <1>1, WaysAre
<1>3. Passed \in Branch(method) /\ Passed.id = me.id /\ Passed.next = me.next + 1 /\ Known(Passed, Trail)
  BY <1>1, PassedOn
<1>4. /\ <<>> \in Seq(Branch(method)) /\ Len(<<>>) <= MaxTargets /\ ~ (<<>> # <<>>) /\ DOMAIN <<>> = {}
      /\ forks' = forks \o <<>> /\ finished' = finished /\ already' \subseteq already \cup {me.next}
  BY <1>1, BoundsAssumption, Forked DEF NoFork, TypeInv
<1>. QED  BY <1>1, <1>2, <1>3, <1>4, JumpKeeps DEF Jumps

LEMMA TestKeeps ==
  ASSUME Inv, ObserveTurn, Test
  PROVE  Inv'
<1>1. /\ Turn /\ ins.op = "test" /\ already' = already \cup {me.next} /\ Leaves(Passed, <<>>) /\ finished' = finished
      /\ forks' = (IF MayFork THEN Append(forks, Jumped) ELSE forks)
      /\ InRound /\ TypeInv /\ PathInv
  BY DEF Test, On, Inv, Turn
<1>2. /\ Successors(me.next) = {me.next + ins.to[1]} \cup {me.next + 1} /\ ins.to[1] \in Int
  BY <1>1, WaysAre
<1>3. Passed \in Branch(method) /\ Passed.id = me.id /\ Passed.next = me.next + 1 /\ Known(Passed, Trail)
  BY <1>1, PassedOn
<1>4. Jumped \in Branch(method) /\ Jumped.next = me.next + ins.to[1] /\ Known(Jumped, Trail)
  BY <1>1, <1>2, Moved, PathAhead DEF Jumped, Trail
<1>5. forks \in Seq(Branch(method)) /\ MaxTargets \in Nat \ {0}
  BY <1>1, BoundsAssumption DEF TypeInv
<1>6. CASE MayFork
  <2>. DEFINE new == <<Jumped>>
  <2>1. /\ new \in Seq(Branch(method)) /\ Len(new) <= MaxTargets /\ DOMAIN new = {1} /\ new[1] = Jumped
        /\ forks' = forks \o new
    BY <1>1, <1>4, <1>5, <1>6, Forked
  <2>. HIDE DEF new
  <2>2. \A k \in DOMAIN new : Known(new[k], Trail) /\ new[k].next \in Successors(me.next)
    BY <1>2, <1>4, <2>1
  <2>3. \A a \in Successors(me.next) : Passed.next = a \/ \E k \in DOMAIN new : new[k].next = a
    BY <1>2, <1>3, <1>4, <2>1
  <2>. QED  BY <1>1, <1>2, <1>3, <1>6, <2>1, <2>2, <2>3, JumpKeeps DEF Jumps
<1>7. CASE ~MayFork
  <2>1. /\ <<>> \in Seq(Branch(method)) /\ Len(<<>>) <= MaxTargets /\ ~ (<<>> # <<>>) /\ DOMAIN <<>> = {}
        /\ forks' = forks \o <<>>
    BY <1>1, <1>5, <1>7, Forked
  <2>. QED  BY <1>1, <1>2, <1>3, <1>7, <2>1, JumpKeeps DEF Jumps
<1>. QED  BY <1>6, <1>7

LEMMA SwitchKeeps ==
  ASSUME Inv, ObserveTurn, Switch
  PROVE  Inv'
<1>1. /\ Turn /\ ins.op = "switch" /\ already' = already /\ Leaves(Passed, <<>>) /\ finished' = finished
      /\ forks' = (IF MayFork THEN forks \o Targets ELSE forks)
      /\ InRound /\ TypeInv /\ PathInv
  BY DEF Switch, On, Inv, Turn
<1>2. Successors(me.next) = Ways(ins) \cup {me.next + 1}
  BY <1>1, WaysAre
<1>3. Passed \in Branch(method) /\ Passed.id = me.id /\ Passed.next = me.next + 1 /\ Known(Passed, Trail)
  BY <1>1, PassedOn
<1>4. /\ forks \in Seq(Branch(method)) /\ MaxTargets \in Nat /\ ins.to \in Seq(Int) /\ Len(ins.to) <= MaxTargets
      /\ Len(ins.to) \in Nat /\ DOMAIN ins.to = 1 .. Len(ins.to) /\ \A k \in DOMAIN ins.to : ins.to[k] \in Int
  BY <1>1, BoundsAssumption, Operands, SeqElim DEF TypeInv
<1>5. \A k \in DOMAIN ins.to : /\ Targets[k] \in Branch(method) /\ Targets[k].next = me.next + ins.to[k]
                               /\ Known(Targets[k], Trail)
  <2>1. ASSUME NEW k \in DOMAIN ins.to
        PROVE  /\ Targets[k] \in Branch(method) /\ Targets[k].next = me.next + ins.to[k]
               /\ Known(Targets[k], Trail)
    <3>1. Targets[k] = [me EXCEPT !.next = @ + ins.to[k]] /\ ins.to[k] \in Int
      BY <1>4 DEF Targets
    <3>. QED  BY <1>1, <3>1, Moved, PathAhead DEF Trail
  <2>. QED  BY <2>1
<1>6. CASE MayFork
  <2>1. Targets \in [1 .. Len(ins.to) -> Branch(method)]
    BY <1>4, <1>5 DEF Targets
  <2>2. Targets \in Seq(Branch(method)) /\ Len(Targets) = Len(ins.to) /\ DOMAIN Targets = DOMAIN ins.to
    BY <1>4, <2>1, SeqIntro
  <2>3. \A k \in DOMAIN Targets : Known(Targets[k], Trail) /\ Targets[k].next \in Successors(me.next)
    BY <1>2, <1>5, <2>2 DEF Ways
  <2>4. \A a \in Successors(me.next) : Passed.next = a \/ \E k \in DOMAIN Targets : Targets[k].next = a
    BY <1>2, <1>3, <1>5, <2>2 DEF Ways
  <2>5. forks' = forks \o Targets /\ Len(Targets) <= MaxTargets /\ already' \subseteq already \cup {me.next}
    BY <1>1, <1>4, <1>6, <2>2
  <2>. QED  BY <1>1, <1>2, <1>3, <1>6, <2>2, <2>3, <2>4, <2>5, JumpKeeps DEF Jumps
<1>7. CASE ~MayFork
  <2>1. /\ <<>> \in Seq(Branch(method)) /\ Len(<<>>) <= MaxTargets /\ ~ (<<>> # <<>>) /\ DOMAIN <<>> = {}
        /\ forks' = forks \o <<>> /\ already' \subseteq already \cup {me.next}
    BY <1>1, <1>4, <1>7, Forked
  <2>. QED  BY <1>1, <1>2, <1>3, <1>7, <2>1, JumpKeeps DEF Jumps
<1>. QED  BY <1>6, <1>7

LEMMA TestedIs ==
  ASSUME TypeInv, PathInv, InRound, NEW jumps \in BOOLEAN, ins.src \in Regs(method)
  PROVE  LET q == Tested(Trail, jumps)
         IN /\ q \in Path(method) /\ q.regs = Trail.regs /\ q.result = Trail.result /\ q.plain = Trail.plain
            /\ q.tested.noted <=> Noting /\ ins.how \in {"eq", "ne"}
            /\ q.tested.nonZero <=> ((ins.how = "eq") # jumps)
            /\ q.tested.value = Trail.regs[ins.src]
<1>1. Trail \in [regs : [Regs(method) -> Origins], result : Origins,
                 tested : [noted : BOOLEAN, nonZero : BOOLEAN, value : Origins], plain : BOOLEAN]
  BY PathAhead DEF Path, Trail
<1>2. PICK x \in BOOLEAN : x <=> Noting /\ ins.how \in {"eq", "ne"}
  OBVIOUS
<1>3. PICK y \in BOOLEAN : y <=> ((ins.how = "eq") # jumps)
  OBVIOUS
<1>4. PICK q : q = [Trail EXCEPT !.tested = [noted |-> x, nonZero |-> y, value |-> Trail.regs[ins.src]]]
  OBVIOUS
<1>5. q = Tested(Trail, jumps)
  <2>1. x = (Noting /\ ins.how \in {"eq", "ne"})
    BY <1>2
  <2>2. y = ((ins.how = "eq") # jumps)
    BY <1>3
  <2>. QED  BY <1>4, <2>1, <2>2 DEF Tested
<1>6. /\ q \in Path(method) /\ q.regs = Trail.regs /\ q.result = Trail.result /\ q.plain = Trail.plain
      /\ q.tested.noted = x /\ q.tested.nonZero = y /\ q.tested.value = Trail.regs[ins.src]
  BY <1>1, <1>4 DEF Path
<1>. QED  BY <1>2, <1>3, <1>5, <1>6

LEMMA ZeroKeeps ==
  ASSUME Inv, ObserveTurn, Turn, ins.op = "test_zero",
         NEW b \in Branch(method), b.id = me.id, Leaves(b, <<>>),
         NEW new \in Seq(Branch(method)), Len(new) <= MaxTargets, new # <<>> => MayFork,
         forks' = forks \o new, finished' = finished, already' \subseteq already \cup {me.next},
         Known(b, Tested(Trail, b.next # me.next + 1)),
         \A k \in DOMAIN new : Known(new[k], Tested(Trail, TRUE)) /\ new[k].next \in Successors(me.next),
         b.next \in Successors(me.next),
         ~pruned' /\ MayFork /\ me.next \notin already =>
           \A a \in Successors(me.next) : b.next = a \/ \E k \in DOMAIN new : new[k].next = a
  PROVE  Inv'
<1>1. TypeInv /\ PathInv /\ InRound /\ me.next \in Address(method) /\ finished' = finished \cup {}
  BY DEF Inv, Turn
<1>2. {me.next} \cap Address(method) = {me.next} /\ {} \subseteq {me.id} /\ ins.src \in Regs(method)
  BY <1>1, Operands
<1>3. Turned(b, new, {}) /\ CallsNoted' = CallsNoted \cup Noted(<<>>)
  BY <1>1, <1>2, LeavesTurned, NotedNothing
<1>4. ~IsCall(ins)
  BY DEF IsCall
<1>. DEFINE q  == Tested(Trail, b.next # me.next + 1)
            t  == Tested(Trail, TRUE)
            qs == [k \in 1 .. Len(new) |-> t]
<1>5. Observed(b, new, q, qs)
  <2>1. Len(forks) \in Nat /\ Len(new) \in Nat /\ DOMAIN new = 1 .. Len(new) /\ Len(forks') - Len(forks) = Len(new)
    BY <1>1, SeqElim, SeqConcat DEF TypeInv
  <2>2. branches'[at] = b
    BY <1>1, Ahead DEF Leaves
  <2>3. forkPaths' = forkPaths \o qs /\ paths' = [paths EXCEPT ![me.id] = q]
    BY <2>1, <2>2 DEF ObserveTurn, Trail
  <2>4. t \in Path(method)
    BY <1>1, <1>2, TestedIs
  <2>5. q \in Path(method)
    <3>1. PICK jumps \in BOOLEAN : jumps = (b.next # me.next + 1)
      OBVIOUS
    <3>2. Tested(Trail, jumps) \in Path(method)
      BY <1>1, <1>2, TestedIs
    <3>. QED  BY <3>1, <3>2
  <2>6. me.id \in DOMAIN paths
    BY <1>1, PathAhead
  <2>. HIDE DEF q, t
  <2>7. qs \in Seq(Path(method)) /\ Len(qs) = Len(new)
    <3>1. qs \in [1 .. Len(new) -> Path(method)]
      BY <2>4
    <3>. HIDE DEF qs
    <3>. QED  BY <2>1, <3>1, SeqIntro
  <2>8. \A k \in DOMAIN new : Known(new[k], qs[k])
    BY <2>1 DEF t
  <2>9. Known(b, q)
    BY DEF q
  <2>10. /\ DOMAIN paths' = DOMAIN paths
         /\ \A id \in DOMAIN paths : paths'[id] = IF id = me.id THEN q ELSE paths[id]
    BY <2>3, <2>6
  <2>. QED  BY <2>3, <2>5, <2>7, <2>8, <2>9, <2>10 DEF Observed
<1>6. Goes(b, new, {})
  <2>1. CallsFrom({me.next}) = {}
    BY <1>4, NotCalling DEF IsCall
  <2>2. (pruned => pruned') /\ reached' = reached
    BY DEF ObserveTurn
  <2>. QED  BY <1>1, <1>3, <2>1, <2>2, NotedNothing DEF Goes
<1>. HIDE DEF q, qs, t
<1>. QED  BY <1>3, <1>5, <1>6, TurnKeeps

\* A path whose test for zero is not noted is known as it was.
LEMMA NotNoted ==
  ASSUME Inv, Turn, ~Noting, NEW b, Known(b, Trail), NEW jumps \in BOOLEAN
  PROVE  Known(b, Tested(Trail, jumps))
<1>1. TypeInv /\ PathInv /\ InRound /\ ins.src \in Regs(method)
  BY Operands DEF Inv, Turn
<1>2. PICK q : q = Tested(Trail, jumps)
  OBVIOUS
<1>3. q.regs = Trail.regs /\ q.result = Trail.result /\ q.plain = Trail.plain /\ ~q.tested.noted
  BY <1>1, <1>2, TestedIs
<1>4. Known(b, q)
  BY <1>3 DEF Known
<1>. QED  BY <1>2, <1>4

LEMMA ZeroAgainKeeps ==
  ASSUME Inv, ObserveTurn, TestAgain, ins.op = "test_zero"
  PROVE  Inv'
<1>1. /\ Turn /\ me.next \in already /\ NoFork /\ Leaves(Passed, <<>>) /\ InRound /\ TypeInv /\ PathInv
  BY DEF TestAgain, On, Inv, Turn
<1>2. me.next + 1 \in Successors(me.next)
  BY <1>1, WaysAre
<1>3. Passed \in Branch(method) /\ Passed.id = me.id /\ Passed.next = me.next + 1 /\ Known(Passed, Trail)
  BY <1>1, PassedOn
<1>4. /\ <<>> \in Seq(Branch(method)) /\ Len(<<>>) <= MaxTargets /\ ~ (<<>> # <<>>) /\ DOMAIN <<>> = {}
      /\ forks' = forks \o <<>> /\ finished' = finished /\ already' \subseteq already \cup {me.next}
  BY <1>1, BoundsAssumption, Forked DEF NoFork, TypeInv
<1>5. Known(Passed, Tested(Trail, Passed.next # me.next + 1))
  <2>1. ~Noting
    BY <1>1 DEF Noting
  <2>2. PICK jumps \in BOOLEAN : jumps = (Passed.next # me.next + 1)
    OBVIOUS
  <2>3. Known(Passed, Tested(Trail, jumps))
    BY <1>1, <1>3, <2>1, NotNoted
  <2>. QED  BY <2>2, <2>3
<1>. QED  BY <1>1, <1>2, <1>3, <1>4, <1>5, ZeroKeeps

\* One way is followed, and the flow is no longer complete.
LEMMA TestZeroDeadKeeps ==
  ASSUME Inv, ObserveTurn, TestZeroDead
  PROVE  Inv'
<1>. DEFINE isOne == Outcome(Reg(ins.src).call).n = 1
            b     == IF isOne /\ ~OffsetBool THEN Jumped ELSE Passed
<1>1. /\ Turn /\ ins.op = "test_zero" /\ me.next \notin already /\ Dead(Reg(ins.src)) /\ Leaves(b, <<>>)
      /\ finished' = finished /\ forks' = forks /\ already' = already \cup {me.next}
      /\ InRound /\ TypeInv /\ PathInv
  BY DEF TestZeroDead, On, Inv, Turn
<1>2. Successors(me.next) = {me.next + ins.to[1]} \cup {me.next + 1} /\ ins.to[1] \in Int
  BY <1>1, WaysAre
<1>3. Passed \in Branch(method) /\ Passed.id = me.id /\ Passed.next = me.next + 1 /\ Known(Passed, Trail)
  BY <1>1, PassedOn
<1>4. Jumped \in Branch(method) /\ Jumped.id = me.id /\ Jumped.next = me.next + ins.to[1] /\ Known(Jumped, Trail)
  BY <1>1, <1>2, Moved, PathAhead DEF Jumped, Trail
<1>5. b \in Branch(method) /\ b.id = me.id /\ Known(b, Trail) /\ b.next \in Successors(me.next)
  BY <1>2, <1>3, <1>4
<1>. HIDE DEF b
<1>6. /\ <<>> \in Seq(Branch(method)) /\ Len(<<>>) <= MaxTargets /\ ~ (<<>> # <<>>) /\ DOMAIN <<>> = {}
      /\ forks' = forks \o <<>> /\ already' \subseteq already \cup {me.next}
  BY <1>1, BoundsAssumption, Forked DEF TypeInv
<1>7. Known(b, Tested(Trail, b.next # me.next + 1))
  <2>1. ~Noting
    BY <1>1 DEF Noting
  <2>2. PICK jumps \in BOOLEAN : jumps = (b.next # me.next + 1)
    OBVIOUS
  <2>3. Known(b, Tested(Trail, jumps))
    BY <1>1, <1>5, <2>1, NotNoted
  <2>. QED  BY <2>2, <2>3
<1>8. pruned'
  BY <1>1 DEF ObserveTurn
<1>. QED  BY <1>1, <1>5, <1>6, <1>7, <1>8, ZeroKeeps

\* The two branches of a test for zero know what the way taken says of the value tested.
LEMMA ConditionSet ==
  ASSUME Inv, Turn, NEW jumps \in BOOLEAN, NEW b, NEW is \in BOOLEAN,
         Noting => (is <=> ((ins.how = "eq") # jumps)),
         Known(me, Trail), b.regs = me.regs, b.call = me.call, b.condition = Condition(is, Reg(ins.src))
  PROVE  Known(b, Tested(Trail, jumps))
<1>1. TypeInv /\ PathInv /\ InRound /\ ins.src \in Regs(method) /\ me.regs \in [Regs(method) -> Value(method)]
  BY Operands, Ahead DEF Inv, Turn
<1>2. PICK q : q = Tested(Trail, jumps)
  OBVIOUS
<1>3. /\ q \in Path(method) /\ q.regs = Trail.regs /\ q.result = Trail.result /\ q.plain = Trail.plain
      /\ q.tested.noted => Noting
      /\ q.tested.nonZero <=> ((ins.how = "eq") # jumps)
      /\ q.tested.value = Trail.regs[ins.src]
  BY <1>1, <1>2, TestedIs
<1>4. b.condition.set /\ b.condition.is = is /\ b.condition.call = me.regs[ins.src].call
  BY DEF Condition, Reg
<1>5. q.tested.nonZero \in BOOLEAN
  BY <1>3 DEF Path
<1>6. q.tested.noted => b.condition.is = q.tested.nonZero
  BY <1>3, <1>4, <1>5
<1>7. q.plain /\ q.tested.value # Unseen /\ b.condition.call # NoCall
        => q.tested.value.kind = "call" /\ q.tested.value.name = b.condition.call.callee
  <2>1. Trail.plain /\ Trail.regs[ins.src] # Unseen => Says(me.regs[ins.src], Trail.regs[ins.src])
    BY <1>1, SaidBefore
  <2>. QED  BY <1>3, <1>4, <2>1 DEF Says
<1>8. /\ q.plain => \A r \in DOMAIN b.regs : q.regs[r] # Unseen => Says(b.regs[r], q.regs[r])
      /\ b.call # NoCall => q.result = Unseen \/ (q.result.kind = "call" /\ q.result.name = b.call.callee)
  BY <1>3 DEF Known
<1>9. Known(b, q)
  BY <1>4, <1>6, <1>7, <1>8 DEF Known
<1>. QED  BY <1>2, <1>9

Conditions == [is : BOOLEAN, set : BOOLEAN, call : Calls]

\* The branch, d further on and decided by y.
Decided(d, y) == [[me EXCEPT !.next = @ + d] EXCEPT !.condition = y]

LEMMA WithCondition ==
  ASSUME TypeInv, InRound, NEW d \in Int, NEW y \in Conditions
  PROVE  /\ Decided(d, y) \in Branch(method) /\ Decided(d, y).id = me.id /\ Decided(d, y).next = me.next + d
         /\ Decided(d, y).regs = me.regs /\ Decided(d, y).call = me.call /\ Decided(d, y).condition = y
<1>1. me \in Record(method)
  BY Ahead DEF Branch, Record
<1>2. PICK c : c = [me EXCEPT !.next = @ + d]
  OBVIOUS
<1>3. /\ c \in Record(method) /\ c.id = me.id /\ c.next = me.next + d
      /\ c.call = me.call /\ c.regs = me.regs
  BY <1>1, <1>2 DEF Record
<1>4. Decided(d, y) = [c EXCEPT !.condition = y]
  BY <1>2 DEF Decided
<1>. QED  BY <1>3, <1>4 DEF Branch, Record, Conditions

LEMMA ConditionIs ==
  ASSUME TypeInv, InRound, ins.src \in Regs(method), NEW is \in BOOLEAN
  PROVE  Condition(is, Reg(ins.src)) \in Conditions
<1>1. Reg(ins.src).call \in Calls
  BY Ahead DEF Reg, Value
<1>. QED  BY <1>1 DEF Condition, Conditions

LEMMA TestZeroKeeps ==
  ASSUME Inv, ObserveTurn, TestZero
  PROVE  Inv'
<1>1. PICK is \in BOOLEAN : is = IF MayFork THEN OffsetBool ELSE ~OffsetBool
  BY DEF OffsetBool
<1>2. PICK other \in BOOLEAN : other = ~OffsetBool
  OBVIOUS
<1>. DEFINE b == [Passed EXCEPT !.condition = Condition(is, Reg(ins.src))]
            f == [Jumped EXCEPT !.condition = Condition(other, Reg(ins.src))]
<1>3. /\ Turn /\ ins.op = "test_zero" /\ me.next \notin already
      /\ already' = already \cup {me.next} /\ finished' = finished
      /\ InRound /\ TypeInv /\ PathInv
  BY DEF TestZero, On, Inv, Turn
<1>4. Leaves(b, <<>>)
  BY <1>1 DEF TestZero
<1>5. forks' = IF MayFork THEN Append(forks, f) ELSE forks
  BY <1>2 DEF TestZero
<1>6. Successors(me.next) = {me.next + ins.to[1]} \cup {me.next + 1} /\ ins.to[1] \in Int
  BY <1>3, WaysAre
<1>7. Known(me, Trail) /\ ins.src \in Regs(method)
  BY <1>3, PathAhead, Operands DEF Trail
<1>8. /\ b \in Branch(method) /\ b.id = me.id /\ b.next = me.next + 1 /\ b.regs = me.regs /\ b.call = me.call
      /\ b.condition = Condition(is, Reg(ins.src))
  <2>0. PICK d \in Int : d = 1
    OBVIOUS
  <2>1. PICK y \in Conditions : y = Condition(is, Reg(ins.src))
    BY <1>3, <1>7, ConditionIs
  <2>2. Decided(d, y) = b
    BY <2>0, <2>1 DEF Passed, Decided
  <2>. HIDE DEF b
  <2>. QED  BY <1>3, <2>0, <2>1, <2>2, WithCondition
<1>9. /\ f \in Branch(method) /\ f.next = me.next + ins.to[1] /\ f.regs = me.regs /\ f.call = me.call
      /\ f.condition = Condition(other, Reg(ins.src))
  <2>0. PICK d \in Int : d = ins.to[1]
    BY <1>6
  <2>1. PICK y \in Conditions : y = Condition(other, Reg(ins.src))
    BY <1>3, <1>7, ConditionIs
  <2>2. Decided(d, y) = f
    BY <2>0, <2>1 DEF Jumped, Decided
  <2>. HIDE DEF f
  <2>. QED  BY <1>3, <2>0, <2>1, <2>2, WithCondition
<1>. HIDE DEF b, f
<1>10. Known(b, Tested(Trail, b.next # me.next + 1))
  <2>1. PICK jumps \in BOOLEAN : jumps = (b.next # me.next + 1)
    OBVIOUS
  <2>2. ~jumps
    BY <1>8, <2>1
  <2>3. Noting => (is <=> ((ins.how = "eq") # jumps))
    BY <1>1, <2>2 DEF Noting, OffsetBool
  <2>4. Known(b, Tested(Trail, jumps))
    BY <1>3, <1>7, <1>8, <2>3, ConditionSet
  <2>. QED  BY <2>1, <2>4
<1>11. Known(f, Tested(Trail, TRUE))
  <2>1. Noting => (other <=> ((ins.how = "eq") # TRUE))
    BY <1>2 DEF OffsetBool
  <2>. QED  BY <1>3, <1>7, <1>9, <2>1, ConditionSet
<1>12. forks \in Seq(Branch(method)) /\ MaxTargets \in Nat \ {0} /\ already' \subseteq already \cup {me.next}
  BY <1>3, BoundsAssumption DEF TypeInv
<1>13. CASE MayFork
  <2>. DEFINE new == <<f>>
  <2>1. /\ new \in Seq(Branch(method)) /\ Len(new) <= MaxTargets /\ DOMAIN new = {1} /\ new[1] = f
        /\ forks' = forks \o new
    BY <1>5, <1>9, <1>12, <1>13, Forked
  <2>. HIDE DEF new
  <2>2. \A k \in DOMAIN new : Known(new[k], Tested(Trail, TRUE)) /\ new[k].next \in Successors(me.next)
    BY <1>6, <1>9, <1>11, <2>1
  <2>3. \A a \in Successors(me.next) : b.next = a \/ \E k \in DOMAIN new : new[k].next = a
    BY <1>6, <1>8, <1>9, <2>1
  <2>. QED  BY <1>3, <1>4, <1>6, <1>8, <1>10, <1>12, <1>13, <2>1, <2>2, <2>3, ZeroKeeps
<1>14. CASE ~MayFork
  <2>1. /\ <<>> \in Seq(Branch(method)) /\ Len(<<>>) <= MaxTargets /\ ~ (<<>> # <<>>) /\ DOMAIN <<>> = {}
        /\ forks' = forks \o <<>>
    BY <1>5, <1>12, <1>14, Forked
  <2>. QED  BY <1>3, <1>4, <1>6, <1>8, <1>10, <1>12, <1>14, <2>1, ZeroKeeps
<1>. QED  BY <1>13, <1>14

-----------------------------------------------------------------------------
(* The theorems.                                                           *)
LEMMA StartsInv ==
  ASSUME AInit
  PROVE  Inv
<1>. DEFINE m  == method
            r0 == [r \in Regs(m) |-> [Register(r, Data("object", 0)) EXCEPT !.isArg = r >= m.regs - m.ins]]
            b  == [id |-> 1, next |-> 0, call |-> NoCall, condition |-> NoCondition, regs |-> r0]
            p  == NewPath(m)
<1>1. /\ method \in Methods /\ branches = <<b>> /\ total = 1 /\ already = {} /\ at = 1
      /\ finished = {} /\ forks = <<>> /\ changes = <<>>
      /\ paths = [id \in {1} |-> p] /\ forkPaths = <<>> /\ reached = {} /\ pruned = FALSE
  BY DEF AInit, Init
<1>2. m.regs \in Nat /\ m.ins \in 0 .. m.regs /\ 0 \in Address(m)
  BY <1>1, MethodsAssumption
<1>3. ASSUME NEW r \in Regs(m)
      PROVE  r0[r] \in Value(m) /\ r0[r].call = NoCall /\ r0[r].data.kind = "object"
  <2>1. PICK x \in BOOLEAN : x <=> r >= m.regs - m.ins
    OBVIOUS
  <2>2. PICK w : w = Register(r, Data("object", 0))
    OBVIOUS
  <2>3. w \in Value(m) /\ w.call = NoCall /\ w.data.kind = "object"
    <3>1. w \in Value(m)
      BY <2>2, RegisterIs DEF DataKinds
    <3>. QED  BY <2>2, <3>1 DEF Register, Data
  <2>4. r0[r] = [w EXCEPT !.isArg = x]
    <3>1. CASE r >= m.regs - m.ins
      <4>1. r0[r] = [w EXCEPT !.isArg = TRUE]
        BY <2>2, <3>1
      <4>. QED  BY <2>1, <3>1, <4>1
    <3>2. CASE ~ (r >= m.regs - m.ins)
      <4>1. r0[r] = [w EXCEPT !.isArg = FALSE]
        <5>1. (r >= m.regs - m.ins) = FALSE
          BY <3>2
        <5>2. r0[r] = [Register(r, Data("object", 0)) EXCEPT !.isArg = (r >= m.regs - m.ins)]
          OBVIOUS
        <5>. HIDE DEF r0, m
        <5>. QED  BY <2>2, <5>1, <5>2
      <4>. QED  BY <2>1, <3>2, <4>1
    <3>. QED  BY <3>1, <3>2
  <2>. HIDE DEF r0
  <2>. QED  BY <2>3, <2>4 DEF Value
<1>4. r0 \in [Regs(m) -> Value(m)]
  BY <1>3
<1>. HIDE DEF r0
<1>5. NoCall \in Calls /\ NoCondition \in [is : BOOLEAN, set : BOOLEAN, call : Calls]
  BY DEF NoCall, Calls, NoCondition
<1>6. b \in Branch(m) /\ b.id = 1 /\ b.next = 0 /\ b.regs = r0 /\ b.call = NoCall
  BY <1>4, <1>5 DEF Branch
<1>7. /\ p \in Path(m) /\ ~p.tested.noted
  <2>1. Unseen \in Origins /\ \A r \in Regs(m) : From("start", r) \in Origins
    BY <1>2 DEF Unseen, From, Source, Origins, Regs
  <2>. QED  BY <2>1 DEF NewPath, Path
<1>. HIDE DEF b, p
<1>8. Known(b, p)
  BY <1>3, <1>4, <1>6, <1>7 DEF Known, Says
<1>9. /\ branches \in Seq(Branch(m)) /\ Len(branches) = 1 /\ DOMAIN branches = {1} /\ branches[1] = b
      /\ forks \in Seq(Branch(m)) /\ Len(forks) = 0 /\ DOMAIN forks = {}
  BY <1>1, <1>6, Forked
<1>10. IsSequence(changes) /\ Noted(changes) = {}
  BY <1>1, NotedNothing
<1>11. TypeInv
  BY <1>1, <1>9, <1>10 DEF TypeInv
<1>12. IdInv
  BY <1>1, <1>6, <1>9 DEF IdInv
<1>13. BoundInv
  <2>1. BranchLimit \in Nat \ {0, 1} /\ MaxTargets \in Nat \ {0}
    BY BoundsAssumption
  <2>2. BranchesBounded
    <3>1. (BranchLimit - 1) * (1 + MaxTargets) >= 1
      <4>. DEFINE x == BranchLimit - 1
                  y == 1 + MaxTargets
      <4>1. x \in Nat \ {0} /\ y \in Nat \ {0}
        BY <2>1
      <4>. HIDE DEF x, y
      <4>2. x * y >= 1
        BY <4>1
      <4>. QED  BY <4>2 DEF x, y
    <3>. QED  BY <1>1, <3>1 DEF BranchesBounded
  <2>. QED  BY <1>1, <1>9, <2>1, <2>2 DEF BoundInv
<1>14. PathInv
  <2>1. forkPaths \in Seq(Path(m)) /\ Len(forkPaths) = 0
    BY <1>1
  <2>2. 1 \in DOMAIN paths /\ paths[1] = p
    BY <1>1
  <2>. QED  BY <1>6, <1>7, <1>8, <1>9, <2>1, <2>2 DEF PathInv
<1>15. MetInv
  <2>1. PICK D : D = {}
    OBVIOUS
  <2>2. Further = {0} /\ Next1(D) = {} /\ CallsFrom(D) = {} /\ CallsNoted = {}
    BY <1>1, <1>10, <2>1 DEF Further, Next1, CallsFrom, CallsNoted, Noted
  <2>3. Met(D)
    BY <1>1, <1>6, <1>9, <2>1, <2>2 DEF Met
  <2>4. AllMet(D)
    <3>1. 1 \in at .. Len(branches)
      BY <1>1, <1>9
    <3>. QED  BY <1>6, <1>9, <2>1, <2>2, <3>1 DEF AllMet
  <2>. QED  BY <2>1, <2>3, <2>4 DEF MetInv
<1>. QED  BY <1>11, <1>12, <1>13, <1>14, <1>15 DEF Inv

\* What a turn does, at is one further; so its paths are followed.
LEMMA Advances ==
  ASSUME Inv, ANext, NEW b, NEW added, Leaves(b, added)
  PROVE  ObserveTurn
<1>1. at \in Nat /\ at' = at + 1
  BY SeqElim DEF Inv, TypeInv, Leaves
<1>2. at' > at
  BY <1>1
<1>. QED  BY <1>2 DEF ANext

LEMMA MetSame ==
  ASSUME MetInv, UNCHANGED <<method, branches, total, already, at, finished, forks, changes>>,
         UNCHANGED <<reached, pruned>>
  PROVE  MetInv'
<1>1. PICK D \in SUBSET Address(method) :
        Met(D) /\ (~pruned /\ total < BranchLimit => AllMet(D))
  BY DEF MetInv
<1>2. /\ \A a : Successors(a)' = Successors(a)
      /\ \A S : CallsFrom(S)' = CallsFrom(S)
      /\ CallsNoted' = CallsNoted /\ Address(method)' = Address(method)
  BY DEF Successors, CallsFrom, CallsNoted, Address
<1>3. Further' = Further /\ \A S : Next1(S)' = Next1(S)
  BY DEF Further, Next1, Successors, Address
<1>4. Met(D)'
  BY <1>1, <1>2, <1>3 DEF Met
<1>5. AllMet(D) => AllMet(D)'
  BY <1>2, <1>3 DEF AllMet
<1>. QED  BY <1>1, <1>2, <1>4, <1>5 DEF MetInv

LEMMA StepInv ==
  ASSUME Inv, [ANext]_vars
  PROVE  Inv'
<1>1. CASE UNCHANGED vars
  <2>1. TypeInv' /\ IdInv' /\ BoundInv'
    BY <1>1 DEF Inv, TypeInv, IdInv, BoundInv, BranchesBounded, vars, flowVars
  <2>2. PathInv'
    BY <1>1 DEF Inv, PathInv, vars, flowVars
  <2>3. MetInv'
    BY <1>1, MetSame DEF Inv, vars, flowVars
  <2>. QED  BY <2>1, <2>2, <2>3 DEF Inv
<1>2. CASE ANext
  <2>1. CASE Finish
    BY <1>2, <2>1, Advances, FinishKeeps DEF Finish
  <2>2. CASE Goto
    BY <1>2, <2>2, Advances, GotoKeeps DEF Goto
  <2>3. CASE Switch
    BY <1>2, <2>3, Advances, SwitchKeeps DEF Switch
  <2>4. CASE TestAgain
    BY <1>2, <2>4, Advances, TestAgainKeeps, ZeroAgainKeeps DEF TestAgain
  <2>5. CASE Test
    BY <1>2, <2>5, Advances, TestKeeps DEF Test
  <2>6. CASE TestZero
    BY <1>2, <2>6, Advances, TestZeroKeeps DEF TestZero
  <2>7. CASE TestZeroDead
    BY <1>2, <2>7, Advances, TestZeroDeadKeeps DEF TestZeroDead
  <2>8. CASE Invoke
    BY <1>2, <2>8, Advances, CallKeeps, CopyKeeps DEF Invoke
  <2>9. CASE InvokeRange
    BY <1>2, <2>9, Advances, InvokeRangeKeeps DEF InvokeRange
  <2>10. CASE MoveResult
    BY <1>2, <2>10, Advances, MoveResultKeeps DEF MoveResult
  <2>11. CASE Move
    BY <1>2, <2>11, Advances, MoveKeeps DEF Move
  <2>12. CASE Const
    BY <1>2, <2>12, Advances, ConstKeeps DEF Const
  <2>13. CASE New
    BY <1>2, <2>13, Advances, NewKeeps DEF New
  <2>14. CASE String
    BY <1>2, <2>14, Advances, StringKeeps DEF String
  <2>15. CASE NewArray
    BY <1>2, <2>15, Advances, NewArrayKeeps DEF NewArray
  <2>16. CASE ArrayPut
    BY <1>2, <2>16, Advances, ArrayPutKeeps DEF ArrayPut
  <2>17. CASE FillArray
    BY <1>2, <2>17, Advances, FillArrayKeeps DEF FillArray
  <2>18. CASE ArrayData
    BY <1>2, <2>18, Advances, ArrayDataKeeps DEF ArrayData
  <2>19. CASE Ignored
    BY <1>2, <2>19, Advances, IgnoredKeeps DEF Ignored
  <2>20. CASE Get
    BY <1>2, <2>20, Advances, GetKeeps DEF Get
  <2>21. CASE InstancePut
    BY <1>2, <2>21, Advances, InstancePutKeeps DEF InstancePut
  <2>22. CASE StaticPut
    BY <1>2, <2>22, Advances, StaticPutKeeps DEF StaticPut
  <2>23. CASE EndRound
    <3>1. /\ branches \in Seq(Branch(method)) /\ Len(branches) \in Nat /\ Len(branches) # 0
          /\ at \in Nat /\ at > Len(branches) /\ at' = 1
      BY <2>23, SeqElim DEF Inv, TypeInv, EndRound
    <3>2. at' < at /\ ~ (at' > at)
      BY <3>1
    <3>3. ObserveRound
      BY <1>2, <3>2 DEF ANext
    <3>. QED  BY <2>23, <3>3, TypeRound, PathRound, MetRound DEF Inv
  <2>24. CASE NothingLeft
    <3>1. UNCHANGED <<method, branches, total, already, at, finished, forks, rounds, changes>>
      BY <2>24 DEF NothingLeft
    <3>2. at \in Nat
      BY SeqElim DEF Inv, TypeInv
    <3>3. UNCHANGED <<paths, forkPaths, reached, pruned>>
      BY <1>2, <3>1, <3>2 DEF ANext
    <3>4. TypeInv' /\ IdInv' /\ BoundInv'
      BY <3>1 DEF Inv, TypeInv, IdInv, BoundInv, BranchesBounded
    <3>5. PathInv'
      BY <3>1, <3>3 DEF Inv, PathInv
    <3>6. MetInv'
      BY <3>1, <3>3, MetSame DEF Inv
    <3>. QED  BY <3>4, <3>5, <3>6 DEF Inv
  <2>25. Next
    BY <1>2 DEF ANext
  <2>. QED  BY <2>1, <2>2, <2>3, <2>4, <2>5, <2>6, <2>7, <2>8, <2>9, <2>10, <2>11, <2>12, <2>13, <2>14,
               <2>15, <2>16, <2>17, <2>18, <2>19, <2>20, <2>21, <2>22, <2>23, <2>24, <2>25 DEF Next
<1>. QED  BY <1>1, <1>2

\* The invariant that the properties follow from: branches are typed and have numbers of their
\* own, forks are within the limits, what branches know is so on their paths, and the
\* instructions met are those that executions get to.
THEOREM StaticInvariant == ASpec => []Inv
<1>1. AInit => Inv
  BY StartsInv
<1>2. Inv /\ [ANext]_vars => Inv'
  BY StepInv
<1>. QED  BY <1>1, <1>2, PTL DEF ASpec

\* next_instruction drops forks once total_branches is at the limit, but looks before a round's
\* forks count: however many branches fork in a round, this is how far beyond it gets.
THEOREM BranchesCorrect == ASpec => []BranchesBounded
<1>1. Inv => BranchesBounded
  BY DEF Inv, BoundInv
<1>. QED  BY <1>1, StaticInvariant, PTL

\* What a branch says of its registers is so on the branch's path, for every method.
THEOREM KnownCorrect == ASpec => []KnownIsReal
<1>1. Inv => KnownIsReal
  BY DEF Inv, PathInv, Known, KnownIsReal
<1>. QED  BY <1>1, StaticInvariant, PTL

\* The condition that a branch's arguments are noted under is what its last test for zero said.
THEOREM ConditionCorrect == ASpec => []ConditionIsTheLast
<1>1. Inv => ConditionIsTheLast
  BY DEF Inv, PathInv, Known, ConditionIsTheLast
<1>. QED  BY <1>1, StaticInvariant, PTL

\* After every round the calls noted are those that executions make in as many instructions.
THEOREM CallsCorrect == ASpec => []CallsAreExact
<1>1. ASSUME Inv, at = 1
      PROVE  /\ CallsNoted \subseteq CallsFrom(reached)
             /\ ~pruned /\ total < BranchLimit => CallsNoted = CallsFrom(reached)
  <2>1. PICK D \in SUBSET Address(method) :
          Met(D) /\ (~pruned /\ total < BranchLimit => AllMet(D))
    BY <1>1 DEF Inv, MetInv
  <2>2. D = reached \cap Address(method)
    BY <1>1, <2>1 DEF Met
  <2>3. CallsFrom(D) = CallsFrom(reached)
    BY <2>2, CallsOf
  <2>4. CallsNoted \subseteq CallsFrom(D)
    BY <2>1 DEF Met
  <2>5. ~pruned /\ total < BranchLimit => CallsFrom(D) \subseteq CallsNoted
    BY <2>1 DEF AllMet
  <2>. QED  BY <2>3, <2>4, <2>5
<1>2. Inv => CallsAreExact
  BY <1>1 DEF CallsAreExact
<1>. QED  BY <1>2, StaticInvariant, PTL
=============================================================================
