----------------------- MODULE RegisteredClasses_proofs -----------------------
(***************************************************************************)
(* Proofs about RegisteredClasses, for any number of threads, workers and  *)
(* machines: what is held is held by the calls that took it, a poisoned    *)
(* registry comes with a poisoned machine, and a method that is called     *)
(* answers anew.                                                           *)
(***************************************************************************)
EXTENDS RegisteredClasses, SequenceTheorems, TLAPS

-----------------------------------------------------------------------------
(* Calls, and what they hold.                                              *)

Library  == Classes \cup UNION {Range(b) : b \in Bodies}
Ops      == Mutating \cup Readers \cup {"python", "clinit_done"}
FrameSet == [op : Ops, vm : Vms \cup {NoVm}, body : Seq(Library),
             stage : {"lock", "run", "registry", "join", "result", "python", "gil"}]

\* How far a call of a thread, or of a worker, may have come.
OnThread(f) ==
  /\ f.op = "python" <=> f.vm = NoVm
  /\ f.op = "python" <=> f.stage = "python"
  /\ f.stage # "gil"
  /\ f.op \in Runners => f.stage \in {"lock", "run", "registry"}
  /\ f.op \in Readers => f.stage = "lock"
  /\ f.op = "array" => f.stage \in {"lock", "join"}
  /\ f.op = "register" => f.stage = "registry"
  /\ f.op = "clinit_done" => f.stage = "result"
  /\ f.stage = "registry" => f.body # <<>>
OnWorker(f) ==
  /\ f.op = "decisions" /\ f.vm = NoVm /\ f.stage \in {"run", "registry", "gil"}
  /\ f.stage = "registry" => f.body # <<>>

Mutex(v)  == <<"mutex", v>>
Fresh(v)  == <<"fresh", v>>
Borrow(v) == <<"borrow", v>>
Registry  == <<"registry", NoVm>>
\* What a call holds; of its return register, that no earlier call wrote it.
Held(f) ==
  (IF Holding(f, f.vm) THEN {Mutex(f.vm)} ELSE {})
  \cup (IF Holding(f, f.vm) /\ f.op \in {"call", "clinit"} THEN {Fresh(f.vm)} ELSE {})
  \cup (IF f.op \in Mutating \cup {"clinit_done"} THEN {Borrow(f.vm)} ELSE {})
  \cup (IF f.op = "python" \/ f.stage = "gil" THEN {Registry} ELSE {})
HeldIn(s) == UNION {Held(s[i]) : i \in DOMAIN s}

\* Python code is called by an invoke, only Python code is called by a call that runs code,
\* and nothing is held twice.
Stacked(s) ==
  /\ s \in Seq(FrameSet)
  /\ \A i \in DOMAIN s :
       s[i].op = "python" => i > 1 /\ s[i - 1].op \in Runners /\ s[i - 1].stage = "registry"
  /\ \A i, j \in DOMAIN s : j = i + 1 /\ s[i].op \in Runners => s[j].op = "python"
  /\ \A i, j \in DOMAIN s : i # j => Held(s[i]) \cap Held(s[j]) = {}
ThreadStack(s) == Stacked(s) /\ \A i \in DOMAIN s : OnThread(s[i])
WorkerStack(s) == Stacked(s) /\ Len(s) <= 1 /\ \A i \in DOMAIN s : OnWorker(s[i])

StackInv ==
  /\ stack \in [Agents -> Seq(FrameSet)]
  /\ \A t \in Threads : ThreadStack(stack[t])
  /\ \A w \in Workers : WorkerStack(stack[w])

\* Rust code of a thread has the GIL, and workers run while it waits for them.
GilInv ==
  /\ gil \in Threads
  /\ \A t \in Threads : ~Python(t) => t = gil
  /\ \A w \in Workers : stack[w] # <<>> => At(gil, "join")

HeldInv ==
  /\ owner \in [Vms -> Agents \cup {Free}] /\ borrowed \in [Vms -> BOOLEAN]
  /\ registry \in Agents \cup {Free}
  /\ \A a \in Agents, v \in Vms : owner[v] = a <=> Mutex(v) \in HeldIn(stack[a])
  /\ \A a \in Agents : registry = a <=> Registry \in HeldIn(stack[a])
  /\ \A v \in Vms : borrowed[v] <=> \E a \in Agents : Borrow(v) \in HeldIn(stack[a])
  /\ \A a, b \in Agents, v \in Vms :
       Borrow(v) \in HeldIn(stack[a]) /\ Borrow(v) \in HeldIn(stack[b]) => a = b

FreshInv ==
  /\ written \in [Vms -> {"nobody", "this call", "an earlier call"}]
  /\ \A a \in Agents, v \in Vms : Fresh(v) \in HeldIn(stack[a]) => written[v] # "an earlier call"

PoisonInv == poisoned \in [Vms -> BOOLEAN] /\ PoisonedTogether

CallInv == StackInv /\ GilInv /\ HeldInv
Inv     == CallInv /\ FreshInv /\ PoisonInv /\ CallsAnswerAnew

-----------------------------------------------------------------------------
(* Lemmas about stacks.                                                    *)

LEMMA HeldMeans ==
  ASSUME NEW f, NEW v
  PROVE  /\ Mutex(v) \in Held(f) <=> Holding(f, v)
         /\ Fresh(v) \in Held(f) <=> Holding(f, v) /\ f.op \in {"call", "clinit"}
         /\ Borrow(v) \in Held(f) <=> f.vm = v /\ f.op \in Mutating \cup {"clinit_done"}
         /\ Registry \in Held(f) <=> f.op = "python" \/ f.stage = "gil"
  BY DEF Held, Holding, Mutex, Fresh, Borrow, Registry

\* A call is put on top.
LEMMA PushHolds ==
  ASSUME NEW s, Stacked(s), NEW f \in FrameSet, Held(f) \cap HeldIn(s) = {},
         f.op = "python" => s # <<>> /\ Last(s).op \in Runners /\ Last(s).stage = "registry",
         s # <<>> /\ Last(s).op \in Runners => f.op = "python"
  PROVE  /\ Stacked(Append(s, f))
         /\ HeldIn(Append(s, f)) = HeldIn(s) \cup Held(f)
         /\ Append(s, f) # <<>> /\ Last(Append(s, f)) = f /\ Front(Append(s, f)) = s
<1>. DEFINE r == Append(s, f)
<1>1. /\ s \in Seq(FrameSet) /\ r \in Seq(FrameSet) /\ Len(r) = Len(s) + 1 /\ Len(s) \in Nat
      /\ DOMAIN s = 1 .. Len(s) /\ DOMAIN r = 1 .. Len(s) + 1
      /\ r[Len(s) + 1] = f /\ \A i \in 1 .. Len(s) : r[i] = s[i]
  BY DEF Stacked
<1>. HIDE DEF r
<1>0. \A i \in DOMAIN r : i \in DOMAIN s \/ i = Len(s) + 1
  BY <1>1
<1>2. HeldIn(r) = HeldIn(s) \cup Held(f)
  <2>1. \A x \in HeldIn(r) : x \in HeldIn(s) \cup Held(f)
    BY <1>1 DEF HeldIn
  <2>2. \A x \in HeldIn(s) : x \in HeldIn(r)
    <3>. TAKE x \in HeldIn(s)
    <3>1. PICK i \in DOMAIN s : x \in Held(s[i])
      BY DEF HeldIn
    <3>. QED  BY <1>1, <3>1 DEF HeldIn
  <2>3. Held(f) \subseteq HeldIn(r)
    <3>1. Len(s) + 1 \in DOMAIN r
      BY <1>1
    <3>. QED  BY <1>1, <3>1 DEF HeldIn
  <2>. QED  BY <2>1, <2>2, <2>3
<1>3. \A i \in DOMAIN s : Held(s[i]) \cap Held(f) = {}
  BY DEF HeldIn
<1>4. ASSUME NEW i \in DOMAIN r, NEW j \in DOMAIN r, i # j
      PROVE  Held(r[i]) \cap Held(r[j]) = {}
  <2>1. CASE i \in DOMAIN s /\ j \in DOMAIN s
    BY <1>1, <1>4, <2>1 DEF Stacked
  <2>2. CASE i = Len(s) + 1
    <3>1. j \in DOMAIN s
      BY <1>1, <1>4, <2>2
    <3>. QED  BY <1>1, <1>3, <2>2, <3>1
  <2>3. CASE j = Len(s) + 1
    <3>1. i \in DOMAIN s
      BY <1>1, <1>4, <2>3
    <3>. QED  BY <1>1, <1>3, <2>3, <3>1
  <2>. QED  BY <1>0, <2>1, <2>2, <2>3
<1>5. ASSUME NEW i \in DOMAIN r, r[i].op = "python"
      PROVE  i > 1 /\ r[i - 1].op \in Runners /\ r[i - 1].stage = "registry"
  <2>1. CASE i \in DOMAIN s
    <3>1. i > 1 /\ s[i - 1].op \in Runners /\ s[i - 1].stage = "registry"
      BY <1>1, <1>5, <2>1 DEF Stacked
    <3>2. i - 1 \in 1 .. Len(s)
      BY <1>1, <2>1, <3>1
    <3>. QED  BY <1>1, <3>1, <3>2
  <2>2. CASE i = Len(s) + 1
    <3>1. s # <<>> /\ Last(s).op \in Runners /\ Last(s).stage = "registry" /\ Len(s) > 0
      BY <1>1, <1>5, <2>2
    <3>2. Len(s) > 0 /\ Len(s) \in 1 .. Len(s) /\ i - 1 = Len(s) /\ i > 1
      BY <1>1, <2>2, <3>1
    <3>3. r[i - 1] = s[Len(s)]
      BY <1>1, <3>2
    <3>. QED  BY <3>1, <3>2, <3>3 DEF Last
  <2>. QED  BY <1>0, <2>1, <2>2
<1>6. Stacked(r)
  <2>1. ASSUME NEW i \in DOMAIN r, NEW j \in DOMAIN r, j = i + 1, r[i].op \in Runners
        PROVE  r[j].op = "python"
    <3>1. i \in DOMAIN s /\ r[i] = s[i]
      BY <1>1, <2>1
    <3>2. CASE j \in DOMAIN s
      BY <1>1, <2>1, <3>1, <3>2 DEF Stacked
    <3>3. CASE j = Len(s) + 1
      <4>1. i = Len(s) /\ s # <<>> /\ Last(s) = s[i]
        BY <1>1, <2>1, <3>1, <3>3 DEF Last
      <4>. QED  BY <1>1, <2>1, <3>1, <3>3, <4>1
    <3>. QED  BY <1>0, <3>2, <3>3
  <2>. QED  BY <1>1, <1>4, <1>5, <2>1 DEF Stacked
<1>7. r # <<>> /\ Last(r) = f
  BY <1>1 DEF Last
<1>8. Front(r) = s
  BY <1>1 DEF Front, r
<1>. QED  BY <1>2, <1>6, <1>7, <1>8 DEF r

\* The call on top is taken off.
LEMMA PopHolds ==
  ASSUME NEW s, Stacked(s), s # <<>>
  PROVE  /\ Stacked(Front(s)) /\ Last(s) \in FrameSet
         /\ HeldIn(Front(s)) = HeldIn(s) \ Held(Last(s)) /\ Held(Last(s)) \subseteq HeldIn(s)
         /\ Last(s) = s[Len(s)] /\ Len(s) \in DOMAIN s
         /\ Len(Front(s)) = Len(s) - 1 /\ DOMAIN Front(s) = 1 .. Len(s) - 1
         /\ \A i \in DOMAIN Front(s) : i \in DOMAIN s /\ Front(s)[i] = s[i]
         /\ Last(s).op = "python" =>
              /\ Front(s) # <<>> /\ Last(Front(s)) = s[Len(s) - 1]
              /\ s[Len(s) - 1].op \in Runners /\ s[Len(s) - 1].stage = "registry"
         /\ Front(s) # <<>> /\ Last(Front(s)).op \in Runners => Last(s).op = "python"
<1>. DEFINE n == Len(s)
            r == Front(s)
<1>1. s \in Seq(FrameSet) /\ n \in Nat /\ n > 0 /\ DOMAIN s = 1 .. n
  BY DEF Stacked
<1>2. /\ r \in Seq(FrameSet) /\ Len(r) = n - 1 /\ DOMAIN r = 1 .. n - 1
      /\ \A i \in 1 .. n - 1 : r[i] = s[i]
  BY <1>1 DEF Front
<1>3. Last(s) = s[n] /\ n \in DOMAIN s /\ Last(s) \in FrameSet
  BY <1>1 DEF Last
<1>4. \A i \in DOMAIN r : i \in DOMAIN s /\ r[i] = s[i] /\ i # n
  BY <1>1, <1>2
<1>5. Stacked(r)
  <2>1. ASSUME NEW i \in DOMAIN r, r[i].op = "python"
        PROVE  i > 1 /\ r[i - 1].op \in Runners /\ r[i - 1].stage = "registry"
    <3>1. i > 1 /\ s[i - 1].op \in Runners /\ s[i - 1].stage = "registry"
      BY <1>4, <2>1 DEF Stacked
    <3>2. i - 1 \in 1 .. n - 1
      BY <1>1, <1>2, <3>1
    <3>. QED  BY <1>2, <3>1, <3>2
  <2>2. \A i, j \in DOMAIN r : i # j => Held(r[i]) \cap Held(r[j]) = {}
    BY <1>4 DEF Stacked
  <2>3. \A i, j \in DOMAIN r : j = i + 1 /\ r[i].op \in Runners => r[j].op = "python"
    BY <1>4 DEF Stacked
  <2>. QED  BY <1>2, <2>1, <2>2, <2>3 DEF Stacked
<1>6. Held(Last(s)) \subseteq HeldIn(s)
  BY <1>3 DEF HeldIn
<1>7. HeldIn(r) = HeldIn(s) \ Held(Last(s))
  <2>1. ASSUME NEW x \in HeldIn(r)  PROVE x \in HeldIn(s) \ Held(Last(s))
    <3>1. PICK i \in DOMAIN r : x \in Held(r[i])
      BY DEF HeldIn
    <3>2. x \in Held(s[i]) /\ Held(s[i]) \cap Held(s[n]) = {}
      BY <1>3, <1>4, <3>1 DEF Stacked
    <3>. QED  BY <1>3, <1>4, <3>2 DEF HeldIn
  <2>2. ASSUME NEW x \in HeldIn(s), x \notin Held(Last(s))  PROVE x \in HeldIn(r)
    <3>1. PICK i \in DOMAIN s : x \in Held(s[i])
      BY DEF HeldIn
    <3>2. i \in 1 .. n - 1
      BY <1>1, <1>3, <2>2, <3>1
    <3>. QED  BY <1>2, <3>1, <3>2 DEF HeldIn
  <2>. QED  BY <2>1, <2>2
<1>8. ASSUME Last(s).op = "python"
      PROVE  /\ r # <<>> /\ Last(r) = s[n - 1]
             /\ s[n - 1].op \in Runners /\ s[n - 1].stage = "registry"
  <2>1. n > 1 /\ s[n - 1].op \in Runners /\ s[n - 1].stage = "registry"
    BY <1>3, <1>8 DEF Stacked
  <2>2. n - 1 \in 1 .. n - 1 /\ Len(r) = n - 1
    BY <1>1, <1>2, <2>1
  <2>3. r # <<>> /\ Last(r) = s[n - 1]
    BY <1>2, <2>1, <2>2 DEF Last
  <2>. QED  BY <2>1, <2>3
<1>9. ASSUME r # <<>>, Last(r).op \in Runners
      PROVE  Last(s).op = "python"
  <2>1. n - 1 \in DOMAIN s /\ Last(r) = s[n - 1]
    BY <1>1, <1>2, <1>9 DEF Last
  <2>2. n = (n - 1) + 1
    BY <1>1
  <2>. QED  BY <1>3, <1>9, <2>1, <2>2 DEF Stacked
<1>. QED  BY <1>2, <1>3, <1>4, <1>5, <1>6, <1>7, <1>8, <1>9

LEMMA ThreadPush ==
  ASSUME NEW s, ThreadStack(s), NEW f \in FrameSet, OnThread(f), Held(f) \cap HeldIn(s) = {},
         f.op = "python" => s # <<>> /\ Last(s).op \in Runners /\ Last(s).stage = "registry",
         s # <<>> /\ Last(s).op \in Runners => f.op = "python"
  PROVE  /\ ThreadStack(Append(s, f))
         /\ HeldIn(Append(s, f)) = HeldIn(s) \cup Held(f)
         /\ Append(s, f) # <<>> /\ Last(Append(s, f)) = f /\ Front(Append(s, f)) = s
<1>1. Stacked(s)
  BY DEF ThreadStack
<1>2. \A i \in DOMAIN Append(s, f) : Append(s, f)[i] = f \/ (i \in DOMAIN s /\ Append(s, f)[i] = s[i])
  BY <1>1 DEF Stacked
<1>3. \A i \in DOMAIN Append(s, f) : OnThread(Append(s, f)[i])
  BY <1>2, Zenon DEF ThreadStack
<1>. QED  BY <1>1, <1>3, PushHolds DEF ThreadStack

LEMMA ThreadPop ==
  ASSUME NEW s, ThreadStack(s), s # <<>>
  PROVE  /\ ThreadStack(Front(s)) /\ Last(s) \in FrameSet /\ OnThread(Last(s))
         /\ HeldIn(Front(s)) = HeldIn(s) \ Held(Last(s)) /\ Held(Last(s)) \subseteq HeldIn(s)
         /\ Front(s) # <<>> /\ Last(Front(s)).op \in Runners => Last(s).op = "python"
<1>1. Stacked(s)
  BY DEF ThreadStack
<1>2. Stacked(Front(s)) /\ Last(s) = s[Len(s)] /\ Len(s) \in DOMAIN s
  BY <1>1, PopHolds
<1>3. \A i \in DOMAIN Front(s) : i \in DOMAIN s /\ Front(s)[i] = s[i]
  BY <1>1, PopHolds
<1>4. OnThread(Last(s)) /\ \A i \in DOMAIN Front(s) : OnThread(Front(s)[i])
  BY <1>2, <1>3, Zenon DEF ThreadStack
<1>. QED  BY <1>1, <1>2, <1>4, PopHolds DEF ThreadStack

\* The call on top goes on to another stage.
LEMMA ThreadTurn ==
  ASSUME NEW s, ThreadStack(s), s # <<>>, Last(s).op # "python",
         NEW f \in FrameSet, OnThread(f), f.op # "python",
         Held(f) \cap HeldIn(s) \subseteq Held(Last(s))
  PROVE  /\ ThreadStack(Append(Front(s), f))
         /\ HeldIn(Append(Front(s), f)) = (HeldIn(s) \ Held(Last(s))) \cup Held(f)
         /\ Append(Front(s), f) # <<>> /\ Last(Append(Front(s), f)) = f
<1>1. /\ ThreadStack(Front(s)) /\ HeldIn(Front(s)) = HeldIn(s) \ Held(Last(s))
      /\ Front(s) # <<>> => Last(Front(s)).op \notin Runners
  BY ThreadPop
<1>2. Held(f) \cap HeldIn(Front(s)) = {}
  BY <1>1
<1>. QED  BY <1>1, <1>2, ThreadPush

LEMMA WorkerTop ==
  ASSUME NEW s, WorkerStack(s), s # <<>>
  PROVE  /\ Last(s) \in FrameSet /\ OnWorker(Last(s)) /\ s = <<Last(s)>> /\ Front(s) = <<>>
         /\ HeldIn(s) = Held(Last(s)) /\ HeldIn(<<>>) = {} /\ WorkerStack(<<>>)
<1>1. s \in Seq(FrameSet) /\ Len(s) = 1
  <2>1. s \in Seq(FrameSet) /\ Len(s) <= 1
    BY DEF WorkerStack, Stacked
  <2>2. s # <<>> /\ Len(s) \in Nat
    BY <2>1
  <2>3. Len(s) # 0
    BY <2>1, <2>2
  <2>4. \A n \in Nat : n <= 1 /\ n # 0 => n = 1
    OBVIOUS
  <2>. QED  BY <2>1, <2>2, <2>3, <2>4
<1>2. s = <<s[1]>> /\ Last(s) = s[1] /\ Front(s) = <<>> /\ DOMAIN s = {1} /\ s[1] \in FrameSet
  BY <1>1 DEF Last, Front
<1>3. OnWorker(s[1])
  BY <1>2 DEF WorkerStack
<1>4. HeldIn(s) = Held(s[1])
  BY <1>2 DEF HeldIn
<1>5. HeldIn(<<>>) = {} /\ WorkerStack(<<>>)
  BY DEF HeldIn, WorkerStack, Stacked
<1>. QED  BY <1>2, <1>3, <1>4, <1>5

LEMMA WorkerOf ==
  ASSUME NEW f \in FrameSet, OnWorker(f)
  PROVE  WorkerStack(<<f>>) /\ HeldIn(<<f>>) = Held(f) /\ <<f>> # <<>>
<1>1. <<f>> \in Seq(FrameSet) /\ Len(<<f>>) = 1 /\ DOMAIN <<f>> = {1} /\ <<f>>[1] = f
  OBVIOUS
<1>2. f.op # "python"
  BY DEF OnWorker
<1>3. HeldIn(<<f>>) = Held(f)
  BY <1>1 DEF HeldIn
<1>. QED  BY <1>1, <1>2, <1>3 DEF WorkerStack, Stacked

-----------------------------------------------------------------------------
(* Steps of one agent.                                                     *)

\* The agent's calls become s, and mutexes and borrows follow.
Moved(a, s) ==
  /\ stack' = [stack EXCEPT ![a] = s]
  /\ owner' \in [Vms -> Agents \cup {Free}]
  /\ \A v \in Vms :
       /\ Mutex(v) \in HeldIn(s) => owner'[v] = a /\ owner[v] \in {a, Free}
       /\ Mutex(v) \notin HeldIn(s) => owner'[v] = IF owner[v] = a THEN Free ELSE owner[v]
  /\ Registry \in HeldIn(s) => registry' = a /\ registry \in {a, Free}
  /\ Registry \notin HeldIn(s) => registry' = IF registry = a THEN Free ELSE registry
  /\ borrowed' \in [Vms -> BOOLEAN]
  /\ \A v \in Vms :
       /\ Borrow(v) \in HeldIn(s) => borrowed'[v] /\ (Borrow(v) \in HeldIn(stack[a]) \/ ~borrowed[v])
       /\ Borrow(v) \notin HeldIn(s) => (borrowed'[v] <=> borrowed[v] /\ Borrow(v) \notin HeldIn(stack[a]))

LEMMA HeldMoved ==
  ASSUME StackInv, HeldInv, NEW a \in Agents, NEW s, Moved(a, s)
  PROVE  HeldInv'
<1>1. /\ stack'[a] = s /\ \A b \in Agents : b # a => stack'[b] = stack[b]
  BY DEF Moved, StackInv
<1>2. owner' \in [Vms -> Agents \cup {Free}] /\ borrowed' \in [Vms -> BOOLEAN]
  BY DEF Moved
<1>3. registry' \in Agents \cup {Free}
  BY DEF Moved, HeldInv
<1>4. \A b \in Agents, v \in Vms : owner'[v] = b <=> Mutex(v) \in HeldIn(stack'[b])
  <2>. SUFFICES ASSUME NEW b \in Agents, NEW v \in Vms
                PROVE  owner'[v] = b <=> Mutex(v) \in HeldIn(stack'[b])
    OBVIOUS
  <2>1. /\ Mutex(v) \in HeldIn(s) => owner'[v] = a /\ owner[v] \in {a, Free}
        /\ Mutex(v) \notin HeldIn(s) => owner'[v] = IF owner[v] = a THEN Free ELSE owner[v]
    BY DEF Moved
  <2>2. owner[v] = b <=> Mutex(v) \in HeldIn(stack[b])
    BY DEF HeldInv
  <2>3. b # Free /\ a # Free
    BY Distinct
  <2>. QED  BY <1>1, <2>1, <2>2, <2>3
<1>5. \A b \in Agents : registry' = b <=> Registry \in HeldIn(stack'[b])
  <2>. SUFFICES ASSUME NEW b \in Agents PROVE registry' = b <=> Registry \in HeldIn(stack'[b])
    OBVIOUS
  <2>1. /\ Registry \in HeldIn(s) => registry' = a /\ registry \in {a, Free}
        /\ Registry \notin HeldIn(s) => registry' = IF registry = a THEN Free ELSE registry
    BY DEF Moved
  <2>2. registry = b <=> Registry \in HeldIn(stack[b])
    BY DEF HeldInv
  <2>3. b # Free /\ a # Free
    BY Distinct
  <2>. QED  BY <1>1, <2>1, <2>2, <2>3
<1>6. ASSUME NEW v \in Vms
      PROVE  /\ borrowed'[v] <=> \E b \in Agents : Borrow(v) \in HeldIn(stack'[b])
             /\ \A b, c \in Agents :
                  Borrow(v) \in HeldIn(stack'[b]) /\ Borrow(v) \in HeldIn(stack'[c]) => b = c
  <2>1. /\ Borrow(v) \in HeldIn(s) => borrowed'[v] /\ (Borrow(v) \in HeldIn(stack[a]) \/ ~borrowed[v])
        /\ Borrow(v) \notin HeldIn(s) => (borrowed'[v] <=> borrowed[v] /\ Borrow(v) \notin HeldIn(stack[a]))
    BY DEF Moved
  <2>2. /\ borrowed[v] <=> \E b \in Agents : Borrow(v) \in HeldIn(stack[b])
        /\ \A b, c \in Agents : Borrow(v) \in HeldIn(stack[b]) /\ Borrow(v) \in HeldIn(stack[c]) => b = c
    BY DEF HeldInv
  <2>3. CASE Borrow(v) \in HeldIn(s)
    <3>1. \A b \in Agents : b # a => Borrow(v) \notin HeldIn(stack[b])
      BY <2>1, <2>2, <2>3
    <3>. QED  BY <1>1, <2>1, <2>3, <3>1
  <2>4. CASE Borrow(v) \notin HeldIn(s)
    <3>1. borrowed'[v] <=> \E b \in Agents : b # a /\ Borrow(v) \in HeldIn(stack[b])
      BY <2>1, <2>2, <2>4
    <3>. QED  BY <1>1, <2>2, <2>4, <3>1
  <2>. QED  BY <2>3, <2>4
<1>. QED  BY <1>2, <1>3, <1>4, <1>5, <1>6 DEF HeldInv

Idle == \A w \in Workers : stack[w] = <<>>

LEMMA ThreadMoved ==
  ASSUME CallInv, Idle, NEW t \in Threads, t = gil, gil' = gil,
         NEW s, ThreadStack(s), Moved(t, s)
  PROVE  CallInv'
<1>1. t \in Agents /\ stack' = [stack EXCEPT ![t] = s] /\ stack \in [Agents -> Seq(FrameSet)]
  BY DEF Agents, Moved, CallInv, StackInv
<1>2. stack'[t] = s /\ \A b \in Agents : b # t => stack'[b] = stack[b]
  BY <1>1
<1>3. s \in Seq(FrameSet) /\ \A w \in Workers : w \in Agents /\ w # t
  BY Distinct DEF ThreadStack, Stacked, Agents
<1>4. StackInv'
  <2>1. stack' \in [Agents -> Seq(FrameSet)]
    BY <1>1, <1>3
  <2>2. \A u \in Threads : ThreadStack(stack'[u])
    BY <1>2 DEF CallInv, StackInv, Agents
  <2>3. \A w \in Workers : WorkerStack(stack'[w])
    BY <1>2, <1>3 DEF CallInv, StackInv
  <2>. QED  BY <2>1, <2>2, <2>3 DEF StackInv
<1>5. GilInv'
  <2>1. \A u \in Threads : u # t => Python(u)
    BY DEF CallInv, GilInv
  <2>2. \A u \in Threads : u # t => stack'[u] = stack[u]
    BY <1>2 DEF Agents
  <2>3. \A u \in Threads : u # t => Python(u)'
    BY <2>1, <2>2 DEF Python
  <2>4. \A w \in Workers : stack'[w] = <<>>
    BY <1>2, <1>3 DEF Idle
  <2>. QED  BY <2>3, <2>4 DEF CallInv, GilInv
<1>6. HeldInv'
  BY <1>1, HeldMoved DEF CallInv
<1>. QED  BY <1>4, <1>5, <1>6 DEF CallInv

LEMMA WorkerMoved ==
  ASSUME CallInv, NEW w \in Workers, stack[w] # <<>>, gil' = gil,
         NEW s, WorkerStack(s), Moved(w, s)
  PROVE  CallInv'
<1>1. w \in Agents /\ stack' = [stack EXCEPT ![w] = s] /\ stack \in [Agents -> Seq(FrameSet)]
  BY DEF Agents, Moved, CallInv, StackInv
<1>2. stack'[w] = s /\ \A b \in Agents : b # w => stack'[b] = stack[b]
  BY <1>1
<1>3. s \in Seq(FrameSet) /\ \A t \in Threads : t \in Agents /\ t # w /\ stack'[t] = stack[t]
  BY <1>2, Distinct DEF WorkerStack, Stacked, Agents
<1>4. StackInv'
  <2>1. stack' \in [Agents -> Seq(FrameSet)]
    BY <1>1, <1>3
  <2>2. \A u \in Workers : WorkerStack(stack'[u])
    BY <1>2 DEF CallInv, StackInv, Agents
  <2>3. \A t \in Threads : ThreadStack(stack'[t])
    BY <1>3 DEF CallInv, StackInv
  <2>. QED  BY <2>1, <2>2, <2>3 DEF StackInv
<1>5. GilInv'
  <2>1. gil \in Threads /\ At(gil, "join") /\ \A t \in Threads : ~Python(t) => t = gil
    BY DEF CallInv, GilInv
  <2>2. At(gil, "join")' /\ \A t \in Threads : ~Python(t)' => t = gil
    BY <1>3, <2>1 DEF At, Python, top
  <2>. QED  BY <2>1, <2>2 DEF GilInv
<1>6. HeldInv'
  BY <1>1, HeldMoved DEF CallInv
<1>. QED  BY <1>4, <1>5, <1>6 DEF CallInv

-----------------------------------------------------------------------------
(* The agent whose turn it is.                                             *)

\* Python code that runs: no worker has anything to do.
LEMMA Running ==
  ASSUME CallInv, NEW t \in Threads, Runs(t)
  PROVE  /\ t = gil /\ Idle /\ t \in Agents /\ ThreadStack(stack[t])
         /\ stack \in [Agents -> Seq(FrameSet)]
         /\ stack[t] # <<>> => Last(stack[t]).op \notin Runners
<1>1. t = gil /\ Python(t)
  BY DEF Runs
<1>2. Idle
  BY <1>1 DEF CallInv, GilInv, At, Idle
<1>3. stack[t] # <<>> => Last(stack[t]).op \notin Runners
  BY <1>1 DEF Python, Runners
<1>. QED  BY <1>1, <1>2, <1>3 DEF CallInv, StackInv, Agents

\* Rust code of a thread.
LEMMA InRust ==
  ASSUME CallInv, NEW t \in Threads, NEW stage, At(t, stage)
  PROVE  /\ t = gil /\ t \in Agents /\ ThreadStack(stack[t]) /\ stack[t] # <<>>
         /\ stack \in [Agents -> Seq(FrameSet)]
         /\ top(t) = Last(stack[t]) /\ top(t) \in FrameSet /\ OnThread(top(t))
         /\ top(t).op # "python" /\ top(t).vm \in Vms /\ top(t).stage = stage
         /\ stage # "join" => Idle
<1>1. ~Python(t) /\ Last(stack[t]).stage = stage
  BY DEF At
<1>2. t = gil /\ t \in Agents /\ ThreadStack(stack[t]) /\ stack \in [Agents -> Seq(FrameSet)]
  BY <1>1 DEF CallInv, GilInv, StackInv, Agents
<1>3. stack[t] # <<>> /\ top(t).op # "python"
  BY <1>1 DEF Python, top
<1>4. top(t) = Last(stack[t]) /\ top(t) \in FrameSet /\ OnThread(top(t))
  BY <1>2, <1>3, ThreadPop DEF top
<1>5. top(t).vm \in Vms
  BY <1>3, <1>4 DEF FrameSet, OnThread
<1>6. stage # "join" => Idle
  BY <1>1, <1>2 DEF CallInv, GilInv, At, Idle
<1>. QED  BY <1>1, <1>2, <1>3, <1>4, <1>5, <1>6 DEF top

LEMMA InWorker ==
  ASSUME CallInv, NEW w \in Workers, NEW stage, At(w, stage)
  PROVE  /\ w \in Agents /\ WorkerStack(stack[w]) /\ stack[w] # <<>>
         /\ stack \in [Agents -> Seq(FrameSet)]
         /\ top(w) = Last(stack[w]) /\ top(w) \in FrameSet /\ OnWorker(top(w)) /\ top(w).stage = stage
<1>1. w \in Agents /\ WorkerStack(stack[w]) /\ stack \in [Agents -> Seq(FrameSet)]
  BY DEF CallInv, StackInv, Agents
<1>2. stack[w] # <<>> /\ top(w) = Last(stack[w]) /\ top(w).stage = stage
  BY DEF At, Python, top
<1>. QED  BY <1>1, <1>2, WorkerTop

\* A call goes on: it stays in its method, and the machine is kept.
LEMMA FrameChanges ==
  ASSUME NEW f \in FrameSet
  PROVE  /\ \A stage \in {"lock", "run", "registry", "join", "result", "python", "gil"} :
              LET g == [f EXCEPT !.stage = stage] IN
                /\ g \in FrameSet /\ g.op = f.op /\ g.vm = f.vm /\ g.body = f.body /\ g.stage = stage
         /\ f.body # <<>> =>
              LET g == [f EXCEPT !.stage = "run", !.body = Tail(@)] IN
                /\ g \in FrameSet /\ g.op = f.op /\ g.vm = f.vm /\ g.stage = "run"
<1>1. f.body # <<>> => Tail(f.body) \in Seq(Library)
  BY DEF FrameSet
<1>. QED  BY <1>1 DEF FrameSet

LEMMA NewFrame ==
  ASSUME NEW op \in Ops, NEW v \in Vms \cup {NoVm}, NEW body \in Seq(Library),
         NEW stage \in {"lock", "run", "registry", "join", "result", "python", "gil"}
  PROVE  /\ Frame(op, v, body, stage) \in FrameSet
         /\ Frame(op, v, body, stage).op = op /\ Frame(op, v, body, stage).vm = v
         /\ Frame(op, v, body, stage).body = body /\ Frame(op, v, body, stage).stage = stage
  BY DEF Frame, FrameSet

\* A call of a thread ends and gives back what it held.
LEMMA Popped ==
  ASSUME CallInv, Idle, NEW t \in Threads, t = gil, gil' = gil, stack[t] # <<>>,
         top(t).op # "python", Pop(t), registry' = registry,
         owner' = IF Holding(top(t), top(t).vm) THEN [owner EXCEPT ![top(t).vm] = Free] ELSE owner,
         borrowed' = IF top(t).op \in Mutating \cup {"clinit_done"}
                     THEN [borrowed EXCEPT ![top(t).vm] = FALSE] ELSE borrowed
  PROVE  CallInv' /\ stack'[t] = Front(stack[t]) /\ HeldIn(stack'[t]) \subseteq HeldIn(stack[t])
<1>. DEFINE f == top(t)
            s == Front(stack[t])
<1>1. t \in Agents /\ ThreadStack(stack[t]) /\ stack \in [Agents -> Seq(FrameSet)]
  BY DEF CallInv, StackInv, Agents
<1>2. /\ ThreadStack(s) /\ f \in FrameSet /\ OnThread(f)
      /\ HeldIn(s) = HeldIn(stack[t]) \ Held(f) /\ Held(f) \subseteq HeldIn(stack[t])
  BY <1>1, ThreadPop DEF top
<1>3. stack' = [stack EXCEPT ![t] = s]
  BY DEF Pop
<1>4. f.vm \in Vms /\ Registry \notin Held(f)
  BY <1>2, HeldMeans DEF OnThread, FrameSet
<1>5. /\ owner \in [Vms -> Agents \cup {Free}] /\ borrowed \in [Vms -> BOOLEAN]
      /\ registry = t <=> Registry \in HeldIn(stack[t])
      /\ \A v \in Vms : owner[v] = t <=> Mutex(v) \in HeldIn(stack[t])
      /\ \A v \in Vms : Borrow(v) \in HeldIn(stack[t]) => borrowed[v]
  BY <1>1 DEF CallInv, HeldInv
<1>6. \A v \in Vms :
        /\ Mutex(v) \in Held(f) <=> Holding(f, v)
        /\ Borrow(v) \in Held(f) <=> f.vm = v /\ f.op \in Mutating \cup {"clinit_done"}
  BY HeldMeans
<1>7. owner' \in [Vms -> Agents \cup {Free}] /\ borrowed' \in [Vms -> BOOLEAN]
  BY <1>4, <1>5
<1>8. ASSUME NEW v \in Vms
      PROVE  /\ Mutex(v) \in HeldIn(s) => owner'[v] = t /\ owner[v] \in {t, Free}
             /\ Mutex(v) \notin HeldIn(s) => owner'[v] = IF owner[v] = t THEN Free ELSE owner[v]
  <2>1. CASE Holding(f, v)
    <3>1. f.vm = v /\ owner' = [owner EXCEPT ![v] = Free]
      BY <2>1 DEF Holding
    <3>. QED  BY <1>2, <1>5, <1>6, <2>1, <3>1
  <2>2. CASE ~Holding(f, v)
    <3>1. owner'[v] = owner[v]
      BY <1>4, <1>5, <2>2
    <3>. QED  BY <1>2, <1>5, <1>6, <2>2, <3>1
  <2>. QED  BY <2>1, <2>2
<1>9. ASSUME NEW v \in Vms
      PROVE  /\ Borrow(v) \in HeldIn(s) => borrowed'[v] /\ (Borrow(v) \in HeldIn(stack[t]) \/ ~borrowed[v])
             /\ Borrow(v) \notin HeldIn(s) =>
                  (borrowed'[v] <=> borrowed[v] /\ Borrow(v) \notin HeldIn(stack[t]))
  <2>1. CASE Borrow(v) \in Held(f)
    <3>1. borrowed' = [borrowed EXCEPT ![v] = FALSE]
      BY <1>6, <2>1
    <3>. QED  BY <1>2, <1>5, <2>1, <3>1
  <2>2. CASE Borrow(v) \notin Held(f)
    <3>1. borrowed'[v] = borrowed[v]
      BY <1>4, <1>5, <1>6, <2>2
    <3>. QED  BY <1>2, <1>5, <2>2, <3>1
  <2>. QED  BY <2>1, <2>2
<1>10. /\ Registry \in HeldIn(s) => registry' = t /\ registry \in {t, Free}
       /\ Registry \notin HeldIn(s) => registry' = IF registry = t THEN Free ELSE registry
  BY <1>2, <1>4, <1>5
<1>11. Moved(t, s)
  BY <1>3, <1>7, <1>8, <1>9, <1>10 DEF Moved
<1>12. CallInv'
  BY <1>2, <1>11, ThreadMoved
<1>. QED  BY <1>1, <1>2, <1>3, <1>12


LEMMA FreshKept ==
  ASSUME CallInv, FreshInv, NEW a \in Agents, NEW s, stack' = [stack EXCEPT ![a] = s],
         \A v \in Vms : Fresh(v) \in HeldIn(s) => Fresh(v) \in HeldIn(stack[a]),
         written' \in [Vms -> {"nobody", "this call", "an earlier call"}],
         \A v \in Vms : written'[v] = "an earlier call" => written[v] = "an earlier call"
  PROVE  FreshInv'
<1>1. stack'[a] = s /\ \A b \in Agents : b # a => stack'[b] = stack[b]
  BY DEF CallInv, StackInv
<1>2. \A b \in Agents, v \in Vms : Fresh(v) \in HeldIn(stack'[b]) => Fresh(v) \in HeldIn(stack[b])
  BY <1>1
<1>. QED  BY <1>2 DEF FreshInv

\* What the stage of a call says of its method.
LEMMA Stages ==
  ASSUME NEW f \in FrameSet, OnThread(f), f.op # "python"
  PROVE  /\ f.stage = "lock" => f.op \in Runners \cup Readers \cup {"array"}
         /\ f.stage = "run" => f.op \in Runners
         /\ f.stage = "registry" => f.op \in Runners \cup {"register"}
         /\ f.stage = "join" => f.op = "array"
         /\ f.stage = "result" => f.op = "clinit_done"
         /\ f.op \in Mutating \cup Readers \cup {"clinit_done"}
<1>1. f.op \in Runners \cup Readers \cup {"array", "register", "clinit_done"}
  BY DEF FrameSet, Ops, Mutating
<1>2. CASE f.op \in Runners
  BY <1>2 DEF OnThread, Mutating
<1>3. CASE f.op \in Readers
  BY <1>3 DEF OnThread
<1>4. CASE f.op \in {"array", "register", "clinit_done"}
  BY <1>4 DEF OnThread, Mutating
<1>. QED  BY <1>1, <1>2, <1>3, <1>4

\* What is held stays as it is.
LEMMA SameHeld ==
  ASSUME CallInv, NEW a \in Agents, NEW s, stack' = [stack EXCEPT ![a] = s],
         HeldIn(s) = HeldIn(stack[a]), owner' = owner, borrowed' = borrowed, registry' = registry
  PROVE  Moved(a, s)
<1>1. /\ owner \in [Vms -> Agents \cup {Free}] /\ borrowed \in [Vms -> BOOLEAN]
      /\ \A v \in Vms : owner[v] = a <=> Mutex(v) \in HeldIn(s)
      /\ registry = a <=> Registry \in HeldIn(s)
      /\ \A v \in Vms : Borrow(v) \in HeldIn(s) => borrowed[v]
  BY DEF CallInv, HeldInv
<1>. QED  BY <1>1 DEF Moved

-----------------------------------------------------------------------------
(* The steps.                                                              *)

LEMMA BeginStep ==
  ASSUME Inv, NEW t \in Threads, NEW op \in Mutating \cup Readers, NEW v \in Vms,
         NEW body \in Seq(Library), op = "register" => body # <<>>, Begin(t, op, v, body)
  PROVE  Inv'
<1>. DEFINE f == Frame(op, v, body, IF op = "register" THEN "registry" ELSE "lock")
            s == Append(stack[t], f)
<1>1. /\ t = gil /\ Idle /\ t \in Agents /\ ThreadStack(stack[t])
      /\ stack \in [Agents -> Seq(FrameSet)] /\ gil' = gil
      /\ stack[t] # <<>> => Last(stack[t]).op \notin Runners
  BY Running DEF Inv, Begin
<1>2. UNCHANGED <<owner, poisoned, registry, broken, written, answered>>
  BY DEF Begin, Locks
<1>3. CASE UNCHANGED <<stack, borrowed>>
  <2>1. UNCHANGED <<stack, borrowed, gil, owner, poisoned, registry, broken, written, answered>>
    BY <1>1, <1>2, <1>3
  <2>. QED  BY <2>1 DEF Inv, CallInv, StackInv, GilInv, HeldInv, FreshInv, PoisonInv, Python, At, top,
                       PoisonedTogether, CallsAnswerAnew
<1>4. CASE /\ ~borrowed[v] \/ op = "look"
           /\ stack' = [stack EXCEPT ![t] = s]
           /\ borrowed' = IF op \in Mutating THEN [borrowed EXCEPT ![v] = TRUE] ELSE borrowed
  <2>1. /\ f \in FrameSet /\ f.op = op /\ f.vm = v /\ f.body = body
        /\ f.stage = IF op = "register" THEN "registry" ELSE "lock"
    <3>1. op \in Ops /\ v \in Vms \cup {NoVm}
      BY DEF Ops
    <3>. QED  BY <3>1, NewFrame
  <2>2. OnThread(f) /\ f.op # "python"
    <3>1. op # "python" /\ op # "clinit_done" /\ v # NoVm
      BY Distinct DEF Mutating, Runners, Readers
    <3>2. op = "register" => op \notin Runners /\ op \notin Readers /\ op # "array"
      BY DEF Runners, Readers
    <3>. QED  BY <2>1, <3>1, <3>2 DEF OnThread
  <2>3. \A u \in Vms : Mutex(u) \notin Held(f) /\ Fresh(u) \notin Held(f)
    BY <2>1, HeldMeans DEF Holding, Runners
  <2>4. Registry \notin Held(f) /\ \A u \in Vms : Borrow(u) \in Held(f) <=> u = v /\ op \in Mutating
    <3>1. op # "clinit_done"
      BY DEF Mutating, Runners, Readers
    <3>. QED  BY <2>1, <2>2, <3>1, HeldMeans
  <2>5. op \in Mutating => ~borrowed[v]
    BY <1>4 DEF Mutating, Runners
  <2>6. /\ owner \in [Vms -> Agents \cup {Free}] /\ borrowed \in [Vms -> BOOLEAN]
        /\ registry = t <=> Registry \in HeldIn(stack[t])
        /\ \A u \in Vms : owner[u] = t <=> Mutex(u) \in HeldIn(stack[t])
        /\ \A u \in Vms : Borrow(u) \in HeldIn(stack[t]) => borrowed[u]
    BY <1>1 DEF Inv, CallInv, HeldInv
  <2>7. Held(f) \cap HeldIn(stack[t]) = {}
    <3>1. Held(f) \subseteq {Borrow(v)}
      BY <2>1, <2>2 DEF Held, Holding, Runners, OnThread
    <3>. QED  BY <2>4, <2>5, <2>6, <3>1
  <2>8. ThreadStack(s) /\ HeldIn(s) = HeldIn(stack[t]) \cup Held(f)
    BY <1>1, <2>1, <2>2, <2>7, ThreadPush
  <2>9. Moved(t, s)
    <3>1. \A u \in Vms :
            /\ Borrow(u) \in HeldIn(s) => borrowed'[u] /\ (Borrow(u) \in HeldIn(stack[t]) \/ ~borrowed[u])
            /\ Borrow(u) \notin HeldIn(s) => (borrowed'[u] <=> borrowed[u] /\ Borrow(u) \notin HeldIn(stack[t]))
      BY <1>4, <2>4, <2>5, <2>6, <2>8
    <3>2. borrowed' \in [Vms -> BOOLEAN]
      BY <1>4, <2>6
    <3>3. \A u \in Vms :
            /\ Mutex(u) \in HeldIn(s) => owner'[u] = t /\ owner[u] \in {t, Free}
            /\ Mutex(u) \notin HeldIn(s) => owner'[u] = IF owner[u] = t THEN Free ELSE owner[u]
      BY <1>2, <2>3, <2>6, <2>8
    <3>4. /\ Registry \in HeldIn(s) => registry' = t /\ registry \in {t, Free}
          /\ Registry \notin HeldIn(s) => registry' = IF registry = t THEN Free ELSE registry
      BY <1>2, <2>4, <2>6, <2>8
    <3>. QED  BY <1>2, <1>4, <2>6, <3>1, <3>2, <3>3, <3>4 DEF Moved
  <2>10. CallInv'
    BY <1>1, <2>8, <2>9, ThreadMoved DEF Inv
  <2>11. FreshInv'
    <3>1. \A u \in Vms : Fresh(u) \in HeldIn(s) => Fresh(u) \in HeldIn(stack[t])
      BY <2>3, <2>8
    <3>2. written' = written /\ written \in [Vms -> {"nobody", "this call", "an earlier call"}]
      BY <1>2 DEF Inv, FreshInv
    <3>. QED  BY <1>1, <1>4, <3>1, <3>2, FreshKept DEF Inv
  <2>. QED  BY <1>2, <2>10, <2>11 DEF Inv, PoisonInv, PoisonedTogether, CallsAnswerAnew
<1>. QED  BY <1>3, <1>4 DEF Begin, Push

LEMMA SwitchStep ==
  ASSUME Inv, NEW t \in Threads, Switch(t)
  PROVE  Inv'
<1>1. UNCHANGED <<stack, borrowed, owner, poisoned, registry, broken, written, answered>>
  BY DEF Switch, Locks
<1>2. Python(gil) /\ Python(t) /\ gil' = t
  BY DEF Switch
<1>3. GilInv'
  <2>1. \A u \in Threads : Python(u)
    BY <1>2 DEF Inv, CallInv, GilInv
  <2>2. \A w \in Workers : stack[w] = <<>>
    BY <1>2 DEF Inv, CallInv, GilInv, At
  <2>. QED  BY <1>1, <1>2, <2>1, <2>2 DEF GilInv, Python
<1>4. StackInv' /\ HeldInv'
  BY <1>1 DEF Inv, CallInv, StackInv, HeldInv
<1>5. FreshInv' /\ PoisonInv' /\ CallsAnswerAnew'
  BY <1>1 DEF Inv, FreshInv, PoisonInv, PoisonedTogether, CallsAnswerAnew
<1>. QED  BY <1>3, <1>4, <1>5 DEF Inv, CallInv

\* A call of a thread ends.
LEMMA EndStep ==
  ASSUME Inv, NEW t \in Threads,
         Refused(t) \/ Read(t) \/ Register(t) \/ FieldRead(t) \/ Answer(t) \/ Fail(t) \/ Panic(t) \/ Join(t)
  PROVE  Inv'
<1>. DEFINE f == top(t)
<1>1. PICK stage : At(t, stage) /\ (stage = "join" => Idle)
  <2>1. At(t, "lock") \/ At(t, "registry") \/ At(t, "result") \/ At(t, "run") \/ Join(t)
    BY DEF Refused, Read, Register, FieldRead, Answer, Fail, Panic, Ended, Failing
  <2>2. Join(t) => At(t, "join") /\ Idle
    BY DEF Join, Idle
  <2>. QED  BY <2>1, <2>2
<1>2. /\ t = gil /\ t \in Agents /\ stack[t] # <<>> /\ stack \in [Agents -> Seq(FrameSet)]
      /\ f \in FrameSet /\ OnThread(f) /\ f.op # "python" /\ f.vm \in Vms /\ f.stage = stage /\ Idle
  BY <1>1, InRust DEF Inv
<1>3. Pop(t) /\ registry' = registry /\ written' = written /\ gil' = gil
  BY DEF Refused, Read, Register, FieldRead, Answer, Fail, Panic, Join, Locks
<1>4. owner' = IF Holding(f, f.vm) THEN [owner EXCEPT ![f.vm] = Free] ELSE owner
  <2>1. CASE Answer(t) \/ Fail(t) \/ Panic(t)
    <3>1. f.stage = "run" /\ f.op \in Runners
      BY <1>2, <2>1, Stages DEF Answer, Fail, Panic, Ended, Failing, At, top
    <3>2. owner' = [owner EXCEPT ![f.vm] = Free]
      BY <2>1 DEF Answer, Fail, Panic, Released
    <3>. QED  BY <3>1, <3>2 DEF Holding
  <2>2. CASE Refused(t) \/ Read(t) \/ FieldRead(t) \/ Join(t) \/ Register(t)
    <3>1. f.stage \in {"lock", "result", "join"} \/ f.op = "register"
      BY <2>2 DEF Refused, Read, FieldRead, Join, Register, At, top
    <3>2. owner' = owner
      BY <2>2 DEF Refused, Read, FieldRead, Join, Register, Locks
    <3>. QED  BY <3>1, <3>2 DEF Holding, Runners
  <2>. QED  BY <2>1, <2>2
<1>5. borrowed' = IF f.op \in Mutating \cup {"clinit_done"}
                  THEN [borrowed EXCEPT ![f.vm] = FALSE] ELSE borrowed
  <2>1. CASE FieldRead(t)
    <3>1. f.op = "clinit_done"
      BY <1>2, <2>1, Stages DEF FieldRead, At, top
    <3>. QED  BY <2>1, <3>1 DEF FieldRead
  <2>2. CASE Refused(t) \/ Read(t) \/ Register(t) \/ Answer(t) \/ Fail(t) \/ Panic(t) \/ Join(t)
    <3>1. borrowed' = GivenBack(f)
      BY <2>2 DEF Refused, Read, Register, Answer, Fail, Panic, Join
    <3>2. f.stage # "result"
      BY <2>2 DEF Refused, Read, Register, Answer, Fail, Panic, Join, Ended, Failing, At, top
    <3>3. f.op # "clinit_done"
      BY <1>2, <3>2 DEF OnThread
    <3>. QED  BY <3>1, <3>3 DEF GivenBack
  <2>. QED  BY <2>1, <2>2
<1>6. CallInv' /\ stack'[t] = Front(stack[t]) /\ HeldIn(stack'[t]) \subseteq HeldIn(stack[t])
  BY <1>2, <1>3, <1>4, <1>5, Popped DEF Inv
<1>7. FreshInv'
  <2>1. stack' = [stack EXCEPT ![t] = Front(stack[t])]
    BY <1>3 DEF Pop
  <2>. QED  BY <1>2, <1>3, <1>6, <2>1, FreshKept DEF Inv, FreshInv
<1>8. PoisonInv'
  <2>1. CASE Panic(t)
    BY <1>2, <2>1 DEF Panic, Unwinds, Inv, PoisonInv, PoisonedTogether
  <2>2. CASE ~Panic(t)
    <3>1. UNCHANGED <<poisoned, broken>>
      BY <2>2 DEF Refused, Read, Register, FieldRead, Answer, Fail, Join, Locks
    <3>. QED  BY <3>1 DEF Inv, PoisonInv, PoisonedTogether
  <2>. QED  BY <2>1, <2>2
<1>9. CallsAnswerAnew'
  <2>1. CASE Answer(t)
    <3>1. f.stage = "run" /\ f.op \in Runners /\ f.op # "clinit"
      BY <1>2, <2>1, Stages DEF Answer, Ended, At, top
    <3>2. f.op = "call" => written[f.vm] # "an earlier call"
      <4>1. ASSUME f.op = "call" PROVE Fresh(f.vm) \in Held(f)
        BY <3>1, <4>1, HeldMeans DEF Holding
      <4>2. Held(f) \subseteq HeldIn(stack[t])
        <5>1. ThreadStack(stack[t]) /\ f = Last(stack[t])
          BY <1>1, InRust DEF Inv
        <5>. QED  BY <1>2, <5>1, ThreadPop
      <4>. QED  BY <1>2, <4>1, <4>2 DEF Inv, FreshInv
    <3>3. answered' = [op |-> f.op, stale |-> written[f.vm] = "an earlier call"]
      BY <2>1 DEF Answer
    <3>. QED  BY <3>1, <3>2, <3>3 DEF CallsAnswerAnew, Runners
  <2>2. CASE ~Answer(t)
    <3>1. answered' = answered
      BY <2>2 DEF Refused, Read, Register, FieldRead, Fail, Panic, Join
    <3>. QED  BY <3>1 DEF Inv, CallsAnswerAnew
  <2>. QED  BY <2>1, <2>2
<1>. QED  BY <1>6, <1>7, <1>8, <1>9 DEF Inv

\* A call of a thread goes on, and what is held stays as it is.
LEMMA OnwardThread ==
  ASSUME Inv, NEW t \in Threads, NEW stage, At(t, stage), stage # "join", gil' = gil,
         NEW g \in FrameSet, OnThread(g), g.op # "python", Held(g) = Held(top(t)), Become(t, g),
         UNCHANGED <<owner, borrowed, registry, poisoned, broken, answered>>,
         written' \in [Vms -> {"nobody", "this call", "an earlier call"}],
         \A v \in Vms : written'[v] = "an earlier call" => written[v] = "an earlier call"
  PROVE  Inv'
<1>. DEFINE s == Append(Front(stack[t]), g)
<1>1. /\ t = gil /\ t \in Agents /\ ThreadStack(stack[t]) /\ stack[t] # <<>> /\ Idle
      /\ stack \in [Agents -> Seq(FrameSet)] /\ top(t) = Last(stack[t]) /\ Last(stack[t]).op # "python"
  BY InRust DEF Inv
<1>2. ThreadStack(s) /\ HeldIn(s) = (HeldIn(stack[t]) \ Held(top(t))) \cup Held(g)
  <2>1. PICK r : r = stack[t]
    OBVIOUS
  <2>2. /\ ThreadStack(r) /\ r # <<>> /\ Last(r).op # "python" /\ Held(g) = Held(Last(r))
        /\ Held(g) \cap HeldIn(r) \subseteq Held(Last(r))
    BY <1>1, <2>1
  <2>3. ThreadStack(Append(Front(r), g)) /\ HeldIn(Append(Front(r), g)) = (HeldIn(r) \ Held(Last(r))) \cup Held(g)
    BY <2>2, ThreadTurn
  <2>. QED  BY <1>1, <2>1, <2>3
<1>3. HeldIn(s) = HeldIn(stack[t])
  BY <1>1, <1>2, ThreadPop
<1>4. stack' = [stack EXCEPT ![t] = s]
  BY DEF Become
<1>5. CallInv'
  <2>1. Moved(t, s)
    BY <1>1, <1>3, <1>4, SameHeld DEF Inv
  <2>. QED  BY <1>1, <1>2, <2>1, ThreadMoved DEF Inv
<1>6. FreshInv'
  BY <1>1, <1>3, <1>4, FreshKept DEF Inv
<1>. QED  BY <1>5, <1>6 DEF Inv, PoisonInv, PoisonedTogether, CallsAnswerAnew

\* The same of a worker's.
LEMMA OnwardWorker ==
  ASSUME Inv, NEW w \in Workers, NEW stage, At(w, stage), gil' = gil,
         NEW g \in FrameSet, OnWorker(g), Held(g) = Held(top(w)), Become(w, g),
         UNCHANGED <<owner, borrowed, registry, poisoned, broken, answered, written>>
  PROVE  Inv'
<1>1. /\ w \in Agents /\ WorkerStack(stack[w]) /\ stack[w] # <<>>
      /\ stack \in [Agents -> Seq(FrameSet)] /\ top(w) = Last(stack[w])
  BY InWorker DEF Inv
<1>2. Append(Front(stack[w]), g) = <<g>> /\ HeldIn(stack[w]) = Held(top(w))
  <2>1. Front(stack[w]) = <<>> /\ HeldIn(stack[w]) = Held(top(w))
    BY <1>1, WorkerTop
  <2>. QED  BY <2>1
<1>3. WorkerStack(<<g>>) /\ HeldIn(<<g>>) = HeldIn(stack[w])
  BY <1>2, WorkerOf
<1>4. stack' = [stack EXCEPT ![w] = <<g>>]
  BY <1>2 DEF Become
<1>5. CallInv'
  <2>1. Moved(w, <<g>>)
    BY <1>1, <1>3, <1>4, SameHeld DEF Inv
  <2>. QED  BY <1>1, <1>3, <2>1, WorkerMoved DEF Inv
<1>6. FreshInv'
  BY <1>1, <1>3, <1>4, FreshKept DEF Inv, FreshInv
<1>. QED  BY <1>5, <1>6 DEF Inv, PoisonInv, PoisonedTogether, CallsAnswerAnew

LEMMA InvokeStep ==
  ASSUME Inv, NEW a \in Agents, Invoke(a)
  PROVE  Inv'
<1>. DEFINE g == [top(a) EXCEPT !.stage = "registry"]
<1>1. At(a, "run") /\ top(a).body # <<>> /\ Become(a, g) /\ gil' = gil
      /\ UNCHANGED <<owner, borrowed, registry, poisoned, broken, answered, written>>
  BY DEF Invoke, Locks
<1>2. CASE a \in Threads
  <2>1. top(a) \in FrameSet /\ OnThread(top(a)) /\ top(a).op # "python" /\ top(a).stage = "run"
    BY <1>1, <1>2, InRust DEF Inv
  <2>2. g \in FrameSet /\ g.op = top(a).op /\ g.vm = top(a).vm /\ g.body = top(a).body /\ g.stage = "registry"
    BY <2>1, FrameChanges
  <2>3. top(a).op \in Runners
    BY <2>1, Stages
  <2>4. OnThread(g) /\ g.op # "python"
    BY <1>1, <2>1, <2>2, <2>3 DEF OnThread, Runners, Readers
  <2>5. Held(g) = Held(top(a))
    BY <2>1, <2>2 DEF Held, Holding
  <2>6. written \in [Vms -> {"nobody", "this call", "an earlier call"}]
    BY DEF Inv, FreshInv
  <2>. QED  BY <1>1, <1>2, <2>2, <2>4, <2>5, <2>6, OnwardThread
<1>3. CASE a \in Workers
  <2>1. top(a) \in FrameSet /\ OnWorker(top(a)) /\ top(a).stage = "run"
    BY <1>1, <1>3, InWorker DEF Inv
  <2>2. g \in FrameSet /\ g.op = top(a).op /\ g.vm = top(a).vm /\ g.body = top(a).body /\ g.stage = "registry"
    BY <2>1, FrameChanges
  <2>3. OnWorker(g)
    BY <1>1, <2>1, <2>2 DEF OnWorker
  <2>4. Held(g) = Held(top(a))
    BY <2>1, <2>2 DEF Held, Holding
  <2>. QED  BY <1>1, <1>3, <2>2, <2>3, <2>4, OnwardWorker
<1>. QED  BY <1>2, <1>3 DEF Agents

LEMMA BuiltinStep ==
  ASSUME Inv, NEW a \in Agents, Builtin(a)
  PROVE  Inv'
<1>. DEFINE g == Onward(a)
<1>1. /\ At(a, "registry") /\ top(a).op # "register" /\ Become(a, g) /\ gil' = gil
      /\ written' \in {written, Writes(a)}
      /\ UNCHANGED <<owner, borrowed, registry, poisoned, broken, answered>>
  BY DEF Builtin, Locks
<1>2. written \in [Vms -> {"nobody", "this call", "an earlier call"}]
  BY DEF Inv, FreshInv
<1>3. CASE a \in Threads
  <2>1. /\ top(a) \in FrameSet /\ OnThread(top(a)) /\ top(a).op # "python"
        /\ top(a).stage = "registry" /\ top(a).vm \in Vms
    BY <1>1, <1>3, InRust DEF Inv
  <2>2. top(a).body # <<>>
    BY <2>1 DEF OnThread
  <2>3. g \in FrameSet /\ g.op = top(a).op /\ g.vm = top(a).vm /\ g.stage = "run"
    BY <2>1, <2>2, FrameChanges DEF Onward
  <2>4. top(a).op \in Runners
    BY <1>1, <2>1, Stages
  <2>5. OnThread(g) /\ g.op # "python"
    BY <2>1, <2>3, <2>4 DEF OnThread, Runners, Readers
  <2>6. Held(g) = Held(top(a))
    BY <2>1, <2>3 DEF Held, Holding
  <2>7. /\ written' \in [Vms -> {"nobody", "this call", "an earlier call"}]
        /\ \A v \in Vms : written'[v] = "an earlier call" => written[v] = "an earlier call"
    BY <1>1, <1>2, <2>1 DEF Writes
  <2>. QED  BY <1>1, <1>3, <2>3, <2>5, <2>6, <2>7, OnwardThread
<1>4. CASE a \in Workers
  <2>1. top(a) \in FrameSet /\ OnWorker(top(a)) /\ top(a).stage = "registry"
    BY <1>1, <1>4, InWorker DEF Inv
  <2>2. top(a).body # <<>> /\ top(a).vm = NoVm
    BY <2>1 DEF OnWorker
  <2>3. g \in FrameSet /\ g.op = top(a).op /\ g.vm = top(a).vm /\ g.stage = "run"
    BY <2>1, <2>2, FrameChanges DEF Onward
  <2>4. OnWorker(g)
    BY <2>1, <2>3 DEF OnWorker
  <2>5. Held(g) = Held(top(a))
    BY <2>1, <2>3 DEF Held, Holding
  <2>6. written' = written
    BY <1>1, <2>2 DEF Writes
  <2>. QED  BY <1>1, <1>4, <2>3, <2>4, <2>5, <2>6, OnwardWorker
<1>. QED  BY <1>3, <1>4 DEF Agents

LEMMA CallbackStep ==
  ASSUME Inv, NEW a \in Agents, Callback(a)
  PROVE  Inv'
<1>1. /\ At(a, "registry") /\ top(a).op # "register" /\ registry = Free /\ registry' = a
      /\ UNCHANGED <<gil, borrowed, owner, poisoned, broken, written, answered>>
  BY DEF Callback
<1>2. /\ owner \in [Vms -> Agents \cup {Free}] /\ borrowed \in [Vms -> BOOLEAN]
      /\ \A v \in Vms : owner[v] = a <=> Mutex(v) \in HeldIn(stack[a])
      /\ \A v \in Vms : Borrow(v) \in HeldIn(stack[a]) => borrowed[v]
      /\ Registry \notin HeldIn(stack[a])
  BY <1>1, Distinct DEF Inv, CallInv, HeldInv
<1>. DEFINE Likewise(s) ==
       /\ Registry \in HeldIn(s)
       /\ \A v \in Vms : /\ (Mutex(v) \in HeldIn(s) <=> Mutex(v) \in HeldIn(stack[a]))
                       /\ (Borrow(v) \in HeldIn(s) <=> Borrow(v) \in HeldIn(stack[a]))
                       /\ (Fresh(v) \in HeldIn(s) <=> Fresh(v) \in HeldIn(stack[a]))
\* Who has the registry in addition to what it held.
<1>3. ASSUME NEW s, stack' = [stack EXCEPT ![a] = s], Likewise(s)
      PROVE  Moved(a, s) /\ FreshInv'
  <2>1. Moved(a, s)
    BY <1>1, <1>2, <1>3 DEF Moved
  <2>2. FreshInv'
    BY <1>1, <1>3, FreshKept DEF Inv, FreshInv
  <2>. QED  BY <2>1, <2>2
<1>5. CASE a \in Threads
  <2>. DEFINE g == Frame("python", NoVm, <<>>, "python")
              s == Append(stack[a], g)
  <2>1. /\ a = gil /\ ThreadStack(stack[a]) /\ stack[a] # <<>> /\ Idle
        /\ top(a) = Last(stack[a]) /\ top(a) \in FrameSet /\ OnThread(top(a))
        /\ top(a).stage = "registry" /\ top(a).op # "python"
    BY <1>1, <1>5, InRust DEF Inv
  <2>2. top(a).op \in Runners
    BY <1>1, <2>1, Stages
  <2>3. /\ g \in FrameSet /\ g.op = "python" /\ g.vm = NoVm /\ g.stage = "python" /\ OnThread(g)
    <3>1. "python" \in Ops /\ <<>> \in Seq(Library)
      BY DEF Ops
    <3>2. g \in FrameSet /\ g.op = "python" /\ g.vm = NoVm /\ g.stage = "python"
      BY <3>1 DEF Frame, FrameSet
    <3>. QED  BY <3>2 DEF OnThread, Runners, Readers
  <2>4. Held(g) = {Registry}
    BY <2>3 DEF Held, Holding, Mutating, Runners
  <2>5. stack' = [stack EXCEPT ![a] = s]
    BY <1>5, Distinct DEF Callback, Push
  <2>6. ThreadStack(s) /\ HeldIn(s) = HeldIn(stack[a]) \cup {Registry}
    BY <1>2, <2>1, <2>2, <2>3, <2>4, ThreadPush
  <2>7. Likewise(s)
    BY <2>6 DEF Mutex, Borrow, Fresh, Registry
  <2>8. Moved(a, s) /\ FreshInv'
    BY <1>3, <2>5, <2>7
  <2>9. CallInv'
    BY <1>1, <1>5, <2>1, <2>6, <2>8, ThreadMoved DEF Inv
  <2>. QED  BY <1>1, <2>8, <2>9 DEF Inv, PoisonInv, PoisonedTogether, CallsAnswerAnew
<1>6. CASE a \in Workers
  <2>. DEFINE g == [top(a) EXCEPT !.stage = "gil"]
  <2>1. /\ WorkerStack(stack[a]) /\ stack[a] # <<>> /\ top(a) = Last(stack[a])
        /\ top(a) \in FrameSet /\ OnWorker(top(a)) /\ top(a).stage = "registry"
    BY <1>1, <1>6, InWorker DEF Inv
  <2>2. g \in FrameSet /\ g.op = top(a).op /\ g.vm = top(a).vm /\ g.stage = "gil"
    BY <2>1, FrameChanges
  <2>3. OnWorker(g)
    BY <2>1, <2>2 DEF OnWorker
  <2>4. Front(stack[a]) = <<>> /\ HeldIn(stack[a]) = Held(top(a))
    BY <2>1, WorkerTop
  <2>5. stack' = [stack EXCEPT ![a] = <<g>>]
    <3>1. stack' = [stack EXCEPT ![a] = Append(Front(stack[a]), g)]
      BY <1>6 DEF Callback, Become
    <3>. QED  BY <2>4, <3>1
  <2>6. WorkerStack(<<g>>) /\ HeldIn(<<g>>) = Held(g)
    BY <2>2, <2>3, WorkerOf
  <2>7. Likewise(<<g>>)
    <3>1. top(a).vm = NoVm /\ g.vm = NoVm /\ \A v \in Vms : v # NoVm
      BY <2>1, <2>2, Distinct DEF OnWorker
    <3>2. \A v \in Vms : ~Holding(g, v) /\ ~Holding(top(a), v)
      BY <3>1 DEF Holding
    <3>3. \A v \in Vms : /\ Mutex(v) \notin Held(g) /\ Borrow(v) \notin Held(g) /\ Fresh(v) \notin Held(g)
                       /\ Mutex(v) \notin Held(top(a)) /\ Borrow(v) \notin Held(top(a))
                       /\ Fresh(v) \notin Held(top(a))
      BY <3>1, <3>2, HeldMeans
    <3>4. Registry \in Held(g)
      BY <2>2, HeldMeans
    <3>. QED  BY <2>4, <2>6, <3>3, <3>4
  <2>8. Moved(a, <<g>>) /\ FreshInv'
    BY <1>3, <2>5, <2>7
  <2>9. CallInv'
    BY <1>1, <1>6, <2>1, <2>6, <2>8, WorkerMoved DEF Inv
  <2>. QED  BY <1>1, <2>8, <2>9 DEF Inv, PoisonInv, PoisonedTogether, CallsAnswerAnew
<1>. QED  BY <1>5, <1>6 DEF Agents

\* Who holds a fresh return register holds the machine's mutex.
LEMMA FreshIsLocked ==
  ASSUME CallInv, NEW a \in Agents, NEW v \in Vms, Fresh(v) \in HeldIn(stack[a])
  PROVE  owner[v] = a
<1>1. PICK i \in DOMAIN stack[a] : Fresh(v) \in Held(stack[a][i])
  BY DEF HeldIn
<1>2. Mutex(v) \in Held(stack[a][i])
  BY <1>1, HeldMeans
<1>3. Mutex(v) \in HeldIn(stack[a])
  BY <1>2 DEF HeldIn
<1>. QED  BY <1>3 DEF CallInv, HeldInv

LEMMA LockVmStep ==
  ASSUME Inv, NEW t \in Agents, LockVm(t)
  PROVE  Inv'
<1>. DEFINE f == top(t)
            g == [f EXCEPT !.stage = "run"]
            s == Append(Front(stack[t]), g)
<1>1. /\ At(t, "lock") /\ f.op \in Runners /\ owner[f.vm] = Free
      /\ owner' = [owner EXCEPT ![f.vm] = t] /\ stack' = [stack EXCEPT ![t] = s]
      /\ UNCHANGED <<gil, borrowed, poisoned, registry, broken, answered>>
  BY DEF LockVm, Become
<1>2. t \in Threads
  BY <1>1, InWorker DEF Inv, Agents, OnWorker
<1>3. /\ t = gil /\ ThreadStack(stack[t]) /\ stack[t] # <<>> /\ Idle
      /\ stack \in [Agents -> Seq(FrameSet)]
      /\ f = Last(stack[t]) /\ f \in FrameSet /\ OnThread(f)
      /\ f.op # "python" /\ f.vm \in Vms /\ f.stage = "lock"
  BY <1>1, <1>2, InRust DEF Inv
<1>4. g \in FrameSet /\ g.op = f.op /\ g.vm = f.vm /\ g.stage = "run"
  BY <1>3, FrameChanges
<1>5. OnThread(g) /\ g.op # "python"
  BY <1>1, <1>3, <1>4 DEF OnThread, Runners, Readers
<1>6. \A v \in Vms :
        /\ (Mutex(v) \in Held(g) <=> v = f.vm) /\ Mutex(v) \notin Held(f)
        /\ (Borrow(v) \in Held(g) <=> Borrow(v) \in Held(f))
        /\ (Fresh(v) \in Held(g) => v = f.vm) /\ Fresh(v) \notin Held(f)
  BY <1>1, <1>3, <1>4, HeldMeans DEF Holding
<1>7. Registry \notin Held(g) /\ Registry \notin Held(f)
  BY <1>3, <1>4, HeldMeans
<1>8. /\ owner \in [Vms -> Agents \cup {Free}] /\ borrowed \in [Vms -> BOOLEAN]
      /\ registry = t <=> Registry \in HeldIn(stack[t])
      /\ \A v \in Vms : owner[v] = t <=> Mutex(v) \in HeldIn(stack[t])
      /\ \A v \in Vms : Borrow(v) \in HeldIn(stack[t]) => borrowed[v]
  BY DEF Inv, CallInv, HeldInv
<1>9. \A a \in Agents : Fresh(f.vm) \notin HeldIn(stack[a])
  <2>1. \A a \in Agents : owner[f.vm] # a
    BY <1>1, Distinct
  <2>. QED  BY <1>3, <2>1, FreshIsLocked DEF Inv
<1>10. Held(g) \cap HeldIn(stack[t]) \subseteq Held(f)
  <2>1. Held(g) \subseteq {Mutex(f.vm), Fresh(f.vm), Borrow(f.vm)}
    BY <1>4, <1>5 DEF Held, Holding, OnThread
  <2>2. Mutex(f.vm) \notin HeldIn(stack[t]) /\ Fresh(f.vm) \notin HeldIn(stack[t])
    BY <1>1, <1>3, <1>8, <1>9, Distinct
  <2>. QED  BY <1>3, <1>6, <2>1, <2>2
<1>11. ThreadStack(s) /\ HeldIn(s) = (HeldIn(stack[t]) \ Held(f)) \cup Held(g)
  <2>. HIDE DEF f, g
  <2>1. Held(g) \cap HeldIn(stack[t]) \subseteq Held(Last(stack[t]))
    BY <1>3, <1>10
  <2>. QED  BY <1>3, <1>4, <1>5, <2>1, ThreadTurn
<1>12. Held(f) \subseteq HeldIn(stack[t])
  BY <1>3, ThreadPop
<1>13. Moved(t, s)
  <2>1. owner' \in [Vms -> Agents \cup {Free}]
    BY <1>1, <1>8
  <2>2. \A v \in Vms :
          /\ Mutex(v) \in HeldIn(s) => owner'[v] = t /\ owner[v] \in {t, Free}
          /\ Mutex(v) \notin HeldIn(s) => owner'[v] = IF owner[v] = t THEN Free ELSE owner[v]
    BY <1>1, <1>3, <1>6, <1>8, <1>11
  <2>3. /\ Registry \in HeldIn(s) => registry' = t /\ registry \in {t, Free}
        /\ Registry \notin HeldIn(s) => registry' = IF registry = t THEN Free ELSE registry
    BY <1>1, <1>7, <1>8, <1>11
  <2>4. \A v \in Vms :
          /\ Borrow(v) \in HeldIn(s) => borrowed'[v] /\ (Borrow(v) \in HeldIn(stack[t]) \/ ~borrowed[v])
          /\ Borrow(v) \notin HeldIn(s) => (borrowed'[v] <=> borrowed[v] /\ Borrow(v) \notin HeldIn(stack[t]))
    BY <1>1, <1>6, <1>8, <1>11, <1>12
  <2>. QED  BY <1>1, <1>8, <2>1, <2>2, <2>3, <2>4 DEF Moved
<1>14. CallInv'
  BY <1>1, <1>2, <1>3, <1>11, <1>13, ThreadMoved DEF Inv
<1>15. FreshInv'
  <2>1. PICK started \in BOOLEAN :
          /\ f.op \in {"call", "clinit"} => started
          /\ written' = [written EXCEPT ![f.vm] = IF started THEN Started(f.vm) ELSE LeftOver(f.vm)]
    BY DEF LockVm
  <2>2. /\ written \in [Vms -> {"nobody", "this call", "an earlier call"}]
        /\ \A a \in Agents, v \in Vms : Fresh(v) \in HeldIn(stack[a]) => written[v] # "an earlier call"
    BY DEF Inv, FreshInv
  <2>3. written' \in [Vms -> {"nobody", "this call", "an earlier call"}]
    BY <2>1, <2>2 DEF Started, LeftOver
  <2>4. /\ stack'[t] = s /\ \A a \in Agents : a # t => stack'[a] = stack[a]
    BY <1>1, <1>3
  <2>5. ASSUME NEW a \in Agents, NEW v \in Vms, Fresh(v) \in HeldIn(stack'[a])
        PROVE  written'[v] # "an earlier call"
    <3>1. CASE v = f.vm
      <4>1. a = t /\ Fresh(v) \in Held(g)
        BY <1>9, <1>11, <2>4, <2>5, <3>1
      <4>2. started
        BY <1>4, <2>1, <4>1, HeldMeans
      <4>. QED  BY <1>3, <2>1, <2>2, <3>1, <4>2 DEF Started
    <3>2. CASE v # f.vm
      <4>1. Fresh(v) \in HeldIn(stack[a])
        BY <1>6, <1>11, <2>4, <2>5, <3>2
      <4>2. written'[v] = written[v]
        BY <2>1, <2>2, <3>2
      <4>. QED  BY <2>2, <4>1, <4>2
    <3>. QED  BY <3>1, <3>2
  <2>. QED  BY <2>3, <2>5 DEF FreshInv
<1>. QED  BY <1>1, <1>14, <1>15 DEF Inv, PoisonInv, PoisonedTogether, CallsAnswerAnew

\* Python code that a registered class runs: an invoke waits below it.
LEMMA InPython ==
  ASSUME CallInv, NEW t \in Threads, InCallback(t)
  PROVE  LET s == stack[t]  c == Caller(t) IN
           /\ t = gil /\ Idle /\ t \in Agents /\ stack \in [Agents -> Seq(FrameSet)]
           /\ ThreadStack(s) /\ ThreadStack(Front(s)) /\ Front(s) # <<>> /\ c = Last(Front(s))
           /\ HeldIn(Front(s)) = HeldIn(s) \ {Registry} /\ Registry \in HeldIn(s)
           /\ Below(t) = Front(Front(s))
           /\ c \in FrameSet /\ OnThread(c) /\ c.op \in Runners /\ c.stage = "registry"
           /\ c.vm \in Vms /\ c.body # <<>> /\ c.op # "python"
<1>. DEFINE s == stack[t]
            c == Caller(t)
<1>1. Runs(t) /\ s # <<>>
  BY DEF InCallback
<1>2. t = gil /\ Idle /\ t \in Agents /\ stack \in [Agents -> Seq(FrameSet)] /\ ThreadStack(s)
  BY <1>1, Running
<1>3. Last(s).op = "python"
  BY <1>1 DEF Runs, Python
<1>4. /\ ThreadStack(Front(s)) /\ Last(s) \in FrameSet /\ OnThread(Last(s))
      /\ HeldIn(Front(s)) = HeldIn(s) \ Held(Last(s)) /\ Held(Last(s)) \subseteq HeldIn(s)
  BY <1>1, <1>2, ThreadPop
<1>5. Held(Last(s)) = {Registry}
  BY <1>3, <1>4 DEF Held, Holding, Mutating, Runners
<1>6. /\ Front(s) # <<>> /\ Last(Front(s)) = c /\ c.op \in Runners /\ c.stage = "registry"
  BY <1>1, <1>2, <1>3, PopHolds DEF ThreadStack, Caller
<1>7. c \in FrameSet /\ OnThread(c)
  BY <1>4, <1>6, ThreadPop
<1>8. c.op # "python" /\ c.vm \in Vms /\ c.body # <<>>
  BY <1>6, <1>7 DEF OnThread, FrameSet, Runners
<1>9. Below(t) = Front(Front(s))
  <2>1. s \in Seq(FrameSet) /\ Len(s) > 1
    <3>1. s \in Seq(FrameSet) /\ Front(s) \in Seq(FrameSet) /\ Len(Front(s)) = Len(s) - 1
      BY <1>1, <1>2, <1>4, PopHolds DEF ThreadStack, Stacked
    <3>. QED  BY <1>6, <3>1
  <2>. DEFINE r == Front(s)
              q == Front(r)
              b == SubSeq(s, 1, Len(s) - 2)
  <2>2. r \in Seq(FrameSet) /\ Len(r) = Len(s) - 1 /\ \A i \in 1 .. Len(s) - 1 : r[i] = s[i]
    BY <2>1 DEF Front
  <2>. HIDE DEF r
  <2>3. q \in Seq(FrameSet) /\ Len(q) = Len(s) - 2 /\ \A i \in 1 .. Len(s) - 2 : q[i] = r[i]
    BY <2>1, <2>2 DEF Front
  <2>4. b \in Seq(FrameSet) /\ Len(b) = Len(s) - 2 /\ \A i \in 1 .. Len(s) - 2 : b[i] = s[i]
    BY <2>1
  <2>. HIDE DEF q, b
  <2>5. \A i \in 1 .. Len(s) - 2 : q[i] = b[i]
    BY <2>1, <2>2, <2>3, <2>4
  <2>6. b = q
    BY <2>1, <2>3, <2>4, <2>5
  <2>. QED  BY <2>6 DEF Below, b, q, r
<1>. QED  BY <1>1, <1>2, <1>4, <1>5, <1>6, <1>7, <1>8, <1>9

LEMMA SetResultStep ==
  ASSUME Inv, NEW t \in Threads, SetResult(t)
  PROVE  Inv'
<1>1. /\ InCallback(t) /\ written' = [written EXCEPT ![Caller(t).vm] = "this call"]
      /\ UNCHANGED <<gil, stack, borrowed, owner, poisoned, registry, broken, answered>>
  BY DEF SetResult, Locks
<1>2. CallInv'
  BY <1>1 DEF Inv, CallInv, StackInv, GilInv, HeldInv, Python, At, top
<1>3. FreshInv'
  BY <1>1 DEF Inv, FreshInv
<1>. QED  BY <1>1, <1>2, <1>3 DEF Inv, PoisonInv, PoisonedTogether, CallsAnswerAnew

LEMMA ReturnStep ==
  ASSUME Inv, NEW t \in Threads, Return(t)
  PROVE  Inv'
<1>. DEFINE r == Front(stack[t])
            c == Caller(t)
            g == [c EXCEPT !.stage = "run", !.body = Tail(@)]
            s == Append(Front(r), g)
<1>1. /\ InCallback(t) /\ registry' = Free /\ stack' = [stack EXCEPT ![t] = Append(Below(t), g)]
      /\ UNCHANGED <<gil, borrowed, owner, poisoned, broken, written, answered>>
  BY DEF Return
<1>2. /\ t = gil /\ Idle /\ t \in Agents /\ stack \in [Agents -> Seq(FrameSet)]
      /\ ThreadStack(r) /\ r # <<>> /\ c = Last(r)
      /\ HeldIn(r) = HeldIn(stack[t]) \ {Registry} /\ Registry \in HeldIn(stack[t])
      /\ Below(t) = Front(r)
      /\ c \in FrameSet /\ OnThread(c) /\ c.op \in Runners /\ c.stage = "registry"
      /\ c.vm \in Vms /\ c.body # <<>> /\ c.op # "python"
  BY <1>1, InPython DEF Inv
<1>3. g \in FrameSet /\ g.op = c.op /\ g.vm = c.vm /\ g.stage = "run"
  BY <1>2, FrameChanges
<1>4. OnThread(g) /\ g.op # "python"
  BY <1>2, <1>3 DEF OnThread, Runners, Readers
<1>5. Held(g) = Held(c)
  BY <1>2, <1>3 DEF Held, Holding
<1>6. ThreadStack(s) /\ HeldIn(s) = (HeldIn(r) \ Held(c)) \cup Held(g)
  <2>. HIDE DEF r, c, g
  <2>1. Held(g) \cap HeldIn(r) \subseteq Held(Last(r))
    BY <1>2, <1>5
  <2>. QED  BY <1>2, <1>3, <1>4, <2>1, ThreadTurn
<1>7. HeldIn(s) = HeldIn(stack[t]) \ {Registry}
  <2>1. Held(c) \subseteq HeldIn(r)
    BY <1>2, ThreadPop
  <2>. QED  BY <1>2, <1>5, <1>6, <2>1
<1>8. stack' = [stack EXCEPT ![t] = s]
  BY <1>1, <1>2
<1>9. /\ owner \in [Vms -> Agents \cup {Free}] /\ borrowed \in [Vms -> BOOLEAN]
      /\ registry = t
      /\ \A v \in Vms : owner[v] = t <=> Mutex(v) \in HeldIn(stack[t])
      /\ \A v \in Vms : Borrow(v) \in HeldIn(stack[t]) => borrowed[v]
  BY <1>2 DEF Inv, CallInv, HeldInv
<1>10. \A v \in Vms : Mutex(v) # Registry /\ Borrow(v) # Registry /\ Fresh(v) # Registry
  BY DEF Mutex, Borrow, Fresh, Registry
<1>11. Moved(t, s)
  <2>. HIDE DEF s
  <2>. QED  BY <1>1, <1>7, <1>8, <1>9, <1>10 DEF Moved
<1>12. CallInv'
  BY <1>1, <1>2, <1>6, <1>11, ThreadMoved DEF Inv
<1>13. FreshInv'
  <2>. HIDE DEF s
  <2>. QED  BY <1>1, <1>2, <1>7, <1>8, FreshKept DEF Inv, FreshInv
<1>. QED  BY <1>1, <1>12, <1>13 DEF Inv, PoisonInv, PoisonedTogether, CallsAnswerAnew

LEMMA RaiseStep ==
  ASSUME Inv, NEW t \in Threads, Raise(t)
  PROVE  Inv'
<1>. DEFINE r == Front(stack[t])
            c == Caller(t)
            s == Front(r)
<1>1. /\ InCallback(t) /\ registry' = Free /\ stack' = [stack EXCEPT ![t] = Below(t)]
      /\ owner' = [owner EXCEPT ![c.vm] = Free] /\ poisoned' = [poisoned EXCEPT ![c.vm] = TRUE]
      /\ borrowed' = GivenBack(c)
      /\ UNCHANGED <<gil, written, answered>>
  BY DEF Raise, Unwinds
<1>2. /\ t = gil /\ Idle /\ t \in Agents /\ stack \in [Agents -> Seq(FrameSet)]
      /\ ThreadStack(r) /\ r # <<>> /\ c = Last(r)
      /\ HeldIn(r) = HeldIn(stack[t]) \ {Registry} /\ Registry \in HeldIn(stack[t])
      /\ Below(t) = Front(r)
      /\ c \in FrameSet /\ OnThread(c) /\ c.op \in Runners /\ c.stage = "registry"
      /\ c.vm \in Vms /\ c.body # <<>> /\ c.op # "python"
  BY <1>1, InPython DEF Inv
<1>3. ThreadStack(s) /\ HeldIn(s) = HeldIn(r) \ Held(c) /\ Held(c) \subseteq HeldIn(r)
  BY <1>2, ThreadPop
<1>4. /\ Mutex(c.vm) \in Held(c) /\ Borrow(c.vm) \in Held(c)
      /\ \A v \in Vms : (Mutex(v) \in Held(c) => v = c.vm) /\ (Borrow(v) \in Held(c) => v = c.vm)
  BY <1>2, HeldMeans DEF Holding, Mutating
<1>5. stack' = [stack EXCEPT ![t] = s]
  BY <1>1, <1>2
<1>6. /\ owner \in [Vms -> Agents \cup {Free}] /\ borrowed \in [Vms -> BOOLEAN]
      /\ registry = t
      /\ \A v \in Vms : owner[v] = t <=> Mutex(v) \in HeldIn(stack[t])
      /\ \A v \in Vms : Borrow(v) \in HeldIn(stack[t]) => borrowed[v]
  BY <1>2 DEF Inv, CallInv, HeldInv
<1>7. \A v \in Vms : Mutex(v) # Registry /\ Borrow(v) # Registry /\ Fresh(v) # Registry
  BY DEF Mutex, Borrow, Fresh, Registry
<1>8. borrowed' = [borrowed EXCEPT ![c.vm] = FALSE]
  BY <1>1, <1>2 DEF GivenBack, Mutating
<1>9. Moved(t, s)
  <2>. HIDE DEF s, r, c
  <2>1. \A v \in Vms :
          /\ Mutex(v) \in HeldIn(s) => owner'[v] = t /\ owner[v] \in {t, Free}
          /\ Mutex(v) \notin HeldIn(s) => owner'[v] = IF owner[v] = t THEN Free ELSE owner[v]
    BY <1>1, <1>2, <1>3, <1>4, <1>6, <1>7
  <2>2. \A v \in Vms :
          /\ Borrow(v) \in HeldIn(s) => borrowed'[v] /\ (Borrow(v) \in HeldIn(stack[t]) \/ ~borrowed[v])
          /\ Borrow(v) \notin HeldIn(s) => (borrowed'[v] <=> borrowed[v] /\ Borrow(v) \notin HeldIn(stack[t]))
    BY <1>2, <1>3, <1>4, <1>6, <1>7, <1>8
  <2>3. Registry \notin HeldIn(s)
    BY <1>2, <1>3
  <2>4. owner' \in [Vms -> Agents \cup {Free}] /\ borrowed' \in [Vms -> BOOLEAN]
    BY <1>1, <1>6, <1>8
  <2>. QED  BY <1>1, <1>5, <1>6, <2>1, <2>2, <2>3, <2>4 DEF Moved
<1>10. CallInv'
  BY <1>1, <1>2, <1>3, <1>9, ThreadMoved DEF Inv
<1>11. FreshInv'
  <2>. HIDE DEF s, r, c
  <2>. QED  BY <1>1, <1>2, <1>3, <1>5, FreshKept DEF Inv, FreshInv
<1>12. PoisonInv'
  BY <1>1, <1>2 DEF Inv, PoisonInv, PoisonedTogether
<1>. QED  BY <1>1, <1>10, <1>11, <1>12 DEF Inv, CallsAnswerAnew

\* The initialiser's call gives the machine back and becomes two calls.
LEMMA ThenFieldStep ==
  ASSUME Inv, NEW t \in Threads, ThenField(t)
  PROVE  Inv'
<1>. DEFINE f == top(t)
            c == Frame("clinit_done", f.vm, <<>>, "result")
            g == Frame("field", f.vm, <<>>, "lock")
            r == Append(Front(stack[t]), c)
            s == Append(r, g)
<1>1. /\ At(t, "run") /\ f.op = "clinit" /\ owner' = [owner EXCEPT ![f.vm] = Free]
      /\ stack' = [stack EXCEPT ![t] = s]
      /\ UNCHANGED <<gil, borrowed, poisoned, registry, broken, written, answered>>
  BY DEF ThenField, Ended, Dropped, Released
<1>2. /\ t = gil /\ t \in Agents /\ ThreadStack(stack[t]) /\ stack[t] # <<>> /\ Idle
      /\ stack \in [Agents -> Seq(FrameSet)]
      /\ f = Last(stack[t]) /\ f \in FrameSet /\ OnThread(f)
      /\ f.op # "python" /\ f.vm \in Vms /\ f.stage = "run"
  BY <1>1, InRust DEF Inv
<1>3. /\ c \in FrameSet /\ c.op = "clinit_done" /\ c.vm = f.vm /\ c.stage = "result"
      /\ g \in FrameSet /\ g.op = "field" /\ g.vm = f.vm /\ g.stage = "lock"
  <2>1. {"clinit_done", "field"} \subseteq Ops /\ <<>> \in Seq(Library)
    BY DEF Ops, Readers
  <2>. QED  BY <1>2, <2>1 DEF Frame, FrameSet
<1>4. OnThread(c) /\ OnThread(g)
  BY <1>2, <1>3, Distinct DEF OnThread, Runners, Readers
<1>5. Held(c) = {Borrow(f.vm)} /\ Held(g) = {}
  BY <1>3 DEF Held, Holding, Mutating, Runners
<1>6. /\ Borrow(f.vm) \in Held(f) /\ Mutex(f.vm) \in Held(f) /\ Registry \notin Held(f)
      /\ \A v \in Vms : (Mutex(v) \in Held(f) => v = f.vm) /\ (Borrow(v) \in Held(f) => v = f.vm)
  BY <1>1, <1>2, HeldMeans DEF Holding, Mutating, Runners
<1>7. /\ ThreadStack(r) /\ HeldIn(r) = (HeldIn(stack[t]) \ Held(f)) \cup Held(c)
      /\ Last(r) = c /\ c.op \notin Runners
  <2>1. c.op # "python" /\ Held(c) \cap HeldIn(stack[t]) \subseteq Held(Last(stack[t]))
    BY <1>2, <1>3, <1>5, <1>6
  <2>2. c.op \notin Runners /\ Last(stack[t]).op # "python"
    BY <1>2, <1>3 DEF Runners
  <2>. HIDE DEF f, c
  <2>. QED  BY <1>2, <1>3, <1>4, <2>1, <2>2, ThreadTurn
<1>8. ThreadStack(s) /\ HeldIn(s) = HeldIn(r)
  <2>1. g.op # "python" /\ Held(g) \cap HeldIn(r) = {}
    BY <1>3, <1>5
  <2>. HIDE DEF r, g
  <2>2. ThreadStack(s) /\ HeldIn(s) = HeldIn(r) \cup Held(g)
    BY <1>3, <1>4, <1>7, <2>1, ThreadPush
  <2>. QED  BY <1>5, <2>2
<1>9. Held(f) \subseteq HeldIn(stack[t])
  BY <1>2, ThreadPop
<1>10. /\ owner \in [Vms -> Agents \cup {Free}] /\ borrowed \in [Vms -> BOOLEAN]
       /\ registry = t <=> Registry \in HeldIn(stack[t])
       /\ \A v \in Vms : owner[v] = t <=> Mutex(v) \in HeldIn(stack[t])
       /\ \A v \in Vms : Borrow(v) \in HeldIn(stack[t]) => borrowed[v]
  BY <1>2 DEF Inv, CallInv, HeldInv
<1>11. /\ \A v, u \in Vms : Mutex(v) # Borrow(u) /\ Fresh(v) # Borrow(u) /\ Registry # Borrow(u)
       /\ \A v \in Vms : Borrow(v) \in HeldIn(s) <=> Borrow(v) \in HeldIn(stack[t])
  <2>1. \A v, u \in Vms : Borrow(v) = Borrow(u) <=> v = u
    BY DEF Borrow
  <2>2. \A v, u \in Vms : Mutex(v) # Borrow(u) /\ Fresh(v) # Borrow(u) /\ Registry # Borrow(u)
    BY DEF Mutex, Borrow, Fresh, Registry
  <2>. HIDE DEF s, r, f, c
  <2>. QED  BY <1>2, <1>5, <1>6, <1>7, <1>8, <1>9, <2>1, <2>2
<1>. HIDE DEF s, r, f, c
<1>12. Moved(t, s)
  <2>1. \A v \in Vms :
          /\ Mutex(v) \in HeldIn(s) => owner'[v] = t /\ owner[v] \in {t, Free}
          /\ Mutex(v) \notin HeldIn(s) => owner'[v] = IF owner[v] = t THEN Free ELSE owner[v]
    BY <1>1, <1>2, <1>5, <1>6, <1>7, <1>8, <1>9, <1>10, <1>11
  <2>2. Registry \in HeldIn(s) <=> Registry \in HeldIn(stack[t])
    BY <1>2, <1>5, <1>6, <1>7, <1>8, <1>11
  <2>3. owner' \in [Vms -> Agents \cup {Free}]
    BY <1>1, <1>10
  <2>. QED  BY <1>1, <1>10, <1>11, <2>1, <2>2, <2>3 DEF Moved
<1>13. CallInv'
  BY <1>1, <1>2, <1>8, <1>12, ThreadMoved DEF Inv
<1>14. FreshInv'
  <2>1. \A v \in Vms : Fresh(v) \in HeldIn(s) => Fresh(v) \in HeldIn(stack[t])
    BY <1>2, <1>5, <1>7, <1>8, <1>11
  <2>. QED  BY <1>1, <1>2, <2>1, FreshKept DEF Inv, FreshInv
<1>. QED  BY <1>1, <1>13, <1>14 DEF Inv, PoisonInv, PoisonedTogether, CallsAnswerAnew

LEMMA WorkerEndsStep ==
  ASSUME Inv, NEW w \in Agents, WorkerEnds(w)
  PROVE  Inv'
<1>1. /\ At(w, "run") /\ w \in Workers /\ stack' = [stack EXCEPT ![w] = Front(@)]
      /\ UNCHANGED <<gil, borrowed, owner, poisoned, registry, broken, written, answered>>
  BY DEF WorkerEnds, Pop, Locks
<1>2. /\ WorkerStack(stack[w]) /\ stack[w] # <<>> /\ stack \in [Agents -> Seq(FrameSet)]
      /\ top(w) = Last(stack[w]) /\ top(w) \in FrameSet /\ OnWorker(top(w)) /\ top(w).stage = "run"
  BY <1>1, InWorker DEF Inv
<1>3. /\ Front(stack[w]) = <<>> /\ HeldIn(stack[w]) = Held(top(w)) /\ HeldIn(<<>>) = {}
      /\ WorkerStack(<<>>)
  BY <1>2, WorkerTop
<1>4. stack' = [stack EXCEPT ![w] = <<>>]
  BY <1>1, <1>3
<1>5. /\ \A v \in Vms : Mutex(v) \notin Held(top(w)) /\ Borrow(v) \notin Held(top(w))
      /\ Registry \notin Held(top(w))
  <2>1. top(w).vm = NoVm /\ top(w).op = "decisions" /\ \A v \in Vms : v # NoVm
    BY <1>2, Distinct DEF OnWorker
  <2>. QED  BY <1>2, <2>1, HeldMeans DEF Holding
<1>6. Moved(w, <<>>)
  <2>1. /\ owner \in [Vms -> Agents \cup {Free}] /\ borrowed \in [Vms -> BOOLEAN]
        /\ registry # w /\ \A v \in Vms : owner[v] # w
    BY <1>3, <1>5 DEF Inv, CallInv, HeldInv
  <2>. QED  BY <1>1, <1>3, <1>4, <1>5, <2>1 DEF Moved
<1>7. CallInv'
  BY <1>1, <1>2, <1>3, <1>6, WorkerMoved DEF Inv
<1>8. FreshInv'
  BY <1>1, <1>3, <1>4, FreshKept DEF Inv, FreshInv
<1>. QED  BY <1>1, <1>7, <1>8 DEF Inv, PoisonInv, PoisonedTogether, CallsAnswerAnew

\* Every worker starts, and the thread waits for them.
LEMMA SpreadStep ==
  ASSUME Inv, NEW t \in Agents, Spread(t)
  PROVE  Inv'
<1>. DEFINE f == top(t)
            g == [f EXCEPT !.stage = "join"]
            s == Append(Front(stack[t]), g)
            h == Frame("decisions", NoVm, f.body, "run")
<1>1. /\ At(t, "lock") /\ f.op = "array"
      /\ stack' = [a \in Agents |-> IF a \in Workers THEN <<h>> ELSE IF a = t THEN s ELSE stack[a]]
      /\ UNCHANGED <<gil, borrowed, owner, poisoned, registry, broken, written, answered>>
  BY DEF Spread, Locks
<1>2. t \in Threads
  BY <1>1, InWorker DEF Inv, Agents, OnWorker
<1>3. /\ t = gil /\ ThreadStack(stack[t]) /\ stack[t] # <<>> /\ Idle
      /\ stack \in [Agents -> Seq(FrameSet)]
      /\ f = Last(stack[t]) /\ f \in FrameSet /\ OnThread(f)
      /\ f.op # "python" /\ f.vm \in Vms /\ f.stage = "lock"
  BY <1>1, <1>2, InRust DEF Inv
<1>4. g \in FrameSet /\ g.op = f.op /\ g.vm = f.vm /\ g.stage = "join"
  BY <1>3, FrameChanges
<1>5. OnThread(g) /\ g.op # "python"
  BY <1>1, <1>3, <1>4 DEF OnThread, Runners, Readers
<1>6. Held(g) = Held(f)
  BY <1>3, <1>4 DEF Held, Holding
<1>7. /\ h \in FrameSet /\ h.op = "decisions" /\ h.vm = NoVm /\ h.stage = "run" /\ OnWorker(h)
  <2>1. "decisions" \in Ops /\ f.body \in Seq(Library)
    BY <1>3 DEF Ops, Mutating, Runners, FrameSet
  <2>. QED  BY <2>1 DEF Frame, FrameSet, OnWorker
<1>8. /\ Registry \notin Held(h)
      /\ \A v \in Vms : Mutex(v) \notin Held(h) /\ Borrow(v) \notin Held(h) /\ Fresh(v) \notin Held(h)
  <2>1. \A v \in Vms : v # NoVm
    BY Distinct
  <2>. QED  BY <1>7, <2>1, HeldMeans DEF Holding
<1>. HIDE DEF g, h
<1>9. WorkerStack(<<h>>) /\ HeldIn(<<h>>) = Held(h)
  BY <1>7, WorkerOf
<1>10. ThreadStack(s) /\ HeldIn(s) = HeldIn(stack[t]) /\ s # <<>> /\ Last(s) = g
  <2>. HIDE DEF f
  <2>1. Held(g) \cap HeldIn(stack[t]) \subseteq Held(Last(stack[t]))
    BY <1>3, <1>6
  <2>2. /\ ThreadStack(s) /\ s # <<>> /\ Last(s) = g
        /\ HeldIn(s) = (HeldIn(stack[t]) \ Held(Last(stack[t]))) \cup Held(g)
    BY <1>3, <1>4, <1>5, <2>1, ThreadTurn
  <2>3. Held(Last(stack[t])) \subseteq HeldIn(stack[t])
    BY <1>3, ThreadPop
  <2>. QED  BY <1>3, <1>6, <2>2, <2>3
<1>. HIDE DEF s
<1>11. /\ \A w \in Workers : w \in Agents /\ stack'[w] = <<h>> /\ stack[w] = <<>>
       /\ stack'[t] = s
       /\ \A a \in Agents : a \notin Workers /\ a # t => stack'[a] = stack[a]
       /\ \A u \in Threads : u \in Agents /\ u \notin Workers
  BY <1>1, <1>2, <1>3, Distinct DEF Idle, Agents
<1>12. StackInv'
  <2>1. <<h>> \in Seq(FrameSet) /\ s \in Seq(FrameSet)
    BY <1>7, <1>10 DEF ThreadStack, Stacked
  <2>2. stack' \in [Agents -> Seq(FrameSet)]
    BY <1>1, <1>3, <2>1
  <2>3. \A u \in Threads : ThreadStack(stack'[u])
    BY <1>10, <1>11 DEF Inv, CallInv, StackInv
  <2>4. \A w \in Workers : WorkerStack(stack'[w])
    BY <1>9, <1>11
  <2>. QED  BY <2>2, <2>3, <2>4 DEF StackInv
<1>13. GilInv'
  <2>1. \A u \in Threads : u # t => Python(u) /\ stack'[u] = stack[u]
    BY <1>3, <1>11 DEF Inv, CallInv, GilInv
  <2>2. \A u \in Threads : u # t => Python(u)'
    BY <2>1 DEF Python
  <2>3. At(t, "join")'
    BY <1>4, <1>5, <1>10, <1>11 DEF At, Python
  <2>. QED  BY <1>1, <1>2, <1>3, <2>2, <2>3 DEF GilInv
<1>14. HeldInv' /\ FreshInv'
  <2>1. HeldIn(<<>>) = {}
    BY DEF HeldIn
  <2>2. ASSUME NEW a \in Agents
        PROVE  /\ Registry \in HeldIn(stack'[a]) <=> Registry \in HeldIn(stack[a])
               /\ \A v \in Vms :
                    /\ Mutex(v) \in HeldIn(stack'[a]) <=> Mutex(v) \in HeldIn(stack[a])
                    /\ Borrow(v) \in HeldIn(stack'[a]) <=> Borrow(v) \in HeldIn(stack[a])
                    /\ Fresh(v) \in HeldIn(stack'[a]) <=> Fresh(v) \in HeldIn(stack[a])
    <3>1. CASE a \in Workers
      BY <1>8, <1>9, <1>11, <2>1, <3>1
    <3>2. CASE a \notin Workers
      <4>1. HeldIn(stack'[a]) = HeldIn(stack[a])
        BY <1>10, <1>11, <3>2
      <4>. QED  BY <4>1
    <3>. QED  BY <3>1, <3>2
  <2>3. HeldInv'
    BY <1>1, <2>2 DEF Inv, CallInv, HeldInv
  <2>4. FreshInv'
    BY <1>1, <2>2 DEF Inv, FreshInv
  <2>. QED  BY <2>3, <2>4
<1>. QED  BY <1>1, <1>12, <1>13, <1>14 DEF Inv, CallInv, PoisonInv, PoisonedTogether, CallsAnswerAnew

-----------------------------------------------------------------------------
(* Circles.                                                                *)

\* Who waits for whom is transitive, and waiting begins with one agent.
LEMMA WaitsDirectly ==
  ASSUME NEW a \in Agents, NEW b \in WaitsFor(a)
  PROVE  Waits(a, b)
  BY DEF Waits

LEMMA WaitsOn ==
  ASSUME NEW a \in Agents, NEW b \in Agents, NEW c, Waits(a, b), Waits(b, c)
  PROVE  Waits(a, c)
<1>. SUFFICES ASSUME NEW S \in SUBSET Agents, Closed(S), WaitsFor(a) \subseteq S
              PROVE  c \in S
  BY DEF Waits
<1>1. b \in S
  BY DEF Waits
<1>2. WaitsFor(b) \subseteq S
  BY <1>1 DEF Closed
<1>. QED  BY <1>2 DEF Waits

LEMMA WaitsFirst ==
  ASSUME \A x \in Agents : WaitsFor(x) \subseteq Agents,
         NEW a \in Agents, NEW c, Waits(a, c)
  PROVE  \E b \in WaitsFor(a) : b = c \/ Waits(b, c)
<1>. DEFINE S == {x \in Agents : \E b \in WaitsFor(a) : b = x \/ Waits(b, x)}
<1>1. WaitsFor(a) \subseteq S
  OBVIOUS
<1>2. ASSUME NEW x \in S, NEW y \in WaitsFor(x)
      PROVE  y \in S
  <2>1. PICK b \in WaitsFor(a) : b = x \/ Waits(b, x)
    OBVIOUS
  <2>2. b \in Agents /\ x \in Agents /\ y \in Agents
    BY <1>2
  <2>3. Waits(x, y)
    BY <1>2, <2>2, WaitsDirectly
  <2>4. Waits(b, y)
    BY <2>1, <2>2, <2>3, WaitsOn
  <2>. QED  BY <2>2, <2>4
<1>3. S \in SUBSET Agents /\ Closed(S)
  BY <1>2 DEF Closed
<1>4. c \in S
  BY <1>1, <1>3 DEF Waits
<1>. QED  BY <1>4

\* In a circle, everyone waits for another one of it.
LEMMA CircleGoesOn ==
  ASSUME \A x \in Agents : WaitsFor(x) \subseteq Agents,
         NEW a \in Agents, Waits(a, a), NEW b \in Agents, Waits(a, b), Waits(b, a)
  PROVE  \E c \in WaitsFor(b) : c \in Agents /\ Waits(a, c) /\ Waits(c, a)
<1>1. PICK c \in WaitsFor(b) : c = a \/ Waits(c, a)
  BY WaitsFirst
<1>2. c \in Agents /\ Waits(b, c)
  BY WaitsDirectly
<1>. QED  BY <1>1, <1>2, WaitsOn

LEMMA Awaited ==
  ASSUME CallInv, NEW a \in Agents
  PROVE  /\ WaitsFor(a) \subseteq Agents
         /\ Python(a) /\ WaitsFor(a) # {} => InPythonMethod(a)
         /\ ~Python(a) =>
              /\ top(a).stage = "gil" => InPythonMethod(a)
              /\ top(a).stage = "lock" =>
                   /\ a \in Threads /\ top(a).vm \in Vms
                   /\ WaitsFor(a) = {owner[top(a).vm]} \ {Free}
              /\ top(a).stage = "registry" => WaitsFor(a) = {registry} \ {Free}
              /\ top(a).stage = "join" => WaitsFor(a) \subseteq Workers
              /\ top(a).stage \notin {"lock", "registry", "join", "gil"} => WaitsFor(a) = {}
<1>1. gil \in Agents /\ registry \in Agents \cup {Free} /\ stack[a] \in Seq(FrameSet)
  BY DEF CallInv, GilInv, HeldInv, StackInv, Agents
<1>2. CASE Python(a)
  <2>1. WaitsFor(a) \subseteq Agents
    BY <1>1, <1>2 DEF WaitsFor
  <2>2. WaitsFor(a) # {} => stack[a] # <<>> /\ Last(stack[a]).op = "python"
    BY <1>2 DEF WaitsFor, Python
  <2>3. stack[a] # <<>> => Len(stack[a]) \in DOMAIN stack[a] /\ Last(stack[a]) = stack[a][Len(stack[a])]
    BY <1>1 DEF Last
  <2>. QED  BY <1>2, <2>1, <2>2, <2>3 DEF InPythonMethod
<1>3. CASE ~Python(a)
  <2>1. /\ stack[a] # <<>> /\ Len(stack[a]) \in DOMAIN stack[a]
        /\ top(a) = stack[a][Len(stack[a])] /\ At(a, top(a).stage)
    <3>1. stack[a] # <<>>
      BY <1>3 DEF Python
    <3>. QED  BY <1>1, <1>3, <3>1 DEF top, Last, At
  <2>2. top(a).stage = "gil" => InPythonMethod(a)
    BY <2>1 DEF InPythonMethod
  <2>3. ASSUME top(a).stage = "lock"
        PROVE  a \in Threads /\ top(a).vm \in Vms /\ owner[top(a).vm] \in Agents \cup {Free}
    <3>1. a \notin Workers
      BY <2>1, <2>3, InWorker DEF OnWorker
    <3>2. a \in Threads /\ top(a).vm \in Vms
      BY <2>1, <3>1, InRust DEF Agents
    <3>. QED  BY <3>2 DEF CallInv, HeldInv
  <2>4. /\ top(a).stage = "lock" => WaitsFor(a) = {owner[top(a).vm]} \ {Free}
        /\ top(a).stage = "registry" => WaitsFor(a) = {registry} \ {Free}
        /\ top(a).stage = "join" => WaitsFor(a) = {w \in Workers : stack[w] # <<>>}
        /\ top(a).stage = "gil" => WaitsFor(a) = {gil}
        /\ top(a).stage \notin {"lock", "registry", "join", "gil"} => WaitsFor(a) = {}
    BY <1>3 DEF WaitsFor
  <2>5. WaitsFor(a) \subseteq Agents
    BY <1>1, <2>3, <2>4 DEF Agents
  <2>. QED  BY <1>3, <2>2, <2>3, <2>4, <2>5
<1>. QED  BY <1>2, <1>3

\* A thread that waits for a machine's mutex and holds it has called Python code.
LEMMA OwnMutex ==
  ASSUME CallInv, NEW t \in Threads, At(t, "lock"), owner[top(t).vm] = t
  PROVE  InPythonMethod(t)
<1>1. /\ ThreadStack(stack[t]) /\ stack[t] # <<>> /\ top(t) = Last(stack[t]) /\ top(t).vm \in Vms
      /\ top(t).stage = "lock" /\ t \in Agents
  BY InRust
<1>2. Mutex(top(t).vm) \in HeldIn(stack[t])
  BY <1>1 DEF CallInv, HeldInv
<1>3. PICK i \in DOMAIN stack[t] : Mutex(top(t).vm) \in Held(stack[t][i])
  BY <1>2 DEF HeldIn
<1>4. stack[t][i].op \in Runners /\ stack[t][i].stage \in {"run", "registry"}
  BY <1>3, HeldMeans DEF Holding
<1>5. stack[t] \in Seq(FrameSet) /\ top(t) = stack[t][Len(stack[t])]
  BY <1>1 DEF ThreadStack, Stacked, Last
<1>6. i # Len(stack[t])
  BY <1>1, <1>4, <1>5
<1>7. i + 1 \in DOMAIN stack[t]
  BY <1>5, <1>6
<1>8. stack[t][i + 1].op = "python"
  BY <1>1, <1>4, <1>7 DEF ThreadStack, Stacked
<1>. QED  BY <1>7, <1>8 DEF InPythonMethod

LEMMA CirclesHaveCallbacks ==
  ASSUME CallInv, \A x \in Agents : registry = x => InPythonMethod(x)
  PROVE  CirclesNeedCallbacks
<1>. SUFFICES ASSUME NEW a \in Agents, Waits(a, a),
                     \A b \in Agents : Waits(a, b) /\ Waits(b, a) => ~InPythonMethod(b)
              PROVE  FALSE
  BY DEF CirclesNeedCallbacks, Deadlocked
<1>. DEFINE InCircle(b) == b \in Agents /\ Waits(a, b) /\ Waits(b, a)
<1>1. \A x \in Agents : WaitsFor(x) \subseteq Agents
  BY Awaited
\* Nobody of the circle is in Python code, so all are in Rust code; no one waits for the registry.
<1>2. ASSUME NEW b, InCircle(b)
      PROVE  /\ ~Python(b) /\ ~InPythonMethod(b)
             /\ \E c \in WaitsFor(b) : InCircle(c)
             /\ top(b).stage \in {"lock", "join"}
  <2>1. \E c \in WaitsFor(b) : InCircle(c)
    BY <1>1, <1>2, CircleGoesOn
  <2>2. ~InPythonMethod(b) /\ b \in Agents
    BY <1>2
  <2>3. ~Python(b)
    BY <2>1, <2>2, Awaited
  <2>4. top(b).stage \in {"lock", "registry", "join", "gil"}
    BY <2>1, <2>2, <2>3, Awaited
  <2>5. top(b).stage # "gil"
    BY <2>2, <2>3, Awaited
  <2>6. top(b).stage # "registry"
    <3>. SUFFICES ASSUME top(b).stage = "registry" PROVE FALSE
      OBVIOUS
    <3>1. PICK c \in WaitsFor(b) : InCircle(c)
      BY <2>1
    <3>2. WaitsFor(b) = {registry} \ {Free}
      BY <2>2, <2>3, Awaited
    <3>3. InPythonMethod(c)
      BY <3>1, <3>2
    <3>. QED  BY <3>1, <3>3
  <2>. QED  BY <2>1, <2>2, <2>3, <2>4, <2>5, <2>6
<1>. HIDE DEF InCircle
\* A thread's Rust code has the GIL: there is one such thread.
<1>3. ASSUME NEW b, InCircle(b), top(b).stage = "lock"
      PROVE  FALSE
  <2>0. b \in Agents /\ ~Python(b)
    BY <1>2, <1>3 DEF InCircle
  <2>1. /\ b \in Threads /\ top(b).vm \in Vms
        /\ WaitsFor(b) = {owner[top(b).vm]} \ {Free}
    BY <1>3, <2>0, Awaited
  <2>2. PICK c : InCircle(c) /\ c \in Agents /\ c = owner[top(b).vm]
    BY <1>2, <1>3, <2>1 DEF InCircle
  <2>3. c \in Threads
    <3>1. Mutex(top(b).vm) \in HeldIn(stack[c])
      BY <2>1, <2>2 DEF CallInv, HeldInv
    <3>2. PICK i \in DOMAIN stack[c] : Mutex(top(b).vm) \in Held(stack[c][i])
      BY <3>1 DEF HeldIn
    <3>3. stack[c][i].vm = top(b).vm
      BY <3>2, HeldMeans DEF Holding
    <3>4. c \in Workers => stack[c][i].vm = NoVm
      BY <3>2 DEF CallInv, StackInv, WorkerStack, OnWorker
    <3>. QED  BY <2>1, <2>2, <3>3, <3>4, Distinct DEF Agents
  <2>4. c = b
    <3>1. ~Python(c)
      BY <1>2, <2>2
    <3>. QED  BY <2>0, <2>1, <2>3, <3>1 DEF CallInv, GilInv
  <2>5. At(b, "lock")
    BY <1>3, <2>0 DEF At, top
  <2>6. InPythonMethod(b)
    BY <2>1, <2>2, <2>4, <2>5, OwnMutex
  <2>. QED  BY <1>2, <1>3, <2>6
\* Workers do not wait for each other.
<1>4. ASSUME NEW b, InCircle(b), top(b).stage = "join"
      PROVE  FALSE
  <2>0. b \in Agents /\ ~Python(b)
    BY <1>2, <1>4 DEF InCircle
  <2>1. WaitsFor(b) \subseteq Workers
    BY <1>4, <2>0, Awaited
  <2>2. PICK c \in Workers : InCircle(c)
    BY <1>2, <1>4, <2>1
  <2>3. ~Python(c) /\ top(c).stage \in {"lock", "join"}
    BY <1>2, <2>2
  <2>4. At(c, top(c).stage)
    BY <2>3 DEF At, top
  <2>. QED  BY <2>3, <2>4, InWorker DEF OnWorker
<1>5. InCircle(a)
  BY DEF InCircle
<1>. QED  BY <1>2, <1>3, <1>4, <1>5

-----------------------------------------------------------------------------
(* The theorems.                                                           *)

LEMMA InitHolds == Init => Inv
<1>. SUFFICES ASSUME Init PROVE Inv
  OBVIOUS
<1>1. stack = [a \in Agents |-> <<>>] /\ \A a \in Agents : stack[a] = <<>>
  BY DEF Init
<1>2. HeldIn(<<>>) = {} /\ ThreadStack(<<>>) /\ WorkerStack(<<>>) /\ <<>> \in Seq(FrameSet)
  BY DEF HeldIn, ThreadStack, WorkerStack, Stacked
<1>3. StackInv
  BY <1>1, <1>2 DEF StackInv, Agents
<1>4. GilInv
  BY <1>1 DEF Init, GilInv, Python, Agents
<1>5. HeldInv
  BY <1>1, <1>2, Distinct DEF Init, HeldInv
<1>6. FreshInv /\ PoisonInv /\ CallsAnswerAnew
  BY <1>1, <1>2 DEF Init, FreshInv, PoisonInv, PoisonedTogether, CallsAnswerAnew
<1>. QED  BY <1>3, <1>4, <1>5, <1>6 DEF Inv, CallInv

LEMMA BodiesAreCalls == Bodies \subseteq Seq(Library) /\ \A c \in Classes : <<c>> \in Seq(Library)
<1>1. UNION {Range(b) : b \in Bodies} \subseteq Library /\ Classes \subseteq Library
  BY DEF Library
<1>2. ASSUME NEW b \in Bodies PROVE b \in Seq(Library)
  <2>. DEFINE S == UNION {Range(x) : x \in Bodies}
  <2>. HIDE DEF S
  <2>1. b \in Seq(S) /\ S \subseteq Library
    BY <1>1, BodiesAssumption DEF S
  <2>2. Len(b) \in Nat /\ b \in [1 .. Len(b) -> Library]
    BY <2>1
  <2>. QED  BY <2>2, SeqDef
<1>. QED  BY <1>1, <1>2

LEMMA RustStep ==
  ASSUME Inv, NEW a \in Agents, Rust(a)
  PROVE  Inv'
<1>1. CASE Invoke(a) \/ Builtin(a) \/ Callback(a) \/ LockVm(a) \/ Spread(a) \/ WorkerEnds(a)
  BY <1>1, InvokeStep, BuiltinStep, CallbackStep, LockVmStep, SpreadStep, WorkerEndsStep
<1>2. CASE /\ \/ Refused(a) \/ Read(a) \/ Register(a) \/ FieldRead(a)
              \/ Answer(a) \/ Fail(a) \/ Panic(a) \/ Join(a)
           /\ a \in Threads
  BY <1>2, EndStep
<1>3. CASE ThenField(a)
  BY <1>3, ThenFieldStep DEF ThenField, Ended
<1>4. CASE /\ Refused(a) \/ Read(a) \/ Register(a) \/ FieldRead(a) \/ Join(a)
           /\ a \in Workers
  <2>1. \/ At(a, "lock") \/ At(a, "result") \/ At(a, "join")
        \/ At(a, "registry") /\ top(a).op = "register"
    BY <1>4 DEF Refused, Read, Register, FieldRead, Join
  <2>2. ~At(a, "lock") /\ ~At(a, "result") /\ ~At(a, "join")
    BY <1>4, InWorker DEF Inv, OnWorker
  <2>3. At(a, "registry") => top(a).op = "decisions"
    BY <1>4, InWorker DEF Inv, OnWorker
  <2>. QED  BY <2>1, <2>2, <2>3
<1>5. Answer(a) \/ Fail(a) \/ Panic(a) => a \in Threads
  BY DEF Answer, Fail, Panic, Ended, Failing
<1>. QED  BY <1>1, <1>2, <1>3, <1>4, <1>5 DEF Rust, Agents

LEMMA BeginsStep ==
  ASSUME Inv, NEW t \in Threads, Begins(t)
  PROVE  Inv'
<1>1. CASE \E op \in Runners \cup {"array"}, v \in Vms, body \in Bodies : Begin(t, op, v, body)
  <2>1. PICK op \in Runners \cup {"array"}, v \in Vms, body \in Bodies : Begin(t, op, v, body)
    BY <1>1
  <2>2. op \in Mutating \cup Readers /\ op # "register" /\ body \in Seq(Library)
    BY BodiesAreCalls DEF Mutating, Runners
  <2>. QED  BY <2>1, <2>2, BeginStep
<1>2. CASE \E op \in Readers, v \in Vms : Begin(t, op, v, <<>>)
  <2>1. PICK op \in Readers, v \in Vms : Begin(t, op, v, <<>>)
    BY <1>2
  <2>2. op # "register" /\ <<>> \in Seq(Library)
    BY DEF Readers
  <2>. QED  BY <2>1, <2>2, BeginStep
<1>3. CASE \E v \in Vms, c \in Classes : Begin(t, "register", v, <<c>>)
  <2>1. PICK v \in Vms, c \in Classes : Begin(t, "register", v, <<c>>)
    BY <1>3
  <2>2. "register" \in Mutating /\ <<c>> \in Seq(Library) /\ <<c>> # <<>>
    BY BodiesAreCalls DEF Mutating
  <2>. QED  BY <2>1, <2>2, BeginStep
<1>. QED  BY <1>1, <1>2, <1>3 DEF Begins

LEMMA InvCorrect == Spec => []Inv
<1>1. Inv /\ [Next]_vars => Inv'
  <2>. SUFFICES ASSUME Inv, [Next]_vars PROVE Inv'
    OBVIOUS
  <2>1. ASSUME NEW t \in Threads, Begins(t) \/ Switch(t) \/ SetResult(t) \/ Return(t) \/ Raise(t)
        PROVE  Inv'
    BY <2>1, BeginsStep, SwitchStep, SetResultStep, ReturnStep, RaiseStep
  <2>2. ASSUME NEW a \in Agents, Rust(a) PROVE Inv'
    BY <2>2, RustStep
  <2>3. CASE UNCHANGED vars
    BY <2>3 DEF vars, Inv, CallInv, StackInv, GilInv, HeldInv, FreshInv, PoisonInv, Python, At, top,
                PoisonedTogether, CallsAnswerAnew
  <2>. QED  BY <2>1, <2>2, <2>3 DEF Next
<1>. QED  BY <1>1, InitHolds, PTL DEF Spec

\* Mutexes and borrows are held by the calls under way that took them, and by nothing else.
THEOREM HeldCorrect == Spec => []HeldAsLongAsNeeded
<1>1. Inv => HeldAsLongAsNeeded
  <2>. SUFFICES ASSUME Inv PROVE HeldAsLongAsNeeded
    OBVIOUS
  <2>1. ASSUME NEW a \in Agents
        PROVE  /\ Registry \in HeldIn(stack[a]) <=> InPythonMethod(a)
               /\ \A v \in Vms :
                    /\ Mutex(v) \in HeldIn(stack[a]) <=> \E f \in Frames(a) : Holding(f, v)
                    /\ Borrow(v) \in HeldIn(stack[a]) <=>
                         \E f \in Frames(a) : f.vm = v /\ f.op \in Mutating \cup {"clinit_done"}
    <3>1. Registry \in HeldIn(stack[a]) <=> InPythonMethod(a)
      BY HeldMeans DEF HeldIn, InPythonMethod
    <3>2. ASSUME NEW v \in Vms
          PROVE  /\ Mutex(v) \in HeldIn(stack[a]) <=> \E f \in Frames(a) : Holding(f, v)
                 /\ Borrow(v) \in HeldIn(stack[a]) <=>
                      \E f \in Frames(a) : f.vm = v /\ f.op \in Mutating \cup {"clinit_done"}
      BY HeldMeans DEF HeldIn, Frames, Range
    <3>. QED  BY <3>1, <3>2
  <2>. QED  BY <2>1 DEF Inv, CallInv, HeldInv, HeldAsLongAsNeeded
<1>. QED  BY <1>1, InvCorrect, PTL

\* A poisoned registry comes with a poisoned machine.
THEOREM PoisonedCorrect == Spec => []PoisonedTogether
<1>1. Inv => PoisonedTogether
  BY DEF Inv, PoisonInv
<1>. QED  BY <1>1, InvCorrect, PTL

\* A method that is called answers with its own result.
THEOREM AnswersCorrect == Spec => []CallsAnswerAnew
<1>1. Inv => CallsAnswerAnew
  BY DEF Inv
<1>. QED  BY <1>1, InvCorrect, PTL

\* The mutexes alone cannot deadlock: where agents wait in a circle, one of them is in the
\* method of a registered class, or about to run it.
THEOREM CirclesCorrect == Spec => []CirclesNeedCallbacks
<1>1. Inv => CirclesNeedCallbacks
  <2>. SUFFICES ASSUME Inv PROVE CirclesNeedCallbacks
    OBVIOUS
  <2>1. ASSUME NEW x \in Agents, registry = x
        PROVE  InPythonMethod(x)
    <3>1. Registry \in HeldIn(stack[x])
      BY <2>1 DEF Inv, CallInv, HeldInv
    <3>. QED  BY <3>1, HeldMeans DEF HeldIn, InPythonMethod
  <2>. QED  BY <2>1, CirclesHaveCallbacks DEF Inv
<1>. QED  BY <1>1, InvCorrect, PTL
=============================================================================
