------------------------ MODULE DiscoveryCalls_proofs ------------------------
(***************************************************************************)
(* Proofs about the machine's stack in Discovery: however often discovery  *)
(* goes on, invokes stop at the limit; and until the first failure the     *)
(* frames are a chain of calls, stops name the method that is executed,    *)
(* the strings noted are those of the discovered method, arguments are     *)
(* reported once, what is put into the class's fields is noted, and so is  *)
(* what is passed on in direct execution.  Last, a method that does the    *)
(* same each time takes the same course when it is discovered again.       *)
(***************************************************************************)
EXTENDS Discovery_proofs, Lists_proofs

-----------------------------------------------------------------------------
(* The depth of calls.                                                     *)

\* What a step may do to the frames.
LEMMA FramesStep ==
  ASSUME IInv, [Next]_vars
  PROVE  \/ frames' = frames \/ frames' = <<>>
         \/ frames # <<>> /\ frames' = Front(frames)
         \/ \E f : frames' = Append(frames, f)
                   /\ (Len(frames) <= MaxFrames \/ f.mode = "running_init")
<1>1. CASE Emulate
  <2>1. CASE ReturnVoid \/ Return
    BY <2>1 DEF ReturnVoid, Return, Resume, Finish
  <2>2. CASE InvokeCode \/ InvokeFails \/ BuiltinFails
    BY <2>2 DEF InvokeCode, InvokeFails, BuiltinFails, Pass
  <2>3. CASE RunInitializer
    <3>1. Turn({"sget"}) /\ frames' = Append(frames, [me EXCEPT !.mode = "running_init"])
      BY <2>3 DEF RunInitializer
    <3>2. [me EXCEPT !.mode = "running_init"].mode = "running_init"
      BY <3>1, MeType DEF Turn, StateOK, State
    <3>. QED  BY <3>1, <3>2
  <2>4. CASE TooManySteps \/ Data \/ DataFails \/ MoveResult \/ FilledNewArray \/ Nop \/ Goto
             \/ If \/ Switch \/ BranchFails \/ Throw \/ ReturnStops \/ InvokeStops
             \/ InvokeTooDeep \/ InvokeBuiltin \/ StaticGet \/ PutStops \/ StaticPut
             \/ PutFails \/ StaticPutInt
    BY <2>4 DEF TooManySteps, Data, DataFails, MoveResult, FilledNewArray, Nop, Goto, If, Switch,
                BranchFails, Throw, ReturnStops, InvokeStops, InvokeTooDeep, InvokeBuiltin,
                StaticGet, PutStops, StaticPut, PutFails, StaticPutInt
  <2>. QED  BY <1>1, <2>1, <2>2, <2>3, <2>4 DEF Emulate, Step
<1>2. CASE First \/ Second
  BY <1>2 DEF First, Second, Discover, Start
<1>3. CASE OnBreakpoint \/ OnError \/ NextMethod \/ DiscoveryEnd \/ UNCHANGED vars
  BY <1>3 DEF OnBreakpoint, OnError, NextMethod, DiscoveryEnd, ContinueExecution, vars, vmVars
<1>. QED  BY <1>1, <1>2, <1>3 DEF Next

LEMMA DepthStep == IInv /\ CallDepthBounded /\ [Next]_vars => CallDepthBounded'
<1> SUFFICES ASSUME IInv, CallDepthBounded, [Next]_vars  PROVE CallDepthBounded'
  OBVIOUS
<1>1. frames \in Seq(State) /\ Len(frames) \in Nat /\ MaxFrames \in Nat
  BY BoundsAssumption DEF IInv, FramesOK
<1>2. CASE frames' = frames \/ frames' = <<>>
  BY <1>2 DEF CallDepthBounded
<1>3. CASE frames # <<>> /\ frames' = Front(frames)
  BY <1>1, <1>3, PopType DEF CallDepthBounded
<1>4. ASSUME NEW f, frames' = Append(frames, f),
             Len(frames) <= MaxFrames \/ f.mode = "running_init"
      PROVE  CallDepthBounded'
  <2>1. SUFFICES ASSUME NEW i \in DOMAIN frames', i > MaxFrames + 1
                 PROVE  frames'[i].mode = "running_init"
    BY DEF CallDepthBounded
  <2>2. CASE i = Len(frames) + 1
    BY <1>1, <1>4, <2>1, <2>2
  <2>3. CASE i # Len(frames) + 1
    <3>1. i \in DOMAIN frames /\ frames'[i] = frames[i]
      BY <1>1, <1>4, <2>1, <2>3
    <3>. QED  BY <2>1, <3>1 DEF CallDepthBounded
  <2>. QED  BY <2>2, <2>3
<1>. QED  BY <1>2, <1>3, <1>4, FramesStep

\* However often discovery goes on after a failure, which leaves frames behind, no
\* invoke is found on the stack above the limit: only initialisers are.
THEOREM CallDepthCorrect == Spec => []CallDepthBounded
<1>1. Init => CallDepthBounded
  BY DEF Init, NewMachine, CallDepthBounded
<1>. QED  BY <1>1, DepthStep, InvCorrect, PTL DEF Spec

-----------------------------------------------------------------------------
(* The chain of calls.                                                     *)

Chain(fs, c) ==
  \A i \in DOMAIN fs :
    fs[i].code = fs[i].method /\ IsCallOf(fs[i], IF i = Len(fs) THEN c ELSE fs[i + 1])

\* Where the machine is: the instruction executed, or to be executed after a stop, is
\* the one at the program counter; failures are not clean.
Flow ==
  /\ cur.code = cur.method
  /\ result = Running => at = cur.pc /\ (cur.mode = "running_init" => ins.op = "sget")
  /\ result.kind = "breakpoint" => result.pc = cur.pc
  /\ result # Error

CallInv == clean => Chain(frames, cur) /\ Flow

LEMMA CallInvImpliesChain == CallInv => StackIsChainOfCalls
BY DEF CallInv, Chain, Flow, StackIsChainOfCalls

\* The chain depends on the program and on the code of the state on top.
LEMMA ChainKept ==
  ASSUME prog' = prog, NEW c, NEW fs, Chain(fs, c), frames' = fs, cur'.code = c.code
  PROVE  Chain(frames, cur)'
BY DEF Chain, IsCallOf, Loaded, Code

LEMMA ChainPop ==
  ASSUME IInv, frames # <<>>, Chain(frames, cur)
  PROVE  /\ Chain(Front(frames), Last(frames))
         /\ Last(frames).code = Last(frames).method
         /\ IsCallOf(Last(frames), cur)
<1>1. frames \in Seq(State) /\ Len(frames) \in Nat \ {0}
  BY DEF IInv, FramesOK
<1>2. Last(frames).code = Last(frames).method /\ IsCallOf(Last(frames), cur)
  BY <1>1, PopType DEF Chain
<1>3. ASSUME NEW i \in DOMAIN Front(frames)
      PROVE  /\ Front(frames)[i].code = Front(frames)[i].method
             /\ IsCallOf(Front(frames)[i],
                  IF i = Len(Front(frames)) THEN Last(frames) ELSE Front(frames)[i + 1])
  <2>1. i \in 1 .. Len(frames) - 1 /\ i \in DOMAIN frames /\ i # Len(frames)
    BY <1>1, PopType
  <2>2. frames[i].code = frames[i].method /\ IsCallOf(frames[i], frames[i + 1])
    BY <2>1 DEF Chain
  <2>3. Front(frames)[i] = frames[i]
    BY <2>1, PopType
  <2>4. (IF i = Len(Front(frames)) THEN Last(frames) ELSE Front(frames)[i + 1]) = frames[i + 1]
    BY <1>1, <2>1, PopType
  <2>. QED  BY <2>2, <2>3, <2>4
<1>. QED  BY <1>2, <1>3 DEF Chain

LEMMA ChainPush ==
  ASSUME IInv, Chain(frames, cur), NEW f \in State, f.code = cur.code, f.code = f.method,
         NEW c, IsCallOf(f, c)
  PROVE  Chain(Append(frames, f), c)
<1>1. frames \in Seq(State) /\ Len(frames) \in Nat
  BY DEF IInv, FramesOK
<1> DEFINE fs == Append(frames, f)
<1>2. /\ Len(fs) = Len(frames) + 1 /\ fs[Len(frames) + 1] = f
      /\ \A i \in 1 .. Len(frames) : fs[i] = frames[i]
      /\ DOMAIN fs = 1 .. Len(frames) + 1
  BY <1>1
<1> HIDE DEF fs
<1>3. ASSUME NEW i \in DOMAIN fs
      PROVE  /\ fs[i].code = fs[i].method
             /\ IsCallOf(fs[i], IF i = Len(fs) THEN c ELSE fs[i + 1])
  <2>1. CASE i = Len(frames) + 1
    BY <1>2, <2>1
  <2>2. CASE i = Len(frames)
    <3>1. i \in DOMAIN frames /\ fs[i] = frames[i] /\ fs[i + 1] = f /\ i # Len(fs)
      BY <1>1, <1>2, <1>3, <2>2
    <3>2. frames[i].code = frames[i].method /\ IsCallOf(frames[i], cur)
      BY <2>2, <3>1 DEF Chain
    <3>3. IsCallOf(frames[i], f)
      BY <3>2 DEF IsCallOf
    <3>. QED  BY <3>1, <3>2, <3>3
  <2>3. CASE i \in 1 .. Len(frames) - 1
    <3>1. i \in DOMAIN frames /\ fs[i] = frames[i] /\ fs[i + 1] = frames[i + 1]
          /\ i # Len(fs) /\ i # Len(frames)
      BY <1>1, <1>2, <2>3
    <3>2. frames[i].code = frames[i].method /\ IsCallOf(frames[i], frames[i + 1])
      BY <3>1 DEF Chain
    <3>. QED  BY <3>1, <3>2
  <2>. QED  BY <1>1, <1>2, <1>3, <2>1, <2>2, <2>3
<1>. QED  BY <1>3 DEF Chain, fs

-----------------------------------------------------------------------------
(* What each turn does to the chain.                                       *)

\* A turn that goes on in the state c on top of the frames fs.
LEMMA GoOnCalls ==
  ASSUME prog' = prog, NEW fs, NEW c, Chain(fs, c), frames' = fs, c.code = c.method,
         result = Running, Fetch(c),
         c.mode = "running_init" =>
           (c.pc \in DOMAIN Loaded(c) => Loaded(c)[c.pc].op = "sget")
  PROVE  CallInv'
<1>1. cur' = c
  BY DEF Fetch
<1>2. Chain(frames, cur)'
  BY <1>1, ChainKept
<1>3. Loaded(cur)' = Loaded(c)
  BY <1>1 DEF Loaded, Code
<1>4. CASE c.pc \in DOMAIN Loaded(c)
  <2>1. result' = Running /\ at' = c.pc /\ ins' = Loaded(c)[c.pc]
    BY <1>3, <1>4 DEF Fetch, ins
  <2>2. Flow'
    BY <1>1, <1>4, <2>1, ResultsDiffer DEF Flow
  <2>. QED  BY <1>2, <2>2 DEF CallInv
<1>5. CASE c.pc \notin DOMAIN Loaded(c)
  <2>1. result' = NoInstruction
    BY <1>5 DEF Fetch
  <2>2. Flow'
    BY <1>1, <2>1, ResultsDiffer DEF Flow
  <2>. QED  BY <1>2, <2>2 DEF CallInv
<1>. QED  BY <1>4, <1>5

\* The end of a turn in a state that is not about to repeat a sget.
LEMMA AdvanceCalls ==
  ASSUME prog' = prog, NEW fs, NEW c \in State, Chain(fs, c), frames' = fs,
         c.code = c.method, result = Running, NEW size, Advance(c, size),
         c.mode # "running_init"
  PROVE  CallInv'
<1> DEFINE d == [c EXCEPT !.pc = @ + size]
<1>1. Fetch(d) /\ d.code = c.code /\ d.method = c.method /\ d.mode = c.mode
  BY DEF Advance, State
<1> HIDE DEF d
<1>2. Chain(fs, d)
  BY <1>1 DEF Chain, IsCallOf
<1>. QED  BY <1>1, <1>2, GoOnCalls

\* A turn that ends with a result other than a failure, in the same code.
LEMMA StopCalls ==
  ASSUME prog' = prog, CallInv, frames' = frames, clean' = clean,
         NEW c, cur' = c, c.code = cur.code, c.method = cur.method, c.pc = cur.pc,
         result' # Running, result' # Error,
         result'.kind = "breakpoint" => result'.pc = cur.pc
  PROVE  CallInv'
<1>1. CASE clean
  <2>1. Chain(frames, cur) /\ Flow
    BY <1>1 DEF CallInv
  <2>2. Chain(frames, cur)'
    BY <2>1, ChainKept
  <2>3. Flow'
    BY <2>1 DEF Flow
  <2>. QED  BY <2>2, <2>3 DEF CallInv
<1>2. CASE ~clean
  BY <1>2 DEF CallInv
<1>. QED  BY <1>1, <1>2

\* What holds at an instruction before the first failure.
LEMMA AtInstruction ==
  ASSUME IInv, CallInv, NEW ops, Turn(ops), clean
  PROVE  /\ prog' = prog /\ result = Running /\ ins.op \in ops
         /\ Chain(frames, cur) /\ cur.code = cur.method /\ at = cur.pc
         /\ me \in State /\ me.code = cur.code /\ me.method = cur.method
         /\ me.mode = cur.mode /\ me.pc = cur.pc
         /\ cur.pc \in DOMAIN Loaded(cur) /\ ins = Loaded(cur)[cur.pc]
         /\ "sget" \notin ops => cur.mode # "running_init"
<1>1. prog' = prog /\ result = Running /\ ins.op \in ops
  BY DEF Turn
<1>2. Chain(frames, cur) /\ Flow
  BY DEF CallInv
<1>3. me \in State /\ me.code = cur.code /\ me.method = cur.method
      /\ me.mode = cur.mode /\ me.pc = cur.pc
  BY <1>1, MeType DEF StateOK
<1>4. at \in DOMAIN Loaded(cur)
  BY <1>1 DEF IInv, PlaceOK
<1>. QED  BY <1>1, <1>2, <1>3, <1>4 DEF Flow, ins

\* Instructions that go on in the same frame.
LEMMA MoveCalls ==
  ASSUME IInv, CallInv, NEW ops, Turn(ops), frames' = frames, clean' = clean,
         NEW c \in State, c.code = cur.code, c.method = cur.method,
         c.mode # "running_init" \/ ("sget" \notin ops /\ c.mode = cur.mode),
         Fetch(c) \/ \E size : Advance(c, size)
  PROVE  CallInv'
<1>1. CASE clean
  <2>1. c.mode # "running_init"
    BY <1>1, AtInstruction
  <2>2. Chain(frames, c) /\ c.code = c.method
    BY <1>1, AtInstruction DEF Chain, IsCallOf
  <2>. QED  BY <1>1, <2>1, <2>2, AtInstruction, GoOnCalls, AdvanceCalls
<1>2. CASE ~clean
  BY <1>2 DEF CallInv
<1>. QED  BY <1>1, <1>2

LEMMA FailureCalls ==
  ASSUME IInv, TooManySteps \/ DataFails \/ BranchFails \/ Throw \/ InvokeTooDeep
                 \/ InvokeFails \/ BuiltinFails \/ PutFails
  PROVE  CallInv'
<1>1. clean' = FALSE
  BY DEF TooManySteps, DataFails, BranchFails, Throw, InvokeTooDeep, InvokeFails, BuiltinFails,
         PutFails, Fails
<1>. QED  BY <1>1 DEF CallInv

LEMMA DataCalls ==
  ASSUME IInv, CallInv,
         Data \/ MoveResult \/ FilledNewArray \/ Nop \/ Goto \/ If \/ Switch \/ StaticPutInt
  PROVE  CallInv'
<1>1. PICK ops \in {DataOps, {"move_result"}, {"filled_new_array"}, {"nop"}, {"goto"},
                    {"if", "test"}, {"switch"}, {"sput_int"}} : Turn(ops)
  BY DEF Data, MoveResult, FilledNewArray, Nop, Goto, If, Switch, StaticPutInt
<1>2. "sget" \notin ops /\ frames' = frames /\ clean' = clean
  BY <1>1 DEF Data, MoveResult, FilledNewArray, Nop, Goto, If, Switch, StaticPutInt,
              DataOps, Unary, Binary
<1>3. StateOK(me) /\ me \in State
  BY <1>1, MeType DEF Turn, StateOK
<1>4. me.code = cur.code /\ me.method = cur.method /\ me.mode = cur.mode
  BY <1>1, MeType DEF Turn
<1>5. ASSUME NEW c, c \in State, c.code = me.code, c.method = me.method, c.mode = me.mode,
             Fetch(c) \/ \E size : Advance(c, size)
      PROVE  CallInv'
  BY <1>1, <1>2, <1>4, <1>5, MoveCalls
<1>6. CASE Data
  <2>1. result = Running /\ ins.op \in DataOps /\ ins.reg \in Nat
    BY <1>6, InsType DEF Data, Turn, WellFormed
  <2>2. PICK v \in Outcomes \ Failures :
          Advance(IF v = "kept" THEN me ELSE [me EXCEPT !.regs[ins.reg] = v], ins.size)
    BY <1>6 DEF Data
  <2>3. CASE v = "kept"
    BY <1>3, <1>5, <2>2, <2>3
  <2>4. CASE v # "kept"
    <3> DEFINE c == [me EXCEPT !.regs[ins.reg] = v]
    <3>1. v \in Values
      BY <2>1, <2>2, <2>4, OutcomesType
    <3>2. StateOK(c) /\ c.code = me.code /\ c.mode = me.mode
      BY <1>3, <2>1, <3>1, SetReg
    <3>3. c.method = me.method
      BY <1>3 DEF State
    <3>4. Advance(c, ins.size)
      BY <2>2, <2>4
    <3> HIDE DEF c
    <3>. QED  BY <1>5, <3>2, <3>3, <3>4 DEF StateOK
  <2>. QED  BY <2>3, <2>4
<1>7. CASE MoveResult
  <2> DEFINE b == [me EXCEPT !.regs[ins.reg] = cur.ret]
             c == [b EXCEPT !.ret = "empty"]
  <2>1. Turn({"move_result"}) /\ ins.op = "move_result" /\ Advance(c, ins.size)
    BY <1>7 DEF MoveResult, Turn
  <2>2. ins.reg \in Nat /\ cur.ret \in Values
    BY <2>1, InsType DEF WellFormed, Turn, IInv, StateOK, State
  <2>3. StateOK(b) /\ b.code = me.code /\ b.mode = me.mode
    BY <1>3, <2>2, SetReg
  <2>4. b.method = me.method
    BY <1>3 DEF State
  <2> HIDE DEF b
  <2>5. StateOK(c)
    BY <2>3, SetRet, ValueNames
  <2>6. c.code = me.code /\ c.mode = me.mode /\ c.method = me.method
    BY <2>3, <2>4 DEF StateOK, State
  <2> HIDE DEF c
  <2>. QED  BY <1>5, <2>1, <2>5, <2>6 DEF StateOK
<1>8. CASE Nop \/ StaticPutInt \/ (Switch /\ Advance(me, ins.size))
  BY <1>3, <1>5, <1>8 DEF Nop, StaticPutInt
<1>9. CASE FilledNewArray
  <2> DEFINE c == [me EXCEPT !.ret = "array"]
  <2>1. c \in State /\ c.code = me.code /\ c.mode = me.mode /\ c.method = me.method
    BY <1>3, ValueNames DEF State
  <2>2. Advance(c, ins.size)
    BY <1>9 DEF FilledNewArray
  <2> HIDE DEF c
  <2>. QED  BY <1>5, <2>1, <2>2
<1>10. CASE Goto \/ If \/ (Switch /\ ~Advance(me, ins.size))
  <2>1. PICK d \in {ins.off, ins.size} : Fetch([me EXCEPT !.pc = @ + d])
    BY <1>10 DEF Goto, If, Switch
  <2>2. d \in Int
    BY <1>1, InsType DEF WellFormed, Turn
  <2> DEFINE c == [me EXCEPT !.pc = @ + d]
  <2>3. /\ c \in State /\ c.code = me.code /\ c.mode = me.mode /\ c.method = me.method
    BY <1>3, <2>2 DEF State
  <2> HIDE DEF c
  <2>4. Fetch(c)
    BY <2>1 DEF c
  <2>. QED  BY <1>5, <2>3, <2>4
<1>. QED  BY <1>6, <1>7, <1>8, <1>9, <1>10

LEMMA StoppingCalls ==
  ASSUME IInv, CallInv, ReturnStops \/ PutStops \/ InvokeStops  PROVE CallInv'
<1>1. PICK ops \in {{"return"}, {"sput"}, Invokes} : Turn(ops)
  BY DEF ReturnStops, PutStops, InvokeStops
<1>2. frames' = frames /\ clean' = clean /\ prog' = prog
  BY <1>1 DEF ReturnStops, PutStops, InvokeStops, Turn
<1>3. PICK m, of, i : result' = Breakpoint(cur.pc, m, of, i)
  BY DEF ReturnStops, PutStops, InvokeStops
<1>4. result'.kind = "breakpoint" /\ result'.pc = cur.pc
  BY <1>3 DEF Breakpoint
<1>5. result' # Running /\ result' # Error
  BY <1>4, ResultsDiffer
<1>6. me \in State /\ me.code = cur.code /\ me.method = cur.method /\ me.pc = cur.pc
  BY <1>1, MeType DEF Turn, StateOK
<1>7. cur'.code = cur.code /\ cur'.method = cur.method /\ cur'.pc = cur.pc
  BY <1>6 DEF ReturnStops, PutStops, InvokeStops, State
<1>. QED  BY <1>2, <1>4, <1>5, <1>7, StopCalls

\* Resuming the frame on top: a sget whose initialiser returned is repeated, an invoke
\* is left behind.
LEMMA ResumingCalls ==
  ASSUME IInv, CallInv, NEW ops, Turn(ops), clean' = clean, frames # <<>>,
         NEW c \in State, c.code = Last(frames).code, c.method = Last(frames).method,
         c.pc = Last(frames).pc, c.mode = Last(frames).mode, Resume(c)
  PROVE  CallInv'
<1>1. CASE clean
  <2>1. Chain(Front(frames), Last(frames)) /\ c.code = c.method /\ IsCallOf(Last(frames), cur)
    BY <1>1, AtInstruction, ChainPop
  <2>2. Chain(Front(frames), c)
    BY <2>1 DEF Chain, IsCallOf
  <2>3. Loaded(Last(frames)) = Loaded(c)
    BY DEF Loaded
  <2>4. c.pc \in DOMAIN Loaded(c)
        /\ (c.mode = "running_init" => Loaded(c)[c.pc].op = "sget")
    BY <2>1, <2>3 DEF IsCallOf
  <2>5. frames' = Front(frames) /\ Advance(c, Loaded(c)[c.pc].size)
    BY <2>4 DEF Resume
  <2>6. CASE c.mode = "running_init"
    <3>1. Fetch(c)
      BY <2>5, <2>6 DEF Advance
    <3>. QED  BY <1>1, <2>1, <2>2, <2>4, <2>5, <3>1, AtInstruction, GoOnCalls
  <2>7. CASE c.mode # "running_init"
    BY <1>1, <2>1, <2>2, <2>5, <2>7, AtInstruction, AdvanceCalls
  <2>. QED  BY <2>6, <2>7
<1>2. CASE ~clean
  BY <1>2 DEF CallInv
<1>. QED  BY <1>1, <1>2

LEMMA FinishingCalls ==
  ASSUME IInv, CallInv, NEW ops, Turn(ops), clean' = clean,
         NEW c \in State, c.code = cur.code, c.method = cur.method, c.pc = cur.pc, Finish(c)
  PROVE  CallInv'
<1> DEFINE d == [c EXCEPT !.mode = "finished"]
<1>1. cur' = d /\ result' = Ok /\ frames' = frames /\ prog' = prog
  BY DEF Finish, Turn
<1>2. d.code = cur.code /\ d.method = cur.method /\ d.pc = cur.pc
  BY DEF State
<1> HIDE DEF d
<1>. QED  BY <1>1, <1>2, ResultsDiffer, StopCalls

LEMMA ReturningCalls == ASSUME IInv, CallInv, ReturnVoid \/ Return  PROVE CallInv'
<1> DEFINE v == cur.regs[ins.reg]
<1>1. PICK ops \in {{"return_void"}, {"return"}} : Turn(ops)
  BY DEF ReturnVoid, Return
<1>2. clean' = clean
  BY DEF ReturnVoid, Return
<1>3. me \in State /\ me.code = cur.code /\ me.method = cur.method /\ me.pc = cur.pc
  BY <1>1, MeType DEF Turn, StateOK
<1>4. CASE ReturnVoid
  <2>1. CASE frames # <<>>
    BY <1>1, <1>2, <1>4, <2>1, PopType, ResumingCalls DEF ReturnVoid, StateOK
  <2>2. CASE frames = <<>>
    BY <1>1, <1>2, <1>3, <1>4, <2>2, FinishingCalls DEF ReturnVoid
  <2>. QED  BY <2>1, <2>2
<1>5. CASE Return
  <2>1. v \in Values
    <3>1. Turn({"return"}) /\ ins.op = "return" /\ result = Running
      BY <1>5 DEF Return, Turn
    <3>2. ins.reg \in Nat /\ ins.reg < MethodOf[cur.code].regs
      BY <3>1, InsType DEF WellFormed
    <3>. QED  BY <3>1, <3>2, RegisterType
  <2> HIDE DEF v
  <2>2. CASE frames # <<>>
    <3> DEFINE c == [Last(frames) EXCEPT !.ret = v]
    <3>1. Resume(c)
      BY <1>5, <2>2 DEF Return, v
    <3>2. Last(frames) \in State
      BY <2>2, PopType DEF StateOK
    <3>3. c \in State /\ c.code = Last(frames).code /\ c.method = Last(frames).method
          /\ c.pc = Last(frames).pc /\ c.mode = Last(frames).mode
      BY <2>1, <3>2 DEF State
    <3> HIDE DEF c
    <3>. QED  BY <1>1, <1>2, <2>2, <3>1, <3>3, ResumingCalls
  <2>3. CASE frames = <<>>
    <3> DEFINE c == [me EXCEPT !.ret = v]
    <3>1. Finish(c)
      BY <1>5, <2>3 DEF Return, v
    <3>2. c \in State /\ c.code = cur.code /\ c.method = cur.method /\ c.pc = cur.pc
      BY <1>3, <2>1 DEF State
    <3> HIDE DEF c
    <3>. QED  BY <1>1, <1>2, <3>1, <3>2, FinishingCalls
  <2>. QED  BY <2>2, <2>3
<1>. QED  BY <1>4, <1>5

LEMMA BuiltinCalls == ASSUME IInv, CallInv, InvokeBuiltin  PROVE CallInv'
<1>1. Turn(Invokes) /\ frames' = frames /\ clean' = clean
  BY DEF InvokeBuiltin, Pass
<1>2. PICK o \in Provided : Advance([Passing EXCEPT !.ret = o.ret], ins.size)
  BY DEF InvokeBuiltin
<1>3. o.ret \in Values
  BY <1>1, ProvidedType
<1>4. me \in State /\ me.code = cur.code /\ me.method = cur.method /\ me.mode = cur.mode
  BY <1>1, MeType DEF Turn, StateOK
<1>5. Passing \in State /\ Passing.code = cur.code /\ Passing.method = cur.method
      /\ Passing.mode = cur.mode
  BY <1>4 DEF Passing, State
<1> DEFINE c == [Passing EXCEPT !.ret = o.ret]
<1>6. c \in State /\ c.code = cur.code /\ c.method = cur.method /\ c.mode = cur.mode
  BY <1>3, <1>5 DEF State
<1>7. Advance(c, ins.size)
  BY <1>2
<1> HIDE DEF c
<1>8. "sget" \notin Invokes
  BY DEF Invokes
<1>. QED  BY <1>1, <1>6, <1>7, <1>8, MoveCalls

LEMMA FieldCalls == ASSUME IInv, CallInv, StaticGet \/ StaticPut  PROVE CallInv'
<1>1. CASE StaticPut
  <2>1. Turn({"sput"}) /\ Advance(me, ins.size) /\ frames' = frames /\ clean' = clean
    BY <1>1 DEF StaticPut
  <2>2. me \in State /\ me.code = cur.code /\ me.method = cur.method /\ me.mode = cur.mode
    BY <2>1, MeType DEF Turn, StateOK
  <2>. QED  BY <2>1, <2>2, MoveCalls
<1>2. CASE StaticGet
  <2> DEFINE i == Delivered(ins.to)
             b == [me EXCEPT !.mode = AfterInit]
             c == [b EXCEPT !.regs[ins.reg] = i[ins.to]]
  <2>1. Turn({"sget"}) /\ ins.op = "sget" /\ frames' = frames
    BY <1>2 DEF StaticGet, Turn
  <2>2. StateOK(me) /\ me \in State /\ me.code = cur.code /\ me.method = cur.method
    BY <2>1, MeType DEF Turn, StateOK
  <2>3. ins.to \in Fields /\ ins.reg \in Nat
    BY <2>1, InsType DEF Turn, WellFormed
  <2>4. AfterInit \in Modes /\ AfterInit # "running_init"
    BY DEF AfterInit, IInv, StateOK, State, Modes
  <2>5. StateOK(b) /\ b.code = cur.code
    BY <2>2, <2>4, SetMode
  <2>6. b.method = cur.method /\ b.mode # "running_init"
    BY <2>2, <2>4 DEF State
  <2>7. CASE i[ins.to] # "none"
    <3>1. i[ins.to] \in Values
      BY <2>3, <2>7, FieldsType
    <3>2. Advance(c, ins.size) /\ clean' = clean
      BY <1>2, <2>7 DEF StaticGet
    <3> HIDE DEF i, b
    <3>3. StateOK(c) /\ c.code = cur.code /\ c.mode = b.mode
      BY <2>3, <2>5, <3>1, SetReg
    <3>4. c.method = cur.method
      BY <2>5, <2>6 DEF StateOK, State
    <3> HIDE DEF c
    <3>. QED  BY <2>1, <2>6, <3>2, <3>3, <3>4, MoveCalls DEF StateOK
  <2>8. CASE i[ins.to] = "none"
    <3>1. clean' = FALSE
      BY <1>2, <2>8 DEF StaticGet, Fails
    <3>. QED  BY <3>1 DEF CallInv
  <2>. QED  BY <2>7, <2>8
<1>. QED  BY <1>1, <1>2

\* A frame is put on the stack by the instruction at its program counter.
LEMMA InvokeCalls == ASSUME IInv, CallInv, InvokeCode  PROVE CallInv'
<1> DEFINE regs == Registers(ins.to, [i \in 1 .. Len(ins.args) |-> Argument(i - 1)])
           c == [Passing EXCEPT !.pc = 0, !.code = ins.to, !.method = ins.to,
                   !.ret = "empty", !.regs = regs]
<1>1. Turn(Invokes) /\ clean' = clean /\ frames' = Append(frames, Passing) /\ Fetch(c)
  BY DEF InvokeCode, Pass
<1>2. CASE clean
  <2>1. /\ me \in State /\ me.code = cur.code /\ me.method = cur.method
        /\ me.mode = cur.mode /\ me.pc = cur.pc /\ cur.code = cur.method
        /\ result = Running /\ prog' = prog /\ Chain(frames, cur)
        /\ ins.op \in Invokes /\ cur.pc \in DOMAIN Loaded(cur) /\ ins = Loaded(cur)[cur.pc]
    BY <1>1, <1>2, AtInstruction
  <2>2. cur.mode # "running_init"
    BY <1>1, <1>2, AtInstruction DEF Invokes
  <2>3. /\ Passing \in State /\ Passing.code = cur.code /\ Passing.method = cur.method
        /\ Passing.mode = cur.mode /\ Passing.pc = cur.pc
    BY <2>1 DEF Passing, State
  <2> HIDE DEF regs
  <2>4. c.code = ins.to /\ c.method = ins.to /\ c.mode = cur.mode
    BY <2>3 DEF State
  <2> HIDE DEF c
  <2>5. Loaded(Passing) = Loaded(cur)
    BY <2>3 DEF Loaded
  <2>6. IsCallOf(Passing, c)
    BY <2>1, <2>2, <2>3, <2>4, <2>5 DEF IsCallOf
  <2>7. Chain(Append(frames, Passing), c)
    BY <2>1, <2>3, <2>6, ChainPush
  <2>. QED  BY <1>1, <2>1, <2>2, <2>4, <2>7, GoOnCalls
<1>3. CASE ~clean
  BY <1>1, <1>3 DEF CallInv
<1>. QED  BY <1>2, <1>3

LEMMA InitializerCalls == ASSUME IInv, CallInv, RunInitializer  PROVE CallInv'
<1> DEFINE init == FieldOf[ins.to].clinit
           regs == [r \in 0 .. MethodOf[init].regs - 1 |-> "empty"]
           f == [me EXCEPT !.mode = "running_init"]
           c == [me EXCEPT !.pc = 0, !.code = init, !.method = init, !.mode = "static_init",
                   !.regs = regs]
<1>1. Turn({"sget"}) /\ clean' = clean /\ frames' = Append(frames, f) /\ Fetch(c)
  BY DEF RunInitializer
<1>2. CASE clean
  <2>1. /\ me \in State /\ me.code = cur.code /\ me.method = cur.method
        /\ me.pc = cur.pc /\ cur.code = cur.method
        /\ result = Running /\ prog' = prog /\ Chain(frames, cur)
        /\ ins.op = "sget" /\ cur.pc \in DOMAIN Loaded(cur) /\ ins = Loaded(cur)[cur.pc]
    BY <1>1, <1>2, AtInstruction
  <2>2. /\ f \in State /\ f.code = cur.code /\ f.method = cur.method
        /\ f.mode = "running_init" /\ f.pc = cur.pc
    BY <2>1 DEF State, Modes
  <2> HIDE DEF regs, f
  <2>3. c.code = init /\ c.method = init /\ c.mode = "static_init"
    BY <2>1 DEF State
  <2> HIDE DEF c
  <2>4. Loaded(f) = Loaded(cur)
    BY <2>2 DEF Loaded
  <2>5. IsCallOf(f, c)
    BY <2>1, <2>2, <2>3, <2>4 DEF IsCallOf
  <2>6. Chain(Append(frames, f), c)
    BY <2>1, <2>2, <2>5, ChainPush
  <2>. QED  BY <1>1, <2>1, <2>3, <2>6, GoOnCalls
<1>3. CASE ~clean
  BY <1>1, <1>3 DEF CallInv
<1>. QED  BY <1>2, <1>3

-----------------------------------------------------------------------------
(* What the driver does to the chain.                                      *)

\* execute() from the instruction at the program counter of c.
LEMMA ExecuteCalls ==
  ASSUME prog' = prog, NEW fs, NEW c \in State, Chain(fs, c), frames' = fs,
         c.code = c.method, Execute(c, c.pc)
  PROVE  CallInv'
<1>1. CASE c.pc \in DOMAIN Loaded(c)
  <2>1. cur' = [c EXCEPT !.mode = "running"] /\ at' = c.pc /\ result' = Running
    BY <1>1 DEF Execute
  <2>2. cur'.code = c.code /\ cur'.method = c.method /\ cur'.pc = c.pc
        /\ cur'.mode = "running"
    BY <2>1 DEF State
  <2>3. Chain(frames, cur)'
    BY <2>2, ChainKept
  <2>4. Flow'
    BY <2>1, <2>2, ResultsDiffer DEF Flow
  <2>. QED  BY <2>3, <2>4 DEF CallInv
<1>2. CASE c.pc \notin DOMAIN Loaded(c)
  <2>1. cur' = c /\ result' = NoInstruction
    BY <1>2 DEF Execute
  <2>2. Chain(frames, cur)'
    BY <2>1, ChainKept
  <2>3. Flow'
    BY <2>1, ResultsDiffer DEF Flow
  <2>. QED  BY <2>2, <2>3 DEF CallInv
<1>. QED  BY <1>1, <1>2

LEMMA DriverCalls ==
  ASSUME IInv, CallInv, First \/ Second \/ NextMethod \/ OnBreakpoint \/ OnError \/ DiscoveryEnd
  PROVE  CallInv'
<1>1. CASE First \/ Second
  <2> DEFINE m == prog.entry
             c == [cur EXCEPT !.pc = 0, !.ret = "empty", !.regs = NoRegs, !.method = m]
  <2>1. PICK set : Discover(set)
    BY <1>1 DEF First, Second
  <2>2. frames' = <<>> /\ prog' = prog
        /\ clean' = (clean /\ Len(prog.args) = MethodOf[m].ins)
    BY <2>1 DEF Discover, Start
  <2>3. CASE Len(prog.args) = MethodOf[m].ins
    <3> DEFINE regs == Registers(m, prog.args)
               d == [c EXCEPT !.regs = regs, !.code = m]
    <3>1. Execute(d, 0)
      BY <2>1, <2>3 DEF Discover, Start
    <3>2. m \in Methods /\ prog.args \in Seq(Values)
      BY ProgramsAssumption DEF IInv
    <3>3. regs \in RegsOf(m)
      BY <3>2, RegistersType
    <3> HIDE DEF regs
    <3>4. cur \in State /\ HasCode(m)
      BY ProgramsAssumption DEF IInv, StateOK, HasCode
    <3>5. d = [[cur EXCEPT !.pc = 0, !.code = m, !.method = m] EXCEPT !.ret = "empty", !.regs = regs]
      BY <3>4 DEF State
    <3> HIDE DEF c, d
    <3>6. StateOK([[cur EXCEPT !.pc = 0, !.code = m, !.method = m]
                     EXCEPT !.ret = "empty", !.regs = regs])
      BY <3>2, <3>3, <3>4, EnterType
    <3>7. d \in State
      BY <3>5, <3>6 DEF StateOK
    <3>8. d.code = m /\ d.method = m /\ d.pc = 0
      BY <3>4, <3>5 DEF State
    <3>9. Chain(<<>>, d)
      BY DEF Chain
    <3>. QED  BY <2>2, <3>1, <3>7, <3>8, <3>9, ExecuteCalls
  <2>4. CASE Len(prog.args) # MethodOf[m].ins
    BY <2>2, <2>4 DEF CallInv
  <2>. QED  BY <2>3, <2>4
<1>2. CASE OnBreakpoint
  <2>1. /\ Execute(cur, result.pc) /\ frames' = frames /\ prog' = prog /\ clean' = clean
        /\ result.kind = "breakpoint"
    BY <1>2 DEF OnBreakpoint, ContinueExecution
  <2>2. CASE clean
    <3>1. Chain(frames, cur) /\ Flow
      BY <2>2 DEF CallInv
    <3>2. Execute(cur, cur.pc) /\ cur.code = cur.method
      BY <2>1, <3>1 DEF Flow
    <3>3. cur \in State
      BY DEF IInv, StateOK
    <3>. QED  BY <2>1, <3>1, <3>2, <3>3, ExecuteCalls
  <2>3. CASE ~clean
    BY <2>1, <2>3 DEF CallInv
  <2>. QED  BY <2>2, <2>3
<1>3. CASE OnError
  <2>1. clean' = clean /\ result = Error
    BY <1>3 DEF OnError
  <2>2. ~clean
    BY <2>1 DEF CallInv, Flow
  <2>. QED  BY <2>1, <2>2 DEF CallInv
<1>4. CASE NextMethod \/ DiscoveryEnd
  <2>1. UNCHANGED vmVars
    BY <1>4 DEF NextMethod, DiscoveryEnd
  <2>. QED  BY <2>1 DEF vmVars, CallInv, Chain, Flow, IsCallOf, Loaded, Code, ins
<1>. QED  BY <1>1, <1>2, <1>3, <1>4

LEMMA CallStep == IInv /\ CallInv /\ [Next]_vars => CallInv'
<1> SUFFICES ASSUME IInv, CallInv, [Next]_vars  PROVE CallInv'
  OBVIOUS
<1>1. CASE Emulate
  <2>1. Step
    BY <1>1 DEF Emulate
  <2>. QED  BY <2>1, FailureCalls, DataCalls, StoppingCalls, ReturningCalls, BuiltinCalls,
               FieldCalls, InvokeCalls, InitializerCalls DEF Step
<1>2. CASE First \/ Second \/ NextMethod \/ OnBreakpoint \/ OnError \/ DiscoveryEnd
  BY <1>2, DriverCalls
<1>3. CASE UNCHANGED vars
  BY <1>3 DEF vars, vmVars, CallInv, Chain, Flow, IsCallOf, Loaded, Code, ins
<1>. QED  BY <1>1, <1>2, <1>3 DEF Next

\* Before the first failure the stack is a chain of calls, for every program: a frame
\* stands at the invoke, or at the sget to be repeated, that led to the frame above,
\* and a turn leaves the program counter alone only to repeat a sget.
THEOREM ChainCorrect == Spec => []StackIsChainOfCalls
<1>1. Init => CallInv
  BY ResultsDiffer DEF Init, NewMachine, Frame, CallInv, Chain, Flow
<1>. QED  BY <1>1, CallStep, CallInvImpliesChain, InvCorrect, PTL DEF Spec

-----------------------------------------------------------------------------
(* The method a stop names.                                                *)

\* While the machine runs and nothing has returned, the local method_idx that a static
\* invoke reports is the method executed.
NamesInv ==
  clean /\ ~returned =>
    /\ result = Running => methodIdx = cur.method
    /\ result.kind = "breakpoint" => result.method = cur.method

\* What a turn may do to the two names: keep both, enter a method with both, report one of
\* them, or return, which leaves the local behind.  A failure is not clean any more.
GoesOn    == result' \in {result, NoInstruction}
Stays     == methodIdx' = methodIdx /\ cur'.method = cur.method /\ GoesOn /\ returned' = returned
Enters    == methodIdx' = cur'.method /\ GoesOn /\ returned' = returned
Reports   == /\ result' # Running /\ result'.method \in {methodIdx, cur.method}
             /\ cur'.method = cur.method /\ returned' = returned
Returns   == result' = Ok \/ (frames # <<>> /\ methodIdx' = methodIdx /\ GoesOn /\ returned' = TRUE)

\* Instructions of one method.
LEMMA InstructionNames ==
  ASSUME IInv,
         Data \/ MoveResult \/ FilledNewArray \/ Nop \/ Goto \/ If \/ Switch \/ StaticPut
         \/ StaticPutInt
  PROVE  Stays /\ clean' = clean
<1>1. result = Running /\ UNCHANGED <<methodIdx, clean, returned>>
  BY DEF Data, MoveResult, FilledNewArray, Nop, Goto, If, Switch, StaticPut, StaticPutInt, Turn
<1>2. me \in State /\ me.method = cur.method
  BY <1>1, MeType DEF StateOK
<1>3. cur'.method = cur.method /\ GoesOn
  <2>1. CASE Data
    BY <1>2, <2>1 DEF Data, Advance, Fetch, State, GoesOn
  <2>2. CASE MoveResult \/ FilledNewArray
    BY <1>2, <2>2 DEF MoveResult, FilledNewArray, Advance, Fetch, State, GoesOn
  <2>3. CASE Nop \/ Goto \/ If \/ Switch \/ StaticPut \/ StaticPutInt
    BY <1>2, <2>3 DEF Nop, Goto, If, Switch, StaticPut, StaticPutInt, Advance, Fetch, State, GoesOn
  <2>. QED  BY <2>1, <2>2, <2>3
<1>. QED  BY <1>1, <1>3 DEF Stays

\* A failure.
LEMMA FailureNames ==
  ASSUME TooManySteps \/ DataFails \/ BranchFails \/ Throw \/ InvokeTooDeep
         \/ InvokeFails \/ BuiltinFails \/ PutFails
  PROVE  clean' = FALSE
BY DEF TooManySteps, DataFails, BranchFails, Throw, InvokeTooDeep, InvokeFails, BuiltinFails,
       PutFails, Fails

\* A return to the frame on top, or from the method started.
LEMMA ReturnNames ==
  ASSUME ReturnVoid \/ Return
  PROVE  Returns /\ clean' = clean
<1>1. CASE ReturnVoid
  BY <1>1 DEF ReturnVoid, Resume, Finish, Advance, Fetch, Returns, GoesOn
<1>2. CASE Return
  BY <1>2 DEF Return, Resume, Finish, Advance, Fetch, Returns, GoesOn
<1>. QED  BY <1>1, <1>2

\* The stops.
LEMMA StopNames ==
  ASSUME IInv, ReturnStops \/ PutStops \/ InvokeStops
  PROVE  Reports /\ clean' = clean
<1>1. result = Running /\ UNCHANGED <<clean, returned>>
  BY DEF ReturnStops, PutStops, InvokeStops, Turn
<1>2. me \in State /\ me.method = cur.method
  BY <1>1, MeType DEF StateOK
<1>3. cur'.method = cur.method
  BY <1>2 DEF ReturnStops, PutStops, InvokeStops, State
<1>4. PICK m, of, i : m \in {methodIdx, cur.method} /\ result' = Breakpoint(cur.pc, m, of, i)
  <2>1. CASE ReturnStops
    BY <2>1 DEF ReturnStops
  <2>2. CASE PutStops
    BY <2>2 DEF PutStops
  <2>3. CASE InvokeStops
    <3>1. PICK i : result' = Breakpoint(cur.pc,
                       IF ins.op = "invoke_static" THEN methodIdx ELSE cur.method, "argument", i)
      BY <2>3 DEF InvokeStops
    <3>. QED  BY <3>1
  <2>. QED  BY <2>1, <2>2, <2>3
<1>5. result' # Running /\ result'.method = m
  BY <1>4, ResultsDiffer DEF Breakpoint
<1>. QED  BY <1>1, <1>3, <1>4, <1>5 DEF Reports

\* Entering a method, or leaving one to the library.
LEMMA EnteringNames ==
  ASSUME IInv, InvokeCode \/ InvokeBuiltin \/ RunInitializer
  PROVE  Enters /\ clean' = clean
<1>1. result = Running /\ clean' = clean /\ returned' = returned
  BY DEF InvokeCode, InvokeBuiltin, RunInitializer, Pass, Turn
<1>2. me \in State /\ me.method = cur.method /\ Passing \in State /\ Passing.method = cur.method
  BY <1>1, MeType DEF StateOK, Passing, State
<1>3. methodIdx' = cur'.method /\ GoesOn
  <2>1. CASE InvokeCode
    BY <1>2, <2>1 DEF InvokeCode, Fetch, State, GoesOn
  <2>2. CASE InvokeBuiltin
    BY <1>2, <2>2 DEF InvokeBuiltin, Advance, Fetch, State, GoesOn
  <2>3. CASE RunInitializer
    BY <1>2, <2>3 DEF RunInitializer, Fetch, State, GoesOn
  <2>. QED  BY <2>1, <2>2, <2>3
<1>. QED  BY <1>1, <1>3 DEF Enters

\* A field that is there is read, one that is not fails.
LEMMA StaticGetNames ==
  ASSUME IInv, StaticGet
  PROVE  clean' = FALSE \/ (Stays /\ clean' = clean)
<1>1. result = Running /\ UNCHANGED <<methodIdx, returned>>
  BY DEF StaticGet, Turn
<1>2. me \in State /\ me.method = cur.method
  BY <1>1, MeType DEF StateOK
<1>3. clean' = FALSE \/ (clean' = clean /\ cur'.method = cur.method /\ GoesOn)
  BY <1>2 DEF StaticGet, Advance, Fetch, Fails, State, GoesOn
<1>. QED  BY <1>1, <1>3 DEF Stays

\* Each turn does one of these.
LEMMA TurnNames ==
  ASSUME IInv, Step
  PROVE  /\ result = Running /\ prog' = prog
         /\ clean' = FALSE \/ (clean' = clean /\ (Stays \/ Enters \/ Reports \/ Returns))
<1>1. result = Running /\ prog' = prog
  <2>1. TooManySteps => result = Running /\ prog' = prog
    BY DEF TooManySteps
  <2>2. ASSUME NEW ops, Turn(ops)  PROVE result = Running /\ prog' = prog
    BY <2>2 DEF Turn
  <2>3. Step => TooManySteps \/ \E ops : Turn(ops)
    BY DEF Step, Data, DataFails, MoveResult, FilledNewArray, Nop, Goto, If, Switch, BranchFails, Throw,
       ReturnVoid, ReturnStops, Return, InvokeStops, InvokeTooDeep, InvokeCode, InvokeFails,
       InvokeBuiltin, BuiltinFails, Pass, RunInitializer, StaticGet, PutStops, StaticPut, PutFails,
       StaticPutInt
  <2>. QED  BY <2>1, <2>2, <2>3
<1>. QED  BY <1>1, InstructionNames, FailureNames, ReturnNames, StopNames, EnteringNames,
          StaticGetNames DEF Step

\* execute() sets the local anew.
LEMMA ExecuteNames ==
  ASSUME NEW c \in State, NEW addr, Execute(c, addr)
  PROVE  NamesInv'
BY ResultsDiffer DEF Execute, NamesInv, State

\* Before the first failure and the first return, a stop names the method executed, for
\* every program and whatever its stops were continued with.
THEOREM StopNamesCorrect == Spec => []StopsNameTheirMethod
<1>1. Init => NamesInv
  BY ResultsDiffer DEF Init, NewMachine, NamesInv
<1>2. IInv /\ NamesInv /\ [Next]_vars => NamesInv'
  <2> SUFFICES ASSUME IInv, NamesInv, [Next]_vars
               PROVE  NamesInv'
    OBVIOUS
  <2>1. CASE Emulate
    <3>1. Step
      BY <2>1 DEF Emulate
    <3>. QED  BY <3>1, TurnNames, ResultsDiffer DEF NamesInv, Stays, Enters, Reports, Returns, GoesOn
  <2>2. CASE First \/ Second
    <3>. DEFINE regs == Registers(prog.entry, prog.args)
                c == [cur EXCEPT !.pc = 0, !.ret = "empty", !.regs = NoRegs, !.method = prog.entry]
                d == [c EXCEPT !.regs = regs, !.code = prog.entry]
    <3>1. Execute(d, 0) \/ result' = Error
      BY <2>2 DEF First, Second, Discover, Start
    <3>2. cur \in State
      BY DEF IInv, StateOK
    <3>. HIDE DEF regs
    <3>3. d.method = prog.entry /\ [d EXCEPT !.mode = "running"].method = prog.entry
      BY <3>2 DEF State
    <3>. HIDE DEF d
    <3>. QED  BY <3>1, <3>3, ResultsDiffer DEF Execute, NamesInv
  <2>3. CASE OnBreakpoint \/ OnError
    <3>1. cur \in State /\ \E addr : Execute(cur, addr)
      BY <2>3 DEF OnBreakpoint, OnError, ContinueExecution, IInv, StateOK
    <3>. QED  BY <3>1, ExecuteNames
  <2>4. CASE NextMethod \/ DiscoveryEnd \/ UNCHANGED vars
    BY <2>4 DEF NextMethod, DiscoveryEnd, vars, vmVars, NamesInv
  <2>. QED  BY <2>1, <2>2, <2>3, <2>4 DEF Next
<1>3. NamesInv => StopsNameTheirMethod
  BY DEF NamesInv, StopsNameTheirMethod
<1>. QED  BY <1>1, <1>2, <1>3, InvCorrect, PTL DEF Spec

-----------------------------------------------------------------------------
(* Whose strings are noted.  While nothing enters the discovered method a  *)
(* second time, the local method_idx names it only while it is executed:   *)
(* it never returns to a frame of this stack.                              *)

OwnInv ==
  clean /\ ~Recursive =>
    /\ result = Running => (methodIdx = prog.entry => cur.method = prog.entry)
    /\ result.kind = "breakpoint" => (result.method = prog.entry => cur.method = prog.entry)
    /\ \A n \in recorded : n.of = "argument" /\ n.value = "string" => n.code = prog.entry

\* Whether a method is entered again is a matter of the program.
LEMMA RecursiveStays ==
  ASSUME prog' = prog
  PROVE  Recursive' = Recursive
BY DEF Recursive, EntersAgain, Code, HasCode

\* A method that is called by a frame of the stack is entered again.
LEMMA CalledIsRecursive ==
  ASSUME IInv, CallInv, clean, frames # <<>>, cur.method = prog.entry
  PROVE  Recursive
<1>1. /\ cur.code = prog.entry /\ IsCallOf(Last(frames), cur)
  BY ChainPop DEF CallInv, Flow
<1>. DEFINE f == Last(frames)
<1>2. f \in State /\ f.code # NoMethod /\ f.code \in Methods
  BY PopType DEF StateOK, State
<1>3. Loaded(f) = Code(f.code)
  BY <1>2 DEF Loaded
<1>4. HasCode(f.code)
  BY <1>2, PopType DEF StateOK, HasCode
<1>5. f.pc \in DOMAIN Code(f.code) /\ EntersAgain(Code(f.code)[f.pc])
  BY <1>1, <1>3 DEF IsCallOf, EntersAgain
<1>. QED  BY <1>2, <1>4, <1>5 DEF Recursive

\* What a stop adds is noted for the code at hand; a string passed on is noted only if
\* the stop names the discovered method.
LEMMA FindingsAreOwn ==
  ASSUME CallInv, OwnInv, clean, ~Recursive, result.kind = "breakpoint",
         NEW n \in Findings, n.of = "argument", n.value = "string"
  PROVE  n.code = prog.entry
<1>. DEFINE v == OnHeap(IF result.of = "argument" THEN Argument(result.context)
                                                  ELSE cur.regs[result.context])
<1>1. Findings \subseteq {Note(v)}
  BY DEF Findings
<1>2. n = Note(v) /\ n.code = cur.code /\ n.of = result.of /\ n.value = v
  BY <1>1 DEF Note
<1>. HIDE DEF v
<1>3. result.of = "argument" /\ v = "string"
  BY <1>2
<1>4. result.method = prog.entry
  <2>1. Findings = IF result.method = prog.entry THEN {Note(v)} ELSE {}
    BY <1>3 DEF Findings, v
  <2>. QED  BY <2>1
<1>. QED  BY <1>2, <1>4 DEF OwnInv, CallInv, Flow

\* A turn enters the discovered method only if the program is recursive.
LEMMA TurnOwn == ASSUME IInv, CallInv, OwnInv, Emulate  PROVE OwnInv'
<1>1. /\ Step /\ recorded' = recorded /\ result = Running /\ prog' = prog
      /\ clean' = FALSE \/ (clean' = clean /\ (Stays \/ Enters \/ Reports \/ Returns))
  BY TurnNames DEF Emulate, driverVars
<1>2. SUFFICES ASSUME clean, ~Recursive, clean' = clean, Stays \/ Enters \/ Reports \/ Returns
               PROVE  OwnInv'
  BY <1>1, RecursiveStays DEF OwnInv
<1>3. /\ methodIdx = prog.entry => cur.method = prog.entry
      /\ \A n \in recorded : n.of = "argument" /\ n.value = "string" => n.code = prog.entry
  BY <1>1, <1>2 DEF OwnInv
<1>4. CASE Stays \/ Enters
  BY <1>1, <1>3, <1>4, ResultsDiffer DEF OwnInv, Stays, Enters, GoesOn
<1>5. CASE Reports
  BY <1>1, <1>3, <1>5 DEF OwnInv, Reports
<1>6. CASE Returns
  <2>1. frames # <<>> => methodIdx # prog.entry
    BY <1>2, <1>3, CalledIsRecursive
  <2>. QED  BY <1>1, <1>3, <1>6, <2>1, ResultsDiffer DEF OwnInv, Returns, GoesOn
<1>. QED  BY <1>2, <1>4, <1>5, <1>6

\* execute() starts in the method at hand.
LEMMA ExecuteOwn ==
  ASSUME NEW c, NEW addr, Execute(c, addr)
  PROVE  result' \in {Running, NoInstruction} /\ (result' = Running => methodIdx' = c.method)
BY ResultsDiffer DEF Execute

\* A step of the program enters the discovered method only if it is recursive.
LEMMA OwnStep == IInv /\ CallInv /\ OwnInv /\ [Next]_vars => OwnInv'
<1> SUFFICES ASSUME IInv, CallInv, OwnInv, [Next]_vars  PROVE OwnInv'
  OBVIOUS
<1>1. CASE Emulate
  BY <1>1, TurnOwn
<1>2. CASE First \/ Second
  <2>1. recorded' = {} /\ prog' = prog /\ Start(prog.entry, prog.args)
    BY <1>2 DEF First, Second, Discover, Start
  <2>2. /\ result' # Running => result'.kind # "breakpoint"
        /\ result' = Running => cur'.method = prog.entry
    <3>. DEFINE regs == Registers(prog.entry, prog.args)
                c == [cur EXCEPT !.pc = 0, !.ret = "empty", !.regs = NoRegs,
                        !.method = prog.entry]
                d == [c EXCEPT !.regs = regs, !.code = prog.entry]
    <3>1. Execute(d, 0) \/ result' = Error
      BY <2>1 DEF Start
    <3>2. cur \in State
      BY DEF IInv, StateOK
    <3>. HIDE DEF regs
    <3>3. d.method = prog.entry /\ [d EXCEPT !.mode = "running"].method = prog.entry
      BY <3>2 DEF State
    <3>. HIDE DEF d
    <3>. QED  BY <3>1, <3>3, ResultsDiffer DEF Execute
  <2>. QED  BY <2>1, <2>2, ResultsDiffer DEF OwnInv
<1>3. CASE OnBreakpoint
  <2>1. /\ Execute(cur, result.pc) /\ prog' = prog /\ clean' = clean
        /\ result.kind = "breakpoint" /\ recorded' = recorded \cup Findings
    BY <1>3 DEF OnBreakpoint, ContinueExecution
  <2>2. SUFFICES ASSUME clean, ~Recursive  PROVE OwnInv'
    BY <2>1, RecursiveStays DEF OwnInv
  <2>3. \A n \in recorded' : n.of = "argument" /\ n.value = "string" => n.code = prog.entry
    BY <2>1, <2>2, FindingsAreOwn DEF OwnInv
  <2>4. /\ result' \in {Running, NoInstruction}
        /\ result' = Running => methodIdx' = cur.method /\ cur'.method = cur.method
    <3>1. cur \in State
      BY DEF IInv, StateOK
    <3>. QED  BY <2>1, <3>1, ResultsDiffer DEF Execute, State
  <2>. QED  BY <2>1, <2>3, <2>4, ResultsDiffer DEF OwnInv
<1>4. CASE OnError
  <2>1. clean' = FALSE
    BY <1>4 DEF OnError, CallInv, Flow, IInv, RestOK
  <2>. QED  BY <2>1 DEF OwnInv
<1>5. CASE NextMethod \/ DiscoveryEnd \/ UNCHANGED vars
  <2>1. UNCHANGED <<vmVars, recorded>>
    BY <1>5 DEF NextMethod, DiscoveryEnd, vars, driverVars
  <2>. QED  BY <2>1, RecursiveStays DEF vmVars, OwnInv
<1>. QED  BY <1>1, <1>2, <1>3, <1>4, <1>5 DEF Next

\* Before the first failure, a string noted as an argument was passed by the discovered
\* method's own code, for every program that enters the method once.
THEOREM OwnStringsCorrect == Spec => []NotedStringsAreOwn
<1>1. Init => CallInv /\ OwnInv
  BY ResultsDiffer DEF Init, NewMachine, Frame, CallInv, Chain, Flow, OwnInv
<1>2. OwnInv => NotedStringsAreOwn
  BY DEF OwnInv, NotedStringsAreOwn
<1>. QED  BY <1>1, <1>2, OwnStep, CallStep, InvCorrect, PTL DEF Spec

-----------------------------------------------------------------------------
(* Which arguments were reported.  Nothing is noted of an instruction, and *)
(* no skip is pending, but at a stop and at the instruction a stop is      *)
(* continued with, where the arguments up to argReg were reported.         *)

Kinds    == {i \in Positions : IsText(Argument(i)) \/ IsArray(Argument(i))}
Stopping == Invokes \cup {"return", "sput"}
AtStop   == result.kind = "breakpoint"
Pending  == ins.op \in Invokes /\ (AtStop \/ skip)

ToldInv ==
  clean =>
    /\ IF Pending
       THEN cur.argReg \in Kinds /\ told = {i \in Kinds : i <= cur.argReg}
       ELSE told = {} /\ cur.argReg = 0
    /\ skip => result = Running /\ ins.op \in Stopping /\ cur.mode = "running"
    /\ AtStop => at = cur.pc /\ at \in DOMAIN Loaded(cur) /\ ins.op \in Stopping
    /\ result = Running \/ AtStop => phase \in {"first", "second"}
    /\ UseBreaks \subseteq breaks /\ errors = 0
    /\ \A i \in DOMAIN frames : frames[i].argReg = 0

\* Only below an initialiser is anything but direct execution.
DirectModes == {"running", "running_init"}
ModesInv ==
  clean =>
    /\ result = Running => cur.mode \in DirectModes \/ InInitializer
    /\ \A i \in DOMAIN frames :
         frames[i].mode \in DirectModes \/ \E j \in 1 .. i - 1 : frames[j].mode = "running_init"

ReportInv == ToldInv /\ ModesInv

\* A turn that leaves nothing reported: on to an instruction, or out of the loop.
Quiet ==
  /\ told' = {} /\ cur'.argReg = 0 /\ skip' = FALSE /\ breaks' = breaks
  /\ result' \in {Running, NoInstruction, Ok}

\* Such a turn keeps the invariant, if it keeps the frames in order.
LEMMA QuietTurn ==
  ASSUME ReportInv, clean, result = Running, driverVars' = driverVars, Quiet, ModesInv',
         \A i \in DOMAIN frames' : frames'[i].argReg = 0
  PROVE  ReportInv'
<1>1. ~Pending' /\ ~AtStop'
  BY ResultsDiffer DEF Quiet, Pending, AtStop
<1>. QED  BY <1>1 DEF ReportInv, ToldInv, Quiet, driverVars, AtStop

\* A turn that stays on the same frames.
LEMMA SameFrames ==
  ASSUME ReportInv, clean, result = Running, driverVars' = driverVars, Quiet, frames' = frames,
         cur'.mode \in {cur.mode, "running"}
  PROVE  ReportInv'
<1>1. ModesInv'
  BY DEF ReportInv, ModesInv, InInitializer, DirectModes
<1>. QED  BY <1>1, QuietTurn DEF ReportInv, ToldInv

\* Instructions of one method: a skip is pending at a sput only, which spends it.
LEMMA InstructionReports ==
  ASSUME IInv, ReportInv, clean, driverVars' = driverVars,
         Data \/ MoveResult \/ FilledNewArray \/ Nop \/ Goto \/ If \/ Switch \/ StaticPut
         \/ StaticPutInt
  PROVE  ReportInv'
<1>1. /\ result = Running /\ frames' = frames /\ told' = told /\ breaks' = breaks
      /\ (skip' = skip /\ ins.op \notin Stopping) \/ (skip' = FALSE /\ ins.op = "sput")
  BY DEF Data, MoveResult, FilledNewArray, Nop, Goto, If, Switch, StaticPut, StaticPutInt, Turn,
         Stopping, Invokes, DataOps, Unary, Binary
<1>2. me \in State /\ me.argReg = cur.argReg /\ me.mode = cur.mode
  BY <1>1, MeType DEF StateOK
<1>3. cur'.argReg = cur.argReg /\ cur'.mode = cur.mode /\ result' \in {Running, NoInstruction}
  <2>1. CASE Data
    BY <1>1, <1>2, <2>1 DEF Data, Advance, Fetch, State
  <2>2. CASE MoveResult \/ FilledNewArray
    BY <1>1, <1>2, <2>2 DEF MoveResult, FilledNewArray, Advance, Fetch, State
  <2>3. CASE Nop \/ Goto \/ If \/ Switch \/ StaticPut \/ StaticPutInt
    BY <1>1, <1>2, <2>3 DEF Nop, Goto, If, Switch, StaticPut, StaticPutInt, Advance, Fetch, State
  <2>. QED  BY <2>1, <2>2, <2>3
<1>4. skip' = FALSE /\ told = {} /\ cur.argReg = 0
  BY <1>1 DEF ReportInv, ToldInv, Pending, Stopping, Invokes
<1>. QED  BY <1>1, <1>3, <1>4, SameFrames DEF Quiet

\* A sget ends the mode in which it was executed again.
LEMMA StaticGetReports ==
  ASSUME IInv, ReportInv, clean, driverVars' = driverVars, StaticGet
  PROVE  ReportInv'
<1>1. /\ result = Running /\ ins.op = "sget"
      /\ UNCHANGED <<frames, told, skip, breaks>>
  BY DEF StaticGet, Turn
<1>2. me \in State /\ me.argReg = cur.argReg /\ me.mode = cur.mode
  BY <1>1, MeType DEF StateOK
<1>3. ~skip /\ told = {} /\ cur.argReg = 0 /\ skip \in BOOLEAN
  BY <1>1 DEF ReportInv, ToldInv, Pending, Stopping, Invokes, IInv, RestOK
<1>4. CASE clean'
  <2>1. cur'.argReg = 0 /\ cur'.mode \in {cur.mode, "running"} /\ result' \in {Running, NoInstruction}
    BY <1>1, <1>2, <1>3, <1>4 DEF StaticGet, Advance, Fetch, Fails, State, AfterInit, Modes
  <2>. QED  BY <1>1, <1>3, <2>1, SameFrames DEF Quiet
<1>5. CASE ~clean'
  BY <1>5 DEF ReportInv, ToldInv, ModesInv
<1>. QED  BY <1>4, <1>5

\* A return: the frame resumed was left with nothing reported.
LEMMA ReturnReports ==
  ASSUME IInv, ReportInv, clean, driverVars' = driverVars, ReturnVoid \/ Return
  PROVE  ReportInv'
<1>1. /\ result = Running /\ told' = told /\ breaks' = breaks
      /\ (skip' = skip /\ ins.op = "return_void") \/ (skip' = FALSE /\ ins.op = "return")
  BY DEF ReturnVoid, Return, Turn
<1>2. me \in State /\ me.argReg = cur.argReg
  BY <1>1, MeType DEF StateOK
<1>3. skip' = FALSE /\ told = {} /\ cur.argReg = 0
  BY <1>1 DEF ReportInv, ToldInv, Pending, Stopping, Invokes
<1>4. CASE frames = <<>>
  <2>1. PICK v : \/ cur' = [me EXCEPT !.mode = "finished"]
                 \/ cur' = [[me EXCEPT !.ret = v] EXCEPT !.mode = "finished"]
    BY <1>4 DEF ReturnVoid, Return, Finish
  <2>2. cur'.argReg = 0
    BY <1>2, <1>3, <2>1 DEF State
  <2>3. result' = Ok /\ frames' = frames
    <3>1. \E c : Finish(c)
      BY <1>4 DEF ReturnVoid, Return
    <3>. QED  BY <3>1 DEF Finish
  <2>4. ModesInv' /\ \A i \in DOMAIN frames' : frames'[i].argReg = 0
    BY <1>4, <2>3, ResultsDiffer DEF ModesInv
  <2>. QED  BY <1>1, <1>3, <1>4, <2>2, <2>3, <2>4, QuietTurn DEF Quiet
<1>5. CASE frames # <<>>
  <2>. DEFINE top == Last(frames)
  <2>1. /\ top \in State /\ top = frames[Len(frames)] /\ Len(frames) \in DOMAIN frames
        /\ DOMAIN Front(frames) = 1 .. Len(frames) - 1 /\ Len(frames) \in Nat
        /\ \A i \in 1 .. Len(frames) - 1 : i \in DOMAIN frames /\ Front(frames)[i] = frames[i]
    BY <1>5, PopType DEF StateOK, IInv, FramesOK
  <2>. HIDE DEF top
  <2>2. PICK c \in State : Resume(c) /\ c.argReg = top.argReg /\ c.mode = top.mode
    <3>1. CASE ReturnVoid
      BY <1>5, <2>1, <3>1 DEF ReturnVoid, top
    <3>2. CASE Return
      <4>. DEFINE v == cur.regs[ins.reg]
                  c == [top EXCEPT !.ret = v]
      <4>1. v \in Values
        <5>1. ins.op = "return" /\ WellFormed(ins, MethodOf[cur.code].regs)
          BY <1>1, <3>2, InsType DEF Return, Turn
        <5>. QED  BY <1>1, <5>1, RegisterType DEF WellFormed
      <4>2. Resume(c)
        BY <1>5, <3>2 DEF Return, top
      <4>. HIDE DEF v
      <4>3. c \in State /\ c.argReg = top.argReg /\ c.mode = top.mode
        BY <2>1, <4>1 DEF State
      <4>. QED  BY <4>2, <4>3
    <3>. QED  BY <3>1, <3>2
  <2>3. /\ frames' = Front(frames) /\ cur'.argReg = c.argReg /\ cur'.mode = c.mode
        /\ result' \in {Running, NoInstruction}
    BY <1>1, <2>2 DEF Resume, Advance, Fetch, State
  <2>4. cur'.argReg = 0 /\ \A i \in DOMAIN frames' : frames'[i].argReg = 0
    BY <2>1, <2>2, <2>3 DEF ReportInv, ToldInv
  <2>5. ModesInv'
    <3>1. \A i \in 1 .. Len(frames) :
            frames[i].mode \in DirectModes
            \/ \E j \in 1 .. i - 1 : frames'[j].mode = "running_init"
      BY <2>1, <2>3 DEF ReportInv, ModesInv
    <3>. QED  BY <2>1, <2>2, <2>3, <3>1 DEF ModesInv, InInitializer
  <2>. QED  BY <1>1, <1>3, <2>3, <2>4, <2>5, QuietTurn DEF Quiet
<1>. QED  BY <1>4, <1>5

\* Where an invoke passes its arguments on, nothing more is pending, and in direct execution
\* all was reported.
LEMMA PassReports ==
  ASSUME IInv, ReportInv, clean, Pass
  PROVE  /\ result = Running /\ ins.op \in Invokes
         /\ told' = {} /\ skip' = FALSE /\ breaks' = breaks
         /\ Passing \in State /\ Passing.argReg = 0 /\ Passing.mode = cur.mode
         /\ cur.mode = "running" => told = Kinds
<1>1. result = Running /\ ins.op \in Invokes /\ told' = {} /\ breaks' = breaks /\ Stops = {}
      /\ skip' = SkipLeft
  BY DEF Pass, Turn
<1>2. Passing \in State /\ Passing.argReg = 0 /\ Passing.mode = cur.mode
  BY <1>1, MeType DEF StateOK, State, Passing
<1>3. \A i \in Positions : IsStopKind(Argument(i)) <=> i \in Kinds
  BY DEF ReportInv, ToldInv, IsStopKind, Kinds, UseBreaks
<1>4. cur.mode = "running" => Direct
  BY DEF ReportInv, ToldInv, Direct, UseBreaks
<1>5. IF skip THEN cur.argReg \in Kinds /\ told = {i \in Kinds : i <= cur.argReg}
              ELSE told = {} /\ cur.argReg = 0
  BY <1>1, ResultsDiffer DEF ReportInv, ToldInv, Pending, AtStop
<1>6. cur.argReg \in Nat /\ Positions \subseteq Nat /\ Kinds \subseteq Positions
  BY <1>1, ArgumentType DEF IInv, StateOK, State, Kinds
<1>7. skip' = FALSE
  <2>1. CASE skip
    <3>1. cur.mode = "running" /\ cur.argReg \in Unseen
      BY <1>5, <1>6, <2>1 DEF ReportInv, ToldInv, Unseen
    <3>. QED  BY <1>1, <1>4, <3>1 DEF SkipLeft
  <2>2. CASE ~skip
    BY <1>1, <2>2 DEF SkipLeft
  <2>. QED  BY <2>1, <2>2
<1>8. ASSUME cur.mode = "running"  PROVE told = Kinds
  <2>1. \A i \in Kinds : i \in Unseen => i \in Passed
    BY <1>1, <1>3, <1>4, <1>6, <1>8 DEF Stops
  <2>2. \A i \in Kinds : i >= cur.argReg => skip /\ i = cur.argReg
    BY <1>6, <2>1 DEF Unseen, Passed
  <2>3. CASE skip
    <3>1. \A i \in Kinds : i \in Nat /\ i <= cur.argReg
      BY <1>6, <2>2
    <3>. QED  BY <1>5, <2>3, <3>1
  <2>4. CASE ~skip
    <3>1. \A i \in Kinds : i \in Nat /\ ~(i >= 0)
      BY <1>5, <1>6, <2>2, <2>4
    <3>2. Kinds = {}
      BY <3>1
    <3>. QED  BY <1>5, <2>4, <3>2
  <2>. QED  BY <2>3, <2>4
<1>. QED  BY <1>1, <1>2, <1>7, <1>8

\* Entering a method, or leaving one to the library.
LEMMA EnteringReports ==
  ASSUME IInv, ReportInv, clean, driverVars' = driverVars,
         InvokeCode \/ InvokeBuiltin \/ RunInitializer
  PROVE  ReportInv'
<1>1. CASE InvokeBuiltin
  <2>1. Pass /\ frames' = frames
    BY <1>1 DEF InvokeBuiltin
  <2>2. cur'.argReg = 0 /\ cur'.mode = cur.mode /\ result' \in {Running, NoInstruction}
    BY <1>1, <2>1, PassReports DEF InvokeBuiltin, Advance, Fetch, State
  <2>. QED  BY <2>1, <2>2, PassReports, SameFrames DEF Quiet
<1>2. ASSUME NEW f, frames' = Append(frames, f), f.argReg = 0, result = Running,
             (f.mode = cur.mode /\ cur'.mode = cur.mode) \/ f.mode = "running_init",
             Quiet
      PROVE  ReportInv'
  <2>1. frames \in Seq(State) /\ Len(frames) \in Nat
    BY DEF IInv, FramesOK
  <2>2. /\ DOMAIN frames' = 1 .. Len(frames) + 1 /\ frames'[Len(frames) + 1] = f
        /\ \A i \in 1 .. Len(frames) : i \in DOMAIN frames /\ frames'[i] = frames[i]
    BY <1>2, <2>1
  <2>3. \A i \in DOMAIN frames' : frames'[i].argReg = 0
    BY <1>2, <2>1, <2>2 DEF ReportInv, ToldInv
  <2>4. InInitializer => \E j \in 1 .. Len(frames) : frames'[j].mode = "running_init"
    BY <2>1, <2>2 DEF InInitializer
  <2>5. f.mode \in DirectModes \/ \E j \in 1 .. Len(frames) : frames'[j].mode = "running_init"
    BY <1>2, <2>4 DEF ReportInv, ModesInv, DirectModes
  <2>6. ASSUME NEW i \in 1 .. Len(frames)
        PROVE  frames'[i].mode \in DirectModes
               \/ \E j \in 1 .. i - 1 : frames'[j].mode = "running_init"
    BY <2>1, <2>2 DEF ReportInv, ModesInv
  <2>7. cur'.mode \in DirectModes \/ InInitializer'
    <3>1. CASE f.mode = "running_init"
      BY <2>1, <2>2, <3>1 DEF InInitializer
    <3>2. CASE cur'.mode = cur.mode
      BY <1>2, <2>1, <2>2, <2>4, <3>2 DEF ReportInv, ModesInv, InInitializer
    <3>. QED  BY <1>2, <3>1, <3>2
  <2>8. \A i \in DOMAIN frames' :
          frames'[i].mode \in DirectModes
          \/ \E j \in 1 .. i - 1 : frames'[j].mode = "running_init"
    <3>. SUFFICES ASSUME NEW i \in DOMAIN frames'
                  PROVE  frames'[i].mode \in DirectModes
                         \/ \E j \in 1 .. i - 1 : frames'[j].mode = "running_init"
      OBVIOUS
    <3>1. CASE i = Len(frames) + 1
      <4>1. i - 1 = Len(frames)
        BY <2>1, <3>1
      <4>. QED  BY <2>2, <2>5, <3>1, <4>1
    <3>2. CASE i # Len(frames) + 1
      BY <2>1, <2>2, <2>6, <3>2
    <3>. QED  BY <3>1, <3>2
  <2>9. ModesInv'
    BY <2>7, <2>8 DEF ModesInv
  <2>. QED  BY <1>2, <2>3, <2>9, QuietTurn
<1>3. CASE InvokeCode
  <2>1. Pass /\ frames' = Append(frames, Passing)
    BY <1>3 DEF InvokeCode
  <2>2. cur'.argReg = 0 /\ cur'.mode = cur.mode /\ result' \in {Running, NoInstruction}
    BY <1>3, <2>1, PassReports DEF InvokeCode, Fetch, State
  <2>. QED  BY <1>2, <2>1, <2>2, PassReports DEF Quiet
<1>4. CASE RunInitializer
  <2>1. result = Running /\ ins.op = "sget" /\ UNCHANGED <<told, skip, breaks>>
    BY <1>4 DEF RunInitializer, Turn
  <2>2. me \in State /\ me.argReg = cur.argReg
    BY <2>1, MeType DEF StateOK
  <2>3. ~skip /\ told = {} /\ cur.argReg = 0 /\ skip \in BOOLEAN
    BY <2>1 DEF ReportInv, ToldInv, Pending, Stopping, Invokes, IInv, RestOK
  <2>. DEFINE f == [me EXCEPT !.mode = "running_init"]
  <2>4. f.argReg = 0 /\ f.mode = "running_init"
    BY <2>2, <2>3 DEF State
  <2>5. frames' = Append(frames, f)
    BY <1>4 DEF RunInitializer
  <2>6. cur'.argReg = 0 /\ result' \in {Running, NoInstruction}
    BY <1>4, <2>1, <2>2, <2>3 DEF RunInitializer, Fetch, State
  <2>. HIDE DEF f
  <2>. QED  BY <1>2, <2>1, <2>3, <2>4, <2>5, <2>6 DEF Quiet
<1>. QED  BY <1>1, <1>3, <1>4

\* The instruction and its operands depend on the code, the place and the registers.
LEMMA SameInstruction ==
  ASSUME prog' = prog, at' = at, cur'.code = cur.code, cur'.regs = cur.regs
  PROVE  ins' = ins /\ Kinds' = Kinds /\ Loaded(cur)' = Loaded(cur)
<1>1. Loaded(cur)' = Loaded(cur)
  BY DEF Loaded, Code
<1>2. ins' = ins
  BY <1>1 DEF ins
<1>. QED  BY <1>1, <1>2 DEF Kinds, Positions, Argument

\* The first argument that was not reported is, and those before it were.
LEMMA StopReports ==
  ASSUME IInv, CallInv, ReportInv, clean, driverVars' = driverVars,
         ReturnStops \/ PutStops \/ InvokeStops
  PROVE  ReportInv'
<1>1. /\ result = Running /\ UNCHANGED <<prog, frames, at, breaks, clean>>
      /\ ins.op \in Stopping
  BY DEF ReturnStops, PutStops, InvokeStops, Turn, Stopping
<1>2. me \in State /\ me.pc = cur.pc /\ me.code = cur.code /\ me.regs = cur.regs
      /\ me.argReg = cur.argReg
  BY <1>1, MeType DEF StateOK
<1>3. cur'.pc = cur.pc /\ cur'.code = cur.code /\ cur'.regs = cur.regs
  BY <1>2 DEF ReturnStops, PutStops, InvokeStops, State
<1>4. ins' = ins /\ Kinds' = Kinds /\ Loaded(cur)' = Loaded(cur)
  BY <1>1, <1>3, SameInstruction
<1>5. at' = cur'.pc /\ at' \in DOMAIN Loaded(cur)' /\ ins'.op \in Stopping
  BY <1>1, <1>3, <1>4 DEF CallInv, Flow, IInv, PlaceOK
<1>6. PICK m, of, i : result' = Breakpoint(cur.pc, m, of, i)
  BY DEF ReturnStops, PutStops, InvokeStops
<1>7. result'.kind = "breakpoint" /\ result' # Running
  BY <1>6, ResultsDiffer DEF Breakpoint
<1>8. ModesInv'
  BY <1>1, <1>7 DEF ReportInv, ModesInv
<1>9. ASSUME skip' = FALSE,
             IF ins.op \in Invokes
             THEN cur'.argReg \in Kinds
                  /\ told' = {k \in Kinds : k <= cur'.argReg}
             ELSE told' = {} /\ cur'.argReg = 0
      PROVE  ReportInv'
  <2>1. Pending' <=> ins.op \in Invokes
    BY <1>4, <1>7 DEF Pending, AtStop
  <2>2. phase' \in {"first", "second"} /\ UseBreaks \subseteq breaks' /\ errors' = 0
        /\ \A k \in DOMAIN frames' : frames'[k].argReg = 0
    BY <1>1 DEF ReportInv, ToldInv, driverVars
  <2>. QED  BY <1>4, <1>5, <1>8, <1>9, <2>1, <2>2 DEF ReportInv, ToldInv
<1>10. CASE InvokeStops
  <2>1. PICK j \in Stops :
          /\ \A k \in Stops : j <= k
          /\ cur' = [me EXCEPT !.mode = "paused", !.argReg = j]
          /\ result' = Breakpoint(cur.pc, IF ins.op = "invoke_static" THEN methodIdx ELSE cur.method,
                                  "argument", j)
          /\ told' = told \cup {j}
    BY <1>10 DEF InvokeStops
  <2>2. cur'.argReg = j /\ skip' = FALSE /\ ins.op \in Invokes
    <3>1. cur'.argReg = j
      BY <1>2, <2>1 DEF State
    <3>. QED  BY <1>10, <3>1 DEF InvokeStops, Turn
  <2>3. \A k \in Positions : IsStopKind(Argument(k)) <=> k \in Kinds
    BY DEF ReportInv, ToldInv, IsStopKind, Kinds, UseBreaks
  <2>4. Stops = {k \in Kinds : k \in Unseen \ Passed}
    BY <2>1, <2>3 DEF Stops, Unseen, Kinds
  <2>5. cur.argReg \in Nat /\ \A k \in Kinds : k \in Nat /\ k \in Positions
    BY <1>1, <2>2, ArgumentType DEF IInv, StateOK, State, Kinds
  <2>6. IF skip THEN cur.argReg \in Kinds /\ told = {k \in Kinds : k <= cur.argReg}
                ELSE told = {} /\ cur.argReg = 0
    BY <1>1, <2>2, ResultsDiffer DEF ReportInv, ToldInv, Pending, AtStop
  <2>7. told = {k \in Kinds : ~(k \in Unseen \ Passed)}
    <3>1. CASE skip
      <4>1. \A k \in Kinds : k <= cur.argReg <=> ~(k \in Unseen \ Passed)
        BY <2>5, <3>1 DEF Unseen, Passed
      <4>. QED  BY <2>6, <3>1, <4>1
    <3>2. CASE ~skip
      <4>1. \A k \in Kinds : k \in Unseen \ Passed
        BY <2>5, <2>6, <3>2 DEF Unseen, Passed
      <4>. QED  BY <2>6, <3>2, <4>1
    <3>. QED  BY <3>1, <3>2
  <2>8. \A k \in Kinds : k <= j <=> (~(k \in Unseen \ Passed) \/ k = j)
    <3>1. \A k \in Kinds : k \in Unseen \ Passed => j <= k
      BY <2>1, <2>4
    <3>2. \A k \in Kinds : ~(k \in Unseen \ Passed) => k <= j
      <4>1. \A k \in Kinds : ~(k \in Unseen \ Passed) => k <= cur.argReg
        BY <2>5 DEF Unseen, Passed
      <4>2. j \in Nat /\ cur.argReg <= j
        BY <2>1, <2>4, <2>5 DEF Unseen
      <4>. QED  BY <2>5, <4>1, <4>2
    <3>3. j \in Kinds /\ j \in Nat
      BY <2>1, <2>4, <2>5
    <3>. QED  BY <2>5, <3>1, <3>2, <3>3
  <2>9. told' = {k \in Kinds : k <= j} /\ j \in Kinds
    BY <2>1, <2>4, <2>7, <2>8
  <2>. QED  BY <1>9, <2>2, <2>9
<1>11. CASE ReturnStops \/ PutStops
  <2>1. ins.op \notin Invokes /\ ~skip /\ skip' = skip /\ told' = told /\ cur' = me
    BY <1>11 DEF ReturnStops, PutStops, Turn, Invokes
  <2>2. told = {} /\ cur.argReg = 0 /\ skip \in BOOLEAN
    BY <1>1, <2>1 DEF ReportInv, ToldInv, Pending, IInv, RestOK
  <2>. QED  BY <1>2, <1>9, <2>1, <2>2
<1>. QED  BY <1>10, <1>11

\* A turn.
LEMMA TurnReports ==
  ASSUME IInv, CallInv, ReportInv, Emulate
  PROVE  ReportInv'
<1>1. Step /\ driverVars' = driverVars
  BY DEF Emulate
<1>2. CASE clean
  <2>1. CASE TooManySteps \/ DataFails \/ BranchFails \/ Throw \/ InvokeTooDeep
             \/ InvokeFails \/ BuiltinFails \/ PutFails
    BY <2>1, FailureNames DEF ReportInv, ToldInv, ModesInv
  <2>. QED  BY <1>1, <1>2, <2>1, InstructionReports, StaticGetReports, ReturnReports,
               EnteringReports, StopReports DEF Step
<1>3. CASE ~clean
  <2>1. ~clean'
    BY <1>1, <1>3, TurnNames
  <2>. QED  BY <2>1 DEF ReportInv, ToldInv, ModesInv
<1>. QED  BY <1>2, <1>3

\* execute() begins in direct execution.
LEMMA ExecuteModes ==
  ASSUME IInv, ReportInv, clean, NEW c \in State, NEW addr, Execute(c, addr),
         frames' = frames \/ frames' = <<>>
  PROVE  ModesInv'
<1>1. result' = Running => cur'.mode = "running"
  BY ResultsDiffer DEF Execute, State
<1>. QED  BY <1>1 DEF ReportInv, ModesInv, DirectModes

\* The driver starts a machine with nothing reported, and goes on at the stop.
LEMMA DriverReports ==
  ASSUME IInv, CallInv, ReportInv,
         First \/ Second \/ NextMethod \/ OnBreakpoint \/ OnError \/ DiscoveryEnd
  PROVE  ReportInv'
<1>1. SUFFICES ASSUME clean, clean'  PROVE ReportInv'
  <2>1. clean' => clean
    <3>1. CASE First \/ Second
      BY <3>1 DEF First, Second, Discover, Start
    <3>2. CASE NextMethod \/ OnBreakpoint \/ OnError \/ DiscoveryEnd
      BY <3>2 DEF NextMethod, OnBreakpoint, OnError, DiscoveryEnd, vmVars
    <3>. QED  BY <3>1, <3>2
  <2>. QED  BY <2>1 DEF ReportInv, ToldInv, ModesInv
<1>2. errors = 0 /\ UseBreaks \subseteq breaks /\ ~GaveUp /\ result # Error
  BY <1>1, DriverAssumption DEF ReportInv, ToldInv, GaveUp, CallInv, Flow
<1>3. CASE First \/ Second
  <2>1. /\ phase \in {"new", "between"} /\ phase' \in {"first", "second"} /\ errors' = 0
        /\ breaks' \in {breaks, breaks \cup OwnFields} /\ told' = {} /\ skip' = skip
        /\ frames' = <<>> /\ Start(prog.entry, prog.args)
    BY <1>3 DEF First, Second, Discover, Start
  <2>2. result # Running /\ ~AtStop /\ ~skip /\ cur.argReg = 0 /\ skip \in BOOLEAN
    BY <1>1, <2>1 DEF ReportInv, ToldInv, Pending, AtStop, IInv, RestOK
  <2>. DEFINE regs == Registers(prog.entry, prog.args)
              c == [cur EXCEPT !.pc = 0, !.ret = "empty", !.regs = NoRegs, !.method = prog.entry]
              d == [c EXCEPT !.regs = regs, !.code = prog.entry]
  <2>3. Execute(d, 0)
    BY <1>1, <2>1 DEF Start
  <2>4. cur \in State
    BY DEF IInv, StateOK
  <2>. HIDE DEF regs
  <2>5. /\ d.argReg = 0 /\ [d EXCEPT !.mode = "running"].argReg = 0
        /\ [d EXCEPT !.mode = "running"].mode = "running"
    BY <2>2, <2>4 DEF State
  <2>. HIDE DEF d
  <2>6. /\ cur'.argReg = 0 /\ result' \in {Running, NoInstruction}
        /\ result' = Running => cur'.mode = "running"
    BY <2>3, <2>5, ResultsDiffer DEF Execute
  <2>7. ModesInv' /\ ~Pending' /\ ~AtStop'
    BY <2>1, <2>2, <2>6, ResultsDiffer DEF ModesInv, DirectModes, Pending, AtStop
  <2>. QED  BY <1>2, <2>1, <2>2, <2>6, <2>7 DEF ReportInv, ToldInv
<1>4. CASE OnBreakpoint
  <2>1. /\ Execute(cur, result.pc) /\ AtStop /\ result.pc = cur.pc /\ skip' = TRUE
        /\ UNCHANGED <<prog, frames, breaks, told, phase, errors>>
    BY <1>1, <1>4 DEF OnBreakpoint, ContinueExecution, AtStop, CallInv, Flow
  <2>2. at = cur.pc /\ at \in DOMAIN Loaded(cur) /\ ins.op \in Stopping
        /\ phase \in {"first", "second"} /\ cur \in State
        /\ \A i \in DOMAIN frames : frames[i].argReg = 0
    BY <1>1, <2>1 DEF ReportInv, ToldInv, IInv, StateOK
  <2>3. at' = at /\ result' = Running /\ cur' = [cur EXCEPT !.mode = "running"]
    BY <2>1, <2>2 DEF Execute
  <2>4. cur'.code = cur.code /\ cur'.regs = cur.regs /\ cur'.argReg = cur.argReg
        /\ cur'.mode = "running"
    BY <2>2, <2>3 DEF State
  <2>5. ins' = ins /\ Kinds' = Kinds
    BY <2>1, <2>3, <2>4, SameInstruction
  <2>6. ModesInv'
    BY <1>1, <2>1, <2>2, ExecuteModes
  <2>7. Pending' <=> ins.op \in Invokes
    BY <2>1, <2>3, <2>5 DEF Pending
  <2>8. IF ins.op \in Invokes THEN cur.argReg \in Kinds /\ told = {i \in Kinds : i <= cur.argReg}
                              ELSE told = {} /\ cur.argReg = 0
    BY <1>1, <2>1 DEF ReportInv, ToldInv, Pending
  <2>9. ~AtStop'
    BY <2>3, ResultsDiffer DEF AtStop
  <2>. QED  BY <1>2, <2>1, <2>2, <2>3, <2>4, <2>5, <2>6, <2>7, <2>8, <2>9 DEF ReportInv, ToldInv
<1>5. CASE OnError
  BY <1>2, <1>5 DEF OnError
<1>6. CASE NextMethod \/ DiscoveryEnd
  <2>1. UNCHANGED <<vmVars, errors>>
    BY <1>6 DEF NextMethod, DiscoveryEnd
  <2>2. result # Running /\ ~AtStop
    <3>1. CASE NextMethod
      BY <1>1, <3>1 DEF NextMethod, ReportInv, ToldInv
    <3>2. CASE DiscoveryEnd
      BY <1>2, <3>2, ResultsDiffer DEF DiscoveryEnd, Halted, AtStop
    <3>. QED  BY <1>6, <3>1, <3>2
  <2>. QED  BY <1>1, <2>1, <2>2 DEF vmVars, ReportInv, ToldInv, ModesInv, InInitializer, Pending, AtStop,
               Kinds, Positions, Argument, ins, Loaded, Code
<1>. QED  BY <1>3, <1>4, <1>5, <1>6

LEMMA ReportStep == IInv /\ CallInv /\ ReportInv /\ [Next]_vars => ReportInv'
<1> SUFFICES ASSUME IInv, CallInv, ReportInv, [Next]_vars  PROVE ReportInv'
  OBVIOUS
<1>1. CASE UNCHANGED vars
  BY <1>1 DEF vars, driverVars, vmVars, ReportInv, ToldInv, ModesInv, InInitializer, Pending, AtStop,
              Kinds, Positions, Argument, ins, Loaded, Code
<1>. QED  BY <1>1, TurnReports, DriverReports DEF Next

\* What a step may do at an invoke.
Reporting ==
  clean /\ result = Running /\ ins.op \in Invokes =>
    /\ result'.kind = "breakpoint" => result'.context \notin told
    /\ result'.kind # "breakpoint" /\ clean' /\ ~InInitializer =>
         told = {i \in Positions : IsText(Argument(i)) \/ IsArray(Argument(i))}

\* The invariant and a step at an invoke.
LEMMA ReportingStep ==
  ASSUME IInv, CallInv, ReportInv, [Next]_vars
  PROVE  UNCHANGED vars \/ Reporting
<1>1. SUFFICES ASSUME ~UNCHANGED vars, clean, result = Running, ins.op \in Invokes
               PROVE  /\ result'.kind = "breakpoint" => result'.context \notin told
                      /\ result'.kind # "breakpoint" /\ clean' /\ ~InInitializer => told = Kinds
  BY DEF Reporting, Kinds
<1>2. Step
  BY <1>1, ResultsDiffer DEF Next, Emulate, First, Second, NextMethod, OnBreakpoint, OnError,
     DiscoveryEnd, Halted, ReportInv, ToldInv
<1>3. \/ InvokeStops \/ InvokeCode \/ InvokeBuiltin
      \/ TooManySteps \/ InvokeTooDeep \/ InvokeFails \/ BuiltinFails
  BY <1>1, <1>2 DEF Step, Data, DataFails, MoveResult, FilledNewArray, Nop, Goto, If, Switch,
     BranchFails, Throw, ReturnVoid, ReturnStops, Return, RunInitializer, StaticGet, PutStops,
     StaticPut, PutFails, StaticPutInt, Turn, Invokes, DataOps, Unary, Binary
<1>4. CASE InvokeStops
  <2>1. PICK j \in Stops : \E m : result' = Breakpoint(cur.pc, m, "argument", j)
    BY <1>4 DEF InvokeStops
  <2>2. result'.kind = "breakpoint" /\ result'.context = j
    BY <2>1 DEF Breakpoint
  <2>3. j \in Unseen \ Passed /\ cur.argReg \in Nat /\ Positions \subseteq Nat
    BY <1>1, <2>1, ArgumentType DEF Stops, IInv, StateOK, State
  <2>4. told = IF skip THEN {k \in Kinds : k <= cur.argReg} ELSE {}
    BY <1>1, ResultsDiffer DEF ReportInv, ToldInv, Pending, AtStop
  <2>5. j \notin told
    BY <2>3, <2>4 DEF Unseen, Passed
  <2>. QED  BY <2>2, <2>5
<1>5. CASE InvokeCode \/ InvokeBuiltin
  <2>1. Pass /\ result' \in {Running, NoInstruction}
    BY <1>1, <1>5, EnteringNames DEF Enters, GoesOn, InvokeCode, InvokeBuiltin
  <2>2. ~InInitializer => cur.mode = "running"
    BY <1>1 DEF ReportInv, ModesInv, DirectModes, CallInv, Flow, Invokes
  <2>. QED  BY <1>1, <2>1, <2>2, PassReports, ResultsDiffer
<1>6. CASE TooManySteps \/ InvokeTooDeep \/ InvokeFails \/ BuiltinFails
  <2>1. clean' = FALSE /\ result' = Error
    BY <1>6 DEF TooManySteps, InvokeTooDeep, InvokeFails, BuiltinFails, Fails
  <2>. QED  BY <2>1, ResultsDiffer
<1>. QED  BY <1>3, <1>4, <1>5, <1>6

\* In direct execution and before the first failure, every string and array that is passed on
\* was reported once, for every program.
THEOREM ArgumentsCorrect == Spec => ArgumentsReportedOnce
<1>1. Init => CallInv /\ ReportInv
  BY ResultsDiffer DEF Init, NewMachine, Frame, CallInv, Chain, Flow, ReportInv, ToldInv, ModesInv,
     Pending, AtStop
<1>2. IInv /\ CallInv /\ ReportInv /\ [Next]_vars => UNCHANGED vars \/ Reporting
  BY ReportingStep
<1>. QED  BY <1>1, <1>2, CallStep, ReportStep, InvCorrect, PTL DEF Spec, ArgumentsReportedOnce, Reporting

-----------------------------------------------------------------------------
(* What is put into a field.                                               *)

\* In the second discovery the fields of the class have breakpoints; a stop at a sput is
\* about the field's new value, and when it is continued the value was noted.
FieldInv ==
  clean =>
    /\ phase = "second" => OwnFields \subseteq breaks
    /\ AtStop /\ ins.op = "sput" => result.of = "field" /\ result.context = ins.reg
    /\ skip /\ ins.op = "sput" /\ IsText(cur.regs[ins.reg]) =>
         \E n \in recorded : n.of = "field" /\ n.code = cur.code /\ n.pc = cur.pc

\* A skip is spent by the instruction it was meant for.
LEMMA SkipIsSpent ==
  ASSUME IInv, ReportInv, clean, clean', Step
  PROVE  skip' = FALSE
<1>1. skip \in BOOLEAN /\ (skip => ins.op \in Invokes \cup {"return", "sput"})
  BY DEF IInv, RestOK, ReportInv, ToldInv, Stopping
<1>2. CASE ReturnStops \/ Return \/ InvokeStops \/ PutStops \/ StaticPut
  BY <1>1, <1>2 DEF ReturnStops, Return, InvokeStops, PutStops, StaticPut
<1>3. CASE InvokeCode \/ InvokeBuiltin
  BY <1>3, PassReports DEF InvokeCode, InvokeBuiltin
<1>4. CASE Data \/ MoveResult \/ FilledNewArray \/ Nop \/ Goto \/ If \/ Switch \/ ReturnVoid
           \/ RunInitializer \/ StaticGet \/ StaticPutInt
  BY <1>1, <1>4 DEF Data, MoveResult, FilledNewArray, Nop, Goto, If, Switch, ReturnVoid,
     RunInitializer, StaticGet, StaticPutInt, Turn, Invokes, DataOps, Unary, Binary
<1>. QED  BY <1>2, <1>3, <1>4, FailureNames DEF Step

\* Only a sput stops at a sput, and it names the register that is put.
LEMMA FieldTurn ==
  ASSUME IInv, CallInv, ReportInv, FieldInv, Emulate
  PROVE  FieldInv'
<1>1. Step /\ driverVars' = driverVars /\ breaks' = breaks
  <2>1. TooManySteps => breaks' = breaks
    BY DEF TooManySteps
  <2>2. ASSUME NEW ops, Turn(ops)  PROVE breaks' = breaks
    BY <2>2 DEF Turn
  <2>3. Step => TooManySteps \/ \E ops : Turn(ops)
    BY DEF Step, Data, DataFails, MoveResult, FilledNewArray, Nop, Goto, If, Switch, BranchFails, Throw,
       ReturnVoid, ReturnStops, Return, InvokeStops, InvokeTooDeep, InvokeCode, InvokeFails,
       InvokeBuiltin, BuiltinFails, Pass, RunInitializer, StaticGet, PutStops, StaticPut, PutFails,
       StaticPutInt
  <2>. QED  BY <2>1, <2>2, <2>3 DEF Emulate
<1>2. SUFFICES ASSUME clean'  PROVE FieldInv'
  BY DEF FieldInv
<1>3. clean /\ result = Running
  BY <1>1, <1>2, TurnNames
<1>4. skip' = FALSE /\ (phase' = "second" => OwnFields \subseteq breaks')
  BY <1>1, <1>2, <1>3, SkipIsSpent DEF FieldInv, driverVars
<1>5. ASSUME AtStop', ins'.op = "sput"
      PROVE  result'.of = "field" /\ result'.context = ins'.reg
  <2>1. ReturnStops \/ PutStops \/ InvokeStops
    <3>1. Stays \/ Enters \/ Returns => ~AtStop'
      BY <1>3, ResultsDiffer DEF Stays, Enters, Returns, GoesOn, AtStop
    <3>. QED  BY <1>1, <1>2, <1>3, <1>5, <3>1, InstructionNames, FailureNames, ReturnNames,
                 EnteringNames, StaticGetNames DEF Step
  <2>2. me \in State /\ me.code = cur.code /\ me.regs = cur.regs
    BY <1>3, MeType DEF StateOK
  <2>3. cur'.code = cur.code /\ cur'.regs = cur.regs /\ at' = at /\ prog' = prog
    BY <2>1, <2>2 DEF ReturnStops, PutStops, InvokeStops, Turn, State
  <2>4. ins' = ins
    BY <2>3, SameInstruction
  <2>5. PutStops
    BY <1>5, <2>1, <2>4 DEF ReturnStops, InvokeStops, Turn, Invokes
  <2>. QED  BY <2>4, <2>5 DEF PutStops, Breakpoint
<1>. QED  BY <1>4, <1>5 DEF FieldInv

\* Continuing from a stop at a sput, the value was just noted.
LEMMA FieldContinued ==
  ASSUME IInv, CallInv, ReportInv, FieldInv, OnBreakpoint
  PROVE  FieldInv'
<1>1. SUFFICES ASSUME clean'  PROVE FieldInv'
  BY DEF FieldInv
<1>2. /\ Execute(cur, result.pc) /\ AtStop /\ clean
      /\ UNCHANGED <<prog, breaks, phase>> /\ recorded' = recorded \cup Findings
  BY <1>1 DEF OnBreakpoint, ContinueExecution, AtStop
<1>3. result.pc = cur.pc /\ at = cur.pc /\ at \in DOMAIN Loaded(cur) /\ cur \in State
  BY <1>2 DEF ReportInv, ToldInv, CallInv, Flow, AtStop, IInv, StateOK
<1>4. at' = at /\ result' = Running /\ cur' = [cur EXCEPT !.mode = "running"]
  BY <1>2, <1>3 DEF Execute
<1>5. cur'.code = cur.code /\ cur'.regs = cur.regs /\ cur'.pc = cur.pc
  BY <1>3, <1>4 DEF State
<1>6. ins' = ins /\ ~AtStop'
  BY <1>2, <1>4, <1>5, SameInstruction, ResultsDiffer DEF AtStop
<1>7. ASSUME ins.op = "sput", IsText(cur.regs[ins.reg])
      PROVE  \E n \in recorded' : n.of = "field" /\ n.code = cur.code /\ n.pc = cur.pc
  <2>. DEFINE v == OnHeap(cur.regs[ins.reg])
  <2>1. result.of = "field" /\ result.context = ins.reg /\ v \in StringKinds
    BY <1>2, <1>7 DEF FieldInv, IsText
  <2>2. Findings = {Note(v)}
    BY <2>1 DEF Findings
  <2>. HIDE DEF v
  <2>3. Note(v).of = "field" /\ Note(v).code = cur.code /\ Note(v).pc = cur.pc
    BY <1>3, <2>1 DEF Note
  <2>. QED  BY <1>2, <2>2, <2>3
<1>. QED  BY <1>2, <1>5, <1>6, <1>7 DEF FieldInv

LEMMA FieldStep == IInv /\ CallInv /\ ReportInv /\ FieldInv /\ [Next]_vars => FieldInv'
<1> SUFFICES ASSUME IInv, CallInv, ReportInv, FieldInv, [Next]_vars  PROVE FieldInv'
  OBVIOUS
<1>1. CASE First \/ Second
  <2>1. SUFFICES ASSUME clean'  PROVE FieldInv'
    BY DEF FieldInv
  <2>2. /\ clean /\ phase \in {"new", "between"} /\ Start(prog.entry, prog.args) /\ skip' = skip
        /\ phase' = "second" => OwnFields \subseteq breaks'
    BY <1>1, <2>1 DEF First, Second, Discover, Start
  <2>3. ~skip
    BY <2>2 DEF ReportInv, ToldInv
  <2>4. ~AtStop'
    BY <2>2, ResultsDiffer DEF Start, Execute, AtStop
  <2>. QED  BY <2>2, <2>3, <2>4 DEF FieldInv
<1>2. CASE OnError
  <2>1. clean' = clean /\ ~clean
    BY <1>2 DEF OnError, CallInv, Flow
  <2>. QED  BY <2>1 DEF FieldInv
<1>3. CASE NextMethod \/ DiscoveryEnd \/ UNCHANGED vars
  <2>1. UNCHANGED <<vmVars, recorded>> /\ (phase' = "second" => phase = "second")
    BY <1>3 DEF NextMethod, DiscoveryEnd, vars, driverVars
  <2>. QED  BY <2>1 DEF vmVars, FieldInv, AtStop, ins, Loaded, Code
<1>. QED  BY <1>1, <1>2, <1>3, FieldTurn, FieldContinued DEF Next

\* A step that puts a string into a field of the class was reported and noted.
Noting ==
  phase = "second" /\ clean /\ instances' # instances /\ ins.op = "sput"
     /\ ins.to \in OwnFields /\ IsText(cur.regs[ins.reg]) =>
       \E n \in recorded : n.of = "field" /\ n.code = cur.code /\ n.pc = cur.pc

\* The invariant and a step at a sput.
LEMMA NotingStep ==
  ASSUME IInv, FieldInv, [Next]_vars
  PROVE  Noting
<1>1. SUFFICES ASSUME phase = "second", clean, instances' # instances, ins.op = "sput",
                      ins.to \in OwnFields, IsText(cur.regs[ins.reg])
               PROVE  \E n \in recorded : n.of = "field" /\ n.code = cur.code /\ n.pc = cur.pc
  BY DEF Noting
<1>2. Step
  BY <1>1 DEF Next, Emulate, First, Second, Discover, Start, NextMethod, OnBreakpoint, OnError,
     ContinueExecution, DiscoveryEnd, vars, vmVars
<1>3. StaticPut
  BY <1>1, <1>2 DEF Step, TooManySteps, Data, DataFails, MoveResult, FilledNewArray, Nop, Goto, If,
     Switch, BranchFails, Throw, ReturnVoid, ReturnStops, Return, InvokeStops, InvokeTooDeep,
     InvokeCode, InvokeFails, InvokeBuiltin, BuiltinFails, Pass, RunInitializer, StaticGet,
     PutStops, PutFails, StaticPutInt, Turn
<1>4. cur.regs[ins.reg] # "object"
  BY <1>1 DEF IsText, OnHeap, StringKinds
<1>5. skip
  BY <1>1, <1>3, <1>4 DEF StaticPut, FieldInv
<1>. QED  BY <1>1, <1>5 DEF FieldInv

\* In the second discovery and before the first failure, a string is put into a field of the
\* class only after the stop for it was noted, for every program.
THEOREM OwnFieldsCorrect == Spec => OwnFieldsNoted
<1>1. Init => CallInv /\ ReportInv /\ FieldInv
  BY ResultsDiffer DEF Init, NewMachine, Frame, CallInv, Chain, Flow, ReportInv, ToldInv, ModesInv,
     Pending, AtStop, FieldInv
<1>2. IInv /\ FieldInv /\ [Next]_vars => Noting
  BY NotingStep
<1>. QED  BY <1>1, <1>2, CallStep, ReportStep, FieldStep, InvCorrect, PTL
          DEF Spec, OwnFieldsNoted, Noting

-----------------------------------------------------------------------------
(* What is noted of the arguments.                                         *)

\* What is noted, with what the stop at hand is about to add.
Found == recorded \cup (IF AtStop THEN Findings ELSE {})

\* A pending skip is that of a stop in the method executed; and what was reported of the
\* invoke under way is found.
NotedInv ==
  clean =>
    /\ skip => methodIdx = cur.method
    /\ \A i \in told : IsNotedOf(i) => ArgumentNote(i) \in Found

\* What there is to be noted depends on the instruction, the registers and the method.
LEMMA SameNotes ==
  ASSUME prog' = prog, ins' = ins, cur'.regs = cur.regs, cur'.code = cur.code, cur'.pc = cur.pc,
         cur'.method = cur.method
  PROVE  /\ \A i : Argument(i)' = Argument(i) /\ ArgumentNote(i)' = ArgumentNote(i)
         /\ told' = told => \A i : IsNotedOf(i)' = IsNotedOf(i)
<1>1. \A i : Argument(i)' = Argument(i)
  BY DEF Argument
<1>. QED  BY <1>1 DEF ArgumentNote, IsNotedOf

\* A stop at an argument adds its note, if it names the method that is discovered or is at an
\* array.
LEMMA FindingsWillBe ==
  ASSUME NEW j, result'.of = "argument", result'.pc = cur'.pc, result'.context = j,
         NEW v, v = Argument(j)', NEW n, n = ArgumentNote(j)'
  PROVE  /\ Findings' \subseteq {n}
         /\ n \in Findings' <=>
              IsArray(v) \/ (OnHeap(v) = "string" /\ result'.method = prog'.entry)
<1>. DEFINE w == OnHeap(v)
<1>1. n = Note(w)'
  BY DEF ArgumentNote, Note
<1>2. Findings' = CASE w = "array" -> {Note(w)'}
                    [] w = "string" /\ result'.method = prog'.entry -> {Note(w)'}
                    [] OTHER -> {}
  BY DEF Findings
<1>. HIDE DEF w
<1>3. w = "array" => Findings' = {n}
  BY <1>1, <1>2
<1>4. w = "string" /\ result'.method = prog'.entry => Findings' = {n}
  BY <1>1, <1>2
<1>5. w # "array" /\ ~(w = "string" /\ result'.method = prog'.entry) => Findings' = {}
  BY <1>2
<1>. QED  BY <1>3, <1>4, <1>5 DEF w, IsArray

\* The stop at an invoke: which argument it is, and which method it names.
LEMMA InvokeStopIs ==
  ASSUME IInv, CallInv, ReportInv, clean, InvokeStops
  PROVE  /\ result = Running /\ ins.op \in Invokes /\ AtStop' /\ ~AtStop
         /\ UNCHANGED <<prog, frames, at, methodIdx, instances, clean>> /\ skip' = FALSE
         /\ cur'.regs = cur.regs /\ cur'.code = cur.code /\ cur'.pc = cur.pc
         /\ cur'.method = cur.method /\ ins' = ins
         /\ result'.of = "argument" /\ result'.pc = cur.pc
         /\ result'.context \in Kinds /\ told' = told \cup {result'.context}
         /\ \A k \in told : k < result'.context
         /\ result'.method = IF ins.op = "invoke_static" THEN methodIdx ELSE cur.method
<1>1. /\ result = Running /\ ins.op \in Invokes /\ skip' = FALSE
      /\ UNCHANGED <<prog, frames, at, methodIdx, instances, clean>>
  BY DEF InvokeStops, Turn
<1>2. PICK j \in Stops :
        /\ cur' = [me EXCEPT !.mode = "paused", !.argReg = j]
        /\ result' = Breakpoint(cur.pc, IF ins.op = "invoke_static" THEN methodIdx ELSE cur.method,
                                "argument", j)
        /\ told' = told \cup {j}
  BY DEF InvokeStops
<1>3. /\ result'.kind = "breakpoint" /\ result'.of = "argument" /\ result'.pc = cur.pc
      /\ result'.context = j
      /\ result'.method = IF ins.op = "invoke_static" THEN methodIdx ELSE cur.method
  BY <1>2 DEF Breakpoint
<1>4. me \in State /\ me.code = cur.code /\ me.regs = cur.regs /\ me.pc = cur.pc
      /\ me.method = cur.method
  BY <1>1, MeType DEF StateOK
<1>5. /\ cur'.regs = cur.regs /\ cur'.code = cur.code /\ cur'.pc = cur.pc
      /\ cur'.method = cur.method
  BY <1>2, <1>4 DEF State
<1>6. ins' = ins
  BY <1>1, <1>5, SameInstruction
<1>7. j \in Kinds
  BY <1>2 DEF ReportInv, ToldInv, IsStopKind, Kinds, UseBreaks, Stops, Unseen
<1>8. \A k \in told : k < j
  <2>1. j \in Unseen \ Passed /\ cur.argReg \in Nat /\ Positions \subseteq Nat
    BY <1>1, <1>2, ArgumentType DEF Stops, IInv, StateOK, State
  <2>2. told = IF skip THEN {k \in Kinds : k <= cur.argReg} ELSE {}
    BY <1>1, ResultsDiffer DEF ReportInv, ToldInv, Pending, AtStop
  <2>. QED  BY <2>1, <2>2 DEF Unseen, Passed, Kinds
<1>. QED  BY <1>1, <1>2, <1>3, <1>5, <1>6, <1>7, <1>8, ResultsDiffer DEF AtStop

\* A turn: a stop is about to be noted, and nothing else stays reported.
LEMMA NotedTurn ==
  ASSUME IInv, CallInv, ReportInv, NotedInv, Emulate
  PROVE  NotedInv'
<1>1. Step /\ recorded' = recorded
  BY DEF Emulate, driverVars
<1>2. SUFFICES ASSUME clean'  PROVE NotedInv'
  BY DEF NotedInv
<1>3. clean /\ result = Running
  BY <1>1, <1>2, TurnNames
<1>4. skip' = FALSE
  BY <1>1, <1>2, <1>3, SkipIsSpent
<1>5. CASE InvokeStops
  <2>0. PICK j : j = result'.context
    OBVIOUS
  <2>1. /\ j = result'.context
        /\ prog' = prog /\ ins' = ins /\ cur'.regs = cur.regs /\ cur'.code = cur.code
        /\ cur'.pc = cur.pc /\ cur'.method = cur.method /\ AtStop' /\ ~AtStop
        /\ result'.of = "argument" /\ result'.pc = cur.pc /\ ins.op \in Invokes
        /\ told' = told \cup {j} /\ \A k \in told : k < j
        /\ j \in Kinds /\ methodIdx' = methodIdx
        /\ result'.method = IF ins.op = "invoke_static" THEN methodIdx ELSE cur.method
    BY <1>3, <1>5, <2>0, InvokeStopIs
  <2>2. \A i : Argument(i)' = Argument(i) /\ ArgumentNote(i)' = ArgumentNote(i)
    BY <2>1, SameNotes
  <2>3. told # {} => skip
    BY <1>3, <2>1 DEF ReportInv, ToldInv, Pending
  <2>4. ASSUME NEW i \in told', IsNotedOf(i)'
        PROVE  ArgumentNote(i)' \in Found'
    <3>1. \/ IsArray(Argument(i))
          \/ /\ OnHeap(Argument(i)) = "string" /\ cur.method = prog.entry
             /\ ins.op = "invoke_virtual" \/ \E k \in told' : k < i
      BY <2>1, <2>2, <2>4 DEF IsNotedOf
    <3>2. CASE i = j
      <4>1. OnHeap(Argument(j)) = "string" => result'.method = prog'.entry
        <5>. SUFFICES ASSUME OnHeap(Argument(j)) = "string"  PROVE result'.method = prog'.entry
          OBVIOUS
        <5>1. /\ cur.method = prog.entry
              /\ ins.op = "invoke_virtual" \/ \E k \in told' : k < j
          BY <3>1, <3>2 DEF IsArray
        <5>2. j \in Nat
          BY <1>3, <2>1, ArgumentType DEF Kinds
        <5>3. ins.op = "invoke_virtual" \/ told # {}
          BY <2>1, <5>1, <5>2
        <5>4. ins.op = "invoke_virtual" \/ methodIdx = cur.method
          BY <1>3, <2>3, <5>3 DEF NotedInv
        <5>. QED  BY <2>1, <5>1, <5>4
      <4>2. ArgumentNote(j)' \in Findings'
        <5>. DEFINE v == Argument(j)
                    n == ArgumentNote(j)
        <5>1. v = Argument(j)' /\ n = ArgumentNote(j)'
          BY <2>2
        <5>2. IsArray(v) \/ (OnHeap(v) = "string" /\ result'.method = prog'.entry)
          BY <3>1, <3>2, <4>1
        <5>. HIDE DEF v, n
        <5>3. result'.of = "argument" /\ result'.pc = cur'.pc /\ result'.context = j
          BY <2>1
        <5>4. n \in Findings'
          BY <5>1, <5>2, <5>3, FindingsWillBe
        <5>. QED  BY <5>1, <5>4
      <4>. QED  BY <2>1, <2>2, <3>2, <4>2 DEF Found
    <3>3. CASE i # j
      <4>1. i \in told /\ ~(j < i)
        <5>1. i \in told /\ i < j /\ j \in Nat /\ i \in Nat
          BY <1>3, <2>1, <3>3, ArgumentType DEF Kinds, IInv, RestOK
        <5>. QED  BY <5>1
      <4>2. IsNotedOf(i)
        BY <2>1, <3>1, <4>1 DEF IsNotedOf
      <4>3. ArgumentNote(i) \in recorded
        BY <1>3, <2>1, <4>1, <4>2 DEF NotedInv, Found
      <4>. QED  BY <1>1, <2>2, <4>3 DEF Found
    <3>. QED  BY <3>2, <3>3
  <2>. QED  BY <1>4, <2>4 DEF NotedInv
<1>6. CASE ~InvokeStops
  <2>1. told' = {}
    <3>1. CASE ins.op \in Invokes
      <4>1. InvokeCode \/ InvokeBuiltin
        BY <1>1, <1>2, <1>6, <3>1, FailureNames DEF Step, Data, DataFails, MoveResult, FilledNewArray, Nop, Goto, If,
           Switch, BranchFails, Throw, ReturnVoid, ReturnStops, Return, RunInitializer, StaticGet, PutStops,
           StaticPut, PutFails, StaticPutInt, Turn, Invokes, DataOps, Unary, Binary
      <4>. QED  BY <4>1 DEF InvokeCode, InvokeBuiltin, Pass
    <3>2. CASE ins.op \notin Invokes
      <4>1. told = {}
        BY <1>3, <3>2 DEF ReportInv, ToldInv, Pending
      <4>2. told' = told
        BY <1>1, <1>2, <3>2, FailureNames DEF Step, Data, MoveResult, FilledNewArray, Nop, Goto, If,
           Switch, ReturnVoid, ReturnStops, Return, RunInitializer, StaticGet, PutStops,
           StaticPut, StaticPutInt, InvokeStops, InvokeCode, InvokeBuiltin, Pass, Turn
      <4>. QED  BY <4>1, <4>2
    <3>. QED  BY <3>1, <3>2
  <2>. QED  BY <1>4, <2>1 DEF NotedInv
<1>. QED  BY <1>5, <1>6

\* The driver notes what the stop adds before it goes on.
LEMMA NotedDriver ==
  ASSUME IInv, CallInv, ReportInv, NotedInv,
         First \/ Second \/ NextMethod \/ OnBreakpoint \/ OnError \/ DiscoveryEnd \/ UNCHANGED vars
  PROVE  NotedInv'
<1>1. CASE First \/ Second
  <2>1. SUFFICES ASSUME clean'  PROVE NotedInv'
    BY DEF NotedInv
  <2>2. told' = {} /\ skip' = skip /\ clean /\ phase \in {"new", "between"}
    BY <1>1, <2>1 DEF First, Second, Discover, Start
  <2>3. ~skip
    BY <2>2 DEF ReportInv, ToldInv
  <2>. QED  BY <2>2, <2>3 DEF NotedInv
<1>2. CASE OnBreakpoint
  <2>1. SUFFICES ASSUME clean'  PROVE NotedInv'
    BY DEF NotedInv
  <2>2. /\ Execute(cur, result.pc) /\ AtStop /\ clean
        /\ UNCHANGED <<prog, told>> /\ recorded' = recorded \cup Findings
    BY <1>2, <2>1 DEF OnBreakpoint, ContinueExecution, AtStop
  <2>3. result.pc = cur.pc /\ at = cur.pc /\ at \in DOMAIN Loaded(cur) /\ cur \in State
    BY <2>2 DEF ReportInv, ToldInv, CallInv, Flow, AtStop, IInv, StateOK
  <2>4. at' = at /\ result' = Running /\ cur' = [cur EXCEPT !.mode = "running"] /\ methodIdx' = cur.method
    BY <2>2, <2>3 DEF Execute
  <2>5. cur'.code = cur.code /\ cur'.regs = cur.regs /\ cur'.pc = cur.pc /\ cur'.method = cur.method
    BY <2>3, <2>4 DEF State
  <2>6. ins' = ins /\ ~AtStop'
    BY <2>2, <2>4, <2>5, SameInstruction, ResultsDiffer DEF AtStop
  <2>7. Found' = Found
    BY <2>2, <2>6 DEF Found
  <2>8. \A i : ArgumentNote(i)' = ArgumentNote(i) /\ IsNotedOf(i)' = IsNotedOf(i)
    BY <2>2, <2>5, <2>6, SameNotes
  <2>. QED  BY <2>2, <2>4, <2>5, <2>7, <2>8 DEF NotedInv
<1>3. CASE OnError
  BY <1>3 DEF OnError, CallInv, Flow, NotedInv
<1>4. CASE NextMethod \/ DiscoveryEnd \/ UNCHANGED vars
  <2>1. UNCHANGED <<vmVars, recorded>>
    BY <1>4 DEF NextMethod, DiscoveryEnd, vars, driverVars
  <2>2. UNCHANGED <<prog, cur, at, methodIdx, skip, result, clean, told, recorded>>
    BY <2>1 DEF vmVars
  <2>3. ins' = ins
    BY <2>2 DEF ins, Loaded, Code
  <2>4. \A i : ArgumentNote(i)' = ArgumentNote(i) /\ IsNotedOf(i)' = IsNotedOf(i)
    BY <2>2, <2>3, SameNotes
  <2>5. Found' = Found
    <3>1. Findings' = Findings
      BY <2>2, <2>3 DEF Findings, Note, Argument
    <3>. QED  BY <2>2, <3>1 DEF Found, AtStop
  <2>. QED  BY <2>2, <2>4, <2>5 DEF NotedInv
<1>. QED  BY <1>1, <1>2, <1>3, <1>4

LEMMA NotedStep == IInv /\ CallInv /\ ReportInv /\ NotedInv /\ [Next]_vars => NotedInv'
BY NotedTurn, NotedDriver DEF Next

\* What is passed on was noted.
Passes ==
  clean /\ result = Running /\ ins.op \in Invokes /\ result'.kind # "breakpoint" /\ clean' /\ ~InInitializer =>
    \A i \in Positions : IsNotedOf(i) => ArgumentNote(i) \in recorded

LEMMA PassesStep ==
  ASSUME IInv, CallInv, ReportInv, NotedInv, [Next]_vars
  PROVE  UNCHANGED vars \/ Passes
<1>1. SUFFICES ASSUME ~UNCHANGED vars, clean, result = Running, ins.op \in Invokes,
                      result'.kind # "breakpoint", clean', ~InInitializer,
                      NEW i \in Positions, IsNotedOf(i)
               PROVE  ArgumentNote(i) \in recorded
  BY DEF Passes
<1>2. told = Kinds
  BY <1>1, ReportingStep DEF Reporting, Kinds
<1>3. i \in Kinds
  BY <1>1 DEF IsNotedOf, Kinds, IsText, StringKinds
<1>4. ArgumentNote(i) \in Found
  BY <1>1, <1>2, <1>3 DEF NotedInv
<1>. QED  BY <1>1, <1>4, ResultsDiffer DEF Found, AtStop

\* In direct execution and before the first failure, arrays and the discovered method's own
\* strings are noted before they are passed on, for every program.
THEOREM PassedCorrect == Spec => PassedIsNoted
<1>1. Init => CallInv /\ ReportInv /\ NotedInv
  BY ResultsDiffer DEF Init, NewMachine, Frame, CallInv, Chain, Flow, ReportInv, ToldInv, ModesInv,
     Pending, AtStop, NotedInv
<1>2. IInv /\ CallInv /\ ReportInv /\ NotedInv /\ [Next]_vars => UNCHANGED vars \/ Passes
  BY PassesStep
<1>. QED  BY <1>1, <1>2, CallStep, ReportStep, NotedStep, InvCorrect, PTL DEF Spec, PassedIsNoted, Passes

-----------------------------------------------------------------------------
(* Discovering again a method that does the same each time.  Its own code  *)
(* takes a course that the program alone decides: the places it comes to,  *)
(* with what its registers hold there and whether the local method_idx     *)
(* names the method still.                                                 *)

Places(p) == [pc : Int, regs : RegsOf(p.entry), own : BOOLEAN]
Begin(p)  == [pc |-> 0, regs |-> Registers(p.entry, p.args), own |-> TRUE]

\* The instruction of the own code at a place.
IsIn(p, s)    == s.pc \in DOMAIN p.code[p.entry]
InsAt(p, s)   == p.code[p.entry][s.pc]
IsAt(p, s, ops) == IsIn(p, s) /\ InsAt(p, s).op \in ops

\* What an instruction leaves in its register if it does not fail.
Left(i, regs) ==
  LET v    == regs[i.args[1]]
      ints == \A k \in DOMAIN i.args : regs[i.args[k]] = "int"
  IN CASE i.op \in {"load", "new_instance"}      -> i.to
       [] i.op = "move"                          -> v
       [] i.op \in {"arithmetic", "remainder"}   -> IF ints THEN "int" ELSE "empty"
       [] i.op = "narrow"                        -> IF v = "int" THEN "int" ELSE "kept"
       [] i.op = "array_length"                  -> IF IsArray(v) THEN "int" ELSE "kept"
       [] i.op = "aget"                          -> IF IsArray(v) /\ regs[i.args[2]] = "int"
                                                    THEN "int" ELSE "kept"
       [] i.op = "new_array"                     -> IF v = "int" THEN i.to ELSE "kept"
       [] i.op = "iget"                          -> IF IsArray(v) THEN "kept" ELSE "int"
       [] i.op = "sget_int"                      -> "int"
       [] OTHER                                  -> "kept"

\* What is read from a field that is never put.
Constant(f) == IF FieldOf[f].data = "string" THEN "string" ELSE "object"

\* The next place.
Place(pc, regs, own) == [pc |-> pc, regs |-> regs, own |-> own]
Moved(p, s) ==
  LET i == InsAt(p, s)
      v == Left(i, s.regs)
      next == s.pc + i.size
  IN CASE i.op \in DataOps ->
            Place(next, IF v = "kept" THEN s.regs ELSE [s.regs EXCEPT ![i.reg] = v], s.own)
       [] i.op = "sget"    -> Place(next, [s.regs EXCEPT ![i.reg] = Constant(i.to)], s.own)
       [] i.op = "goto"    -> Place(s.pc + i.off, s.regs, s.own)
       [] i.op \in Invokes -> Place(next, s.regs, MethodOf[i.to].kind = "builtin")
       [] i.op \in {"filled_new_array", "nop", "sput", "sput_int"} -> Place(next, s.regs, s.own)
       [] OTHER            -> s
Onward(p, s) == IF IsIn(p, s) /\ Moved(p, s) \in Places(p) THEN Moved(p, s) ELSE s

IsCourse(p, f) == f[0] = Begin(p) /\ \A k \in Nat : f[k + 1] = Onward(p, f[k])
Course(p)      == CHOOSE f \in [Nat -> Places(p)] : IsCourse(p, f)

LEMMA CourseIs ==
  ASSUME NEW p \in Programs
  PROVE  Course(p) \in [Nat -> Places(p)] /\ IsCourse(p, Course(p))
<1>1. Begin(p) \in Places(p)
  <2>1. p.entry \in Methods /\ p.args \in Seq(Values)
    BY ProgramsAssumption
  <2>2. \A k \in DOMAIN p.args : p.args[k] \in Values
    BY <2>1
  <2>3. Registers(p.entry, p.args) \in RegsOf(p.entry)
    BY <2>1, <2>2, RegistersType
  <2>. QED  BY <2>3 DEF Begin, Places
<1>. DEFINE step == [s \in Places(p) |-> Onward(p, s)]
<1>2. step \in [Places(p) -> Places(p)]
  BY DEF Onward
<1>. HIDE DEF step
<1>3. PICK f \in [Nat -> Places(p)] : f[0] = Begin(p) /\ \A k \in Nat \ {0} : f[k] = step[f[k - 1]]
  BY <1>1, <1>2, StepsExist
<1>4. ASSUME NEW k \in Nat  PROVE f[k + 1] = Onward(p, f[k])
  <2>1. k + 1 \in Nat \ {0} /\ (k + 1) - 1 = k
    OBVIOUS
  <2>2. f[k + 1] = step[f[k]]
    BY <1>3, <2>1
  <2>. QED  BY <2>2 DEF step
<1>5. IsCourse(p, f)
  BY <1>3, <1>4 DEF IsCourse
<1>. QED  BY <1>5 DEF Course

\* Where the course stands still it stays.
LEMMA CourseStands ==
  ASSUME NEW p \in Programs, NEW k \in Nat, Onward(p, Course(p)[k]) = Course(p)[k],
         NEW j \in Nat, j >= k
  PROVE  Course(p)[j] = Course(p)[k]
<1>. DEFINE f == Course(p)
            T == {n \in Nat : n >= k => f[n] = f[k]}
<1>1. \A n \in Nat : f[n + 1] = Onward(p, f[n])
  BY CourseIs DEF IsCourse
<1>. HIDE DEF f
<1>2. 0 \in T
  OBVIOUS
<1>3. ASSUME NEW n \in Nat, n \in T  PROVE n + 1 \in T
  <2>1. CASE n >= k
    <3>1. f[n] = f[k]
      BY <1>3, <2>1
    <3>2. f[n + 1] = f[k]
      BY <1>1, <3>1 DEF f
    <3>. QED  BY <3>2
  <2>2. CASE ~(n >= k)
    <3>1. n + 1 >= k => n + 1 = k
      BY <2>2
    <3>. QED  BY <3>1
  <2>. QED  BY <2>1, <2>2
<1>. HIDE DEF T
<1>4. Nat \subseteq T
  BY <1>2, <1>3, SetInduction
<1>5. j \in T
  BY <1>4
<1>. QED  BY <1>5 DEF T, f

\* An instruction other than one that reads an object has at most one outcome.
LEMMA OutcomeIs ==
  ASSUME IInv, result = Running, ins.op \in DataOps \ {"iget_object"},
         NEW v \in Outcomes \ Failures
  PROVE  v = Left(ins, cur.regs)
<1>. DEFINE w == cur.regs[ins.args[1]]
<1>1. Operand(1) = w /\ Operand(2) = cur.regs[ins.args[2]]
  BY DEF Operand
<1>2. AreIntegers <=> \A k \in DOMAIN ins.args : cur.regs[ins.args[k]] = "int"
  BY DEF AreIntegers, Operand
<1>3. IsArray(w) => w \in References
  BY DEF IsArray, OnHeap, References, Masked
<1>. HIDE DEF w
<1>4. CASE ins.op \in {"load", "move", "arithmetic", "remainder", "narrow"}
  BY <1>1, <1>2, <1>4 DEF Outcomes, Failures, Left, Arithmetic, Remainder, Narrow, w
<1>5. CASE ins.op = "array_length"
  BY <1>1, <1>3, <1>5 DEF Outcomes, Failures, Left, ArrayLength, w
<1>6. CASE ins.op = "aget"
  BY <1>1, <1>3, <1>6 DEF Outcomes, Failures, Left, ArrayGet, w
<1>7. CASE ins.op = "aput"
  BY <1>1, <1>3, <1>7 DEF Outcomes, Failures, Left, ArrayPut, w
<1>8. CASE ins.op = "new_instance"
  BY <1>8 DEF Outcomes, Failures, Left, NewInstance
<1>11. CASE ins.op = "new_array"
  <2>1. Outcomes = NewArray /\ Left(ins, cur.regs) = IF w = "int" THEN ins.to ELSE "kept"
    BY <1>1, <1>11 DEF Outcomes, Left, w
  <2>. QED  BY <1>1, <2>1 DEF NewArray, Failures
<1>9. CASE ins.op = "iget"
  BY <1>1, <1>3, <1>9 DEF Outcomes, Failures, Left, InstanceGet, w
<1>10. CASE ins.op = "sget_int"
  BY <1>10 DEF Outcomes, Failures, Left, StaticGetInt
<1>. QED  BY <1>4, <1>5, <1>6, <1>7, <1>8, <1>9, <1>10, <1>11 DEF DataOps, Unary, Binary

-----------------------------------------------------------------------------
(* Fields that are never put hold their constant once they are read.       *)

Kept ==
  \A f \in Fields : ~IsPut(f) /\ FieldOf[f].data # "int" =>
                      instances[f] \in {"none", Constant(f)}

\* A state that is about to repeat a sget has found a constant string stored.
Repeats(c) ==
  c.mode = "running_init" =>
    /\ c.pc \in DOMAIN Loaded(c) /\ Loaded(c)[c.pc].op = "sget"
    /\ FieldOf[Loaded(c)[c.pc].to].data = "string" => instances[Loaded(c)[c.pc].to] # "none"

KeptInv ==
  clean => /\ Kept
           /\ \A i \in DOMAIN frames : Repeats(frames[i])
           /\ result = Running => Repeats(cur)

\* Fields that have a value keep one.
LEMMA InstancesStep ==
  ASSUME IInv, Step
  PROVE  /\ \A f \in Fields : instances[f] # "none" => instances'[f] # "none"
         /\ instances' = instances \/ RunInitializer \/ StaticGet \/ StaticPut \/ StaticPutInt
<1>1. "none" \notin Values
  BY DEF Values, References, StringKinds, Masked
<1>2. CASE RunInitializer
  BY <1>2 DEF RunInitializer, WithConstant, Absent, IInv, RestOK
<1>3. CASE StaticGet
  BY <1>3 DEF StaticGet, Delivered, WithConstant, Absent, IInv, RestOK
<1>4. CASE StaticPut
  <2>1. OnHeap(cur.regs[ins.reg]) # "none"
    BY <1>1, <1>4, HeapType DEF StaticPut, Values
  <2>. QED  BY <1>4, <2>1 DEF StaticPut, IInv, RestOK
<1>5. CASE StaticPutInt
  BY <1>5 DEF StaticPutInt, IInv, RestOK
<1>6. CASE ~(RunInitializer \/ StaticGet \/ StaticPut \/ StaticPutInt)
  BY <1>6 DEF Step, TooManySteps, Data, DataFails, MoveResult, FilledNewArray, Nop, Goto, If, Switch,
     BranchFails, Throw, ReturnVoid, ReturnStops, Return, InvokeStops, InvokeTooDeep, InvokeCode,
     InvokeFails, InvokeBuiltin, BuiltinFails, Pass, PutStops, PutFails
<1>. QED  BY <1>2, <1>3, <1>4, <1>5, <1>6

\* What the sget at hand delivers.
LEMMA DeliveredIs ==
  ASSUME IInv, KeptInv, clean, result = Running, at = cur.pc, ins.op = "sget"
  PROVE  LET i == Delivered(ins.to) IN
         /\ ins.to \in Fields /\ FieldOf[ins.to].data # "int"
         /\ i \in [Fields -> Values \cup {"none"}]
         /\ \A f \in Fields \ {ins.to} : i[f] = instances[f]
         /\ ~IsPut(ins.to) /\ i[ins.to] # "none" => i[ins.to] = Constant(ins.to)
<1>1. ins.to \in Fields /\ FieldOf[ins.to].data # "int"
  BY InsType DEF WellFormed
<1>2. instances \in [Fields -> Values \cup {"none"}]
  BY DEF IInv, RestOK
<1>3. ~IsPut(ins.to) => instances[ins.to] \in {"none", Constant(ins.to)}
  BY <1>1 DEF KeptInv, Kept
<1>4. cur.mode = "running_init" /\ FieldOf[ins.to].data = "string" => instances[ins.to] # "none"
  BY DEF KeptInv, Repeats, ins
<1>5. Delivered(ins.to) \in [Fields -> Values \cup {"none"}]
  BY <1>1, FieldsType
<1>. QED  BY <1>1, <1>2, <1>3, <1>4, <1>5 DEF Delivered, WithConstant, Absent, Constant

\* A turn leaves unput fields with their constants.
LEMMA KeptTurn ==
  ASSUME IInv, CallInv, KeptInv, clean, result = Running, Step
  PROVE  Kept'
<1>1. prog' = prog /\ instances \in [Fields -> Values \cup {"none"}]
  BY TurnNames DEF IInv, RestOK
<1>2. \A f : IsPut(f)' = IsPut(f)
  BY <1>1 DEF IsPut, Code, HasCode
<1>3. Kept /\ at = cur.pc
  BY DEF KeptInv, CallInv, Flow
<1>4. CASE instances' = instances
  BY <1>2, <1>3, <1>4 DEF Kept
<1>5. CASE RunInitializer
  <2>1. instances' = WithConstant(ins.to) /\ ins.op = "sget"
    BY <1>5 DEF RunInitializer, Turn
  <2>. QED  BY <1>1, <1>2, <1>3, <2>1 DEF Kept, WithConstant, Constant
<1>6. CASE StaticGet
  <2>1. instances' = Delivered(ins.to) /\ ins.op = "sget"
    BY <1>6 DEF StaticGet, Turn
  <2>2. PICK i : i = Delivered(ins.to)
    OBVIOUS
  <2>3. /\ ins.to \in Fields /\ \A f \in Fields \ {ins.to} : i[f] = instances[f]
        /\ ~IsPut(ins.to) /\ i[ins.to] # "none" => i[ins.to] = Constant(ins.to)
    BY <1>3, <2>1, <2>2, DeliveredIs
  <2>. QED  BY <1>2, <1>3, <2>1, <2>2, <2>3 DEF Kept
<1>7. CASE StaticPut
  <2>1. ins.op = "sput" /\ instances' = [instances EXCEPT ![ins.to] = OnHeap(cur.regs[ins.reg])]
    BY <1>7 DEF StaticPut, Turn
  <2>2. IsPut(ins.to)
    <3>1. /\ cur.code \in Methods /\ HasCode(cur.code)
          /\ at \in DOMAIN Code(cur.code) /\ ins = Code(cur.code)[at]
      BY InsType DEF ins
    <3>. QED  BY <2>1, <3>1 DEF IsPut
  <2>. QED  BY <1>1, <1>2, <1>3, <2>1, <2>2 DEF Kept
<1>8. CASE StaticPutInt
  <2>1. /\ ins.op = "sput_int"
        /\ instances' = instances \/ instances' = [instances EXCEPT ![ins.to] = "int"]
    BY <1>8 DEF StaticPutInt, Turn
  <2>2. FieldOf[ins.to].data = "int"
    BY <2>1, InsType DEF WellFormed
  <2>. QED  BY <1>1, <1>2, <1>3, <2>1, <2>2 DEF Kept
<1>. QED  BY <1>4, <1>5, <1>6, <1>7, <1>8, InstancesStep

-----------------------------------------------------------------------------
(* What a turn does to the stack, before the first failure.                *)

GoingOn == result' \in {Running, NoInstruction}

Remains ==
  /\ frames' = frames /\ GoingOn
  /\ cur'.code = cur.code /\ cur'.method = cur.method /\ cur'.mode # "running_init"

Calls(f) ==
  /\ frames' = Append(frames, f) /\ GoingOn
  /\ f.code = cur.code /\ f.pc = cur.pc /\ f.regs = cur.regs
  /\ methodIdx' = cur'.method /\ cur'.mode # "running_init"
  /\ \/ ins.op \in Invokes /\ HasCode(ins.to) /\ f.mode = cur.mode /\ cur'.method = ins.to
        /\ instances' = instances
     \/ ins.op = "sget" /\ Absent(ins.to) /\ f.mode = "running_init"
        /\ cur'.method = FieldOf[ins.to].clinit /\ instances' = WithConstant(ins.to)
        /\ cur.mode # "running_init"

Resumes ==
  /\ frames # <<>> /\ frames' = Front(frames) /\ GoingOn
  /\ LET f == Last(frames) IN
     /\ cur'.code = f.code /\ cur'.regs = f.regs /\ cur'.mode = f.mode
     /\ cur'.pc = IF f.mode = "running_init" THEN f.pc ELSE f.pc + Loaded(f)[f.pc].size
  /\ methodIdx' = methodIdx /\ instances' = instances

Pauses ==
  /\ AtStop' /\ UNCHANGED <<frames, methodIdx, instances>>
  /\ cur'.code = cur.code /\ cur'.pc = cur.pc /\ cur'.regs = cur.regs
  /\ cur'.method = cur.method /\ ins' = ins

Ends ==
  /\ frames = <<>> /\ frames' = <<>> /\ result' = Ok
  /\ cur'.code = cur.code /\ cur'.pc = cur.pc /\ cur'.regs = cur.regs
  /\ ins.op \in {"return", "return_void"} /\ instances' = instances

\* Instructions of one method.
LEMMA InstructionRemains ==
  ASSUME IInv, CallInv, clean,
         Data \/ MoveResult \/ FilledNewArray \/ Nop \/ Goto \/ If \/ Switch \/ StaticPut
         \/ StaticPutInt
  PROVE  Remains
<1>1. /\ result = Running /\ frames' = frames /\ ins.op # "sget"
  BY DEF Data, MoveResult, FilledNewArray, Nop, Goto, If, Switch, StaticPut, StaticPutInt, Turn,
         DataOps, Unary, Binary
<1>2. me \in State /\ me.mode = cur.mode /\ me.code = cur.code /\ me.method = cur.method
  BY <1>1, MeType DEF StateOK
<1>3. cur'.mode = cur.mode /\ cur'.code = cur.code /\ cur'.method = cur.method
      /\ result' \in {Running, NoInstruction}
  <2>1. CASE Data
    BY <1>1, <1>2, <2>1 DEF Data, Advance, Fetch, State
  <2>2. CASE MoveResult \/ FilledNewArray
    BY <1>1, <1>2, <2>2 DEF MoveResult, FilledNewArray, Advance, Fetch, State
  <2>3. CASE Nop \/ Goto \/ If \/ Switch \/ StaticPut \/ StaticPutInt
    BY <1>1, <1>2, <2>3 DEF Nop, Goto, If, Switch, StaticPut, StaticPutInt, Advance, Fetch, State
  <2>. QED  BY <2>1, <2>2, <2>3
<1>4. cur.mode # "running_init"
  BY <1>1 DEF CallInv, Flow
<1>. QED  BY <1>1, <1>3, <1>4 DEF Remains, GoingOn

LEMMA ReadRemains ==
  ASSUME IInv, CallInv, clean, clean', StaticGet
  PROVE  Remains
<1>1. result = Running /\ frames' = frames
  BY DEF StaticGet, Turn
<1>2. me \in State /\ me.mode = cur.mode /\ me.code = cur.code /\ me.method = cur.method
      /\ cur.mode \in Modes
  BY <1>1, MeType DEF StateOK, State
<1>3. /\ cur'.mode = AfterInit /\ cur'.code = cur.code /\ cur'.method = cur.method
      /\ result' \in {Running, NoInstruction}
  BY <1>1, <1>2 DEF StaticGet, Advance, Fetch, Fails, State, AfterInit, Modes
<1>. QED  BY <1>1, <1>3 DEF Remains, GoingOn, AfterInit

\* What a library method does.
LEMMA BuiltinRemains ==
  ASSUME IInv, CallInv, clean, InvokeBuiltin
  PROVE  Remains
<1>1. result = Running /\ frames' = frames /\ ins.op \in Invokes /\ Turn(Invokes)
  BY DEF InvokeBuiltin, Pass, Turn
<1>2. /\ Passing \in State /\ Passing.mode = cur.mode /\ Passing.code = cur.code
      /\ Passing.method = cur.method
  BY <1>1, MeType DEF StateOK, State, Passing
<1>3. PICK r \in Values : Advance([Passing EXCEPT !.ret = r], ins.size)
  BY <1>1, ProvidedType DEF InvokeBuiltin
<1>4. PICK c \in State : Advance(c, ins.size) /\ c.mode = cur.mode /\ c.code = cur.code
                         /\ c.method = cur.method
  BY <1>2, <1>3 DEF State
<1>5. cur.mode # "running_init"
  BY <1>1 DEF CallInv, Flow, Invokes
<1>6. /\ cur'.mode = cur.mode /\ cur'.code = cur.code /\ cur'.method = cur.method
      /\ result' \in {Running, NoInstruction}
  BY <1>1, <1>4 DEF Advance, Fetch, State
<1>. QED  BY <1>1, <1>5, <1>6 DEF Remains, GoingOn

\* Entering a method.
LEMMA CodeCalls ==
  ASSUME IInv, CallInv, clean, InvokeCode
  PROVE  \E f \in State : Calls(f)
<1>1. /\ result = Running /\ frames' = Append(frames, Passing) /\ ins.op \in Invokes /\ Turn(Invokes)
      /\ HasCode(ins.to) /\ methodIdx' = ins.to /\ instances' = instances
  BY DEF InvokeCode, Pass, Turn
<1>2. /\ Passing \in State /\ Passing.mode = cur.mode /\ Passing.code = cur.code
      /\ Passing.method = cur.method /\ Passing.pc = cur.pc /\ Passing.regs = cur.regs
  BY <1>1, MeType DEF StateOK, State, Passing
<1>3. cur'.method = ins.to /\ cur'.mode = cur.mode /\ result' \in {Running, NoInstruction}
  <2>1. PICK regs : Fetch([Passing EXCEPT !.pc = 0, !.code = ins.to, !.method = ins.to, !.ret = "empty",
                             !.regs = regs])
    BY DEF InvokeCode
  <2>. QED  BY <1>1, <1>2, <2>1 DEF Fetch, State
<1>4. cur.mode # "running_init"
  BY <1>1 DEF CallInv, Flow, Invokes
<1>. QED  BY <1>1, <1>2, <1>3, <1>4 DEF Calls, GoingOn

LEMMA InitializerIsCalled ==
  ASSUME IInv, CallInv, clean, RunInitializer
  PROVE  \E f \in State : Calls(f)
<1>. DEFINE f == [me EXCEPT !.mode = "running_init"]
            m == FieldOf[ins.to].clinit
<1>1. /\ result = Running /\ frames' = Append(frames, f) /\ ins.op = "sget"
      /\ Absent(ins.to) /\ cur.mode # "running_init"
      /\ instances' = WithConstant(ins.to) /\ methodIdx' = m
  BY DEF RunInitializer, Turn, NeedsInitializer
<1>2. /\ f \in State /\ f.code = cur.code /\ f.pc = cur.pc /\ f.regs = cur.regs
      /\ f.mode = "running_init"
  BY <1>1, MeType DEF StateOK, State, Modes
<1>3. cur'.method = m /\ cur'.mode = "static_init" /\ result' \in {Running, NoInstruction}
  <2>1. PICK regs : Fetch([me EXCEPT !.pc = 0, !.code = m, !.method = m, !.mode = "static_init",
                             !.regs = regs])
    BY DEF RunInitializer
  <2>2. me \in State
    BY <1>1, MeType DEF StateOK
  <2>. QED  BY <1>1, <2>1, <2>2 DEF Fetch, State
<1>. HIDE DEF f
<1>. QED  BY <1>1, <1>2, <1>3 DEF Calls, GoingOn

\* Leaving one.
LEMMA ReturnLeaves ==
  ASSUME IInv, CallInv, clean, ReturnVoid \/ Return
  PROVE  Resumes \/ Ends
<1>1. /\ result = Running /\ methodIdx' = methodIdx /\ instances' = instances
      /\ ins.op \in {"return", "return_void"}
  BY DEF ReturnVoid, Return, Turn
<1>2. me \in State /\ me.code = cur.code /\ me.pc = cur.pc /\ me.regs = cur.regs
  BY <1>1, MeType DEF StateOK
<1>3. CASE frames = <<>>
  <2>1. PICK c \in State : Finish(c) /\ c.code = cur.code /\ c.pc = cur.pc /\ c.regs = cur.regs
    <3>1. CASE ReturnVoid
      BY <1>2, <1>3, <3>1 DEF ReturnVoid
    <3>2. CASE Return
      <4>. DEFINE v == cur.regs[ins.reg]
      <4>1. v \in Values
        <5>1. ins.op = "return" /\ WellFormed(ins, MethodOf[cur.code].regs)
          BY <1>1, <3>2, InsType DEF Return, Turn
        <5>. QED  BY <1>1, <5>1, RegisterType DEF WellFormed
      <4>2. Finish([me EXCEPT !.ret = v])
        BY <1>3, <3>2 DEF Return
      <4>. HIDE DEF v
      <4>. QED  BY <1>2, <4>1, <4>2 DEF State
    <3>. QED  BY <3>1, <3>2
  <2>. QED  BY <1>1, <1>3, <2>1 DEF Ends, Finish, State
<1>4. CASE frames # <<>>
  <2>. DEFINE f == Last(frames)
  <2>1. f \in State /\ f.pc \in DOMAIN Loaded(f)
    BY <1>4, PopType, ChainPop DEF StateOK, CallInv, IsCallOf
  <2>2. \A c : c.code = f.code => Loaded(c) = Loaded(f)
    BY DEF Loaded
  <2>. HIDE DEF f
  <2>3. PICK c \in State : /\ Resume(c) /\ c.code = f.code /\ c.pc = f.pc /\ c.regs = f.regs
                           /\ c.mode = f.mode
    <3>1. CASE ReturnVoid
      BY <1>4, <2>1, <3>1 DEF ReturnVoid, f
    <3>2. CASE Return
      <4>. DEFINE v == cur.regs[ins.reg]
      <4>1. v \in Values
        <5>1. ins.op = "return" /\ WellFormed(ins, MethodOf[cur.code].regs)
          BY <1>1, <3>2, InsType DEF Return, Turn
        <5>. QED  BY <1>1, <5>1, RegisterType DEF WellFormed
      <4>2. Resume([f EXCEPT !.ret = v])
        BY <1>4, <3>2 DEF Return, f
      <4>. HIDE DEF v
      <4>. QED  BY <2>1, <4>1, <4>2 DEF State
    <3>. QED  BY <3>1, <3>2
  <2>4. Advance(c, Loaded(f)[f.pc].size) /\ frames' = Front(frames)
    BY <2>1, <2>2, <2>3 DEF Resume
  <2>5. Loaded(f)[f.pc].size \in Int
    BY <1>4, <2>1, PopType, LoadedDomain DEF WellFormed, f
  <2>6. /\ cur'.code = f.code /\ cur'.regs = f.regs /\ cur'.mode = f.mode
        /\ cur'.pc = IF f.mode = "running_init" THEN f.pc ELSE f.pc + Loaded(f)[f.pc].size
        /\ result' \in {Running, NoInstruction}
    BY <1>1, <2>3, <2>4, <2>5 DEF Advance, Fetch, State
  <2>. QED  BY <1>1, <1>4, <2>4, <2>6 DEF Resumes, GoingOn, f
<1>. QED  BY <1>3, <1>4

\* The stops.
LEMMA StopPauses ==
  ASSUME IInv, CallInv, clean, ReturnStops \/ PutStops \/ InvokeStops
  PROVE  Pauses
<1>1. result = Running /\ UNCHANGED <<prog, frames, at, methodIdx, instances>>
  BY DEF ReturnStops, PutStops, InvokeStops, Turn
<1>2. /\ me \in State /\ me.code = cur.code /\ me.pc = cur.pc /\ me.regs = cur.regs
      /\ me.method = cur.method
  BY <1>1, MeType DEF StateOK
<1>3. AtStop'
  <2>1. \A pc, m, of, i : Breakpoint(pc, m, of, i).kind = "breakpoint"
    BY DEF Breakpoint
  <2>2. PICK pc, m, of, i : result' = Breakpoint(pc, m, of, i)
    BY DEF ReturnStops, PutStops, InvokeStops
  <2>. QED  BY <2>1, <2>2 DEF AtStop
<1>5. cur'.code = cur.code /\ cur'.pc = cur.pc /\ cur'.regs = cur.regs /\ cur'.method = cur.method
  <2>1. CASE ReturnStops \/ PutStops
    BY <1>2, <2>1 DEF ReturnStops, PutStops
  <2>2. CASE InvokeStops
    BY <1>2, <2>2 DEF InvokeStops, State
  <2>. QED  BY <2>1, <2>2
<1>4. ins' = ins
  BY <1>1, <1>5, SameInstruction
<1>. QED  BY <1>1, <1>3, <1>4, <1>5 DEF Pauses

LEMMA TurnIs ==
  ASSUME IInv, CallInv, clean, clean', Step
  PROVE  \/ Remains \/ Resumes \/ Pauses \/ Ends
         \/ \E f \in State : Calls(f)
BY FailureNames, InstructionRemains, ReadRemains, BuiltinRemains, CodeCalls, InitializerIsCalled,
   ReturnLeaves, StopPauses DEF Step

\* Frames and states repeat a sget only where a constant was stored.
LEMMA RepeatsStay ==
  ASSUME IInv, prog' = prog, \A f \in Fields : instances[f] # "none" => instances'[f] # "none",
         NEW c, StateOK(c), Repeats(c),
         NEW d, d.mode = c.mode, d.pc = c.pc, d.code = c.code
  PROVE  Repeats(d)'
<1>1. Loaded(d)' = Loaded(c)
  BY DEF Loaded, Code
<1>2. ASSUME c.mode = "running_init"
      PROVE  Loaded(c)[c.pc].to \in Fields
  <2>1. c.pc \in DOMAIN Loaded(c) /\ Loaded(c)[c.pc].op = "sget"
    BY <1>2 DEF Repeats
  <2>. QED  BY <2>1, LoadedDomain DEF WellFormed
<1>. QED  BY <1>1, <1>2 DEF Repeats

LEMMA KeptStepTurn ==
  ASSUME IInv, CallInv, KeptInv, Emulate
  PROVE  KeptInv'
<1>1. SUFFICES ASSUME clean'  PROVE KeptInv'
  BY DEF KeptInv
<1>2. Step /\ clean /\ result = Running /\ prog' = prog
  BY <1>1, TurnNames DEF Emulate
<1>3. Kept'
  BY <1>2, KeptTurn
<1>4. \A f \in Fields : instances[f] # "none" => instances'[f] # "none"
  BY <1>2, InstancesStep
<1>5. \A i \in DOMAIN frames : Repeats(frames[i]) /\ StateOK(frames[i])
  BY <1>2 DEF KeptInv, IInv, FramesOK
<1>6. ASSUME NEW i \in DOMAIN frames, NEW d, d = frames[i]
      PROVE  Repeats(d)'
  BY <1>2, <1>4, <1>5, <1>6, RepeatsStay
<1>7. ASSUME NEW d, d.mode # "running_init"  PROVE Repeats(d)'
  BY <1>7 DEF Repeats
<1>8. ASSUME \A i \in DOMAIN frames' : \E d : d = frames'[i] /\ Repeats(d)',
             result' = Running => \E d : d.mode = cur'.mode /\ d.pc = cur'.pc /\ d.code = cur'.code
                                         /\ Repeats(d)'
      PROVE  KeptInv'
  <2>1. ASSUME NEW i \in DOMAIN frames'  PROVE Repeats(frames[i])'
    BY <1>8, <2>1 DEF Repeats
  <2>2. result' = Running => Repeats(cur)'
    BY <1>8 DEF Repeats, Loaded
  <2>. QED  BY <1>3, <2>1, <2>2 DEF KeptInv
<1>9. ASSUME cur'.mode # "running_init" \/ result' # Running, frames' = frames
      PROVE  KeptInv'
  <2>1. \A i \in DOMAIN frames' : \E d : d = frames'[i] /\ Repeats(d)'
    BY <1>6, <1>9
  <2>2. result' = Running => \E d : d.mode = cur'.mode /\ d.pc = cur'.pc /\ d.code = cur'.code
                                     /\ Repeats(d)'
    BY <1>7, <1>9
  <2>. QED  BY <1>8, <2>1, <2>2
<1>10. CASE Remains
  BY <1>9, <1>10 DEF Remains
<1>11. CASE Pauses
  BY <1>9, <1>11, ResultsDiffer DEF Pauses, AtStop
<1>12. CASE Ends
  BY <1>9, <1>12, ResultsDiffer DEF Ends
<1>13. CASE Resumes
  <2>1. /\ DOMAIN Front(frames) = 1 .. Len(frames) - 1 /\ Len(frames) \in Nat
        /\ \A i \in 1 .. Len(frames) - 1 : i \in DOMAIN frames /\ Front(frames)[i] = frames[i]
        /\ Len(frames) \in DOMAIN frames /\ Last(frames) = frames[Len(frames)]
    BY <1>13, PopType DEF Resumes, IInv, FramesOK
  <2>2. \A i \in DOMAIN frames' : \E d : d = frames'[i] /\ Repeats(d)'
    BY <1>6, <1>13, <2>1 DEF Resumes
  <2>3. PICK f : f = Last(frames)
    OBVIOUS
  <2>4. Repeats(f)'
    BY <1>6, <2>1, <2>3
  <2>5. \E d : d.mode = cur'.mode /\ d.pc = cur'.pc /\ d.code = cur'.code /\ Repeats(d)'
    <3>1. CASE f.mode = "running_init"
      BY <1>13, <2>3, <2>4, <3>1 DEF Resumes
    <3>2. CASE f.mode # "running_init"
      BY <1>7, <1>13, <2>3, <3>2 DEF Resumes
    <3>. QED  BY <3>1, <3>2
  <2>. QED  BY <1>8, <2>2, <2>5
<1>14. ASSUME NEW f \in State, Calls(f)  PROVE KeptInv'
  <2>1. Repeats(f)'
    <3>1. CASE ins.op \in Invokes
      <4>1. f.mode # "running_init"
        BY <1>2, <1>14, <3>1 DEF Calls, CallInv, Flow, Invokes
      <4>. QED  BY <1>7, <4>1
    <3>2. CASE ins.op \notin Invokes
      <4>1. /\ ins.op = "sget" /\ Absent(ins.to) /\ cur.mode # "running_init"
            /\ instances' = WithConstant(ins.to) /\ f.pc = at /\ at \in DOMAIN Loaded(cur)
            /\ f.code = cur.code
        BY <1>2, <1>14, <3>2 DEF Calls, CallInv, Flow, IInv, PlaceOK
      <4>2. Loaded(f)' = Loaded(cur)
        BY <1>2, <4>1 DEF Loaded, Code
      <4>3. ins.to \in Fields
        BY <1>2, <4>1, InsType DEF WellFormed
      <4>4. FieldOf[ins.to].data = "string" => instances'[ins.to] # "none"
        BY <4>1, <4>3 DEF WithConstant, IInv, RestOK
      <4>. QED  BY <4>1, <4>2, <4>4 DEF Repeats, ins
    <3>. QED  BY <3>1, <3>2
  <2>2. /\ frames' = Append(frames, f) /\ frames \in Seq(State)
    BY <1>14 DEF Calls, IInv, FramesOK
  <2>3. \A i \in DOMAIN frames' : \E d : d = frames'[i] /\ Repeats(d)'
    <3>1. ASSUME NEW i \in DOMAIN frames', i # Len(frames) + 1
          PROVE  i \in DOMAIN frames /\ frames'[i] = frames[i]
      BY <2>2, <3>1
    <3>2. frames'[Len(frames) + 1] = f
      BY <2>2
    <3>. QED  BY <1>6, <2>1, <3>1, <3>2
  <2>4. \E d : d.mode = cur'.mode /\ d.pc = cur'.pc /\ d.code = cur'.code /\ Repeats(d)'
    BY <1>7, <1>14 DEF Calls
  <2>. QED  BY <1>8, <2>3, <2>4
<1>. QED  BY <1>1, <1>2, <1>10, <1>11, <1>12, <1>13, <1>14, TurnIs

\* The driver leaves the fields alone, and execute() begins in direct execution.
LEMMA KeptStep == IInv /\ CallInv /\ KeptInv /\ [Next]_vars => KeptInv'
<1> SUFFICES ASSUME IInv, CallInv, KeptInv, [Next]_vars, clean'  PROVE KeptInv'
  BY DEF KeptInv
<1>1. CASE Emulate
  BY <1>1, KeptStepTurn
<1>2. ASSUME UNCHANGED <<prog, instances>>, clean,
             frames' = frames \/ frames' = <<>>,
             result' = Running => cur'.mode = "running" \/ (cur' = cur /\ result = Running)
      PROVE  KeptInv'
  <2>1. Kept'
    BY <1>2 DEF KeptInv, Kept, IsPut, Code, HasCode
  <2>2. ASSUME NEW i \in DOMAIN frames'  PROVE Repeats(frames[i])'
    <3>1. frames' = frames
      BY <2>2, <1>2
    <3>. QED  BY <1>2, <2>2, <3>1 DEF KeptInv, Repeats, Loaded, Code
  <2>3. result' = Running => Repeats(cur)'
    BY <1>2 DEF KeptInv, Repeats, Loaded, Code
  <2>. QED  BY <2>1, <2>2, <2>3 DEF KeptInv
<1>3. ASSUME NEW c \in State, NEW addr, Execute(c, addr)
      PROVE  result' = Running => cur'.mode = "running"
  BY <1>3, ResultsDiffer DEF Execute, State
<1>4. CASE First \/ Second
  <2>1. UNCHANGED <<prog, instances>> /\ clean /\ frames' = <<>>
    BY <1>4 DEF First, Second, Discover, Start
  <2>2. result' = Running => cur'.mode = "running"
    <3>. DEFINE c == [cur EXCEPT !.pc = 0, !.ret = "empty", !.regs = NoRegs, !.method = prog.entry]
    <3>1. Len(prog.args) # MethodOf[prog.entry].ins => result' = Error
      BY <1>4 DEF First, Second, Discover, Start
    <3>2. Len(prog.args) = MethodOf[prog.entry].ins =>
            Execute([c EXCEPT !.regs = Registers(prog.entry, prog.args), !.code = prog.entry], 0)
      BY <1>4 DEF First, Second, Discover, Start
    <3>3. PICK d : d = [c EXCEPT !.regs = Registers(prog.entry, prog.args), !.code = prog.entry]
      OBVIOUS
    <3>4. DOMAIN d = DOMAIN cur /\ DOMAIN cur = DOMAIN Frame(0, 0, 0, 0, 0, 0, 0, 0)
      BY <3>3 DEF IInv, StateOK, State, Frame
    <3>5. d = [x \in DOMAIN d |-> d[x]] /\ "mode" \in DOMAIN d
      BY <3>3, <3>4 DEF Frame
    <3>6. result' = Running => cur'.mode = "running"
      BY <3>1, <3>2, <3>3, <3>5, ResultsDiffer DEF Execute
    <3>. QED  BY <3>6
  <2>. QED  BY <1>2, <2>1, <2>2
<1>5. CASE OnBreakpoint \/ OnError
  <2>1. UNCHANGED <<prog, instances, frames, clean>> /\ \E addr : Execute(cur, addr)
    BY <1>5 DEF OnBreakpoint, OnError, ContinueExecution
  <2>2. cur \in State
    BY DEF IInv, StateOK
  <2>. QED  BY <1>2, <1>3, <2>1, <2>2
<1>6. CASE NextMethod \/ DiscoveryEnd \/ UNCHANGED vars
  <2>1. UNCHANGED vmVars
    BY <1>6 DEF NextMethod, DiscoveryEnd, vars
  <2>2. UNCHANGED <<prog, instances, clean, frames, cur, result>>
    BY <2>1 DEF vmVars
  <2>. QED  BY <1>2, <2>2
<1>. QED  BY <1>1, <1>4, <1>5, <1>6 DEF Next

-----------------------------------------------------------------------------
(* The discovered method's own turns follow the course.                    *)

\* The instruction at hand is that of the place where the method stands.
LEMMA PlaceIs ==
  ASSUME IInv, CallInv, clean, result = Running, cur.code = prog.entry,
         NEW s, s.pc = cur.pc
  PROVE  /\ IsIn(prog, s) /\ InsAt(prog, s) = ins /\ at = cur.pc
         /\ ins.size \in 1 .. 3 /\ WellFormed(ins, MethodOf[cur.code].regs)
<1>1. at = cur.pc
  BY DEF CallInv, Flow
<1>. QED  BY <1>1, InsType DEF IsIn, InsAt, Code, ins, WellFormed

\* The registers a data instruction leaves.
LEMMA DataMoves ==
  ASSUME IInv, CallInv, clean, Data, ins.op # "iget_object"
  PROVE  /\ cur'.pc = cur.pc + ins.size
         /\ cur'.regs = IF Left(ins, cur.regs) = "kept" THEN cur.regs
                        ELSE [cur.regs EXCEPT ![ins.reg] = Left(ins, cur.regs)]
<1>1. result = Running /\ ins.op \in DataOps
  BY DEF Data, Turn
<1>2. /\ me \in State /\ me.mode = cur.mode /\ me.pc = cur.pc /\ me.regs = cur.regs
  BY <1>1, MeType DEF StateOK
<1>3. PICK v \in Outcomes \ Failures :
        Advance(IF v = "kept" THEN me ELSE [me EXCEPT !.regs[ins.reg] = v], ins.size)
  BY DEF Data
<1>4. v = Left(ins, cur.regs)
  BY <1>1, <1>3, OutcomeIs
<1>5. cur.mode # "running_init"
  BY <1>1 DEF CallInv, Flow, DataOps, Unary, Binary
<1>6. PICK c : /\ Advance(c, ins.size) /\ c.mode # "running_init" /\ c.pc = cur.pc
               /\ c.regs = IF v = "kept" THEN cur.regs ELSE [cur.regs EXCEPT ![ins.reg] = v]
               /\ [c EXCEPT !.pc = @ + ins.size].pc = c.pc + ins.size
               /\ [c EXCEPT !.pc = @ + ins.size].regs = c.regs
  <2>1. CASE v = "kept"
    BY <1>2, <1>3, <1>5, <2>1 DEF State
  <2>2. CASE v # "kept"
    BY <1>2, <1>3, <1>5, <2>2 DEF State
  <2>. QED  BY <2>1, <2>2
<1>. QED  BY <1>4, <1>6 DEF Advance, Fetch

\* A read.
LEMMA ReadMoves ==
  ASSUME IInv, CallInv, KeptInv, clean, clean', StaticGet, ~IsPut(ins.to)
  PROVE  /\ cur'.pc = cur.pc + ins.size /\ instances'[ins.to] # "none"
         /\ cur'.regs = [cur.regs EXCEPT ![ins.reg] = Constant(ins.to)]
<1>1. result = Running /\ ins.op = "sget"
  BY DEF StaticGet, Turn
<1>2. /\ me \in State /\ me.mode = cur.mode /\ me.pc = cur.pc /\ me.regs = cur.regs
      /\ at = cur.pc
  BY <1>1, MeType DEF StateOK, CallInv, Flow
<1>3. PICK i : i = Delivered(ins.to)
  OBVIOUS
<1>4. i[ins.to] # "none" => i[ins.to] = Constant(ins.to)
  BY <1>1, <1>2, <1>3, DeliveredIs
<1>5. /\ instances' = i
      /\ IF i[ins.to] # "none"
         THEN Advance([me EXCEPT !.mode = AfterInit, !.regs[ins.reg] = i[ins.to]], ins.size)
         ELSE Fails([me EXCEPT !.mode = AfterInit])
  BY <1>3 DEF StaticGet
<1>6. i[ins.to] # "none"
  BY <1>5 DEF Fails
<1>7. AfterInit # "running_init"
  BY DEF AfterInit
<1>8. PICK c : /\ Advance(c, ins.size) /\ c.mode # "running_init" /\ c.pc = cur.pc
               /\ c.regs = [cur.regs EXCEPT ![ins.reg] = i[ins.to]]
               /\ [c EXCEPT !.pc = @ + ins.size].pc = c.pc + ins.size
               /\ [c EXCEPT !.pc = @ + ins.size].regs = c.regs
  <2>1. PICK a, x : a = AfterInit /\ x = i[ins.to]
    OBVIOUS
  <2>2. PICK c : c = [me EXCEPT !.mode = a, !.regs[ins.reg] = x]
    OBVIOUS
  <2>3. /\ c.mode = a /\ c.pc = cur.pc /\ c.regs = [cur.regs EXCEPT ![ins.reg] = x]
        /\ [c EXCEPT !.pc = @ + ins.size].pc = c.pc + ins.size
        /\ [c EXCEPT !.pc = @ + ins.size].regs = c.regs
    BY <1>2, <2>2 DEF State
  <2>. QED  BY <1>5, <1>6, <1>7, <2>1, <2>2, <2>3
<1>. QED  BY <1>4, <1>5, <1>6, <1>8 DEF Advance, Fetch

\* Whatever keeps the registers.
LEMMA OtherMoves ==
  ASSUME IInv, CallInv, clean, FilledNewArray \/ Nop \/ Goto \/ StaticPut \/ StaticPutInt \/ InvokeBuiltin
  PROVE  /\ cur'.pc = cur.pc + (IF ins.op = "goto" THEN ins.off ELSE ins.size)
         /\ cur'.regs = cur.regs
<1>1. result = Running /\ ins.op # "sget" /\ (ins.op = "goto" <=> Goto)
  BY DEF FilledNewArray, Nop, Goto, StaticPut, StaticPutInt, InvokeBuiltin, Pass, Turn, Invokes
<1>2. /\ me \in State /\ me.mode = cur.mode /\ me.pc = cur.pc /\ me.regs = cur.regs
      /\ cur.mode # "running_init"
  BY <1>1, MeType DEF StateOK, CallInv, Flow
<1>3. CASE Goto
  BY <1>1, <1>2, <1>3 DEF Goto, Fetch, State
<1>4. CASE FilledNewArray \/ Nop \/ StaticPut \/ StaticPutInt
  BY <1>1, <1>2, <1>4 DEF FilledNewArray, Nop, StaticPut, StaticPutInt, Turn, Advance, Fetch, State
<1>5. CASE InvokeBuiltin
  <2>1. ins.op \in Invokes /\ Turn(Invokes)
    BY <1>5 DEF InvokeBuiltin, Pass, Turn
  <2>2. PICK r \in Values : Advance([Passing EXCEPT !.ret = r], ins.size)
    BY <1>5, <2>1, ProvidedType DEF InvokeBuiltin
  <2>3. Passing \in State /\ Passing.mode = cur.mode /\ Passing.pc = cur.pc /\ Passing.regs = cur.regs
    BY <1>2 DEF Passing, State
  <2>. QED  BY <1>2, <2>1, <2>2, <2>3 DEF Advance, Fetch, State, Invokes
<1>. QED  BY <1>3, <1>4, <1>5

\* A turn of the own code that remains in it comes to the next place.
LEMMA OwnMoves ==
  ASSUME IInv, CallInv, KeptInv, clean, clean', Step, Remains, RunsAlike, cur.code = prog.entry,
         NEW s \in Places(prog), s.pc = cur.pc, s.regs = cur.regs, IInv'
  PROVE  /\ cur'.pc = Onward(prog, s).pc /\ cur'.regs = Onward(prog, s).regs
         /\ IF ins.op \in Invokes
            THEN Onward(prog, s).own /\ methodIdx' = prog.entry
            ELSE Onward(prog, s).own = s.own /\ methodIdx' = methodIdx
         /\ ins.op = "sget" => instances'[ins.to] # "none"
<1>1. result = Running
  BY TurnNames
<1>2. IsIn(prog, s) /\ InsAt(prog, s) = ins /\ ins = Code(cur.code)[at] /\ at \in DOMAIN Code(cur.code)
      /\ cur.code = cur.method
  BY <1>1, PlaceIs, InsType DEF ins, CallInv, Flow
<1>3. DoesTheSame(ins)
  BY <1>2 DEF RunsAlike
<1>4. Data \/ StaticGet \/ FilledNewArray \/ Nop \/ Goto \/ StaticPut \/ StaticPutInt \/ InvokeBuiltin
  <2>1. ~Resumes /\ ~Pauses /\ ~Ends /\ ~\E f \in State : Calls(f)
    <3>1. frames \in Seq(State) /\ frames' = frames /\ GoingOn
      BY DEF IInv, FramesOK, Remains
    <3>. QED  BY <1>1, <3>1, ResultsDiffer, PopType DEF Resumes, Pauses, Ends, Calls, GoingOn, AtStop
  <2>2. ~MoveResult /\ ~If /\ ~Switch
    BY <1>3 DEF MoveResult, If, Switch, Turn, DoesTheSame
  <2>. QED  BY <2>1, <2>2, FailureNames, CodeCalls, InitializerIsCalled, ReturnLeaves, StopPauses DEF Step
<1>5. ASSUME NEW o \in BOOLEAN, Moved(prog, s) = Place(cur'.pc, cur'.regs, o)
      PROVE  /\ Onward(prog, s).own = o
             /\ cur'.pc = Onward(prog, s).pc /\ cur'.regs = Onward(prog, s).regs
  <2>1. cur'.pc \in Int /\ cur'.regs \in RegsOf(prog.entry)
    BY DEF IInv, StateOK, State, Remains
  <2>2. Moved(prog, s) \in Places(prog)
    BY <1>5, <2>1 DEF Place, Places
  <2>3. Onward(prog, s) = Moved(prog, s)
    BY <1>2, <2>2 DEF Onward
  <2>. QED  BY <1>5, <2>3 DEF Place
<1>6. s.own \in BOOLEAN
  BY DEF Places
<1>8. CASE Data
  <2>1. ins.op \in DataOps \ {"iget_object"} /\ methodIdx' = methodIdx
    BY <1>3, <1>8 DEF Data, Turn, DoesTheSame
  <2>2. Moved(prog, s) = Place(cur'.pc, cur'.regs, s.own)
    BY <1>2, <1>8, <2>1, DataMoves DEF Moved, DataOps, Unary, Binary, Invokes
  <2>3. ins.op \notin Invokes /\ ins.op # "sget"
    BY <2>1 DEF DataOps, Unary, Binary, Invokes
  <2>4. PICK o \in BOOLEAN : o = s.own /\ Moved(prog, s) = Place(cur'.pc, cur'.regs, o)
    BY <1>6, <2>2
  <2>5. /\ Onward(prog, s).own = o
        /\ cur'.pc = Onward(prog, s).pc /\ cur'.regs = Onward(prog, s).regs
    BY <1>5, <2>4
  <2>. QED  BY <2>1, <2>3, <2>4, <2>5
<1>9. CASE StaticGet
  <2>1. ins.op = "sget" /\ methodIdx' = methodIdx /\ ~IsPut(ins.to)
    BY <1>3, <1>9 DEF StaticGet, Turn, DoesTheSame
  <2>2. Moved(prog, s) = Place(cur'.pc, cur'.regs, s.own) /\ instances'[ins.to] # "none"
    BY <1>2, <1>9, <2>1, ReadMoves DEF Moved, DataOps, Unary, Binary, Invokes
  <2>3. ins.op \notin Invokes
    BY <2>1 DEF Invokes
  <2>4. PICK o \in BOOLEAN : o = s.own /\ Moved(prog, s) = Place(cur'.pc, cur'.regs, o)
    BY <1>6, <2>2
  <2>5. /\ Onward(prog, s).own = o
        /\ cur'.pc = Onward(prog, s).pc /\ cur'.regs = Onward(prog, s).regs
    BY <1>5, <2>4
  <2>. QED  BY <2>1, <2>2, <2>3, <2>4, <2>5
<1>10. CASE Goto
  <2>1. ins.op = "goto" /\ methodIdx' = methodIdx
    BY <1>10 DEF Goto, Turn
  <2>2. Moved(prog, s) = Place(cur'.pc, cur'.regs, s.own)
    BY <1>2, <1>10, <2>1, OtherMoves DEF Moved, DataOps, Unary, Binary, Invokes
  <2>3. ins.op \notin Invokes
    BY <2>1 DEF Invokes
  <2>4. PICK o \in BOOLEAN : o = s.own /\ Moved(prog, s) = Place(cur'.pc, cur'.regs, o)
    BY <1>6, <2>2
  <2>5. /\ Onward(prog, s).own = o
        /\ cur'.pc = Onward(prog, s).pc /\ cur'.regs = Onward(prog, s).regs
    BY <1>5, <2>4
  <2>. QED  BY <2>1, <2>2, <2>3, <2>4, <2>5
<1>11. CASE FilledNewArray \/ Nop \/ StaticPut \/ StaticPutInt
  <2>1. ins.op \in {"filled_new_array", "nop", "sput", "sput_int"} /\ methodIdx' = methodIdx
    BY <1>11 DEF FilledNewArray, Nop, StaticPut, StaticPutInt, Turn
  <2>2. Moved(prog, s) = Place(cur'.pc, cur'.regs, s.own)
    BY <1>2, <1>11, <2>1, OtherMoves DEF Moved, DataOps, Unary, Binary, Invokes
  <2>3. ins.op \notin Invokes
    BY <2>1 DEF Invokes
  <2>4. PICK o \in BOOLEAN : o = s.own /\ Moved(prog, s) = Place(cur'.pc, cur'.regs, o)
    BY <1>6, <2>2
  <2>5. /\ Onward(prog, s).own = o
        /\ cur'.pc = Onward(prog, s).pc /\ cur'.regs = Onward(prog, s).regs
    BY <1>5, <2>4
  <2>. QED  BY <2>1, <2>2, <2>3, <2>4, <2>5
<1>12. CASE InvokeBuiltin
  <2>1. ins.op \in Invokes /\ methodIdx' = prog.entry /\ MethodOf[ins.to].kind = "builtin"
    BY <1>2, <1>12 DEF InvokeBuiltin, Pass, Turn
  <2>2. Moved(prog, s) = Place(cur'.pc, cur'.regs, TRUE)
    BY <1>2, <1>12, <2>1, OtherMoves DEF Moved, DataOps, Unary, Binary, Invokes
  <2>3. ins.op # "sget"
    BY <2>1 DEF Invokes
  <2>4. PICK o \in BOOLEAN : o = TRUE /\ Moved(prog, s) = Place(cur'.pc, cur'.regs, o)
    BY <1>6, <2>2
  <2>5. /\ Onward(prog, s).own = o
        /\ cur'.pc = Onward(prog, s).pc /\ cur'.regs = Onward(prog, s).regs
    BY <1>5, <2>4
  <2>. QED  BY <2>1, <2>2, <2>3, <2>4, <2>5
<1>. QED  BY <1>4, <1>8, <1>9, <1>10, <1>11, <1>12

-----------------------------------------------------------------------------
(* What both discoveries of the method find.                               *)

Stage(k)    == Course(prog)[k]
AtInvoke(k) == IsAt(prog, Stage(k), Invokes)

\* The state of the discovered method, and the stage at which it stands.
Base      == IF frames = <<>> THEN cur ELSE frames[1]
Stands(k) == Base.code = prog.entry /\ Base.pc = Stage(k).pc /\ Base.regs = Stage(k).regs

\* The notes due of the arguments of an invoke in the own code.
PassedAt(p, s, i) == s.regs[InsAt(p, s).args[i + 1]]
Reported(v)      == IsText(v) \/ IsArray(v)
IsDue(p, s, i) ==
  \/ IsArray(PassedAt(p, s, i))
  \/ /\ OnHeap(PassedAt(p, s, i)) = "string"
     /\ InsAt(p, s).op = "invoke_virtual" \/ s.own \/ \E j \in 0 .. i - 1 : Reported(PassedAt(p, s, j))
DueOf(p, s) ==
  {[code |-> p.entry, pc |-> s.pc, of |-> "argument", context |-> i,
    value |-> OnHeap(PassedAt(p, s, i))] :
     i \in {i \in 0 .. Len(InsAt(p, s).args) - 1 : IsDue(p, s, i)}}
DueAt(k) == IF AtInvoke(k) THEN DueOf(prog, Stage(k)) ELSE {}

\* The fields read before a stage have a value.
Ready(k) == \A j \in 0 .. k - 1 :
              IsAt(prog, Stage(j), {"sget"}) => instances[InsAt(prog, Stage(j)).to] # "none"

\* The first discovery finds what is due, the second finds all that is due.
FirstAt(k) ==
  /\ Stands(k) /\ Ready(k)
  /\ OwnArguments(Found) \subseteq UNION {DueAt(j) : j \in 0 .. k}
  /\ frames = <<>> /\ result = Running /\ told = {} /\ methodIdx = prog.entry /\ ins.op # "return"
       => Stage(k).own

Given(e) == Ready(e) /\ OwnArguments(firstFound) \subseteq UNION {DueAt(j) : j \in 0 .. e}
AllFound(e) == \A j \in 0 .. e : DueAt(j) \subseteq recorded
SecondAt(e, k) ==
  /\ Stands(k) /\ result # Ok
  /\ \A j \in 0 .. k - 1 : DueAt(j) \subseteq recorded
  /\ AtInvoke(k) \/ (frames = <<>> /\ k < e)
  /\ IF frames = <<>>
     THEN /\ result = Running /\ told = {} /\ Stage(k).own => methodIdx = prog.entry
          /\ \A i \in told : ArgumentNote(i) \in DueAt(k) => ArgumentNote(i) \in Found
     ELSE DueAt(k) \subseteq recorded /\ k < e

\* All this depends on the program and on what the variables named say.
LEMMA SameStages ==
  ASSUME prog' = prog
  PROVE  /\ \A k : Stage(k)' = Stage(k) /\ AtInvoke(k)' = AtInvoke(k) /\ DueAt(k)' = DueAt(k)
         /\ RunsAlike' = RunsAlike
         /\ \A s : OwnArguments(s)' = OwnArguments(s)
BY DEF Stage, AtInvoke, DueAt, DueOf, IsDue, PassedAt, IsAt, IsIn, InsAt, RunsAlike, Recursive, HasCode, Code,
   EntersAgain, DoesTheSame, IsPut, OwnArguments

LEMMA StageType ==
  ASSUME IInv, NEW k \in Nat
  PROVE  /\ Stage(k) \in Places(prog) /\ Stage(0) = Begin(prog)
         /\ Stage(k + 1) = Onward(prog, Stage(k))
BY CourseIs DEF IInv, Stage, IsCourse

\* Fields that have a value keep one, so what was read before a stage stays read.
LEMMA ReadyStays ==
  ASSUME IInv, prog' = prog, \A f \in Fields : instances[f] # "none" => instances'[f] # "none",
         NEW k \in Nat, Ready(k)
  PROVE  Ready(k)'
<1>1. ASSUME NEW j \in 0 .. k - 1, IsAt(prog, Stage(j), {"sget"})
      PROVE  InsAt(prog, Stage(j)).to \in Fields
  <2>1. prog \in Programs /\ prog.entry \in Methods /\ MethodOf[prog.entry].kind = "code"
    BY ProgramsAssumption DEF IInv
  <2>2. WellFormed(InsAt(prog, Stage(j)), MethodOf[prog.entry].regs)
    BY <1>1, <2>1, ProgramsAssumption DEF IsAt, IsIn, InsAt
  <2>. QED  BY <1>1, <2>2 DEF WellFormed, IsAt
<1>2. \A j : IsAt(prog, Stage(j), {"sget"})' = IsAt(prog, Stage(j), {"sget"})
              /\ InsAt(prog, Stage(j))' = InsAt(prog, Stage(j))
  BY SameStages DEF IsAt, IsIn, InsAt
<1>. QED  BY <1>1, <1>2 DEF Ready

\* Where the method stands at an instruction of its own, that of its stage is at hand.
LEMMA StandsAt ==
  ASSUME IInv, CallInv, clean, frames = <<>>, result = Running, NEW k \in Nat, Stands(k)
  PROVE  /\ cur.code = prog.entry /\ cur.pc = Stage(k).pc /\ cur.regs = Stage(k).regs
         /\ IsIn(prog, Stage(k)) /\ InsAt(prog, Stage(k)) = ins
         /\ AtInvoke(k) <=> ins.op \in Invokes
<1>1. cur.code = prog.entry /\ cur.pc = Stage(k).pc /\ cur.regs = Stage(k).regs
  BY DEF Stands, Base
<1>2. IsIn(prog, Stage(k)) /\ InsAt(prog, Stage(k)) = ins
  BY <1>1, PlaceIs
<1>. QED  BY <1>1, <1>2 DEF AtInvoke, IsAt

\* The notes due are those of the arguments at hand.
LEMMA DueIs ==
  ASSUME IInv, CallInv, clean, frames = <<>>, result = Running, ins.op \in Invokes,
         NEW k \in Nat, Stands(k)
  PROVE  /\ \A i \in Positions :
              ArgumentNote(i) \in DueAt(k) <=>
                \/ IsArray(Argument(i))
                \/ /\ OnHeap(Argument(i)) = "string"
                   /\ ins.op = "invoke_virtual" \/ Stage(k).own \/ \E j \in Kinds : j < i
         /\ DueAt(k) \subseteq {ArgumentNote(i) : i \in Kinds}
<1>. DEFINE s == Stage(k)
<1>1. /\ cur.code = prog.entry /\ cur.pc = s.pc /\ cur.regs = s.regs
      /\ InsAt(prog, s) = ins /\ AtInvoke(k)
  BY StandsAt
<1>2. Len(ins.args) \in Nat /\ Positions = 0 .. Len(ins.args) - 1
  BY ArgumentType DEF Positions
<1>. HIDE DEF s
<1>3. \A i : PassedAt(prog, s, i) = Argument(i)
  BY <1>1 DEF PassedAt, Argument
<1>4. \A i \in Positions : (\E j \in 0 .. i - 1 : Reported(PassedAt(prog, s, j))) <=> \E j \in Kinds : j < i
  BY <1>2, <1>3 DEF Reported, Kinds
<1>5. \A i \in Positions :
        IsDue(prog, s, i) <=>
           \/ IsArray(Argument(i))
           \/ /\ OnHeap(Argument(i)) = "string"
              /\ ins.op = "invoke_virtual" \/ s.own \/ \E j \in Kinds : j < i
  BY <1>1, <1>3, <1>4 DEF IsDue
<1>6. DueAt(k) = {ArgumentNote(i) : i \in {i \in Positions : IsDue(prog, s, i)}}
  BY <1>1, <1>2, <1>3 DEF DueAt, DueOf, ArgumentNote, s
<1>7. \A i, j : ArgumentNote(i) = ArgumentNote(j) => i = j
  BY DEF ArgumentNote
<1>8. \A i \in Positions : IsDue(prog, s, i) => i \in Kinds
  <2>1. \A v : OnHeap(v) = "string" => IsText(v)
    BY DEF IsText, StringKinds
  <2>. QED  BY <1>5, <2>1 DEF Kinds
<1>. QED  BY <1>5, <1>6, <1>7, <1>8 DEF s

\* A turn of the own code comes to the next stage,
LEMMA OwnGoes ==
  ASSUME IInv, CallInv, KeptInv, IInv', clean, clean', Step, Remains, RunsAlike, frames = <<>>,
         NEW k \in Nat, Stands(k)
  PROVE  /\ Stands(k + 1)' /\ (Ready(k) => Ready(k + 1)')
         /\ IF ins.op \in Invokes
            THEN Stage(k + 1).own /\ methodIdx' = prog.entry
            ELSE Stage(k + 1).own = Stage(k).own /\ methodIdx' = methodIdx
<1>1. result = Running /\ prog' = prog /\ frames' = frames /\ cur'.code = cur.code
  BY TurnNames DEF Remains
<1>2. /\ cur.code = prog.entry /\ cur.pc = Stage(k).pc /\ cur.regs = Stage(k).regs
      /\ IsIn(prog, Stage(k)) /\ InsAt(prog, Stage(k)) = ins
  BY <1>1, StandsAt
<1>3. Stage(k) \in Places(prog) /\ Stage(k + 1) = Onward(prog, Stage(k))
  BY StageType
<1>4. PICK s \in Places(prog) : s = Stage(k)
  BY <1>3
<1>5. /\ cur'.pc = Onward(prog, s).pc /\ cur'.regs = Onward(prog, s).regs
      /\ IF ins.op \in Invokes
         THEN Onward(prog, s).own /\ methodIdx' = prog.entry
         ELSE Onward(prog, s).own = s.own /\ methodIdx' = methodIdx
      /\ ins.op = "sget" => instances'[ins.to] # "none"
  BY <1>2, <1>4, OwnMoves
<1>6. Stage(k + 1)' = Stage(k + 1)
  BY <1>1, SameStages
<1>7. Stands(k + 1)'
  BY <1>1, <1>2, <1>3, <1>4, <1>5, <1>6 DEF Stands, Base
<1>8. ASSUME Ready(k)  PROVE Ready(k + 1)'
  <2>1. \A f \in Fields : instances[f] # "none" => instances'[f] # "none"
    BY InstancesStep
  <2>2. Ready(k)'
    BY <1>1, <1>8, <2>1, ReadyStays
  <2>3. IsAt(prog, Stage(k), {"sget"})' => instances'[InsAt(prog, Stage(k))'.to] # "none"
    <3>1. Stage(k)' = Stage(k)
      BY <1>1, SameStages
    <3>. QED  BY <1>1, <1>2, <1>5, <3>1 DEF IsAt, InsAt
  <2>4. 0 .. (k + 1) - 1 = (0 .. k - 1) \cup {k}
    OBVIOUS
  <2>. QED  BY <2>2, <2>3, <2>4 DEF Ready
<1>. QED  BY <1>3, <1>4, <1>5, <1>7, <1>8

\* or stays where it is.
LEMMA OwnStays ==
  ASSUME IInv, prog' = prog, frames = <<>>, Pauses \/ Ends, NEW k \in Nat, Stands(k)
  PROVE  Stands(k)' /\ frames' = <<>>
<1>1. frames' = <<>> /\ cur'.code = cur.code /\ cur'.pc = cur.pc /\ cur'.regs = cur.regs
  BY DEF Pauses, Ends
<1>2. Stage(k)' = Stage(k)
  BY SameStages
<1>. QED  BY <1>1, <1>2 DEF Stands, Base

LEMMA OwnCalls ==
  ASSUME IInv, prog' = prog, frames = <<>>, NEW f \in State, Calls(f), NEW k \in Nat, Stands(k)
  PROVE  Stands(k)' /\ frames' # <<>>
<1>1. frames' = Append(frames, f) /\ f.code = cur.code /\ f.pc = cur.pc /\ f.regs = cur.regs
  BY DEF Calls
<1>2. frames' # <<>> /\ frames'[1] = f
  BY <1>1
<1>3. Stage(k)' = Stage(k)
  BY SameStages
<1>. QED  BY <1>1, <1>2, <1>3 DEF Stands, Base

\* The frame of the own code lies below the calls it makes, until it is resumed.
LEMMA CalleeStays ==
  ASSUME IInv, prog' = prog, frames # <<>>, NEW k \in Nat, Stands(k),
         Remains \/ Pauses \/ (\E f \in State : Calls(f)) \/ (Resumes /\ Len(frames) # 1)
  PROVE  Stands(k)' /\ frames' # <<>>
<1>1. frames \in Seq(State) /\ Len(frames) \in Nat \ {0}
  BY DEF IInv, FramesOK
<1>2. frames' # <<>> /\ frames'[1] = frames[1]
  <2>1. CASE Remains \/ Pauses
    BY <2>1 DEF Remains, Pauses
  <2>2. CASE \E f \in State : Calls(f)
    <3>1. PICK f \in State : frames' = Append(frames, f)
      BY <2>2 DEF Calls
    <3>. QED  BY <1>1, <3>1
  <2>3. CASE Resumes /\ Len(frames) # 1
    <3>1. frames' = Front(frames) /\ Len(Front(frames)) = Len(frames) - 1
          /\ \A i \in 1 .. Len(frames) - 1 : Front(frames)[i] = frames[i]
      BY <2>3, PopType DEF Resumes
    <3>2. 1 \in 1 .. Len(frames) - 1 /\ Len(frames') > 0
      BY <1>1, <2>3, <3>1
    <3>. QED  BY <3>1, <3>2
  <2>. QED  BY <2>1, <2>2, <2>3
<1>3. Stage(k)' = Stage(k)
  BY SameStages
<1>. QED  BY <1>2, <1>3 DEF Stands, Base

LEMMA CalleeLeaves ==
  ASSUME IInv, CallInv, IInv', clean, prog' = prog, Resumes, Len(frames) = 1, NEW k \in Nat, Stands(k)
  PROVE  /\ frames' = <<>>
         /\ IF AtInvoke(k) THEN Stands(k + 1)' /\ ~Stage(k + 1).own ELSE Stands(k)'
<1>1. frames \in Seq(State) /\ Last(frames) = frames[1]
  BY PopType DEF IInv, FramesOK, Resumes
<1>2. frames' = <<>>
  <2>1. frames' = Front(frames) /\ Front(frames) \in Seq(State) /\ Len(Front(frames)) = 0
    BY <1>1, PopType DEF Resumes
  <2>. QED  BY <2>1
<1>. DEFINE f == Last(frames)
            s == Stage(k)
<1>3. /\ f.code = prog.entry /\ f.pc = s.pc /\ f.regs = s.regs /\ prog.entry \in Methods
      /\ MethodOf[prog.entry].kind = "code"
  BY <1>1, ProgramsAssumption DEF Stands, Base, Resumes, IInv
<1>4. IsCallOf(f, cur)
  BY ChainPop DEF CallInv, Resumes
<1>5. Loaded(f) = prog.code[prog.entry]
  <2>1. NoMethod \notin Methods
    BY MethodsAssumption
  <2>. QED  BY <1>3, <2>1 DEF Loaded, Code
<1>6. IsIn(prog, s) /\ Loaded(f)[f.pc] = InsAt(prog, s)
  BY <1>3, <1>4, <1>5 DEF IsCallOf, IsIn, InsAt
<1>7. /\ cur'.code = f.code /\ cur'.regs = f.regs
      /\ cur'.pc = IF f.mode = "running_init" THEN f.pc ELSE f.pc + Loaded(f)[f.pc].size
  BY DEF Resumes
<1>. HIDE DEF f
<1>8. Stage(k)' = Stage(k) /\ Stage(k + 1)' = Stage(k + 1) /\ Stage(k + 1) = Onward(prog, s)
  BY SameStages, StageType
<1>9. CASE AtInvoke(k)
  <2>1. InsAt(prog, s).op \in Invokes
    BY <1>9 DEF AtInvoke, IsAt
  <2>2. InsAt(prog, s).to = cur.code /\ f.mode # "running_init"
    BY <1>4, <1>6, <2>1 DEF IsCallOf, Invokes
  <2>3. MethodOf[cur.code].kind = "code"
    <3>1. cur.code # NoMethod
      <4>1. WellFormed(InsAt(prog, s), MethodOf[prog.entry].regs)
        BY <1>3, <1>6, ProgramsAssumption DEF IsIn, InsAt, IInv
      <4>2. InsAt(prog, s).to \in Methods
        BY <2>1, <4>1 DEF WellFormed
      <4>. QED  BY <2>2, <4>2, MethodsAssumption
    <3>. QED  BY <3>1 DEF IInv, StateOK, HasCode
  <2>4. Moved(prog, s) = Place(cur'.pc, cur'.regs, FALSE)
    BY <1>3, <1>6, <1>7, <2>1, <2>2, <2>3 DEF Moved, DataOps, Unary, Binary, Invokes
  <2>5. cur'.pc \in Int /\ cur'.regs \in RegsOf(prog.entry)
    BY <1>3, <1>7 DEF IInv, StateOK, State
  <2>6. Moved(prog, s) \in Places(prog)
    BY <2>4, <2>5 DEF Place, Places
  <2>7. Stage(k + 1) = Place(cur'.pc, cur'.regs, FALSE)
    BY <1>6, <1>8, <2>4, <2>6 DEF Onward
  <2>. HIDE DEF s
  <2>8. Stands(k + 1)' /\ ~Stage(k + 1).own
    BY <1>2, <1>3, <1>7, <1>8, <2>7 DEF Stands, Base, Place
  <2>. QED  BY <1>2, <1>9, <2>8
<1>10. CASE ~AtInvoke(k)
  <2>1. f.mode = "running_init"
    BY <1>4, <1>6, <1>10 DEF IsCallOf, AtInvoke, IsAt
  <2>. QED  BY <1>2, <1>3, <1>7, <1>8, <1>10, <2>1 DEF Stands, Base
<1>. QED  BY <1>9, <1>10

\* What a stop adds: where it is, and of what kind.
LEMMA FindingsWhere == \A n \in Findings' : n.of = result'.of /\ n.code = cur'.code
<1>. DEFINE v == OnHeap(IF result.of = "argument" THEN Argument(result.context)
                                                  ELSE cur.regs[result.context])
<1>1. Findings' \subseteq {Note(v)'}
  BY DEF Findings
<1>2. Note(v)'.of = result'.of /\ Note(v)'.code = cur'.code
  BY DEF Note
<1>. QED  BY <1>1, <1>2

\* Only the stops at an invoke of the own code add to what is compared.
LEMMA FoundTurn ==
  ASSUME IInv, CallInv, clean, clean', Emulate, ~Recursive, ~(InvokeStops /\ frames = <<>>)
  PROVE  OwnArguments(Found)' \subseteq OwnArguments(Found)
<1>1. Step /\ result = Running /\ prog' = prog /\ recorded' = recorded
  BY TurnNames DEF Emulate, driverVars
<1>2. recorded \subseteq Found
  BY DEF Found
<1>3. AtStop' => ReturnStops \/ PutStops \/ InvokeStops
  BY <1>1, FailureNames, InstructionRemains, ReadRemains, BuiltinRemains, CodeCalls, InitializerIsCalled,
     ReturnLeaves, ResultsDiffer DEF Step, Remains, Calls, Resumes, Ends, GoingOn, AtStop
<1>4. ASSUME NEW n \in Findings', AtStop', n.of = "argument"
      PROVE  n.code # prog.entry
  <2>1. n.of = result'.of /\ n.code = cur'.code
    BY <1>4, FindingsWhere
  <2>2. InvokeStops
    BY <1>3, <1>4, <2>1 DEF ReturnStops, PutStops, Breakpoint
  <2>3. frames # <<>> /\ cur'.code = cur.code
    BY <2>2, StopPauses DEF Pauses
  <2>4. cur.code # prog.entry
    BY <2>3, CalledIsRecursive DEF CallInv, Flow
  <2>. QED  BY <2>1, <2>3, <2>4
<1>5. Found' = recorded \cup (IF AtStop' THEN Findings' ELSE {})
  BY <1>1 DEF Found
<1>. QED  BY <1>1, <1>2, <1>4, <1>5 DEF OwnArguments

\* Arguments stay reported only at a stop.
LEMMA ToldNext ==
  ASSUME IInv, ReportInv, ReportInv', clean, clean', Step, result' \in {Running, NoInstruction, Ok}
  PROVE  told' = {}
<1>1. skip' = FALSE
  BY SkipIsSpent
<1>. QED  BY <1>1, ResultsDiffer DEF ReportInv, ToldInv, Pending, AtStop

\* A stop at an invoke of the own code.  What it adds is due if the local method_idx
\* names the method only where the stage says so,
LEMMA StopIsDue ==
  ASSUME IInv, CallInv, ReportInv, clean, frames = <<>>, recorded' = recorded, InvokeStops,
         NEW k \in Nat, Stands(k),
         told = {} /\ methodIdx = prog.entry => Stage(k).own
  PROVE  OwnArguments(Found)' \subseteq OwnArguments(Found) \cup DueAt(k)
<1>1. PICK j : j = result'.context
  OBVIOUS
<1>2. /\ result = Running /\ ins.op \in Invokes /\ AtStop' /\ ~AtStop
      /\ prog' = prog /\ ins' = ins
      /\ cur'.regs = cur.regs /\ cur'.code = cur.code /\ cur'.pc = cur.pc /\ cur'.method = cur.method
      /\ result'.of = "argument" /\ result'.pc = cur.pc /\ j \in Kinds
      /\ \A i \in told : i < j
      /\ result'.method = IF ins.op = "invoke_static" THEN methodIdx ELSE cur.method
  BY <1>1, InvokeStopIs
<1>3. PICK v, n : v = Argument(j) /\ n = ArgumentNote(j)
  OBVIOUS
<1>4. v = Argument(j)' /\ n = ArgumentNote(j)'
  BY <1>2, <1>3, SameNotes
<1>5. /\ Findings' \subseteq {n}
      /\ n \in Findings' <=> IsArray(v) \/ (OnHeap(v) = "string" /\ result'.method = prog'.entry)
  BY <1>1, <1>2, <1>4, FindingsWillBe
<1>6. /\ j \in Positions
      /\ ArgumentNote(j) \in DueAt(k) <=>
           \/ IsArray(Argument(j))
           \/ /\ OnHeap(Argument(j)) = "string"
              /\ ins.op = "invoke_virtual" \/ Stage(k).own \/ \E i \in Kinds : i < j
  BY <1>2, DueIs DEF Kinds
<1>7. told # {} => \E i \in Kinds : i < j
  BY <1>2 DEF ReportInv, ToldInv
<1>8. result'.method = prog'.entry => ins.op = "invoke_virtual" \/ Stage(k).own \/ \E i \in Kinds : i < j
  BY <1>2, <1>7 DEF Invokes
<1>9. n \in Findings' => n \in DueAt(k)
  BY <1>3, <1>5, <1>6, <1>8
<1>10. Found' = recorded \cup Findings'
  BY <1>2 DEF Found
<1>. QED  BY <1>2, <1>5, <1>9, <1>10 DEF Found, OwnArguments

\* and what is due is added if it names the method wherever the stage says so.
LEMMA DueIsNoted ==
  ASSUME IInv, CallInv, ReportInv, NotedInv, IInv', ReportInv', clean, clean', frames = <<>>, recorded' = recorded,
         InvokeStops, NEW k \in Nat, Stands(k),
         told = {} /\ Stage(k).own => methodIdx = prog.entry,
         \A i \in told : ArgumentNote(i) \in DueAt(k) => ArgumentNote(i) \in Found
  PROVE  \A i \in told' : ArgumentNote(i)' \in DueAt(k)' => ArgumentNote(i)' \in Found'
<1>1. PICK j : j = result'.context
  OBVIOUS
<1>2. /\ result = Running /\ ins.op \in Invokes /\ AtStop' /\ ~AtStop
      /\ prog' = prog /\ ins' = ins
      /\ cur'.regs = cur.regs /\ cur'.code = cur.code /\ cur'.pc = cur.pc /\ cur'.method = cur.method
      /\ result'.of = "argument" /\ result'.pc = cur.pc /\ j \in Kinds
      /\ told' = told \cup {j} /\ \A i \in told : i < j
      /\ result'.method = IF ins.op = "invoke_static" THEN methodIdx ELSE cur.method
  BY <1>1, InvokeStopIs
<1>3. \A i : Argument(i)' = Argument(i) /\ ArgumentNote(i)' = ArgumentNote(i)
  BY <1>2, SameNotes
<1>4. DueAt(k)' = DueAt(k)
  BY <1>2, SameStages
<1>5. Found = recorded /\ Found' = recorded \cup Findings'
  BY <1>2 DEF Found
<1>6. PICK v, n : v = Argument(j) /\ n = ArgumentNote(j)
  OBVIOUS
<1>7. n \in Findings' <=> IsArray(v) \/ (OnHeap(v) = "string" /\ result'.method = prog'.entry)
  <2>1. v = Argument(j)' /\ n = ArgumentNote(j)'
    BY <1>3, <1>6
  <2>. QED  BY <1>1, <1>2, <2>1, FindingsWillBe
<1>8. ASSUME \E i \in Kinds : i < j  PROVE told # {}
  <2>1. Kinds' = Kinds /\ Kinds \subseteq Nat
    <3>1. Kinds' = Kinds
      BY <1>2, SameInstruction, InvokeStopIs
    <3>2. Kinds \subseteq Nat
      BY <1>2, ArgumentType DEF Kinds
    <3>. QED  BY <3>1, <3>2
  <2>2. told' = {i \in Kinds : i <= cur'.argReg} /\ cur'.argReg \in Nat
    BY <1>2, <2>1 DEF ReportInv, ToldInv, Pending, IInv, StateOK, State
  <2>3. PICK i \in Kinds : i < j
    BY <1>8
  <2>4. i \in told'
    <3>1. i \in Nat /\ j \in Nat /\ j \in told'
      BY <1>2, <2>1, <2>3
    <3>2. j <= cur'.argReg
      BY <2>2, <3>1
    <3>. QED  BY <2>2, <2>3, <3>1, <3>2
  <2>. QED  BY <1>2, <2>1, <2>3, <2>4
<1>9. told # {} => methodIdx = cur.method
  BY <1>2 DEF ReportInv, ToldInv, Pending, NotedInv
<1>10. cur.method = prog.entry
  BY DEF Stands, Base, CallInv, Flow
<1>11. n \in DueAt(k) => n \in Findings'
  <2>1. /\ j \in Positions
        /\ ArgumentNote(j) \in DueAt(k) <=>
             \/ IsArray(Argument(j))
             \/ /\ OnHeap(Argument(j)) = "string"
                /\ ins.op = "invoke_virtual" \/ Stage(k).own \/ \E i \in Kinds : i < j
    BY <1>2, DueIs DEF Kinds
  <2>2. ins.op = "invoke_virtual" \/ Stage(k).own \/ (\E i \in Kinds : i < j) => result'.method = prog'.entry
    BY <1>2, <1>8, <1>9, <1>10 DEF Invokes
  <2>. QED  BY <1>6, <1>7, <2>1, <2>2
<1>. QED  BY <1>2, <1>3, <1>4, <1>5, <1>6, <1>11

\* Before the arguments are passed, all that is due was noted.
LEMMA DueWasNoted ==
  ASSUME IInv, CallInv, ReportInv, clean, frames = <<>>, Pass, NEW k \in Nat, Stands(k),
         \A i \in told : ArgumentNote(i) \in DueAt(k) => ArgumentNote(i) \in Found
  PROVE  DueAt(k) \subseteq recorded
<1>1. result = Running /\ ins.op \in Invokes /\ (cur.mode = "running" => told = Kinds)
  BY PassReports
<1>2. cur.mode = "running"
  <2>1. ~InInitializer
    BY DEF InInitializer
  <2>2. cur.mode \in DirectModes
    BY <1>1, <2>1 DEF ReportInv, ModesInv
  <2>3. cur.mode # "running_init"
    BY <1>1 DEF CallInv, Flow, Invokes
  <2>. QED  BY <2>2, <2>3 DEF DirectModes
<1>3. Found = recorded
  BY <1>1, ResultsDiffer DEF Found, AtStop
<1>4. DueAt(k) \subseteq {ArgumentNote(i) : i \in Kinds}
  BY <1>1, DueIs
<1>. QED  BY <1>1, <1>2, <1>3, <1>4

LEMMA ReadyNext ==
  ASSUME NEW k \in Nat, Ready(k), AtInvoke(k)
  PROVE  Ready(k + 1)
<1>1. 0 .. (k + 1) - 1 = (0 .. k - 1) \cup {k}
  OBVIOUS
<1>2. ~IsAt(prog, Stage(k), {"sget"})
  BY DEF AtInvoke, IsAt, Invokes
<1>. QED  BY <1>1, <1>2 DEF Ready

\* The first discovery.
LEMMA FirstNext ==
  ASSUME prog' = prog, NEW k \in Nat, NEW j \in Nat, k <= j, FirstAt(k), Stands(j)', Ready(j)',
         OwnArguments(Found)' \subseteq OwnArguments(Found) \cup DueAt(k),
         frames' = <<>> /\ result' = Running /\ told' = {} /\ methodIdx' = prog.entry /\ ins'.op # "return"
           => Stage(j).own
  PROVE  FirstAt(j)'
<1>1. \A i : DueAt(i)' = DueAt(i) /\ Stage(i)' = Stage(i)
  BY SameStages
<1>2. OwnArguments(Found)' \subseteq UNION {DueAt(i) : i \in 0 .. j}
  <2>1. \A i \in 0 .. k : i \in 0 .. j
    OBVIOUS
  <2>2. k \in 0 .. j
    OBVIOUS
  <2>. QED  BY <2>1, <2>2 DEF FirstAt
<1>. QED  BY <1>1, <1>2 DEF FirstAt

LEMMA FirstTurn ==
  ASSUME IInv, CallInv, KeptInv, ReportInv, OwnInv, IInv', ReportInv', clean, clean', Emulate, RunsAlike,
         breaks \subseteq UseBreaks, NEW k \in Nat, FirstAt(k)
  PROVE  \E j \in Nat : FirstAt(j)'
<1>1. Step /\ result = Running /\ prog' = prog /\ recorded' = recorded /\ ~Recursive
  BY TurnNames DEF Emulate, driverVars, RunsAlike
<1>2. Stands(k) /\ Ready(k) /\ k <= k + 1 /\ k + 1 \in Nat /\ k <= k
  BY DEF FirstAt
<1>3. Ready(k)'
  BY <1>1, <1>2, InstancesStep, ReadyStays
<1>4. OwnArguments(Found)' \subseteq OwnArguments(Found) \cup DueAt(k)
  <2>1. CASE InvokeStops /\ frames = <<>>
    <3>1. told = {} /\ methodIdx = prog.entry => Stage(k).own
      BY <1>1, <2>1 DEF FirstAt, InvokeStops, Turn, Invokes
    <3>. QED  BY <1>1, <1>2, <2>1, <3>1, StopIsDue
  <2>2. CASE ~(InvokeStops /\ frames = <<>>)
    BY <1>1, <2>2, FoundTurn
  <2>. QED  BY <2>1, <2>2
<1>5. ASSUME Stands(k)', frames' # <<>> \/ result' # Running \/ methodIdx' # prog.entry
      PROVE  FirstAt(k)'
  BY <1>1, <1>2, <1>3, <1>4, <1>5, FirstNext
<1>6. CASE frames = <<>>
  <2>1. CASE Remains
    <3>1. /\ Stands(k + 1)' /\ Ready(k + 1)'
          /\ IF ins.op \in Invokes
             THEN Stage(k + 1).own /\ methodIdx' = prog.entry
             ELSE Stage(k + 1).own = Stage(k).own /\ methodIdx' = methodIdx
      BY <1>1, <1>2, <1>6, <2>1, OwnGoes
    <3>2. ins.op # "return"
      <4>1. ~Return /\ ~ReturnStops
        BY <1>6, <2>1, ReturnLeaves, StopPauses, ResultsDiffer DEF Remains, GoingOn, Resumes, Ends, Pauses, AtStop
      <4>. QED  BY <1>1, <4>1, FailureNames DEF Step, Data, MoveResult, FilledNewArray, Nop, Goto, If, Switch, ReturnVoid,
           InvokeStops, InvokeCode, InvokeBuiltin, Pass, RunInitializer, StaticGet, PutStops, StaticPut,
           StaticPutInt, Turn, Invokes, DataOps, Unary, Binary
    <3>3. ins.op \notin Invokes => told = {}
      BY <1>1 DEF ReportInv, ToldInv, Pending
    <3>4. methodIdx' = prog.entry => Stage(k + 1).own
      BY <1>1, <1>6, <3>1, <3>2, <3>3 DEF FirstAt
    <3>. QED  BY <1>1, <1>2, <1>4, <3>1, <3>4, FirstNext
  <2>2. CASE Pauses \/ Ends
    <3>1. Stands(k)' /\ result' # Running
      BY <1>1, <1>2, <1>6, <2>2, OwnStays, ResultsDiffer DEF Pauses, Ends, AtStop
    <3>. QED  BY <1>5, <3>1
  <2>3. CASE \E f \in State : Calls(f)
    BY <1>1, <1>2, <1>5, <1>6, <2>3, OwnCalls
  <2>. QED  BY <1>1, <1>6, <2>1, <2>2, <2>3, TurnIs DEF Resumes
<1>7. CASE frames # <<>>
  <2>1. CASE Resumes /\ Len(frames) = 1
    <3>1. methodIdx' # prog.entry
      <4>1. cur.method # prog.entry
        BY <1>1, <1>7, CalledIsRecursive
      <4>. QED  BY <1>1, <2>1, <4>1 DEF OwnInv, Resumes
    <3>2. IF AtInvoke(k) THEN Stands(k + 1)' /\ ~Stage(k + 1).own ELSE Stands(k)'
      BY <1>1, <1>2, <2>1, CalleeLeaves
    <3>3. ASSUME AtInvoke(k)  PROVE Ready(k + 1)'
      <4>1. instances' = instances /\ Ready(k + 1)
        BY <1>2, <2>1, <3>3, ReadyNext DEF Resumes
      <4>. QED  BY <1>1, <1>2, <4>1, ReadyStays
    <3>4. CASE AtInvoke(k)
      BY <1>1, <1>2, <1>4, <3>1, <3>2, <3>3, <3>4, FirstNext
    <3>5. CASE ~AtInvoke(k)
      BY <1>5, <3>1, <3>2, <3>5
    <3>. QED  BY <3>4, <3>5
  <2>2. CASE ~(Resumes /\ Len(frames) = 1)
    <3>1. Remains \/ Pauses \/ (\E f \in State : Calls(f)) \/ (Resumes /\ Len(frames) # 1)
      BY <1>1, <1>7, <2>2, TurnIs DEF Ends
    <3>2. Stands(k)' /\ frames' # <<>>
      BY <1>1, <1>2, <1>7, <3>1, CalleeStays
    <3>. QED  BY <1>5, <3>2
  <2>. QED  BY <2>1, <2>2
<1>. QED  BY <1>6, <1>7

\* The second discovery: on to the next stage, or all is found.
LEMMA SecondNext ==
  ASSUME prog' = prog, recorded' = recorded, NEW e \in Nat, NEW k \in 0 .. e,
         \A j \in 0 .. k : DueAt(j) \subseteq recorded,
         Stands(k + 1)', frames' = <<>>, result' # Ok, told' = {},
         result' = Running /\ Stage(k + 1).own => methodIdx' = prog.entry
  PROVE  AllFound(e)' \/ \E j \in 0 .. e : SecondAt(e, j)'
<1>1. \A i : DueAt(i)' = DueAt(i) /\ Stage(i)' = Stage(i) /\ AtInvoke(i)' = AtInvoke(i)
  BY SameStages
<1>2. CASE k = e
  BY <1>1, <1>2 DEF AllFound
<1>3. CASE k + 1 = e /\ ~AtInvoke(k + 1)
  <2>1. DueAt(k + 1) = {}
    BY <1>3 DEF DueAt
  <2>2. \A j \in 0 .. e : j \in 0 .. k \/ j = k + 1
    BY <1>3
  <2>. QED  BY <1>1, <2>1, <2>2 DEF AllFound
<1>4. CASE k < e /\ ~(k + 1 = e /\ ~AtInvoke(k + 1))
  <2>1. k + 1 \in 0 .. e /\ (AtInvoke(k + 1) \/ k + 1 < e) /\ 0 .. (k + 1) - 1 = 0 .. k
    BY <1>4
  <2>2. SecondAt(e, k + 1)'
    BY <1>1, <2>1 DEF SecondAt
  <2>. QED  BY <2>1, <2>2
<1>. QED  BY <1>2, <1>3, <1>4

LEMMA SecondTurn ==
  ASSUME IInv, CallInv, KeptInv, ReportInv, NotedInv, IInv', ReportInv', clean, clean', Emulate, RunsAlike,
         NEW e \in Nat, Ready(e), NEW k \in 0 .. e, SecondAt(e, k)
  PROVE  AllFound(e)' \/ \E j \in 0 .. e : SecondAt(e, j)'
<1>1. Step /\ result = Running /\ prog' = prog /\ recorded' = recorded /\ ~Recursive
  BY TurnNames DEF Emulate, driverVars, RunsAlike
<1>2. k \in Nat /\ Stands(k) /\ \A j \in 0 .. k - 1 : DueAt(j) \subseteq recorded
  BY DEF SecondAt
<1>3. DueAt(k) \subseteq recorded => \A j \in 0 .. k : DueAt(j) \subseteq recorded
  <2>1. \A j \in 0 .. k : j \in 0 .. k - 1 \/ j = k
    BY <1>2
  <2>. QED  BY <1>2, <2>1
<1>4. \A i : DueAt(i)' = DueAt(i) /\ Stage(i)' = Stage(i) /\ AtInvoke(i)' = AtInvoke(i)
  BY <1>1, SameStages
<1>5. GoingOn => result' # Ok /\ told' = {}
  BY <1>1, ToldNext, ResultsDiffer DEF GoingOn
<1>6. ASSUME Stands(k)', frames' # <<>>, result' # Ok, AtInvoke(k), DueAt(k) \subseteq recorded, k < e
      PROVE  SecondAt(e, k)'
  BY <1>1, <1>2, <1>4, <1>6 DEF SecondAt
<1>7. CASE frames = <<>>
  <2>1. /\ IsIn(prog, Stage(k)) /\ InsAt(prog, Stage(k)) = ins
        /\ AtInvoke(k) <=> ins.op \in Invokes
    BY <1>1, <1>2, <1>7, StandsAt
  <2>2. /\ told = {} /\ Stage(k).own => methodIdx = prog.entry
        /\ \A i \in told : ArgumentNote(i) \in DueAt(k) => ArgumentNote(i) \in Found
        /\ AtInvoke(k) \/ k < e
    BY <1>1, <1>7 DEF SecondAt
  <2>3. InvokeBuiltin \/ InvokeCode \/ ins.op \notin Invokes => DueAt(k) \subseteq recorded
    <3>1. CASE InvokeBuiltin \/ InvokeCode
      BY <1>2, <1>7, <2>2, <3>1, DueWasNoted DEF InvokeBuiltin, InvokeCode
    <3>2. CASE ins.op \notin Invokes
      BY <2>1, <3>2 DEF DueAt
    <3>. QED  BY <3>1, <3>2
  <2>4. ins.op \notin Invokes => told = {}
    BY <1>1 DEF ReportInv, ToldInv, Pending
  <2>5. ins.op \in Invokes => InvokeStops \/ InvokeCode \/ InvokeBuiltin
    BY <1>1, FailureNames DEF Step, Data, MoveResult, FilledNewArray, Nop, Goto, If, Switch, ReturnVoid,
       ReturnStops, Return, RunInitializer, StaticGet, PutStops, StaticPut, StaticPutInt, Turn, Invokes,
       DataOps, Unary, Binary
  <2>6. GoingOn => DueAt(k) \subseteq recorded
    <3>1. InvokeStops => ~GoingOn
      BY StopPauses, ResultsDiffer DEF GoingOn, Pauses, AtStop
    <3>. QED  BY <2>3, <2>5, <3>1
  <2>7. CASE Remains
    <3>1. /\ Stands(k + 1)' /\ frames' = <<>>
          /\ IF ins.op \in Invokes
             THEN Stage(k + 1).own /\ methodIdx' = prog.entry
             ELSE Stage(k + 1).own = Stage(k).own /\ methodIdx' = methodIdx
      BY <1>1, <1>2, <1>7, <2>7, OwnGoes DEF Remains
    <3>2. Stage(k + 1).own => methodIdx' = prog.entry
      BY <2>2, <2>4, <3>1
    <3>3. \A j \in 0 .. k : DueAt(j) \subseteq recorded
      BY <1>3, <2>6, <2>7 DEF Remains
    <3>. QED  BY <1>1, <1>5, <2>7, <3>1, <3>2, <3>3, SecondNext DEF Remains
  <2>8. CASE \E f \in State : Calls(f)
    <3>1. Stands(k)' /\ frames' # <<>> /\ GoingOn
      BY <1>1, <1>2, <1>7, <2>8, OwnCalls DEF Calls
    <3>2. ins.op \in Invokes \/ (ins.op = "sget" /\ Absent(ins.to))
      BY <2>8 DEF Calls
    <3>3. AtInvoke(k)
      <4>. SUFFICES ASSUME ~AtInvoke(k)  PROVE FALSE
        OBVIOUS
      <4>1. k \in 0 .. e - 1 /\ IsAt(prog, Stage(k), {"sget"})
        BY <1>2, <2>1, <2>2, <3>2 DEF IsAt
      <4>. QED  BY <2>1, <3>2, <4>1 DEF Ready, Absent, AtInvoke, IsAt
    <3>4. CASE k < e
      BY <1>5, <1>6, <2>6, <3>1, <3>3, <3>4
    <3>5. CASE k = e
      <4>1. \A j \in 0 .. e : DueAt(j) \subseteq recorded
        BY <1>3, <2>6, <3>1, <3>5
      <4>. QED  BY <1>1, <1>4, <4>1 DEF AllFound
    <3>. QED  BY <3>4, <3>5
  <2>9. CASE Pauses
    <3>1. Stands(k)' /\ frames' = <<>> /\ result' # Ok /\ result' # Running
      BY <1>1, <1>2, <1>7, <2>9, OwnStays, ResultsDiffer DEF Pauses, AtStop
    <3>2. \A i \in told' : ArgumentNote(i)' \in DueAt(k)' => ArgumentNote(i)' \in Found'
      <4>1. CASE InvokeStops
        BY <1>1, <1>2, <1>7, <2>2, <4>1, DueIsNoted
      <4>2. CASE ~InvokeStops
        <5>1. ins.op \notin Invokes
          BY <1>5, <2>5, <2>9, <4>2, CodeCalls, BuiltinRemains, ResultsDiffer DEF Calls, Remains, GoingOn, Pauses, AtStop
        <5>2. told' = {}
          <6>1. ins'.op \notin Invokes
            BY <2>9, <5>1 DEF Pauses
          <6>. QED  BY <6>1 DEF ReportInv, ToldInv, Pending
        <5>. QED  BY <5>2
      <4>. QED  BY <4>1, <4>2
    <3>3. SecondAt(e, k)'
      BY <1>1, <1>2, <1>4, <2>2, <3>1, <3>2 DEF SecondAt
    <3>. QED  BY <3>3
  <2>10. CASE Ends
    <3>1. ins.op \in {"return", "return_void"}
      BY <2>10 DEF Ends
    <3>2. Onward(prog, Stage(k)) = Stage(k) /\ ins.op \notin Invokes
      BY <2>1, <3>1 DEF Onward, Moved, DataOps, Unary, Binary, Invokes
    <3>3. \A j \in Nat : j >= k => Stage(j) = Stage(k)
      BY <1>2, <3>2, CourseStands DEF Stage, IInv
    <3>4. ASSUME NEW j \in 0 .. e  PROVE DueAt(j) \subseteq recorded
      <4>1. CASE j >= k
        <5>1. Stage(j) = Stage(k)
          BY <3>3, <4>1
        <5>. QED  BY <2>1, <3>2, <5>1 DEF DueAt, AtInvoke
      <4>2. CASE j < k
        BY <1>2, <4>2
      <4>. QED  BY <1>2, <4>1, <4>2
    <3>. QED  BY <1>1, <1>4, <3>4 DEF AllFound
  <2>. QED  BY <1>1, <1>7, <2>7, <2>8, <2>9, <2>10, TurnIs DEF Resumes
<1>8. CASE frames # <<>>
  <2>1. DueAt(k) \subseteq recorded /\ k < e /\ AtInvoke(k)
    BY <1>8 DEF SecondAt
  <2>2. CASE Resumes /\ Len(frames) = 1
    <3>1. frames' = <<>> /\ Stands(k + 1)' /\ ~Stage(k + 1).own
      BY <1>1, <1>2, <2>1, <2>2, CalleeLeaves
    <3>2. \A j \in 0 .. k : DueAt(j) \subseteq recorded
      BY <1>3, <2>1
    <3>. QED  BY <1>1, <1>5, <2>2, <3>1, <3>2, SecondNext DEF Resumes
  <2>3. CASE ~(Resumes /\ Len(frames) = 1)
    <3>1. Remains \/ Pauses \/ (\E f \in State : Calls(f)) \/ (Resumes /\ Len(frames) # 1)
      BY <1>1, <1>8, <2>3, TurnIs DEF Ends
    <3>2. Stands(k)' /\ frames' # <<>>
      BY <1>1, <1>2, <1>8, <3>1, CalleeStays
    <3>3. result' # Ok
      BY <1>5, <3>1, ResultsDiffer DEF Remains, Pauses, AtStop, Calls, Resumes
    <3>. QED  BY <1>6, <2>1, <3>2, <3>3
  <2>. QED  BY <2>2, <2>3
<1>. QED  BY <1>7, <1>8

AgainInv ==
  clean /\ RunsAlike =>
    /\ phase \in {"new", "first", "between"} => breaks \subseteq UseBreaks
    /\ phase = "new" => firstFound = {}
    /\ phase = "first" => ~(AtStop /\ ins.op = "sput") /\ \E k \in Nat : FirstAt(k)
    /\ phase = "between" => \E e \in Nat : Given(e)
    /\ phase = "second" => \E e \in Nat : Given(e) /\ (AllFound(e) \/ \E k \in 0 .. e : SecondAt(e, k))
    /\ phase = "done" /\ prog.static /\ result = Ok => OwnArguments(firstFound) \subseteq recorded

\* What is kept when the machine stands still.
LEMMA MachineStands ==
  ASSUME UNCHANGED vmVars, recorded' = recorded
  PROVE  /\ \A k : FirstAt(k)' = FirstAt(k) /\ Ready(k)' = Ready(k)
         /\ \A e, k : SecondAt(e, k)' = SecondAt(e, k)
         /\ \A e : AllFound(e)' = AllFound(e)
         /\ RunsAlike' = RunsAlike /\ AtStop' = AtStop /\ ins' = ins
<1>1. UNCHANGED <<prog, cur, frames, at, methodIdx, instances, result, told>>
  BY DEF vmVars
<1>2. /\ \A k : Stage(k)' = Stage(k) /\ AtInvoke(k)' = AtInvoke(k) /\ DueAt(k)' = DueAt(k)
      /\ RunsAlike' = RunsAlike /\ \A s : OwnArguments(s)' = OwnArguments(s)
  BY <1>1, SameStages
<1>3. ins' = ins /\ AtStop' = AtStop
  BY <1>1 DEF ins, Loaded, Code, AtStop
<1>4. \A i : ArgumentNote(i)' = ArgumentNote(i)
  BY <1>1, <1>3, SameNotes
<1>5. Found' = Found
  <2>1. Findings' = Findings
    BY <1>1, <1>3 DEF Findings, Note, Argument
  <2>. QED  BY <1>3, <2>1 DEF Found
<1>6. \A k : Stands(k)' = Stands(k) /\ Ready(k)' = Ready(k)
  BY <1>1, <1>2 DEF Stands, Base, Ready, IsAt, IsIn, InsAt
<1>7. OwnArguments(Found)' = OwnArguments(Found)
  BY <1>1, <1>5 DEF OwnArguments
<1>8. \A k : FirstAt(k)' = FirstAt(k)
  BY <1>1, <1>2, <1>3, <1>6, <1>7 DEF FirstAt
<1>9. \A e, k : SecondAt(e, k)' = SecondAt(e, k)
  BY <1>1, <1>2, <1>3, <1>4, <1>5, <1>6 DEF SecondAt
<1>10. \A e : AllFound(e)' = AllFound(e)
  BY <1>2 DEF AllFound
<1>. QED  BY <1>2, <1>3, <1>6, <1>8, <1>9, <1>10

\* A discovery begins at the first stage,
LEMMA DiscoveryStands ==
  ASSUME IInv, First \/ Second, clean'
  PROVE  /\ clean /\ prog' = prog /\ instances' = instances /\ frames' = <<>> /\ told' = {}
         /\ result' \in {Running, NoInstruction} /\ recorded' = {} /\ firstFound' = firstFound
         /\ result' = Running => methodIdx' = prog.entry
         /\ Stands(0)' /\ Stage(0).own
<1>. DEFINE c == [cur EXCEPT !.pc = 0, !.ret = "empty", !.regs = NoRegs, !.method = prog.entry]
            regs == Registers(prog.entry, prog.args)
<1>1. /\ clean /\ frames' = <<>> /\ told' = {} /\ recorded' = {} /\ firstFound' = firstFound
      /\ UNCHANGED <<prog, instances>>
      /\ Execute([c EXCEPT !.regs = regs, !.code = prog.entry], 0)
  BY DEF First, Second, Discover, Start
<1>2. PICK d : d = [c EXCEPT !.regs = regs, !.code = prog.entry]
  OBVIOUS
<1>. HIDE DEF regs
<1>4. /\ d.pc = 0 /\ d.code = prog.entry /\ d.method = prog.entry /\ d.regs = regs
      /\ [d EXCEPT !.mode = "running"].pc = 0 /\ [d EXCEPT !.mode = "running"].code = prog.entry
      /\ [d EXCEPT !.mode = "running"].regs = regs
  <2>1. cur \in State
    BY DEF IInv, StateOK
  <2>. QED  BY <1>2, <2>1 DEF State
<1>. HIDE DEF c
<1>5. /\ cur'.pc = 0 /\ cur'.code = prog.entry /\ cur'.regs = regs
      /\ result' \in {Running, NoInstruction}
      /\ result' = Running => methodIdx' = prog.entry
  BY <1>1, <1>2, <1>4, ResultsDiffer DEF Execute
<1>6. Stage(0) = Begin(prog) /\ Stage(0)' = Stage(0)
  BY <1>1, StageType, SameStages
<1>7. Stage(0).pc = 0 /\ Stage(0).regs = regs /\ Stage(0).own
  BY <1>6 DEF Begin, regs
<1>8. Stands(0)'
  BY <1>1, <1>5, <1>6, <1>7 DEF Stands, Base
<1>. QED  BY <1>1, <1>5, <1>7, <1>8

\* and goes on where a stop was.
LEMMA ContinuedStands ==
  ASSUME IInv, CallInv, ReportInv, OnBreakpoint, clean'
  PROVE  /\ clean /\ AtStop /\ UNCHANGED <<prog, instances, frames, told, breaks, phase, firstFound>>
         /\ recorded' = Found /\ Found' = Found /\ ins' = ins /\ ~AtStop' /\ result' = Running
         /\ methodIdx' = cur.method
         /\ \A k : Stands(k)' = Stands(k) /\ Ready(k)' = Ready(k)
         /\ \A i : ArgumentNote(i)' = ArgumentNote(i)
<1>2. /\ Execute(cur, result.pc) /\ AtStop /\ clean
      /\ UNCHANGED <<prog, told, instances, frames, breaks, phase, firstFound>>
      /\ recorded' = recorded \cup Findings
  BY DEF OnBreakpoint, ContinueExecution, AtStop
<1>3. result.pc = cur.pc /\ at = cur.pc /\ at \in DOMAIN Loaded(cur) /\ cur \in State
  BY <1>2 DEF ReportInv, ToldInv, CallInv, Flow, AtStop, IInv, StateOK
<1>4. at' = at /\ result' = Running /\ cur' = [cur EXCEPT !.mode = "running"] /\ methodIdx' = cur.method
  BY <1>2, <1>3 DEF Execute
<1>5. cur'.code = cur.code /\ cur'.regs = cur.regs /\ cur'.pc = cur.pc /\ cur'.method = cur.method
  BY <1>3, <1>4 DEF State
<1>6. ins' = ins /\ ~AtStop'
  BY <1>2, <1>4, <1>5, SameInstruction, ResultsDiffer DEF AtStop
<1>7. recorded' = Found /\ Found' = Found
  BY <1>2, <1>6 DEF Found
<1>8. \A i : ArgumentNote(i)' = ArgumentNote(i)
  BY <1>2, <1>5, <1>6, SameNotes
<1>9. \A k : Stage(k)' = Stage(k)
  BY <1>2, SameStages
<1>10. \A k : Stands(k)' = Stands(k)
  BY <1>2, <1>5, <1>9 DEF Stands, Base
<1>11. \A k : Ready(k)' = Ready(k)
  BY <1>2, <1>9 DEF Ready, IsAt, IsIn, InsAt
<1>. QED  BY <1>2, <1>4, <1>6, <1>7, <1>8, <1>10, <1>11

LEMMA AgainTurn ==
  ASSUME IInv, CallInv, KeptInv, ReportInv, NotedInv, OwnInv, AgainInv, IInv', ReportInv', Emulate
  PROVE  AgainInv'
<1>1. SUFFICES ASSUME clean', RunsAlike'  PROVE AgainInv'
  BY DEF AgainInv
<1>2. /\ Step /\ clean /\ result = Running /\ prog' = prog /\ phase \in {"first", "second"}
      /\ UNCHANGED <<phase, recorded, firstFound>>
  BY <1>1, TurnNames DEF Emulate, driverVars
<1>3. breaks' = breaks
  BY <1>2, FailureNames DEF Step, Data, MoveResult, FilledNewArray, Nop, Goto, If, Switch, ReturnVoid,
     ReturnStops, Return, InvokeStops, InvokeCode, InvokeBuiltin, Pass, RunInitializer, StaticGet, PutStops,
     StaticPut, StaticPutInt, Turn, TooManySteps, DataFails, BranchFails, Throw, InvokeTooDeep, InvokeFails,
     BuiltinFails, PutFails
<1>4. RunsAlike /\ OwnArguments(firstFound)' = OwnArguments(firstFound)
      /\ \A k : DueAt(k)' = DueAt(k)
  BY <1>1, <1>2, SameStages DEF OwnArguments
<1>5. CASE phase = "first"
  <2>1. breaks \subseteq UseBreaks /\ \E k \in Nat : FirstAt(k)
    BY <1>2, <1>4, <1>5 DEF AgainInv
  <2>2. \E j \in Nat : FirstAt(j)'
    BY <1>1, <1>2, <1>4, <2>1, FirstTurn
  <2>3. ~(AtStop' /\ ins'.op = "sput")
    <3>. SUFFICES ASSUME AtStop', ins'.op = "sput"  PROVE FALSE
      OBVIOUS
    <3>1. ReturnStops \/ PutStops \/ InvokeStops
      BY <1>1, <1>2, FailureNames, InstructionRemains, ReadRemains, BuiltinRemains, CodeCalls,
         InitializerIsCalled, ReturnLeaves, ResultsDiffer
         DEF Step, Remains, Calls, Resumes, Ends, GoingOn, AtStop
    <3>2. ins.op = "sput" /\ PutStops
      BY <1>2, <3>1, StopPauses DEF Pauses, ReturnStops, InvokeStops, Turn, Invokes
    <3>3. ins.to \in breaks /\ ins.to \in Fields
      BY <1>2, <3>2, InsType DEF PutStops, WellFormed
    <3>. QED  BY <2>1, <3>3, MethodsAssumption
  <2>. QED  BY <1>2, <1>3, <1>5, <2>1, <2>2, <2>3 DEF AgainInv
<1>6. CASE phase = "second"
  <2>1. PICK e \in Nat : Given(e) /\ (AllFound(e) \/ \E k \in 0 .. e : SecondAt(e, k))
    BY <1>2, <1>4, <1>6 DEF AgainInv
  <2>2. Given(e)'
    <3>1. Ready(e)'
      BY <1>2, <2>1, InstancesStep, ReadyStays DEF Given
    <3>. QED  BY <1>4, <2>1, <3>1 DEF Given
  <2>3. AllFound(e)' \/ \E k \in 0 .. e : SecondAt(e, k)'
    <3>1. CASE AllFound(e)
      BY <1>2, <1>4, <3>1 DEF AllFound
    <3>2. CASE \E k \in 0 .. e : SecondAt(e, k)
      BY <1>1, <1>2, <1>4, <2>1, <3>2, SecondTurn DEF Given
    <3>. QED  BY <2>1, <3>1, <3>2
  <2>. QED  BY <1>2, <1>6, <2>2, <2>3 DEF AgainInv
<1>. QED  BY <1>2, <1>5, <1>6

LEMMA AgainDriver ==
  ASSUME IInv, CallInv, ReportInv, NotedInv, AgainInv,
         First \/ Second \/ NextMethod \/ OnBreakpoint \/ OnError \/ DiscoveryEnd \/ UNCHANGED vars
  PROVE  AgainInv'
<1>1. SUFFICES ASSUME clean', RunsAlike'  PROVE AgainInv'
  BY DEF AgainInv
<1>2. ASSUME prog' = prog
      PROVE  /\ RunsAlike /\ \A k : DueAt(k)' = DueAt(k) /\ Stage(k)' = Stage(k) /\ AtInvoke(k)' = AtInvoke(k)
             /\ \A s : OwnArguments(s)' = OwnArguments(s)
  BY <1>1, <1>2, SameStages
<1>3. CASE First
  <2>1. /\ clean /\ prog' = prog /\ frames' = <<>> /\ recorded' = {} /\ Stands(0)' /\ Stage(0).own
        /\ result' \in {Running, NoInstruction} /\ phase = "new" /\ phase' = "first" /\ breaks' = breaks
    BY <1>1, <1>3, DiscoveryStands DEF First, Discover
  <2>2. ~AtStop'
    BY <2>1, ResultsDiffer DEF AtStop
  <2>3. OwnArguments(Found)' = {}
    BY <2>1, <2>2 DEF Found, OwnArguments
  <2>4. FirstAt(0)'
    BY <1>2, <2>1, <2>3 DEF FirstAt, Ready
  <2>. QED  BY <1>2, <2>1, <2>2, <2>4 DEF AgainInv
<1>4. CASE Second
  <2>1. /\ clean /\ prog' = prog /\ frames' = <<>> /\ instances' = instances /\ told' = {} /\ Stands(0)'
        /\ result' \in {Running, NoInstruction} /\ phase \in {"new", "between"} /\ phase' = "second"
        /\ firstFound' = firstFound /\ (result' = Running => methodIdx' = prog.entry)
    BY <1>1, <1>4, DiscoveryStands DEF Second
  <2>2. RunsAlike /\ OwnArguments(firstFound)' = OwnArguments(firstFound)
        /\ \A k : DueAt(k)' = DueAt(k) /\ Stage(k)' = Stage(k) /\ AtInvoke(k)' = AtInvoke(k)
    BY <1>2, <2>1 DEF OwnArguments
  <2>3. PICK e \in Nat : Given(e)
    <3>1. CASE phase = "new"
      <4>1. Given(0)
        BY <2>1, <2>2, <3>1 DEF AgainInv, Given, Ready, OwnArguments
      <4>. QED  BY <4>1
    <3>2. CASE phase = "between"
      BY <2>1, <2>2, <3>2 DEF AgainInv
    <3>. QED  BY <2>1, <3>1, <3>2
  <2>4. Given(e)'
    BY <2>1, <2>2, <2>3 DEF Given, Ready, IsAt, IsIn, InsAt
  <2>5. CASE AtInvoke(0) \/ 0 < e
    <3>1. SecondAt(e, 0)'
      BY <2>1, <2>2, <2>5, ResultsDiffer DEF SecondAt
    <3>. QED  BY <2>1, <2>4, <3>1 DEF AgainInv
  <2>6. CASE ~(AtInvoke(0) \/ 0 < e)
    <3>1. \A j \in 0 .. e : DueAt(j) = {}
      BY <2>6 DEF DueAt
    <3>2. AllFound(e)'
      BY <2>2, <3>1 DEF AllFound
    <3>. QED  BY <2>1, <2>4, <3>2 DEF AgainInv
  <2>. QED  BY <2>5, <2>6
<1>5. CASE OnBreakpoint
  <2>1. /\ clean /\ AtStop /\ UNCHANGED <<prog, instances, frames, told, breaks, phase, firstFound>>
        /\ recorded' = Found /\ Found' = Found /\ ins' = ins /\ ~AtStop' /\ result' = Running
        /\ methodIdx' = cur.method
        /\ \A k : Stands(k)' = Stands(k) /\ Ready(k)' = Ready(k)
        /\ \A i : ArgumentNote(i)' = ArgumentNote(i)
    BY <1>1, <1>5, ContinuedStands
  <2>2. RunsAlike /\ OwnArguments(firstFound)' = OwnArguments(firstFound)
        /\ OwnArguments(Found)' = OwnArguments(Found)
        /\ \A k : DueAt(k)' = DueAt(k) /\ Stage(k)' = Stage(k) /\ AtInvoke(k)' = AtInvoke(k)
    BY <1>2, <2>1 DEF OwnArguments
  <2>3. phase \in {"first", "second"}
    BY <1>5 DEF OnBreakpoint, Halted
  <2>4. recorded \subseteq recorded'
    BY <2>1 DEF Found
  <2>5. CASE phase = "first"
    <3>1. PICK k \in Nat : FirstAt(k)
      BY <2>1, <2>2, <2>5 DEF AgainInv
    <3>2. told # {} \/ ins.op = "return"
      <4>1. ins.op \in Invokes \cup {"return"}
        BY <2>1, <2>2, <2>5 DEF AgainInv, ReportInv, ToldInv, Stopping
      <4>2. ins.op \in Invokes => told # {}
        <5>1. ins.op \in Invokes => told = {i \in Kinds : i <= cur.argReg} /\ cur.argReg \in Kinds
          BY <2>1 DEF ReportInv, ToldInv, Pending
        <5>2. cur.argReg \in Nat
          BY DEF IInv, StateOK, State
        <5>. QED  BY <5>1, <5>2
      <4>. QED  BY <4>1, <4>2
    <3>3. FirstAt(k)'
      BY <2>1, <2>2, <3>1, <3>2 DEF FirstAt
    <3>. QED  BY <2>1, <2>2, <2>5, <3>3 DEF AgainInv
  <2>6. CASE phase = "second"
    <3>1. PICK e \in Nat : Given(e) /\ (AllFound(e) \/ \E k \in 0 .. e : SecondAt(e, k))
      BY <2>1, <2>2, <2>6 DEF AgainInv
    <3>2. Given(e)'
      BY <2>1, <2>2, <3>1 DEF Given
    <3>3. AllFound(e) => AllFound(e)'
      BY <2>2, <2>4 DEF AllFound
    <3>4. ASSUME NEW k \in 0 .. e, SecondAt(e, k)  PROVE SecondAt(e, k)'
      <4>1. frames = <<>> => cur.method = prog.entry
        BY <2>1, <3>4 DEF SecondAt, Stands, Base, CallInv, Flow
      <4>2. Found = recorded'
        BY <2>1
      <4>. QED  BY <2>1, <2>2, <2>4, <3>4, <4>1, <4>2, ResultsDiffer DEF SecondAt
    <3>. QED  BY <2>1, <2>6, <3>1, <3>2, <3>3, <3>4 DEF AgainInv
  <2>. QED  BY <2>3, <2>5, <2>6
<1>6. CASE OnError
  BY <1>1, <1>6 DEF OnError, CallInv, Flow
<1>7. CASE NextMethod
  <2>1. phase' = "done" /\ UNCHANGED vmVars /\ ~prog.static
    BY <1>7 DEF NextMethod
  <2>2. ~prog'.static
    BY <2>1 DEF vmVars
  <2>. QED  BY <2>1, <2>2 DEF AgainInv
<1>8. CASE DiscoveryEnd
  <2>1. /\ UNCHANGED vmVars /\ recorded' = recorded /\ phase \in {"first", "second"}
        /\ phase' = IF phase = "first" THEN "between" ELSE "done"
        /\ firstFound' = IF phase = "first" THEN recorded ELSE firstFound
    BY <1>8 DEF DiscoveryEnd, Halted
  <2>2. /\ clean /\ prog' = prog /\ breaks' = breaks /\ result' = result
        /\ \A k : Ready(k)' = Ready(k)
    BY <1>1, <2>1, MachineStands DEF vmVars
  <2>3. RunsAlike /\ \A k : DueAt(k)' = DueAt(k)
    BY <1>2, <2>2
  <2>4. CASE phase = "first"
    <3>1. PICK k \in Nat : FirstAt(k)
      BY <2>2, <2>3, <2>4 DEF AgainInv
    <3>2. OwnArguments(firstFound)' \subseteq OwnArguments(Found)
      BY <2>1, <2>2, <2>4 DEF Found, OwnArguments
    <3>3. Given(k)'
      BY <2>2, <2>3, <3>1, <3>2 DEF Given, FirstAt
    <3>4. breaks' \subseteq UseBreaks
      BY <2>2, <2>3, <2>4 DEF AgainInv
    <3>. QED  BY <2>1, <2>4, <3>3, <3>4 DEF AgainInv
  <2>5. CASE phase = "second"
    <3>1. PICK e \in Nat : Given(e) /\ (AllFound(e) \/ \E k \in 0 .. e : SecondAt(e, k))
      BY <2>2, <2>3, <2>5 DEF AgainInv
    <3>2. result = Ok => OwnArguments(firstFound) \subseteq recorded
      BY <3>1 DEF SecondAt, AllFound, Given
    <3>3. OwnArguments(firstFound)' = OwnArguments(firstFound)
      BY <2>1, <2>2, <2>5 DEF OwnArguments
    <3>. QED  BY <2>1, <2>2, <2>5, <3>2, <3>3 DEF AgainInv
  <2>. QED  BY <2>1, <2>4, <2>5
<1>9. CASE UNCHANGED vars
  <2>1. UNCHANGED vmVars /\ UNCHANGED <<phase, recorded, firstFound>>
    BY <1>9 DEF vars, driverVars
  <2>2. /\ clean' = clean /\ prog' = prog /\ breaks' = breaks /\ result' = result
        /\ \A k : FirstAt(k)' = FirstAt(k) /\ Ready(k)' = Ready(k)
        /\ \A e, k : SecondAt(e, k)' = SecondAt(e, k)
        /\ \A e : AllFound(e)' = AllFound(e)
        /\ RunsAlike' = RunsAlike /\ AtStop' = AtStop /\ ins' = ins
    BY <2>1, MachineStands DEF vmVars
  <2>3. OwnArguments(firstFound)' = OwnArguments(firstFound) /\ \A k : DueAt(k)' = DueAt(k)
    BY <1>2, <2>1, <2>2 DEF OwnArguments
  <2>4. \A e : Given(e)' = Given(e)
    BY <2>2, <2>3 DEF Given
  <2>. QED  BY <2>1, <2>2, <2>3, <2>4 DEF AgainInv
<1>. QED  BY <1>3, <1>4, <1>5, <1>6, <1>7, <1>8, <1>9

LEMMA AgainStep ==
  IInv /\ CallInv /\ KeptInv /\ ReportInv /\ NotedInv /\ OwnInv /\ AgainInv /\ IInv' /\ ReportInv' /\ [Next]_vars
    => AgainInv'
BY AgainTurn, AgainDriver DEF Next

\* A static initialiser that does the same each time is discovered again to its return,
\* before any failure: what the first discovery noted of the arguments its own code
\* passed on is noted again, for every program.
THEOREM FoundAgainCorrect == Spec => []SecondFindsAgain
<1>. DEFINE I == KeptInv /\ NotedInv /\ OwnInv /\ AgainInv
<1>1. Init => CallInv /\ ReportInv
  BY ResultsDiffer DEF Init, NewMachine, Frame, CallInv, Chain, Flow, ReportInv, ToldInv, ModesInv,
     Pending, AtStop
<1>2. Init => I
  BY ResultsDiffer DEF Init, NewMachine, Frame, KeptInv, Kept, NotedInv, OwnInv, AgainInv
<1>3. IInv /\ CallInv /\ ReportInv /\ IInv' /\ ReportInv' /\ I /\ [Next]_vars => I'
  BY KeptStep, NotedStep, OwnStep, AgainStep
<1>4. I => SecondFindsAgain
  BY DEF AgainInv, SecondFindsAgain
<1>. HIDE DEF I
<1>. QED  BY <1>1, <1>2, <1>3, <1>4, CallStep, ReportStep, InvCorrect, PTL DEF Spec
=============================================================================
