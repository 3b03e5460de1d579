-------------------------- MODULE Discovery_proofs --------------------------
(***************************************************************************)
(* Proofs about Discovery: the machine's state keeps its type, whatever    *)
(* program is discovered and however often discovery goes on after a stop  *)
(* or a failure.                                                           *)
(***************************************************************************)
EXTENDS Discovery, TLAPS

Codes == Methods \cup {NoMethod}

StateOK(c) ==
  /\ c \in State
  /\ c.regs \in RegsOf(c.code)
  /\ c.code # NoMethod => HasCode(c.code)

FramesOK ==
  /\ frames \in Seq(State)
  /\ \A i \in DOMAIN frames : StateOK(frames[i]) /\ frames[i].code # NoMethod

PlaceOK ==
  /\ at \in Int /\ result \in Results
  /\ result = Running => at \in DOMAIN Loaded(cur)

RestOK ==
  /\ steps \in 0 .. MaxSteps /\ methodIdx \in Codes
  /\ instances \in [Fields -> Values \cup {"none"}]
  /\ skip \in BOOLEAN /\ breaks \subseteq UseBreaks \cup Fields
  /\ clean \in BOOLEAN /\ returned \in BOOLEAN /\ told \subseteq Nat

\* Code is loaded only when the arguments fit the method that is discovered.
ArgsFit == cur.code # NoMethod => Len(prog.args) = MethodOf[prog.entry].ins

IInv ==
  /\ prog \in Programs
  /\ StateOK(cur) /\ FramesOK /\ PlaceOK /\ RestOK /\ ArgsFit /\ DriverTypeOK

LEMMA InvImpliesType == IInv => TypeOK
BY DEF IInv, TypeOK, MachineTypeOK, StateOK, FramesOK, PlaceOK, RestOK, Codes

-----------------------------------------------------------------------------
(* What the library leaves.                                                *)

\* A set of outcomes whose results are values.
Sound(outcomes) == \A o \in outcomes : o.ret \in Values

LEMMA OutcomeSets ==
  /\ \A s \in SUBSET Values : Sound(Leaves(s))
  /\ \A r \in Values : Sound(Stopped(r)) /\ Sound(Missing(r)) /\ Sound(Leaves({r}))
  /\ \A s, t : Sound(s) /\ Sound(t) => Sound(s \cup t)
  /\ Sound({})
BY DEF Sound, Leaves, Stopped, Missing

LEMMA HeapType == \A v \in Values : OnHeap(v) \in Values
BY DEF OnHeap, Values, References, StringKinds, Masked

LEMMA ValueNames ==
  /\ {"int"} \subseteq Values /\ {"array"} \subseteq Values /\ {"object"} \subseteq Values
  /\ {"string"} \subseteq Values /\ {"wide"} \subseteq Values /\ {"empty"} \subseteq Values
  /\ StringKinds \subseteq Values
BY DEF Values, References, StringKinds, Masked

\* Each of the library's classes.
LEMMA PlainType == ASSUME NEW r \in Values, NEW n  PROVE Sound(Plain(n, r))
BY OutcomeSets, ValueNames DEF Plain

LEMMA ClassType ==
  ASSUME NEW r \in Values, NEW a, NEW class, NEW n, \A k \in Nat : Arg(a, k) \in Values
  PROVE  /\ Sound(Resources(class, n, a, r)) /\ Sound(Basics(class, n, a, r))
         /\ Sound(Providers(class, n, r)) /\ Sound(System(n, a, r)) /\ Sound(Boxes(n, a, r))
         /\ Sound(ClassObjects(class, n, a, r)) /\ Sound(Specs(n, r))
         /\ Sound(Utilities(class, n, a, r)) /\ Sound(MessageDigest(n, a, r))
         /\ Sound(Base64(n, a, r)) /\ Sound(StringBuilder(n, a, r))
         /\ Sound(StringClass(n, a, r))
<1> USE OutcomeSets, ValueNames, PlainType
<1>a. /\ \A x, y \in Values : {x} \subseteq Values /\ {x, y} \subseteq Values
      /\ StringKinds \cup {r} \subseteq Values
  OBVIOUS
<1>b. Sound(Leaves({r})) /\ Sound(Leaves({"int"})) /\ Sound(Leaves({"object"}))
       /\ Sound(Leaves({"array"})) /\ Sound(Leaves({"string"})) /\ Sound(Leaves({"wide"}))
       /\ Sound(Leaves(StringKinds))
       /\ Sound(Stopped(r)) /\ Sound(Missing(r)) /\ Sound(Stopped("object"))
       /\ Sound(Leaves({"array", r})) /\ Sound(Leaves(StringKinds \cup {r}))
       /\ Sound(Leaves({Arg(a, 1)})) /\ Sound(Leaves({OnHeap(Arg(a, 1))}))
  BY <1>a, HeapType
<1>1. Sound(Resources(class, n, a, r))
  BY <1>b DEF Resources
<1>2. Sound(Basics(class, n, a, r))
  BY <1>b DEF Basics
<1>3. Sound(Providers(class, n, r)) /\ Sound(System(n, a, r)) /\ Sound(Boxes(n, a, r))
  BY <1>b DEF Providers, System, Boxes
<1>4. Sound(ClassObjects(class, n, a, r)) /\ Sound(Specs(n, r))
  BY <1>b DEF ClassObjects, Specs
<1>5. Sound(Utilities(class, n, a, r))
  BY <1>b DEF Utilities
<1>6. Sound(MessageDigest(n, a, r))
  BY <1>b DEF MessageDigest
<1>7. Sound(Base64(n, a, r))
  BY <1>b DEF Base64
<1>8. Sound(StringBuilder(n, a, r))
  BY <1>b DEF StringBuilder
<1>9. Sound(StringClass(n, a, r))
  BY <1>b DEF StringClass, StringsMade, StringsRead
<1>. QED  BY <1>1, <1>2, <1>3, <1>4, <1>5, <1>6, <1>7, <1>8, <1>9

LEMMA LibraryType ==
  ASSUME NEW r \in Values, NEW a, NEW class, NEW n, \A k \in DOMAIN a : a[k] \in Values
  PROVE  Sound(LibraryOutcomes(class, n, a, r))
<1>1. \A k \in Nat : Arg(a, k) \in Values
  BY ValueNames DEF Arg
<1>2. Sound(Leaves({r})) /\ Sound(Missing(r))
  BY OutcomeSets
<1>. QED  BY <1>1, <1>2, ClassType DEF LibraryOutcomes

-----------------------------------------------------------------------------
(* The instruction at hand.                                                *)

LEMMA ResultsDiffer ==
  /\ Running # Ok /\ Running # Error /\ Running # NoInstruction
  /\ Ok # Error /\ Ok # NoInstruction /\ Error # NoInstruction
  /\ Running.kind = "running" /\ Ok.kind = "ok" /\ Error.kind = "error"
  /\ NoInstruction.kind = "no_instruction"
BY DEF Running, Ok, Error, NoInstruction

LEMMA InsType ==
  ASSUME IInv, result = Running
  PROVE  /\ cur.code \in Methods /\ HasCode(cur.code)
         /\ Loaded(cur) = Code(cur.code)
         /\ at \in DOMAIN Code(cur.code)
         /\ WellFormed(ins, MethodOf[cur.code].regs)
<1>1. at \in DOMAIN Loaded(cur)
  BY DEF IInv, PlaceOK
<1>2. cur.code # NoMethod
  BY <1>1 DEF Loaded, Blank
<1>3. cur.code \in Methods /\ HasCode(cur.code)
  BY <1>2 DEF IInv, StateOK, State
<1>4. Loaded(cur) = Code(cur.code)
  BY <1>2 DEF Loaded
<1>. QED  BY <1>1, <1>3, <1>4, ProgramsAssumption DEF IInv, Code, ins, HasCode

LEMMA LoadedDomain ==
  ASSUME IInv, NEW c, StateOK(c)
  PROVE  \A a \in DOMAIN Loaded(c) :
           a \in Int /\ WellFormed(Loaded(c)[a], MethodOf[c.code].regs)
<1>1. CASE c.code = NoMethod
  BY <1>1 DEF Loaded, Blank
<1>2. CASE c.code # NoMethod
  BY <1>2, ProgramsAssumption DEF Loaded, Code, IInv, StateOK, State, HasCode
<1>. QED  BY <1>1, <1>2

\* The state is well typed after the size, the counter or the mode are set.
LEMMA MeType ==
  ASSUME IInv, result = Running
  PROVE  /\ StateOK(me)
         /\ me.code = cur.code /\ me.regs = cur.regs /\ me.mode = cur.mode
         /\ me.pc = cur.pc /\ me.ret = cur.ret /\ me.method = cur.method
         /\ me.argReg = cur.argReg
         /\ ins.size \in 1 .. 3
<1>1. ins.size \in 1 .. 3
  BY InsType DEF WellFormed
<1>2. cur \in State
  BY DEF IInv, StateOK
<1>. QED  BY <1>1, <1>2 DEF me, IInv, StateOK, State

LEMMA SetPc ==
  ASSUME NEW c, StateOK(c), NEW n \in Int
  PROVE  /\ StateOK([c EXCEPT !.pc = n])
         /\ [c EXCEPT !.pc = n].code = c.code /\ [c EXCEPT !.pc = n].pc = n
BY DEF StateOK, State

LEMMA SetReg ==
  ASSUME NEW c, StateOK(c), NEW r \in Nat, NEW v \in Values
  PROVE  /\ StateOK([c EXCEPT !.regs[r] = v])
         /\ [c EXCEPT !.regs[r] = v].code = c.code
         /\ [c EXCEPT !.regs[r] = v].mode = c.mode
<1>1. c.code \in Codes /\ c.regs \in RegsOf(c.code) /\ c \in State
  BY DEF StateOK, State, Codes
<1>2. [c.regs EXCEPT ![r] = v] \in RegsOf(c.code)
  <2>1. CASE c.code = NoMethod
    BY <1>1, <2>1 DEF RegsOf, NoRegs
  <2>2. CASE c.code # NoMethod
    BY <1>1, <2>2 DEF RegsOf
  <2>. QED  BY <2>1, <2>2
<1>3. [c EXCEPT !.regs[r] = v] = [c EXCEPT !.regs = [c.regs EXCEPT ![r] = v]]
  BY <1>1 DEF State
<1>. QED  BY <1>1, <1>2, <1>3 DEF StateOK, State, Codes

-----------------------------------------------------------------------------
(* Entering and leaving the loop.                                          *)

LEMMA FetchType ==
  ASSUME IInv, result = Running, NEW c, StateOK(c), Fetch(c), prog' = prog,
         c.code # NoMethod
  PROVE  StateOK(cur)' /\ PlaceOK' /\ ArgsFit' /\ cur' = c
<1>1. cur' = c
  BY DEF Fetch
<1>2. StateOK(cur)'
  BY <1>1 DEF StateOK, HasCode
<1>3. Loaded(cur)' = Loaded(c)
  BY <1>1 DEF Loaded, Code
<1>4. at \in Int /\ Running \in Results /\ NoInstruction \in Results
  BY DEF IInv, PlaceOK, Results
<1>5. PlaceOK'
  <2>1. CASE c.pc \in DOMAIN Loaded(c)
    <3>1. at' = c.pc /\ result' = Running /\ c.pc \in Int
      BY <2>1 DEF Fetch, StateOK, State
    <3>. QED  BY <1>3, <1>4, <2>1, <3>1 DEF PlaceOK
  <2>2. CASE c.pc \notin DOMAIN Loaded(c)
    <3>1. at' = at /\ result' = NoInstruction
      BY <2>2 DEF Fetch
    <3>. QED  BY <1>4, <3>1, ResultsDiffer DEF PlaceOK
  <2>. QED  BY <2>1, <2>2
<1>6. ArgsFit'
  BY InsType, MethodsAssumption DEF IInv, ArgsFit
<1>. QED  BY <1>1, <1>2, <1>5, <1>6

LEMMA AdvanceType ==
  ASSUME IInv, result = Running, NEW c, StateOK(c), NEW size \in Int, Advance(c, size),
         prog' = prog, c.code # NoMethod
  PROVE  StateOK(cur)' /\ PlaceOK' /\ ArgsFit'
<1>1. CASE c.mode = "running_init"
  BY <1>1, FetchType DEF Advance
<1>2. CASE c.mode # "running_init"
  <2>1. c.pc + size \in Int /\ [c EXCEPT !.pc = @ + size] = [c EXCEPT !.pc = c.pc + size]
    BY DEF StateOK, State
  <2>2. StateOK([c EXCEPT !.pc = @ + size]) /\ [c EXCEPT !.pc = @ + size].code # NoMethod
    BY <2>1, SetPc
  <2>. QED  BY <1>2, <2>2, FetchType DEF Advance
<1>. QED  BY <1>1, <1>2

\* A turn that ends with a stop, a failure or the method's return: the state keeps
\* its code, and nothing runs any more.
LEMMA HaltType ==
  ASSUME IInv, NEW c, StateOK(c), c.code = NoMethod \/ c.code = cur.code,
         cur' = c, at' = at, result' \in Results \ {Running}, prog' = prog
  PROVE  StateOK(cur)' /\ PlaceOK' /\ ArgsFit'
<1>1. StateOK(cur)'
  BY DEF StateOK, HasCode
<1>2. PlaceOK' /\ ArgsFit'
  BY DEF IInv, PlaceOK, ArgsFit
<1>. QED  BY <1>1, <1>2

LEMMA PopType ==
  ASSUME IInv, frames # <<>>
  PROVE  /\ Front(frames) \in Seq(State)
         /\ Len(Front(frames)) = Len(frames) - 1
         /\ \A i \in 1 .. Len(frames) - 1 : Front(frames)[i] = frames[i]
         /\ StateOK(Last(frames)) /\ Last(frames).code # NoMethod
         /\ Last(frames) = frames[Len(frames)]
<1>1. frames \in Seq(State) /\ Len(frames) \in Nat \ {0}
  BY DEF IInv, FramesOK
<1>2. Front(frames) = [i \in 1 .. Len(frames) - 1 |-> frames[i]]
  BY <1>1 DEF Front
<1>3. /\ Front(frames) \in Seq(State) /\ Len(Front(frames)) = Len(frames) - 1
      /\ \A i \in 1 .. Len(frames) - 1 : Front(frames)[i] = frames[i]
  BY <1>1, <1>2
<1>4. Last(frames) = frames[Len(frames)] /\ Len(frames) \in DOMAIN frames
  BY <1>1 DEF Last
<1>. QED  BY <1>3, <1>4 DEF IInv, FramesOK

LEMMA PushType ==
  ASSUME IInv, NEW c, StateOK(c), c.code # NoMethod, frames' = Append(frames, c)
  PROVE  FramesOK'
<1>1. frames \in Seq(State) /\ c \in State
  BY DEF IInv, FramesOK, StateOK
<1>2. /\ frames' \in Seq(State) /\ Len(frames') = Len(frames) + 1
      /\ \A i \in 1 .. Len(frames) : frames'[i] = frames[i]
      /\ frames'[Len(frames) + 1] = c
  BY <1>1
<1>3. \A i \in DOMAIN frames' : StateOK(frames'[i]) /\ frames'[i].code # NoMethod
  <2>1. TAKE i \in DOMAIN frames'
  <2>2. i \in 1 .. Len(frames) \/ i = Len(frames) + 1
    BY <1>1, <1>2
  <2>. QED  BY <1>1, <1>2, <2>2 DEF IInv, FramesOK
<1>. QED  BY <1>2, <1>3 DEF FramesOK, StateOK, HasCode

\* Resuming the frame on top.
LEMMA ResumeType ==
  ASSUME IInv, result = Running, frames # <<>>, NEW c, StateOK(c), c.code # NoMethod,
         Resume(c), prog' = prog
  PROVE  StateOK(cur)' /\ PlaceOK' /\ ArgsFit' /\ FramesOK' /\ returned' = TRUE
<1>1. FramesOK'
  <2>1. frames' = Front(frames)
    BY DEF Resume
  <2>2. \A i \in DOMAIN frames' : StateOK(frames'[i]) /\ frames'[i].code # NoMethod
    BY <2>1, PopType DEF IInv, FramesOK
  <2>. QED  BY <2>1, <2>2, PopType DEF FramesOK, StateOK, HasCode
<1>2. CASE c.pc \in DOMAIN Loaded(c)
  <2>1. Loaded(c)[c.pc].size \in Int
    BY <1>2, LoadedDomain DEF WellFormed
  <2>. QED  BY <1>1, <1>2, <2>1, AdvanceType DEF Resume
<1>3. CASE c.pc \notin DOMAIN Loaded(c)
  <2>1. cur' = c /\ at' = at /\ result' = NoInstruction /\ returned' = TRUE
    BY <1>3 DEF Resume
  <2>2. StateOK(cur)'
    BY <2>1 DEF StateOK, HasCode
  <2>4. ArgsFit'
    BY InsType, MethodsAssumption DEF IInv, ArgsFit
  <2>3. PlaceOK'
    BY <2>1, ResultsDiffer DEF PlaceOK, IInv, Results
  <2>. QED  BY <1>1, <2>1, <2>2, <2>3, <2>4
<1>. QED  BY <1>2, <1>3

\* execute(), for a state whose code is that of the discovered method or of the
\* state before.
LEMMA ExecuteType ==
  ASSUME IInv, NEW c, StateOK(c), NEW addr, Execute(c, addr), prog' = prog,
         c.code # NoMethod => Len(prog.args) = MethodOf[prog.entry].ins
  PROVE  /\ StateOK(cur)' /\ PlaceOK' /\ ArgsFit'
         /\ steps' \in 0 .. MaxSteps /\ methodIdx' \in Codes /\ returned' \in BOOLEAN
<1>0. at \in Int /\ steps \in 0 .. MaxSteps /\ methodIdx \in Codes
  BY DEF IInv, PlaceOK, RestOK
<1>1. CASE addr \in DOMAIN Loaded(c)
  <2>1. /\ cur' = [c EXCEPT !.mode = "running"] /\ at' = addr /\ methodIdx' = c.method
        /\ steps' = 0 /\ result' = Running /\ returned' = FALSE
    BY <1>1 DEF Execute
  <2>2. StateOK(cur)' /\ cur'.code = c.code
    BY <2>1 DEF StateOK, State, HasCode, Modes
  <2>3. Loaded(cur)' = Loaded(c)
    BY <2>2 DEF Loaded, Code
  <2>4. addr \in Int
    BY <1>1, LoadedDomain
  <2>5. PlaceOK'
    BY <1>1, <2>1, <2>3, <2>4 DEF PlaceOK, Results
  <2>6. ArgsFit'
    BY <2>2 DEF ArgsFit
  <2>7. c.method \in Codes
    BY DEF StateOK, State, Codes
  <2>8. methodIdx' \in Codes /\ returned' \in BOOLEAN
    BY <2>1, <2>7
  <2>9. steps' \in 0 .. MaxSteps
    BY <2>1, BoundsAssumption
  <2>. QED  BY <2>2, <2>5, <2>6, <2>8, <2>9
<1>2. CASE addr \notin DOMAIN Loaded(c)
  <2>1. /\ cur' = c /\ result' = NoInstruction /\ UNCHANGED <<at, methodIdx, steps>>
        /\ returned' = FALSE
    BY <1>2 DEF Execute
  <2>2. StateOK(cur)' /\ ArgsFit'
    BY <2>1 DEF StateOK, HasCode, ArgsFit
  <2>3. PlaceOK'
    BY <1>0, <2>1, ResultsDiffer DEF PlaceOK, Results
  <2>. QED  BY <1>0, <2>1, <2>2, <2>3
<1>. QED  BY <1>1, <1>2

-----------------------------------------------------------------------------
(* The instructions.                                                       *)

\* What every turn finds and leaves.
LEMMA TurnType ==
  ASSUME IInv, NEW ops, Turn(ops), driverVars' = driverVars
  PROVE  /\ result = Running /\ ins.op \in ops
         /\ prog' = prog /\ prog' \in Programs /\ DriverTypeOK'
         /\ steps' \in 0 .. MaxSteps /\ breaks' \subseteq UseBreaks \cup Fields
         /\ StateOK(me) /\ me.code = cur.code /\ me.code # NoMethod
         /\ cur.code \in Methods /\ WellFormed(ins, MethodOf[cur.code].regs)
         /\ ins.size \in 1 .. 3 /\ ins.size \in Int
<1>1. result = Running /\ ins.op \in ops /\ prog' = prog /\ breaks' = breaks
  BY DEF Turn
<1>2. steps' \in 0 .. MaxSteps
  BY BoundsAssumption DEF Turn, IInv, RestOK
<1>3. prog' \in Programs /\ breaks' \subseteq UseBreaks \cup Fields
  BY <1>1 DEF IInv, RestOK
<1>4. DriverTypeOK'
  BY DEF IInv, DriverTypeOK, driverVars
<1>5. cur.code \in Methods /\ cur.code # NoMethod /\ WellFormed(ins, MethodOf[cur.code].regs)
  BY <1>1, InsType, MethodsAssumption
<1>. QED  BY <1>1, <1>2, <1>3, <1>4, <1>5, MeType

\* The registers of the method executed hold values.
LEMMA RegisterType ==
  ASSUME IInv, result = Running, NEW r \in Nat, r < MethodOf[cur.code].regs
  PROVE  cur.regs[r] \in Values
<1>1. cur.code \in Methods /\ cur.regs \in RegsOf(cur.code) /\ cur.code # NoMethod
  BY InsType, MethodsAssumption DEF IInv, StateOK
<1>2. MethodOf[cur.code].regs \in Nat
  BY <1>1, MethodsAssumption
<1>. QED  BY <1>1, <1>2 DEF RegsOf

LEMMA RegistersType ==
  ASSUME NEW m \in Methods, NEW arguments,
         \A k \in DOMAIN arguments : arguments[k] \in Values
  PROVE  Registers(m, arguments) \in RegsOf(m)
<1>1. m # NoMethod
  BY MethodsAssumption
<1>2. "empty" \in Values
  BY ValueNames
<1>. QED  BY <1>1, <1>2 DEF Registers, RegsOf

\* The state in which a method is entered: with these registers, from the first
\* instruction.
LEMMA EnterType ==
  ASSUME NEW c \in State, NEW m \in Methods, HasCode(m), NEW regs \in RegsOf(m)
  PROVE  LET d == [c EXCEPT !.pc = 0, !.code = m, !.method = m] IN
         /\ StateOK([d EXCEPT !.ret = "empty", !.regs = regs])
         /\ StateOK([d EXCEPT !.mode = "static_init", !.regs = regs])
         /\ d.code = m
<1> DEFINE d == [c EXCEPT !.pc = 0, !.code = m, !.method = m]
           e == [d EXCEPT !.ret = "empty"]
           f == [d EXCEPT !.mode = "static_init"]
           a == [c EXCEPT !.pc = 0]
<1>0. a \in State
  BY DEF State
<1>1. d \in State /\ d.code = m
  <2>1. d = [[a EXCEPT !.code = m] EXCEPT !.method = m]
    OBVIOUS
  <2> HIDE DEF a, d
  <2>2. [a EXCEPT !.code = m] \in State /\ [a EXCEPT !.code = m].code = m
    BY <1>0 DEF State
  <2>. QED  BY <2>1, <2>2 DEF State
<1> HIDE DEF d
<1>2. e \in State /\ e.code = m /\ f \in State /\ f.code = m
  BY <1>1, ValueNames DEF State, Modes
<1> HIDE DEF e, f
<1>3. regs \in UNION {RegsOf(k) : k \in Methods \cup {NoMethod}}
  OBVIOUS
<1>4. ASSUME NEW s \in State, s.code = m
      PROVE  StateOK([s EXCEPT !.regs = regs])
  <2>1. /\ [s EXCEPT !.regs = regs] \in State /\ [s EXCEPT !.regs = regs].regs = regs
        /\ [s EXCEPT !.regs = regs].code = m
    BY <1>3, <1>4 DEF State
  <2>. QED  BY <2>1 DEF StateOK
<1>5. StateOK([e EXCEPT !.regs = regs]) /\ StateOK([f EXCEPT !.regs = regs])
  BY <1>2, <1>4
<1>. QED  BY <1>1, <1>5 DEF d, e, f

LEMMA ArgumentType ==
  ASSUME IInv, result = Running, ins.op \in Invokes
  PROVE  /\ Len(ins.args) \in Nat
         /\ \A i \in Positions : i \in Nat /\ Argument(i) \in Values
<1>1. /\ ins.args \in Seq(Nat)
      /\ \A k \in DOMAIN ins.args : ins.args[k] < MethodOf[cur.code].regs
  BY InsType DEF WellFormed
<1>2. Len(ins.args) \in Nat /\ DOMAIN ins.args = 1 .. Len(ins.args)
  BY <1>1
<1>3. ASSUME NEW i \in Positions  PROVE  i \in Nat /\ Argument(i) \in Values
  <2>1. i \in Nat /\ i + 1 \in DOMAIN ins.args
    BY <1>2 DEF Positions
  <2>2. ins.args[i + 1] \in Nat /\ ins.args[i + 1] < MethodOf[cur.code].regs
    BY <1>1, <1>2, <2>1
  <2>. QED  BY <2>1, <2>2, RegisterType DEF Argument
<1>. QED  BY <1>2, <1>3

LEMMA SetRet ==
  ASSUME NEW c, StateOK(c), NEW v \in Values
  PROVE  /\ StateOK([c EXCEPT !.ret = v]) /\ [c EXCEPT !.ret = v].code = c.code
         /\ [c EXCEPT !.ret = v].pc = c.pc
BY DEF StateOK, State

LEMMA SetMode ==
  ASSUME NEW c, StateOK(c), NEW v \in Modes
  PROVE  StateOK([c EXCEPT !.mode = v]) /\ [c EXCEPT !.mode = v].code = c.code
BY DEF StateOK, State

LEMMA SetMethod ==
  ASSUME NEW c, StateOK(c), NEW m \in Methods
  PROVE  StateOK([c EXCEPT !.method = m]) /\ [c EXCEPT !.method = m].code = c.code
BY DEF StateOK, State

LEMMA SetArgReg ==
  ASSUME NEW c, StateOK(c), NEW i \in Nat
  PROVE  StateOK([c EXCEPT !.argReg = i]) /\ [c EXCEPT !.argReg = i].code = c.code
BY DEF StateOK, State

-----------------------------------------------------------------------------
(* Each action of the machine preserves the invariant.                     *)

\* A turn that leaves the frames and the fields alone and goes on in the same code.
LEMMA MoveType ==
  ASSUME IInv, NEW ops, Turn(ops), driverVars' = driverVars,
         NEW c, StateOK(c), c.code # NoMethod,
         Fetch(c) \/ \E size \in Int : Advance(c, size),
         UNCHANGED <<frames, methodIdx, clean, told, returned>>,
         instances' \in [Fields -> Values \cup {"none"}], skip' \in BOOLEAN
  PROVE  IInv'
<1>1. StateOK(cur)' /\ PlaceOK' /\ ArgsFit'
  BY TurnType, FetchType, AdvanceType
<1>2. FramesOK'
  BY DEF IInv, FramesOK, StateOK, HasCode
<1>3. RestOK'
  BY TurnType DEF IInv, RestOK
<1>. QED  BY <1>1, <1>2, <1>3, TurnType DEF IInv

\* A turn after which nothing runs any more, in the same code and on the same frames.
LEMMA StopType ==
  ASSUME IInv, NEW ops, Turn(ops), driverVars' = driverVars,
         NEW c, StateOK(c), c.code = cur.code,
         cur' = c, result' \in Results \ {Running},
         UNCHANGED <<frames, at, methodIdx, instances>>,
         skip' \in BOOLEAN, clean' \in BOOLEAN, told' \subseteq Nat, returned' \in BOOLEAN
  PROVE  IInv'
<1>1. StateOK(cur)' /\ PlaceOK' /\ ArgsFit'
  BY TurnType, HaltType
<1>2. FramesOK'
  BY DEF IInv, FramesOK, StateOK, HasCode
<1>3. RestOK'
  BY TurnType DEF IInv, RestOK
<1>. QED  BY <1>1, <1>2, <1>3, TurnType DEF IInv

\* An instruction that writes a register writes a value.
LEMMA OutcomesType ==
  ASSUME IInv, result = Running, ins.op \in DataOps
  PROVE  Outcomes \subseteq Values \cup Failures \cup {"kept"}
<1>1. WellFormed(ins, MethodOf[cur.code].regs)
  BY InsType
<1>2. ins.op = "move" => Operand(1) \in Values
  <2>1. SUFFICES ASSUME ins.op = "move"  PROVE Operand(1) \in Values
    OBVIOUS
  <2>2. ins.args \in Seq(Nat) /\ Len(ins.args) = 1
        /\ \A k \in DOMAIN ins.args : ins.args[k] < MethodOf[cur.code].regs
    BY <1>1, <2>1 DEF WellFormed, Unary
  <2>3. ins.args[1] \in Nat /\ ins.args[1] < MethodOf[cur.code].regs
    BY <2>2
  <2>. QED  BY <1>1, <2>3, RegisterType DEF Operand
<1>3. /\ ins.op = "load" => ins.to \in {"int", "string"}
      /\ ins.op = "new_instance" => ins.to \in {"object", "string"}
      /\ ins.op = "new_array" => ins.to \in {"array", "masked_array"}
  BY <1>1 DEF WellFormed
<1>4. Masked \cup {"int", "empty", "object", "string", "array"} \subseteq Values
  BY DEF Values, References, StringKinds
<1>5. /\ Arithmetic \subseteq Values /\ Remainder \subseteq Values \cup Failures
      /\ Narrow \subseteq Values \cup {"kept"}
  BY <1>4 DEF Arithmetic, Remainder, Narrow, Failures
<1>6. /\ ArrayGet \subseteq Values \cup Failures \cup {"kept"}
      /\ ArrayPut \subseteq Values \cup Failures \cup {"kept"}
      /\ ArrayLength \subseteq Values \cup Failures \cup {"kept"}
  BY <1>4 DEF ArrayGet, ArrayPut, ArrayLength, Failures
<1>7. /\ InstanceGet \subseteq Values \cup Failures \cup {"kept"}
      /\ InstanceGetObject \subseteq Values \cup Failures
      /\ StaticGetInt \subseteq Values \cup Failures
  BY <1>4 DEF InstanceGet, InstanceGetObject, StaticGetInt, Failures
<1>8. /\ ins.op = "new_instance" => NewInstance \subseteq Values \cup Failures
      /\ ins.op = "new_array" => NewArray \subseteq Values \cup Failures \cup {"kept"}
  BY <1>3, <1>4 DEF NewInstance, NewArray, Failures, Masked
<1>. QED  BY <1>2, <1>3, <1>4, <1>5, <1>6, <1>7, <1>8 DEF Outcomes, DataOps, Unary, Binary

LEMMA DataType == ASSUME IInv, driverVars' = driverVars, Data  PROVE IInv'
<1>1. Turn(DataOps) /\ result = Running /\ ins.op \in DataOps
      /\ UNCHANGED <<frames, methodIdx, instances, skip, clean, told, returned>>
  BY TurnType DEF Data
<1>2. PICK v \in Outcomes \ Failures :
        Advance(IF v = "kept" THEN me ELSE [me EXCEPT !.regs[ins.reg] = v], ins.size)
  BY DEF Data
<1> DEFINE c == IF v = "kept" THEN me ELSE [me EXCEPT !.regs[ins.reg] = v]
<1>3. StateOK(me) /\ me.code # NoMethod /\ ins.reg \in Nat /\ ins.size \in Int
  BY <1>1, TurnType DEF WellFormed
<1>4. StateOK(c) /\ c.code # NoMethod
  <2>1. CASE v = "kept"
    BY <1>3, <2>1
  <2>2. CASE v # "kept"
    <3>1. v \in Values
      BY <1>1, <1>2, <2>2, OutcomesType
    <3>. QED  BY <1>3, <2>2, <3>1, SetReg
  <2>. QED  BY <2>1, <2>2
<1>5. Advance(c, ins.size)
  BY <1>2
<1> HIDE DEF c
<1>6. instances' \in [Fields -> Values \cup {"none"}] /\ skip' \in BOOLEAN
  BY <1>1 DEF IInv, RestOK
<1>. QED  BY <1>1, <1>3, <1>4, <1>5, <1>6, MoveType

LEMMA DataFailsType == ASSUME IInv, driverVars' = driverVars, DataFails  PROVE IInv'
<1>1. Turn(DataOps) /\ UNCHANGED <<frames, methodIdx, instances, skip, told, returned>>
  BY DEF DataFails
<1>2. PICK c \in {me, [me EXCEPT !.regs[ins.reg] = "int"]} : Fails(c)
  BY DEF DataFails
<1>3. StateOK(me) /\ me.code = cur.code /\ ins.reg \in Nat /\ "int" \in Values
  BY <1>1, TurnType, ValueNames DEF WellFormed
<1>4. StateOK(c) /\ c.code = cur.code
  <2>1. CASE c = me
    BY <1>3, <2>1
  <2>2. CASE c = [me EXCEPT !.regs[ins.reg] = "int"]
    BY <1>3, <2>2, SetReg
  <2>. QED  BY <1>2, <2>1, <2>2
<1>5. Error \in Results \ {Running}
  BY ResultsDiffer DEF Results
<1>6. skip' \in BOOLEAN /\ clean' \in BOOLEAN /\ told' \subseteq Nat /\ returned' \in BOOLEAN
  BY <1>1, <1>2 DEF IInv, RestOK, Fails
<1>. QED  BY <1>1, <1>2, <1>4, <1>5, <1>6, StopType DEF Fails

LEMMA FilledNewArrayType ==
  ASSUME IInv, driverVars' = driverVars, FilledNewArray  PROVE IInv'
<1> DEFINE c == [me EXCEPT !.ret = "array"]
<1>1. Turn({"filled_new_array"}) /\ Advance(c, ins.size)
      /\ UNCHANGED <<frames, methodIdx, instances, skip, clean, told, returned>>
  BY DEF FilledNewArray
<1>2. StateOK(me) /\ me.code # NoMethod /\ ins.size \in Int /\ "array" \in Values
  BY <1>1, TurnType, ValueNames
<1>3. StateOK(c) /\ c.code # NoMethod
  BY <1>2, SetRet
<1> HIDE DEF c
<1>4. instances' \in [Fields -> Values \cup {"none"}] /\ skip' \in BOOLEAN
  BY <1>1 DEF IInv, RestOK
<1>. QED  BY <1>1, <1>2, <1>3, <1>4, MoveType

LEMMA MoveResultType == ASSUME IInv, driverVars' = driverVars, MoveResult  PROVE IInv'
<1> DEFINE b == [me EXCEPT !.regs[ins.reg] = cur.ret]
           c == [b EXCEPT !.ret = "empty"]
<1>1. Turn({"move_result"}) /\ ins.op = "move_result"
  BY TurnType DEF MoveResult
<1>2. StateOK(me) /\ me.code # NoMethod /\ ins.reg \in Nat /\ ins.size \in Int
  BY <1>1, TurnType DEF WellFormed
<1>3. cur.ret \in Values /\ "empty" \in Values
  BY ValueNames DEF IInv, StateOK, State
<1>4. StateOK(b) /\ b.code # NoMethod
  BY <1>2, <1>3, SetReg
<1> HIDE DEF b
<1>5. StateOK(c) /\ c.code # NoMethod
  BY <1>3, <1>4, SetRet
<1>6. Advance(c, ins.size)
  BY DEF MoveResult, b
<1>7. UNCHANGED <<frames, methodIdx, instances, skip, clean, told, returned>>
  BY DEF MoveResult
<1> HIDE DEF c
<1>8. instances' \in [Fields -> Values \cup {"none"}] /\ skip' \in BOOLEAN
  BY <1>7 DEF IInv, RestOK
<1>. QED  BY <1>1, <1>2, <1>5, <1>6, <1>7, <1>8, MoveType

LEMMA NopType == ASSUME IInv, driverVars' = driverVars, Nop  PROVE IInv'
<1>1. Turn({"nop"}) /\ StateOK(me) /\ me.code # NoMethod /\ ins.size \in Int
  BY TurnType DEF Nop
<1>2. Advance(me, ins.size)
      /\ UNCHANGED <<frames, methodIdx, instances, skip, clean, told, returned>>
  BY DEF Nop
<1>3. instances' \in [Fields -> Values \cup {"none"}] /\ skip' \in BOOLEAN
  BY <1>2 DEF IInv, RestOK
<1>. QED  BY <1>1, <1>2, <1>3, MoveType

\* Both kinds of jump move the program counter by a whole number.
LEMMA JumpType ==
  ASSUME IInv, driverVars' = driverVars, NEW ops, Turn(ops), NEW d \in Int,
         Fetch([me EXCEPT !.pc = @ + d]),
         UNCHANGED <<frames, methodIdx, instances, skip, clean, told, returned>>
  PROVE  IInv'
<1>1. StateOK(me) /\ me.code # NoMethod
  BY TurnType
<1>2. me.pc + d \in Int /\ [me EXCEPT !.pc = @ + d] = [me EXCEPT !.pc = me.pc + d]
  BY <1>1 DEF StateOK, State
<1>3. StateOK([me EXCEPT !.pc = @ + d]) /\ [me EXCEPT !.pc = @ + d].code # NoMethod
  BY <1>1, <1>2, SetPc
<1>4. instances' \in [Fields -> Values \cup {"none"}] /\ skip' \in BOOLEAN
  BY DEF IInv, RestOK
<1>. QED  BY <1>3, <1>4, MoveType

LEMMA GotoIfType == ASSUME IInv, driverVars' = driverVars, Goto \/ If  PROVE IInv'
<1>1. CASE Goto
  <2>1. Turn({"goto"}) /\ Fetch([me EXCEPT !.pc = @ + ins.off])
        /\ UNCHANGED <<frames, methodIdx, instances, skip, clean, told, returned>>
    BY <1>1 DEF Goto
  <2>2. ins.off \in Int
    BY <2>1, TurnType DEF WellFormed
  <2>. QED  BY <2>1, <2>2, JumpType
<1>2. CASE If
  <2>1. PICK d \in {ins.off, ins.size} : Fetch([me EXCEPT !.pc = @ + d])
    BY <1>2 DEF If
  <2>2. Turn({"if", "test"})
        /\ UNCHANGED <<frames, methodIdx, instances, skip, clean, told, returned>>
    BY <1>2 DEF If
  <2>3. d \in Int
    BY <2>2, TurnType DEF WellFormed
  <2>. QED  BY <2>1, <2>2, <2>3, JumpType
<1>. QED  BY <1>1, <1>2

LEMMA SwitchType == ASSUME IInv, driverVars' = driverVars, Switch  PROVE IInv'
<1>1. Turn({"switch"})
      /\ UNCHANGED <<frames, methodIdx, instances, skip, clean, told, returned>>
  BY DEF Switch
<1>2. ins.off \in Int /\ ins.size \in Int /\ StateOK(me) /\ me.code # NoMethod
  BY <1>1, TurnType DEF WellFormed
<1>3. instances' \in [Fields -> Values \cup {"none"}] /\ skip' \in BOOLEAN
  BY <1>1 DEF IInv, RestOK
<1>4. CASE Fetch([me EXCEPT !.pc = @ + ins.off])
  BY <1>1, <1>2, <1>4, JumpType
<1>5. CASE Advance(me, ins.size)
  BY <1>1, <1>2, <1>3, <1>5, MoveType
<1>. QED  BY <1>4, <1>5 DEF Switch

\* Failures that leave the frames alone.
LEMMA FailureType ==
  ASSUME IInv, driverVars' = driverVars, Throw \/ BranchFails \/ InvokeTooDeep \/ PutFails
  PROVE  IInv'
<1>1. PICK ops \in {{"throw"}, {"test", "switch"}, Invokes, {"sput"}} : Turn(ops)
  BY DEF Throw, BranchFails, InvokeTooDeep, PutFails
<1>2. Fails(me) /\ UNCHANGED <<frames, methodIdx, instances, skip, told, returned>>
  BY DEF Throw, BranchFails, InvokeTooDeep, PutFails
<1>3. skip' \in BOOLEAN /\ clean' \in BOOLEAN /\ told' \subseteq Nat /\ returned' \in BOOLEAN
  BY <1>2 DEF IInv, RestOK, Fails
<1>4. Error \in Results \ {Running}
  BY ResultsDiffer DEF Results
<1>. QED  BY <1>1, <1>2, <1>3, <1>4, TurnType, StopType DEF Fails

LEMMA TooManyStepsType == ASSUME IInv, driverVars' = driverVars, TooManySteps  PROVE IInv'
<1>1. Fails(cur) /\ UNCHANGED <<prog, frames, methodIdx, steps, instances, skip, breaks,
                                told, returned>>
  BY DEF TooManySteps
<1>2. Error \in Results \ {Running}
  BY ResultsDiffer DEF Results
<1>3. StateOK(cur)' /\ PlaceOK' /\ ArgsFit'
  BY <1>1, <1>2, HaltType DEF Fails, IInv
<1>4. FramesOK'
  BY <1>1 DEF IInv, FramesOK, StateOK, HasCode
<1>5. RestOK' /\ DriverTypeOK' /\ prog' \in Programs
  BY <1>1 DEF IInv, RestOK, Fails, DriverTypeOK, driverVars
<1>. QED  BY <1>3, <1>4, <1>5 DEF IInv

-----------------------------------------------------------------------------
(* Returning.                                                              *)

\* A turn that resumes a frame, whose result may have been set.
LEMMA ResumingType ==
  ASSUME IInv, driverVars' = driverVars, NEW ops, Turn(ops), frames # <<>>,
         NEW c, StateOK(c), c.code # NoMethod, Resume(c),
         UNCHANGED <<methodIdx, instances, clean, told>>, skip' \in BOOLEAN
  PROVE  IInv'
<1>1. StateOK(cur)' /\ PlaceOK' /\ ArgsFit' /\ FramesOK' /\ returned' = TRUE
  BY TurnType, ResumeType
<1>2. RestOK'
  BY <1>1, TurnType DEF IInv, RestOK
<1>. QED  BY <1>1, <1>2, TurnType DEF IInv

LEMMA FinishType ==
  ASSUME IInv, driverVars' = driverVars, NEW ops, Turn(ops),
         NEW c, StateOK(c), c.code = cur.code, Finish(c),
         UNCHANGED <<methodIdx, instances, clean, told>>, skip' \in BOOLEAN
  PROVE  IInv'
<1>1. StateOK([c EXCEPT !.mode = "finished"])
      /\ [c EXCEPT !.mode = "finished"].code = cur.code
  BY SetMode DEF Modes
<1>2. Ok \in Results \ {Running}
  BY ResultsDiffer DEF Results
<1>3. clean' \in BOOLEAN /\ told' \subseteq Nat /\ returned' \in BOOLEAN
  BY DEF Finish, IInv, RestOK
<1>. QED  BY <1>1, <1>2, <1>3, StopType DEF Finish

LEMMA ReturnVoidType == ASSUME IInv, driverVars' = driverVars, ReturnVoid  PROVE IInv'
<1>1. Turn({"return_void"}) /\ UNCHANGED <<methodIdx, instances, skip, clean, told>>
  BY DEF ReturnVoid
<1>2. skip' \in BOOLEAN
  BY <1>1 DEF IInv, RestOK
<1>3. CASE frames # <<>>
  BY <1>1, <1>2, <1>3, PopType, ResumingType DEF ReturnVoid
<1>4. CASE frames = <<>>
  BY <1>1, <1>2, <1>4, TurnType, FinishType DEF ReturnVoid
<1>. QED  BY <1>3, <1>4

LEMMA ReturnType == ASSUME IInv, driverVars' = driverVars, Return  PROVE IInv'
<1> DEFINE v == cur.regs[ins.reg]
<1>1. Turn({"return"}) /\ UNCHANGED <<methodIdx, instances, clean, told>> /\ skip' \in BOOLEAN
  BY DEF Return
<1>2. ins.reg \in Nat /\ ins.reg < MethodOf[cur.code].regs
  BY <1>1, TurnType DEF WellFormed
<1>3. v \in Values
  BY <1>1, <1>2, TurnType, RegisterType
<1> HIDE DEF v
<1>4. CASE frames # <<>>
  <2>1. StateOK([Last(frames) EXCEPT !.ret = v])
        /\ [Last(frames) EXCEPT !.ret = v].code # NoMethod
    BY <1>3, <1>4, PopType, SetRet
  <2>2. Resume([Last(frames) EXCEPT !.ret = v])
    BY <1>4 DEF Return, v
  <2>. QED  BY <1>1, <1>4, <2>1, <2>2, ResumingType
<1>5. CASE frames = <<>>
  <2>1. StateOK([me EXCEPT !.ret = v]) /\ [me EXCEPT !.ret = v].code = cur.code
    BY <1>1, <1>3, TurnType, SetRet
  <2>2. Finish([me EXCEPT !.ret = v])
    BY <1>5 DEF Return, v
  <2>. QED  BY <1>1, <2>1, <2>2, FinishType
<1>. QED  BY <1>4, <1>5

\* A stop is one of the results.
LEMMA BreakpointType ==
  ASSUME NEW pc \in Int, NEW m \in Codes, NEW of \in {"argument", "return", "field"},
         NEW context \in Nat
  PROVE  Breakpoint(pc, m, of, context) \in Results \ {Running}
<1>1. Breakpoint(pc, m, of, context) \in Results
  BY DEF Breakpoint, Results, Codes
<1>2. Breakpoint(pc, m, of, context) # Running
  BY DEF Breakpoint, Running
<1>. QED  BY <1>1, <1>2

\* Stops at a return and at a static field.
LEMMA RegisterStopType ==
  ASSUME IInv, driverVars' = driverVars, ReturnStops \/ PutStops  PROVE IInv'
<1>1. PICK of \in {"return", "field"} : result' = Breakpoint(cur.pc, cur.method, of, ins.reg)
  BY DEF ReturnStops, PutStops
<1>2. PICK ops \in {{"return"}, {"sput"}} : Turn(ops)
  BY DEF ReturnStops, PutStops
<1>3. cur' = me /\ UNCHANGED <<frames, at, methodIdx, instances, skip, clean, told, returned>>
  BY DEF ReturnStops, PutStops
<1>4. ins.reg \in Nat
  BY <1>2, TurnType DEF WellFormed
<1>5. cur.pc \in Int /\ cur.method \in Codes
  BY DEF IInv, StateOK, State, Codes
<1>6. result' \in Results \ {Running}
  BY <1>1, <1>4, <1>5, BreakpointType
<1>7. skip' \in BOOLEAN /\ clean' \in BOOLEAN /\ told' \subseteq Nat /\ returned' \in BOOLEAN
  BY <1>3 DEF IInv, RestOK
<1>. QED  BY <1>2, <1>3, <1>6, <1>7, TurnType, StopType

-----------------------------------------------------------------------------
(* Invokes.                                                                *)

LEMMA PassingType ==
  ASSUME IInv, NEW ops, Turn(ops), driverVars' = driverVars
  PROVE  StateOK(Passing) /\ Passing.code = cur.code /\ Passing.code # NoMethod
BY TurnType, SetArgReg DEF Passing

LEMMA InvokeStopsType == ASSUME IInv, driverVars' = driverVars, InvokeStops  PROVE IInv'
<1>1. Turn(Invokes) /\ skip' = FALSE
      /\ UNCHANGED <<frames, at, methodIdx, instances, clean, returned>>
  BY DEF InvokeStops
<1>2. PICK i \in Stops :
        /\ cur' = [me EXCEPT !.mode = "paused", !.argReg = i]
        /\ result' = Breakpoint(cur.pc,
                                IF ins.op = "invoke_static" THEN methodIdx ELSE cur.method,
                                "argument", i)
        /\ told' = told \cup {i}
  BY DEF InvokeStops
<1>3. i \in Nat
  BY <1>1, TurnType, ArgumentType DEF Stops, Unseen
<1> DEFINE b == [me EXCEPT !.mode = "paused"]
           c == [b EXCEPT !.argReg = i]
<1>4. StateOK(b) /\ b.code = cur.code
  BY <1>1, TurnType, SetMode DEF Modes
<1> HIDE DEF b
<1>5. StateOK(c) /\ c.code = cur.code
  BY <1>3, <1>4, SetArgReg
<1>6. cur' = c
  BY <1>2 DEF b
<1> HIDE DEF c
<1>7. cur.pc \in Int /\ cur.method \in Codes /\ methodIdx \in Codes
  BY DEF IInv, StateOK, State, Codes, RestOK
<1>8. result' \in Results \ {Running}
  BY <1>2, <1>3, <1>7, BreakpointType
<1>9. skip' \in BOOLEAN /\ clean' \in BOOLEAN /\ told' \subseteq Nat /\ returned' \in BOOLEAN
  BY <1>1, <1>2, <1>3 DEF IInv, RestOK
<1>. QED  BY <1>1, <1>5, <1>6, <1>8, <1>9, StopType

LEMMA SkipLeftType == IInv => SkipLeft \in BOOLEAN
BY DEF SkipLeft

\* What a library method leaves as its result is a value.
LEMMA ProvidedType ==
  ASSUME IInv, Turn(Invokes)
  PROVE  \A o \in Provided : o.ret \in Values
<1> DEFINE a == [k \in 1 .. Len(ins.args) |-> Argument(k - 1)]
<1>1. result = Running /\ ins.op \in Invokes
  BY DEF Turn
<1>2. \A k \in DOMAIN a : a[k] \in Values
  <2>1. TAKE k \in DOMAIN a
  <2>2. Len(ins.args) \in Nat /\ k \in 1 .. Len(ins.args) /\ k - 1 \in Positions
    BY <1>1, ArgumentType DEF Positions
  <2>. QED  BY <1>1, <2>2, ArgumentType
<1>3. cur.ret \in Values
  BY DEF IInv, StateOK, State
<1> HIDE DEF a
<1>4. Sound(LibraryOutcomes(prog.library[ins.to].class, prog.library[ins.to].name, a, cur.ret))
  BY <1>2, <1>3, LibraryType
<1>. QED  BY <1>4 DEF Provided, Sound, a

\* An invoke that fails leaves the frame and the callee behind, and a library method
\* its result as well.
LEMMA InvokeFailsType ==
  ASSUME IInv, driverVars' = driverVars, InvokeFails \/ BuiltinFails  PROVE IInv'
<1>1. Turn(Invokes) /\ skip' = SkipLeft /\ told' = {} /\ UNCHANGED <<instances, returned>>
      /\ frames' = Append(frames, Passing) /\ methodIdx' = ins.to
  BY DEF InvokeFails, BuiltinFails, Pass
<1>2. ins.to \in Methods
  BY <1>1, TurnType DEF WellFormed
<1> DEFINE b == [Passing EXCEPT !.method = ins.to]
<1>3. StateOK(b) /\ b.code = cur.code
  BY <1>1, <1>2, PassingType, SetMethod
<1>4. PICK c : Fails(c) /\ StateOK(c) /\ c.code = cur.code
  <2>1. CASE InvokeFails
    BY <1>3, <2>1 DEF InvokeFails
  <2>2. CASE BuiltinFails
    <3>1. PICK o \in Provided : Fails([Passing EXCEPT !.method = ins.to, !.ret = o.ret])
      BY <2>2 DEF BuiltinFails
    <3>2. o.ret \in Values
      BY <1>1, ProvidedType
    <3> HIDE DEF b
    <3>3. StateOK([b EXCEPT !.ret = o.ret]) /\ [b EXCEPT !.ret = o.ret].code = cur.code
      BY <1>3, <3>2, SetRet
    <3>. QED  BY <3>1, <3>3 DEF b
  <2>. QED  BY <2>1, <2>2
<1>5. Error \in Results \ {Running}
  BY ResultsDiffer DEF Results
<1>6. StateOK(cur)' /\ PlaceOK' /\ ArgsFit'
  BY <1>1, <1>4, <1>5, TurnType, HaltType DEF Fails
<1>7. FramesOK'
  BY <1>1, PassingType, PushType
<1>8. RestOK'
  BY <1>1, <1>2, <1>4, TurnType, SkipLeftType DEF IInv, RestOK, Fails, Codes
<1>. QED  BY <1>1, <1>6, <1>7, <1>8, TurnType DEF IInv

LEMMA InvokeBuiltinType ==
  ASSUME IInv, driverVars' = driverVars, InvokeBuiltin  PROVE IInv'
<1>1. Turn(Invokes) /\ skip' = SkipLeft /\ told' = {} /\ methodIdx' = cur.method
      /\ UNCHANGED <<instances, returned, frames, clean>>
  BY DEF InvokeBuiltin, Pass
<1>2. PICK o \in Provided : Advance([Passing EXCEPT !.ret = o.ret], ins.size)
  BY DEF InvokeBuiltin
<1>3. o.ret \in Values
  BY <1>1, ProvidedType
<1>4. StateOK([Passing EXCEPT !.ret = o.ret]) /\ [Passing EXCEPT !.ret = o.ret].code # NoMethod
  BY <1>1, <1>3, PassingType, SetRet
<1>5. StateOK(cur)' /\ PlaceOK' /\ ArgsFit'
  BY <1>1, <1>2, <1>4, TurnType, AdvanceType
<1>6. FramesOK'
  BY <1>1 DEF IInv, FramesOK, StateOK, HasCode
<1>7. cur.method \in Codes
  BY DEF IInv, StateOK, State, Codes
<1>8. RestOK'
  BY <1>1, <1>7, TurnType, SkipLeftType DEF IInv, RestOK
<1>. QED  BY <1>1, <1>5, <1>6, <1>8, TurnType DEF IInv

\* The callee's registers hold the arguments, which are values.
LEMMA InvokeCodeType == ASSUME IInv, driverVars' = driverVars, InvokeCode  PROVE IInv'
<1> DEFINE arguments == [i \in 1 .. Len(ins.args) |-> Argument(i - 1)]
           regs == Registers(ins.to, arguments)
           c == [Passing EXCEPT !.pc = 0, !.code = ins.to, !.method = ins.to,
                   !.ret = "empty", !.regs = regs]
<1>1. Turn(Invokes) /\ skip' = SkipLeft /\ told' = {}
      /\ UNCHANGED <<instances, returned, clean>>
  BY DEF InvokeCode, Pass
<1>2. frames' = Append(frames, Passing) /\ Fetch(c) /\ methodIdx' = ins.to /\ HasCode(ins.to)
  BY DEF InvokeCode
<1>3. ins.to \in Methods
  BY <1>1, TurnType DEF WellFormed
<1>4. \A k \in DOMAIN arguments : arguments[k] \in Values
  BY <1>1, TurnType, ArgumentType DEF Positions
<1>5. regs \in RegsOf(ins.to)
  BY <1>3, <1>4, RegistersType
<1> HIDE DEF regs, arguments
<1>6. Passing \in State
  BY <1>1, PassingType DEF StateOK
<1>7. StateOK(c) /\ c.code # NoMethod
  BY <1>2, <1>3, <1>5, <1>6, EnterType, MethodsAssumption DEF State
<1> HIDE DEF c
<1>9. StateOK(cur)' /\ PlaceOK' /\ ArgsFit'
  BY <1>1, <1>2, <1>7, TurnType, FetchType
<1>10. FramesOK'
  BY <1>1, <1>2, PassingType, PushType
<1>11. RestOK'
  BY <1>1, <1>2, <1>3, TurnType, SkipLeftType DEF IInv, RestOK, Codes
<1>. QED  BY <1>1, <1>9, <1>10, <1>11, TurnType DEF IInv

-----------------------------------------------------------------------------
(* Static fields.                                                          *)

LEMMA FieldsType ==
  ASSUME IInv, NEW f \in Fields
  PROVE  /\ WithConstant(f) \in [Fields -> Values \cup {"none"}]
         /\ Delivered(f) \in [Fields -> Values \cup {"none"}]
BY ValueNames DEF IInv, RestOK, WithConstant, Delivered

LEMMA RunInitializerType ==
  ASSUME IInv, driverVars' = driverVars, RunInitializer  PROVE IInv'
<1> DEFINE init == FieldOf[ins.to].clinit
           b == [me EXCEPT !.mode = "running_init"]
           regs == [r \in 0 .. MethodOf[init].regs - 1 |-> "empty"]
           c == [me EXCEPT !.pc = 0, !.code = init, !.method = init, !.mode = "static_init",
                   !.regs = regs]
<1>1. Turn({"sget"}) /\ ins.op = "sget" /\ UNCHANGED <<skip, clean, told, returned>>
  BY TurnType DEF RunInitializer
<1>2. ins.to \in Fields
  BY <1>1, TurnType DEF WellFormed
<1>3. init # NoMethod
  BY DEF RunInitializer, NeedsInitializer
<1>4. init \in Methods /\ HasCode(init)
  BY <1>2, <1>3, MethodsAssumption DEF HasCode
<1>5. frames' = Append(frames, b) /\ instances' = WithConstant(ins.to) /\ Fetch(c)
      /\ methodIdx' = init
  BY DEF RunInitializer
<1> HIDE DEF init
<1>6. regs \in RegsOf(init)
  BY <1>3, <1>4, MethodsAssumption, ValueNames DEF RegsOf
<1> HIDE DEF regs
<1>7. StateOK(b) /\ b.code # NoMethod
  BY <1>1, TurnType, SetMode DEF Modes
<1> HIDE DEF b
<1>8. me \in State
  BY <1>1, TurnType DEF StateOK
<1>10. StateOK(c) /\ c.code # NoMethod
  BY <1>3, <1>4, <1>6, <1>8, EnterType DEF State
<1> HIDE DEF c
<1>11. StateOK(cur)' /\ PlaceOK' /\ ArgsFit'
  BY <1>1, <1>5, <1>10, TurnType, FetchType
<1>12. FramesOK'
  BY <1>5, <1>7, PushType
<1>13. RestOK'
  BY <1>1, <1>2, <1>4, <1>5, TurnType, FieldsType DEF IInv, RestOK, Codes
<1>. QED  BY <1>1, <1>11, <1>12, <1>13, TurnType DEF IInv

LEMMA StaticGetType == ASSUME IInv, driverVars' = driverVars, StaticGet  PROVE IInv'
<1> DEFINE i == Delivered(ins.to)
           b == [me EXCEPT !.mode = AfterInit]
           c == [b EXCEPT !.regs[ins.reg] = i[ins.to]]
<1>1. Turn({"sget"}) /\ ins.op = "sget" /\ instances' = i
      /\ UNCHANGED <<frames, methodIdx, skip, told, returned>>
  BY TurnType DEF StaticGet
<1>2. ins.to \in Fields /\ ins.reg \in Nat /\ ins.size \in Int
  BY <1>1, TurnType DEF WellFormed
<1>3. i \in [Fields -> Values \cup {"none"}]
  BY <1>2, FieldsType
<1>4. skip' \in BOOLEAN /\ returned' \in BOOLEAN /\ told' \subseteq Nat
  BY <1>1 DEF IInv, RestOK
<1>5. AfterInit \in Modes
  BY DEF AfterInit, IInv, StateOK, State, Modes
<1>6. StateOK(b) /\ b.code = cur.code /\ b.code # NoMethod
  BY <1>1, <1>5, TurnType, SetMode
<1>7. CASE i[ins.to] # "none"
  <2>1. i[ins.to] \in Values
    BY <1>2, <1>3, <1>7
  <2>2. Advance(c, ins.size) /\ clean' = clean
    BY <1>7 DEF StaticGet
  <2> HIDE DEF i, b
  <2>3. StateOK(c) /\ c.code # NoMethod
    BY <1>2, <1>6, <2>1, SetReg
  <2> HIDE DEF c
  <2>. QED  BY <1>1, <1>2, <1>3, <1>4, <2>2, <2>3, MoveType
<1>8. CASE i[ins.to] = "none"
  <2>1. Fails(b)
    BY <1>8 DEF StaticGet
  <2> HIDE DEF i, b
  <2>2. Error \in Results \ {Running}
    BY ResultsDiffer DEF Results
  <2>3. StateOK(cur)' /\ PlaceOK' /\ ArgsFit'
    BY <1>1, <1>6, <2>1, <2>2, TurnType, HaltType DEF Fails
  <2>4. FramesOK'
    BY <1>1 DEF IInv, FramesOK, StateOK, HasCode
  <2>5. RestOK'
    BY <1>1, <1>3, <1>4, <2>1, TurnType DEF IInv, RestOK, Fails
  <2>. QED  BY <1>1, <2>3, <2>4, <2>5, TurnType DEF IInv
<1>. QED  BY <1>7, <1>8

LEMMA StaticPutType == ASSUME IInv, driverVars' = driverVars, StaticPut  PROVE IInv'
<1> DEFINE v == cur.regs[ins.reg]
<1>1. Turn({"sput"}) /\ ins.op = "sput" /\ Advance(me, ins.size) /\ skip' = FALSE
      /\ UNCHANGED <<frames, methodIdx, clean, told, returned>>
      /\ instances' = [instances EXCEPT ![ins.to] = OnHeap(v)]
  BY TurnType DEF StaticPut
<1>2. ins.reg \in Nat /\ ins.reg < MethodOf[cur.code].regs
  BY <1>1, TurnType DEF WellFormed
<1>3. v \in Values
  BY <1>1, <1>2, TurnType, RegisterType
<1> HIDE DEF v
<1>4. instances' \in [Fields -> Values \cup {"none"}] /\ skip' \in BOOLEAN
  BY <1>1, <1>3, HeapType DEF IInv, RestOK
<1>. QED  BY <1>1, <1>4, TurnType, MoveType

LEMMA StaticPutIntType == ASSUME IInv, driverVars' = driverVars, StaticPutInt  PROVE IInv'
<1>1. Turn({"sput_int"}) /\ Advance(me, ins.size)
      /\ UNCHANGED <<frames, methodIdx, skip, clean, told, returned>>
  BY DEF StaticPutInt
<1>2. instances' \in [Fields -> Values \cup {"none"}] /\ skip' \in BOOLEAN
  BY ValueNames DEF StaticPutInt, IInv, RestOK
<1>. QED  BY <1>1, <1>2, TurnType, MoveType

-----------------------------------------------------------------------------
(* The machine and the driver.                                             *)

LEMMA StepType == ASSUME IInv, driverVars' = driverVars, Step  PROVE IInv'
BY TooManyStepsType, DataType, DataFailsType, MoveResultType, FilledNewArrayType, NopType,
   GotoIfType, SwitchType, FailureType, StaticPutIntType,
   ReturnVoidType, RegisterStopType, ReturnType, InvokeStopsType, InvokeCodeType,
   InvokeFailsType, InvokeBuiltinType, RunInitializerType, StaticGetType, StaticPutType
   DEF Step

\* start(), with which a discovery begins.  If the number of arguments is wrong, no
\* code has been loaded, so the empty registers fit.
LEMMA DiscoverType ==
  ASSUME IInv, NEW set, set \subseteq UseBreaks \cup Fields, Discover(set),
         phase' \in {"first", "second"}
  PROVE  IInv'
<1> DEFINE m == prog.entry
           c == [cur EXCEPT !.pc = 0, !.ret = "empty", !.regs = NoRegs, !.method = m]
<1>1. /\ breaks' = set /\ frames' = <<>> /\ told' = {} /\ errors' = 0
      /\ UNCHANGED <<prog, instances, skip>>
      /\ clean' = (clean /\ Len(prog.args) = MethodOf[m].ins)
  BY DEF Discover, Start
<1>2. m \in Methods /\ HasCode(m) /\ m # NoMethod /\ prog.args \in Seq(Values)
  BY ProgramsAssumption, MethodsAssumption DEF IInv, HasCode
<1>3. cur \in State /\ cur.code \in Codes
  BY DEF IInv, StateOK, State, Codes
<1>4. FramesOK' /\ DriverTypeOK' /\ prog' \in Programs
  BY <1>1, DriverAssumption DEF FramesOK, DriverTypeOK, IInv
<1>5. /\ instances' \in [Fields -> Values \cup {"none"}] /\ skip' \in BOOLEAN
      /\ breaks' \subseteq UseBreaks \cup Fields /\ clean' \in BOOLEAN /\ told' \subseteq Nat
  BY <1>1 DEF IInv, RestOK
<1>6. CASE Len(prog.args) # MethodOf[m].ins
  <2>1. cur' = c /\ result' = Error /\ UNCHANGED <<at, methodIdx, steps, returned>>
    BY <1>6 DEF Discover, Start
  <2>2. cur.code = NoMethod
    BY <1>6 DEF IInv, ArgsFit
  <2>3. NoRegs \in RegsOf(NoMethod)
    BY DEF RegsOf
  <2>4. NoRegs \in UNION {RegsOf(k) : k \in Methods \cup {NoMethod}}
    BY <2>3
  <2>5. StateOK(c) /\ c.code = NoMethod
    <3>1. [cur EXCEPT !.pc = 0] \in State /\ [cur EXCEPT !.pc = 0].code = NoMethod
      BY <1>3, <2>2 DEF State
    <3> DEFINE d == [cur EXCEPT !.pc = 0]
    <3>2. [d EXCEPT !.ret = "empty"] \in State /\ [d EXCEPT !.ret = "empty"].code = NoMethod
      BY <3>1, ValueNames DEF State
    <3> DEFINE e == [d EXCEPT !.ret = "empty"]
    <3>3. c = [[e EXCEPT !.regs = NoRegs] EXCEPT !.method = m]
      OBVIOUS
    <3> HIDE DEF c, d, e
    <3>4. /\ [e EXCEPT !.regs = NoRegs] \in State /\ [e EXCEPT !.regs = NoRegs].code = NoMethod
          /\ [e EXCEPT !.regs = NoRegs].regs = NoRegs
      BY <2>4, <3>2 DEF State, d, e
    <3>5. StateOK([e EXCEPT !.regs = NoRegs])
      BY <2>3, <3>4 DEF StateOK
    <3>. QED  BY <1>2, <3>3, <3>4, <3>5, SetMethod
  <2> HIDE DEF c
  <2>6. StateOK(cur)' /\ PlaceOK' /\ ArgsFit'
    BY <1>1, <2>1, <2>5, HaltType, ResultsDiffer DEF Results
  <2>7. RestOK'
    BY <1>5, <2>1 DEF IInv, RestOK
  <2>. QED  BY <1>4, <2>6, <2>7 DEF IInv
<1>7. CASE Len(prog.args) = MethodOf[m].ins
  <2> DEFINE regs == Registers(m, prog.args)
             d == [c EXCEPT !.regs = regs, !.code = m]
  <2>1. Execute(d, 0)
    BY <1>7 DEF Discover, Start
  <2>2. regs \in RegsOf(m)
    BY <1>2, RegistersType
  <2> HIDE DEF regs
  <2>3. d = [[cur EXCEPT !.pc = 0, !.code = m, !.method = m] EXCEPT !.ret = "empty", !.regs = regs]
    BY <1>3 DEF State
  <2> HIDE DEF c, d
  <2>4. StateOK(d)
    <3>1. StateOK([[cur EXCEPT !.pc = 0, !.code = m, !.method = m]
                     EXCEPT !.ret = "empty", !.regs = regs])
      BY <1>2, <1>3, <2>2, EnterType
    <3>. QED  BY <2>3, <3>1
  <2>5. /\ StateOK(cur)' /\ PlaceOK' /\ ArgsFit'
        /\ steps' \in 0 .. MaxSteps /\ methodIdx' \in Codes /\ returned' \in BOOLEAN
    BY <1>1, <1>7, <2>1, <2>4, ExecuteType
  <2>6. RestOK'
    BY <1>5, <2>5 DEF RestOK
  <2>. QED  BY <1>4, <2>5, <2>6 DEF IInv
<1>. QED  BY <1>6, <1>7

\* Continuing after a stop or a failure: the same state, anywhere in its code.
LEMMA ContinueType ==
  ASSUME IInv, NEW addr, ContinueExecution(addr), clean' = clean, DriverTypeOK'
  PROVE  IInv'
<1>1. UNCHANGED <<prog, frames, instances, breaks, told>> /\ skip' = TRUE /\ Execute(cur, addr)
  BY DEF ContinueExecution
<1>2. /\ StateOK(cur)' /\ PlaceOK' /\ ArgsFit'
      /\ steps' \in 0 .. MaxSteps /\ methodIdx' \in Codes /\ returned' \in BOOLEAN
  BY <1>1, ExecuteType DEF IInv, ArgsFit
<1>3. FramesOK'
  BY <1>1 DEF IInv, FramesOK, StateOK, HasCode
<1>4. RestOK'
  BY <1>1, <1>2 DEF IInv, RestOK
<1>. QED  BY <1>1, <1>2, <1>3, <1>4 DEF IInv

LEMMA DriverType ==
  ASSUME IInv, First \/ Second \/ NextMethod \/ OnBreakpoint \/ OnError \/ DiscoveryEnd
  PROVE  IInv'
<1>1. CASE First
  <2>1. breaks \subseteq UseBreaks \cup Fields
    BY DEF IInv, RestOK
  <2>. QED  BY <1>1, <2>1, DiscoverType DEF First
<1>2. CASE Second
  <2>1. breaks \cup OwnFields \subseteq UseBreaks \cup Fields
    BY DriverAssumption DEF IInv, RestOK
  <2>. QED  BY <1>2, <2>1, DiscoverType DEF Second
<1>3. CASE NextMethod \/ DiscoveryEnd
  <2>1. UNCHANGED vmVars /\ UNCHANGED errors
    BY <1>3 DEF NextMethod, DiscoveryEnd
  <2>2. phase' \in {"between", "done"}
    BY <1>3 DEF NextMethod, DiscoveryEnd
  <2>3. DriverTypeOK'
    BY <2>1, <2>2 DEF IInv, DriverTypeOK
  <2>4. StateOK(cur)' /\ FramesOK' /\ PlaceOK' /\ RestOK' /\ ArgsFit' /\ prog' \in Programs
    BY <2>1 DEF vmVars, IInv, StateOK, HasCode, FramesOK, PlaceOK, RestOK, ArgsFit, Loaded, Code
  <2>. QED  BY <2>3, <2>4 DEF IInv
<1>4. CASE OnBreakpoint
  <2>1. ContinueExecution(result.pc) /\ UNCHANGED <<clean, phase, errors>>
    BY <1>4 DEF OnBreakpoint
  <2>2. DriverTypeOK'
    BY <2>1 DEF IInv, DriverTypeOK
  <2>. QED  BY <2>1, <2>2, ContinueType
<1>5. CASE OnError
  <2>1. ContinueExecution(cur.pc + cur.size) /\ UNCHANGED <<clean, phase>>
        /\ errors' = errors + 1 /\ ~(errors > MaxErrors)
    BY <1>5 DEF OnError, GaveUp
  <2>2. DriverTypeOK'
    BY <2>1, DriverAssumption DEF IInv, DriverTypeOK
  <2>. QED  BY <2>1, <2>2, ContinueType
<1>. QED  BY <1>1, <1>2, <1>3, <1>4, <1>5

-----------------------------------------------------------------------------
(* The theorems.                                                           *)

LEMMA InitType == Init => IInv
<1> SUFFICES ASSUME Init  PROVE IInv
  OBVIOUS
<1>1. NewMachine(UseBreaks) /\ prog \in Programs /\ phase = "new" /\ errors = 0
  BY DEF Init
<1>2. StateOK(cur) /\ cur.code = NoMethod
  <2>1. NoRegs \in RegsOf(NoMethod)
    BY DEF RegsOf
  <2>2. NoRegs \in UNION {RegsOf(k) : k \in Methods \cup {NoMethod}}
    BY <2>1
  <2>3. cur = [pc |-> 0, code |-> NoMethod, method |-> NoMethod, regs |-> NoRegs,
               ret |-> "empty", mode |-> "stopped", argReg |-> 0, size |-> 0]
    BY <1>1 DEF NewMachine, Frame
  <2>4. cur \in State
    BY <2>2, <2>3, ValueNames DEF State, Modes
  <2>. QED  BY <2>1, <2>3, <2>4 DEF StateOK
<1>3. FramesOK
  BY <1>1 DEF NewMachine, FramesOK
<1>4. PlaceOK
  BY <1>1, ResultsDiffer DEF NewMachine, PlaceOK, Results
<1>5. RestOK
  <2>1. methodIdx \in Codes /\ instances \in [Fields -> Values \cup {"none"}]
    BY <1>1 DEF NewMachine, Codes
  <2>2. steps \in 0 .. MaxSteps
    BY <1>1, BoundsAssumption DEF NewMachine
  <2>3. /\ skip \in BOOLEAN /\ clean \in BOOLEAN /\ returned \in BOOLEAN
        /\ breaks \subseteq UseBreaks \cup Fields /\ told \subseteq Nat
    BY <1>1 DEF NewMachine
  <2>. QED  BY <2>1, <2>2, <2>3 DEF RestOK
<1>6. DriverTypeOK
  BY <1>1, DriverAssumption DEF DriverTypeOK
<1>. QED  BY <1>1, <1>2, <1>3, <1>4, <1>5, <1>6 DEF IInv, ArgsFit

LEMMA NextType == IInv /\ [Next]_vars => IInv'
<1> SUFFICES ASSUME IInv, [Next]_vars  PROVE IInv'
  OBVIOUS
<1>1. CASE Emulate
  BY <1>1, StepType DEF Emulate
<1>2. CASE First \/ Second \/ NextMethod \/ OnBreakpoint \/ OnError \/ DiscoveryEnd
  BY <1>2, DriverType
<1>3. CASE UNCHANGED vars
  BY <1>3 DEF vars, vmVars, driverVars, IInv, StateOK, HasCode, FramesOK, PlaceOK, RestOK,
              ArgsFit, Loaded, Code, DriverTypeOK
<1>. QED  BY <1>1, <1>2, <1>3 DEF Next

LEMMA InvCorrect == Spec => []IInv
BY InitType, NextType, PTL DEF Spec

\* Every variable keeps its type in every discovery: whatever the program, after any
\* number of stops and failures, execute() never looks for an instruction outside the
\* code that is loaded, nor for a register outside those of its method.
THEOREM TypeCorrect == Spec => []TypeOK
BY InvCorrect, InvImpliesType, PTL
=============================================================================
