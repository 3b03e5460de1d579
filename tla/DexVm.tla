-------------------------------- MODULE DexVm --------------------------------
(***************************************************************************)
(* The Dex virtual machine of coeus_emulation (vm/mod.rs): one method is   *)
(* interpreted until it returns, fails, or reaches a breakpoint; execute() *)
(* then returns to its client, which may continue.                         *)
(*                                                                         *)
(* One step of the model is one turn of the interpreter's loop.  Control   *)
(* is kept: program counter, frames, execution state, the breakpoint flags *)
(* and every early return.  Data is reduced to what breakpoints tell       *)
(* apart: a register holds a value of one of the kinds in Values, and a    *)
(* result that depends on numbers, on the length of an array or on an      *)
(* instance field is one of those it may be.  An instruction of the model  *)
(* stands for all that act alike: "throw" for whatever returns an error    *)
(* and changes nothing, "nop" for whatever changes neither a register nor  *)
(* the control (writing an instance field is one).  Divisions by zero, on  *)
(* which the code panics, are left out.                                    *)
(*                                                                         *)
(* clean, told and returned are history and guard nothing.                 *)
(***************************************************************************)
EXTENDS RuntimeClasses, Integers, FiniteSets, SequencesExt

CONSTANTS
  Methods, Fields,
  MethodOf,    \* method -> [kind, ins, regs]: kind, incoming registers, all registers
  FieldOf,     \* field -> [data, clinit, platform]: its constant value (or "int" for a
               \* number), the initialiser of its class, a type of the platform
  Programs,    \* programs: [entry, args, static, code, library], code: method -> its
               \* instructions, library: built-in method -> its [class, name]
  MaxSteps,    \* instructions one execute() may run (10000 in the code)
  MaxFrames,   \* frames an invoke may find on the stack (50 in the code)
  MaxDepth     \* bound: frames on which a static initialiser may still be put

VARIABLES
  prog,                    \* the program that is emulated
  cur, frames,             \* current_state and stack_frames
  at, methodIdx, steps,    \* execute()'s current_instruction, method_idx and steps
  instances,               \* static fields that have a value
  skip, breaks,            \* skip_next_breakpoint; the breakpoints set
  result,                  \* what execute() returned; Running while it runs
  clean, told, returned    \* history: no error yet; arguments reported for the
                           \* invoke under way; a return since execute() was called

vmVars == <<prog, cur, frames, at, methodIdx, steps, instances, skip, breaks, result,
            clean, told, returned>>

NoMethod  == "no_method"
UseBreaks == {"array_use", "string_use", "array_return", "string_return"}

Modes       == {"stopped", "paused", "running", "running_init", "static_init", "finished"}
Invokes     == {"invoke_virtual", "invoke_static"}

Ins(op, size, reg, to, args, off) ==
  [op |-> op, size |-> size, reg |-> reg, to |-> to, args |-> args, off |-> off]

\* Instructions that write a register, or leave it as it is, or fail: with one
\* register as operand, with two, with whatever they need.
Unary   == {"move", "array_length", "narrow", "new_array", "iget", "iget_object"}
Binary  == {"aget", "aput"}
DataOps == Unary \cup Binary \cup {"load", "arithmetic", "remainder", "new_instance", "sget_int"}

Opcodes ==
  {"move_result", "filled_new_array", "sget", "sput", "sput_int", "return", "return_void",
   "goto", "if", "test", "switch", "throw", "nop"} \cup DataOps \cup Invokes

\* An instruction a method with this many registers may hold.
WellFormed(i, regs) ==
  /\ i.op \in Opcodes /\ i.size \in 1 .. 3 /\ i.off \in Int /\ i.reg \in Nat
  /\ i.op \in DataOps \cup {"move_result", "sget", "sput", "sput_int", "return"} => i.reg < regs
  /\ i.args \in Seq(Nat) /\ \A k \in DOMAIN i.args : i.args[k] < regs
  /\ i.op \in Unary \cup {"switch"} => Len(i.args) = 1
  /\ i.op \in Binary \cup {"test"} => Len(i.args) = 2
  /\ i.op = "load" => i.to \in {"int", "string"}
  /\ i.op = "new_instance" => i.to \in {"object", "string"}
  /\ i.op = "new_array" => i.to \in {"array", "masked_array"}
  /\ i.op \in Invokes => i.to \in Methods
  /\ i.op \in {"sget", "sput"} => i.to \in Fields /\ FieldOf[i.to].data # "int"
  /\ i.op \in {"sget_int", "sput_int"} => i.to \in Fields /\ FieldOf[i.to].data = "int"

ASSUME BoundsAssumption ==
  MaxSteps \in Nat /\ MaxFrames \in Nat /\ MaxDepth \in Nat

ASSUME MethodsAssumption ==
  /\ NoMethod \notin Methods /\ UseBreaks \cap Fields = {}
  /\ MethodOf \in [Methods -> [kind : {"code", "builtin", "abstract"}, ins : Nat, regs : Nat]]
  /\ FieldOf \in [Fields -> [data : {"string", "int", "none"}, clinit : Methods \cup {NoMethod},
                             platform : BOOLEAN]]
  /\ \A f \in Fields : FieldOf[f].clinit # NoMethod => MethodOf[FieldOf[f].clinit].kind = "code"

ASSUME ProgramsAssumption ==
  \A p \in Programs :
    /\ p.entry \in Methods /\ MethodOf[p.entry].kind = "code"
    /\ p.args \in Seq(Values) /\ p.static \in BOOLEAN
    /\ \A m \in Methods : MethodOf[m].kind = "code" =>
         \A a \in DOMAIN p.code[m] :
           a \in Int /\ WellFormed(p.code[m][a], MethodOf[m].regs)

Code(m)    == prog.code[m]   \* a function from addresses to instructions
HasCode(m) == MethodOf[m].kind = "code"
Blank    == [a \in {} |-> {}]     \* current_instructions of a new machine

\* The instructions loaded, those of the method whose code was entered last.
Loaded(c) == IF c.code = NoMethod THEN Blank ELSE Code(c.code)
ins       == Loaded(cur)[at]
\* current_instruction_size is set as soon as an instruction is begun.
me        == [cur EXCEPT !.size = ins.size]

Running       == [kind |-> "running"]
Ok            == [kind |-> "ok"]
Error         == [kind |-> "error"]
NoInstruction == [kind |-> "no_instruction"]
\* context: the argument (or register) concerned; of: "argument", "return" or "field".
Breakpoint(pc, method, of, context) ==
  [kind |-> "breakpoint", pc |-> pc, method |-> method, of |-> of, context |-> context]

Frame(pc, code, method, regs, ret, mode, argReg, size) ==
  [pc |-> pc, code |-> code, method |-> method, regs |-> regs, ret |-> ret,
   mode |-> mode, argReg |-> argReg, size |-> size]

NoRegs == [r \in {} |-> "empty"]

\* VM::new, and set_breakpoint for the breakpoints given.
NewMachine(set) ==
  /\ cur = Frame(0, NoMethod, NoMethod, NoRegs, "empty", "stopped", 0, 0)
  /\ frames = <<>> /\ at = 0 /\ methodIdx = NoMethod /\ steps = 0
  /\ instances = [f \in Fields |-> "none"]
  /\ skip = FALSE /\ breaks = set
  /\ result = Ok
  /\ clean = TRUE /\ told = {} /\ returned = FALSE

-----------------------------------------------------------------------------
(* Entering and leaving the loop.                                          *)

\* The registers of m called with these arguments: locals are empty, and so are
\* parameters no argument is given for.
Registers(m, arguments) ==
  LET locals == MethodOf[m].regs - MethodOf[m].ins IN
  [r \in 0 .. MethodOf[m].regs - 1 |->
     IF r >= locals /\ r - locals + 1 \in DOMAIN arguments
     THEN arguments[r - locals + 1] ELSE "empty"]

\* execute(): begins with the instruction at addr.  The program counter is not
\* set; it is the client's business that c.pc = addr.
Execute(c, addr) ==
  /\ IF addr \in DOMAIN Loaded(c)
     THEN /\ cur' = [c EXCEPT !.mode = "running"]
          /\ at' = addr /\ methodIdx' = c.method /\ steps' = 0
          /\ result' = Running
     ELSE /\ cur' = c
          /\ result' = NoInstruction
          /\ UNCHANGED <<at, methodIdx, steps>>
  /\ returned' = FALSE

ContinueExecution(addr) ==
  /\ skip' = TRUE
  /\ Execute(cur, addr)
  /\ UNCHANGED <<prog, frames, instances, breaks, told>>

\* start(): with a wrong number of arguments it fails before the code is loaded.
Start(m, arguments) ==
  LET c == [cur EXCEPT !.pc = 0, !.ret = "empty", !.regs = NoRegs, !.method = m] IN
  /\ frames' = <<>>
  /\ told' = {}
  /\ IF Len(arguments) # MethodOf[m].ins
     THEN /\ cur' = c /\ result' = Error
          /\ UNCHANGED <<at, methodIdx, steps, returned>>
     ELSE Execute([c EXCEPT !.regs = Registers(m, arguments), !.code = m], 0)
  /\ clean' = (clean /\ Len(arguments) = MethodOf[m].ins)
  /\ UNCHANGED <<prog, instances, skip>>

\* Faulty variant of Fetch: an address without an instruction is not noticed.
FetchUnchecked(c) == cur' = c /\ at' = c.pc /\ UNCHANGED result

\* The end of a turn: on to the instruction at the program counter of c.
Fetch(c) ==
  /\ cur' = c
  /\ IF c.pc \in DOMAIN Loaded(c)
     THEN at' = c.pc /\ UNCHANGED result
     ELSE result' = NoInstruction /\ UNCHANGED at

\* Faulty variant of Advance: an initialiser returns behind the sget, too.
AdvanceAlways(c, size) == Fetch([c EXCEPT !.pc = @ + size])

\* The program counter moves past the instruction, but not when a static
\* initialiser has just returned: the sget that ran it is executed again.
Advance(c, size) ==
  Fetch(IF c.mode = "running_init" THEN c ELSE [c EXCEPT !.pc = @ + size])

\* A turn at an instruction with one of these opcodes.
Turn(ops) ==
  /\ result = Running
  /\ steps < MaxSteps
  /\ ins.op \in ops
  /\ steps' = steps + 1
  /\ UNCHANGED <<prog, breaks>>

Fails(c) ==
  /\ cur' = c
  /\ result' = Error
  /\ clean' = FALSE
  /\ UNCHANGED at

\* More instructions than one execute() may run: StackOverflow.
TooManySteps ==
  /\ result = Running /\ steps = MaxSteps
  /\ Fails(cur)
  /\ UNCHANGED <<prog, frames, methodIdx, steps, instances, skip, breaks, told, returned>>

-----------------------------------------------------------------------------
(* Instructions that only move data or control.                            *)

\* The k-th operand.
Operand(k)   == cur.regs[ins.args[k]]
AreIntegers  == \A k \in DOMAIN ins.args : Operand(k) = "int"

\* binary_op and binary_op_lit: what is computed from anything but integers is empty.
Arithmetic == IF AreIntegers THEN {"int"} ELSE {"empty"}
Remainder  == IF AreIntegers THEN {"int", "fails"} ELSE {"empty"}
Narrow     == IF Operand(1) = "int" THEN {"int"} ELSE {"kept"}

\* Reading from what is no reference passes unnoticed, writing to it does not.
ArrayGet ==
  IF IsArray(Operand(1)) THEN IF Operand(2) = "int" THEN {"int", "fails"} ELSE {"kept"}
  ELSE IF Operand(1) \in References THEN {"fails"} ELSE {"kept"}

ArrayPut ==
  IF Operand(1) \notin References THEN {"fails"}
  ELSE IF Operand(2) # "int" THEN {"kept"}
  ELSE IF IsArray(Operand(1)) THEN {"kept", "fails"} ELSE {"fails"}

ArrayLength ==
  CASE Operand(1) \notin References -> {"fails"}
    [] IsArray(Operand(1))          -> {"int"}
    [] OTHER                        -> {"kept"}

\* The class may be unknown, the array too large.
NewInstance == {ins.to, "fails"}
NewArray    == IF Operand(1) = "int" THEN {ins.to, "fails"} ELSE {"kept"}

\* A field that was never written reads as zero, and fails all the same.
InstanceGet ==
  CASE Operand(1) \notin References -> {"fails"}
    [] IsArray(Operand(1))          -> {"kept"}
    [] IsText(Operand(1))           -> {"zeroed"}
    [] OTHER                        -> {"int", "fails", "zeroed"}

\* What is read carries the name of the class that holds it.
InstanceGetObject ==
  IF Operand(1) = "object" THEN Masked \cup {"object", "fails"} ELSE {"fails"}

\* A number is there only if it was put before: no initialiser runs, and the constant
\* of the class file is not looked at.
StaticGetInt == IF instances[ins.to] = "int" THEN {"int"} ELSE {"fails"}

\* What an instruction leaves in its register, if it does not fail ("fails", and
\* "zeroed" when it writes first) or leave it alone ("kept").
Outcomes ==
  CASE ins.op = "load"         -> {ins.to}     [] ins.op = "move"         -> {Operand(1)}
    [] ins.op = "arithmetic"   -> Arithmetic   [] ins.op = "remainder"    -> Remainder
    [] ins.op = "narrow"       -> Narrow       [] ins.op = "array_length" -> ArrayLength
    [] ins.op = "aget"         -> ArrayGet     [] ins.op = "aput"         -> ArrayPut
    [] ins.op = "new_instance" -> NewInstance  [] ins.op = "new_array"    -> NewArray
    [] ins.op = "iget"         -> InstanceGet  [] ins.op = "iget_object"  -> InstanceGetObject
    [] ins.op = "sget_int"     -> StaticGetInt

Failures == {"fails", "zeroed"}

Data ==
  /\ Turn(DataOps)
  /\ \E v \in Outcomes \ Failures :
       Advance(IF v = "kept" THEN me ELSE [me EXCEPT !.regs[ins.reg] = v], ins.size)
  /\ UNCHANGED <<frames, methodIdx, instances, skip, clean, told, returned>>

DataFails ==
  /\ Turn(DataOps)
  /\ \E v \in Outcomes \cap Failures :
       Fails(IF v = "fails" THEN me ELSE [me EXCEPT !.regs[ins.reg] = "int"])
  /\ UNCHANGED <<frames, methodIdx, instances, skip, told, returned>>

MoveResult ==
  /\ Turn({"move_result"})
  /\ Advance([me EXCEPT !.regs[ins.reg] = cur.ret, !.ret = "empty"], ins.size)
  /\ UNCHANGED <<frames, methodIdx, instances, skip, clean, told, returned>>

FilledNewArray ==
  /\ Turn({"filled_new_array"})
  /\ Advance([me EXCEPT !.ret = "array"], ins.size)
  /\ UNCHANGED <<frames, methodIdx, instances, skip, clean, told, returned>>

Nop ==
  /\ Turn({"nop"})
  /\ Advance(me, ins.size)
  /\ UNCHANGED <<frames, methodIdx, instances, skip, clean, told, returned>>

\* Jumps leave out the end of the turn, so they move also in an initialiser.
Goto ==
  /\ Turn({"goto"})
  /\ Fetch([me EXCEPT !.pc = @ + ins.off])
  /\ UNCHANGED <<frames, methodIdx, instances, skip, clean, told, returned>>

\* Either way.  A test against zero takes whatever is in its register.
If ==
  /\ Turn({"if", "test"})
  /\ ins.op = "test" => "empty" \notin {Operand(1), Operand(2)}
  /\ \E d \in {ins.off, ins.size} : Fetch([me EXCEPT !.pc = @ + d])
  /\ UNCHANGED <<frames, methodIdx, instances, skip, clean, told, returned>>

\* One of the targets of its table, or on to the next instruction.
Switch ==
  /\ Turn({"switch"})
  /\ Operand(1) = "int"
  /\ Fetch([me EXCEPT !.pc = @ + ins.off]) \/ Advance(me, ins.size)
  /\ UNCHANGED <<frames, methodIdx, instances, skip, clean, told, returned>>

BranchFails ==
  /\ Turn({"test", "switch"})
  /\ IF ins.op = "test" THEN "empty" \in {Operand(1), Operand(2)} ELSE Operand(1) # "int"
  /\ Fails(me)
  /\ UNCHANGED <<frames, methodIdx, instances, skip, told, returned>>

Throw ==
  /\ Turn({"throw"})
  /\ Fails(me)
  /\ UNCHANGED <<frames, methodIdx, instances, skip, told, returned>>

-----------------------------------------------------------------------------
(* Returning.                                                              *)

\* The frame on top is resumed: at the end of this turn, behind its invoke.
Resume(caller) ==
  /\ frames' = Front(frames)
  /\ returned' = TRUE
  /\ IF caller.pc \in DOMAIN Loaded(caller)
     THEN Advance(caller, Loaded(caller)[caller.pc].size)
     ELSE cur' = caller /\ result' = NoInstruction /\ UNCHANGED at

\* A return from the method that was started.
Finish(c) ==
  /\ cur' = [c EXCEPT !.mode = "finished"]
  /\ result' = Ok
  /\ UNCHANGED <<frames, at, returned>>

ReturnVoid ==
  /\ Turn({"return_void"})
  /\ IF frames # <<>> THEN Resume(Last(frames)) ELSE Finish(me)
  /\ UNCHANGED <<methodIdx, instances, skip, clean, told>>

\* By the name of the type: what is masked is returned without a stop.
StopsAtReturn(v) ==
  /\ breaks \cap {"array_return", "string_return"} # {}
  /\ v \in StringKinds \cup {"array"}

ReturnStops ==
  /\ Turn({"return"})
  /\ ~skip /\ StopsAtReturn(cur.regs[ins.reg])
  /\ cur' = me
  /\ result' = Breakpoint(cur.pc, cur.method, "return", ins.reg)
  /\ UNCHANGED <<frames, at, methodIdx, instances, skip, clean, told, returned>>

\* Faulty variant of Return: the skip is not spent on the stop it was meant for.
ReturnKeepsSkip ==
  /\ Turn({"return"})
  /\ skip \/ ~StopsAtReturn(cur.regs[ins.reg])
  /\ LET v == cur.regs[ins.reg] IN
     IF frames # <<>> THEN Resume([Last(frames) EXCEPT !.ret = v])
                      ELSE Finish([me EXCEPT !.ret = v])
  /\ UNCHANGED <<methodIdx, instances, skip, clean, told>>

Return ==
  /\ Turn({"return"})
  /\ skip \/ ~StopsAtReturn(cur.regs[ins.reg])
  /\ skip' = FALSE
  /\ LET v == cur.regs[ins.reg] IN
     IF frames # <<>> THEN Resume([Last(frames) EXCEPT !.ret = v])
                      ELSE Finish([me EXCEPT !.ret = v])
  /\ UNCHANGED <<methodIdx, instances, clean, told>>

-----------------------------------------------------------------------------
(* Invokes.                                                                *)

\* The arguments of the invoke at hand, counted from 0.
Positions   == 0 .. Len(ins.args) - 1
Argument(i) == cur.regs[ins.args[i + 1]]

\* By the value on the heap.
IsStopKind(v) ==
  \/ IsArray(v) /\ "array_use" \in breaks
  \/ IsText(v) /\ ("string_use" \in breaks \/ ins.op = "invoke_virtual")

\* "just make sure we don't include breakpoints in non direct execution"
Direct == breaks \cap {"array_use", "string_use"} # {} /\ cur.mode = "running"

\* Positions still to be looked at: those before argReg were reported already.
\* A pending skip is spent on the first of them, whatever it holds.
Unseen == {i \in Positions : i >= cur.argReg}
Passed == IF skip THEN {cur.argReg} ELSE {}
Stops  == IF Direct THEN {i \in Unseen \ Passed : IsStopKind(Argument(i))} ELSE {}
SkipLeft == skip /\ ~(Direct /\ Unseen # {})

\* Static invokes report the local method_idx, which a return does not restore.
InvokeStops ==
  /\ Turn(Invokes)
  /\ Len(frames) <= MaxFrames
  /\ Stops # {}
  /\ \E i \in Stops :
     /\ \A j \in Stops : i <= j
     /\ cur' = [me EXCEPT !.mode = "paused", !.argReg = i]
     /\ result' = Breakpoint(cur.pc,
                             IF ins.op = "invoke_static" THEN methodIdx ELSE cur.method,
                             "argument", i)
     /\ told' = told \cup {i}
  /\ skip' = FALSE
  /\ UNCHANGED <<frames, at, methodIdx, instances, clean, returned>>

InvokeTooDeep ==
  /\ Turn(Invokes)
  /\ Len(frames) > MaxFrames
  /\ Fails(me)
  /\ UNCHANGED <<frames, methodIdx, instances, skip, told, returned>>

\* Faulty variant of Pass: the limit is off by one.
PassOneDeeper ==
  /\ Turn(Invokes)
  /\ Len(frames) <= MaxFrames + 1
  /\ Stops = {}
  /\ skip' = SkipLeft
  /\ told' = {}
  /\ UNCHANGED <<instances, returned>>

\* The arguments are passed: the state is saved and the callee's method is current.
Pass ==
  /\ Turn(Invokes)
  /\ Len(frames) <= MaxFrames
  /\ Stops = {}
  /\ skip' = SkipLeft
  /\ told' = {}
  /\ UNCHANGED <<instances, returned>>

\* Faulty variant of Passing: last_break_point_reg is left as it is.
PassingKeepsArgReg == me

Passing == [me EXCEPT !.argReg = 0]
Mismatch == ins.op = "invoke_static" /\ Len(ins.args) # MethodOf[ins.to].ins

InvokeCode ==
  /\ Pass
  /\ HasCode(ins.to) /\ ~Mismatch
  /\ frames' = Append(frames, Passing)
  /\ Fetch([Passing EXCEPT !.pc = 0, !.code = ins.to, !.method = ins.to, !.ret = "empty",
              !.regs = Registers(ins.to, [i \in 1 .. Len(ins.args) |-> Argument(i - 1)])])
  /\ methodIdx' = ins.to
  /\ UNCHANGED clean

\* An abstract method, or the wrong number of arguments: the frame stays behind,
\* and the callee stays the current method of the caller's code.
InvokeFails ==
  /\ Pass
  /\ MethodOf[ins.to].kind = "abstract" \/ (HasCode(ins.to) /\ Mismatch)
  /\ frames' = Append(frames, Passing)
  /\ Fails([Passing EXCEPT !.method = ins.to])
  /\ methodIdx' = ins.to

\* What the library method may do.
Provided ==
  LET lib == prog.library[ins.to] IN
  LibraryOutcomes(lib.class, lib.name,
                  [k \in 1 .. Len(ins.args) |-> Argument(k - 1)], cur.ret)

\* No code anywhere: a built-in class runs it, and the saved state is dropped.  A
\* static invoke goes on also when the built-in fails.
InvokeBuiltin ==
  /\ Pass
  /\ MethodOf[ins.to].kind = "builtin"
  /\ \E o \in Provided :
       (o.ok \/ ins.op = "invoke_static") /\ Advance([Passing EXCEPT !.ret = o.ret], ins.size)
  /\ methodIdx' = cur.method
  /\ UNCHANGED <<frames, clean>>

BuiltinFails ==
  /\ Pass
  /\ MethodOf[ins.to].kind = "builtin" /\ ins.op = "invoke_virtual"
  /\ frames' = Append(frames, Passing)
  /\ \E o \in Provided : ~o.ok /\ Fails([Passing EXCEPT !.method = ins.to, !.ret = o.ret])
  /\ methodIdx' = ins.to

-----------------------------------------------------------------------------
(* Static fields.                                                          *)

Absent(f) == instances[f] = "none"

\* The constant the class file gives the field, stored when it is first read.
WithConstant(f) ==
  IF Absent(f) /\ cur.mode # "running_init" /\ FieldOf[f].data = "string"
  THEN [instances EXCEPT ![f] = "string"] ELSE instances

NeedsInitializer ==
  LET f == ins.to IN
  Absent(f) /\ cur.mode # "running_init" /\ FieldOf[f].clinit # NoMethod

\* The first read of a field runs the initialiser of its class on a new frame; the
\* saved state says that the sget is to be executed again.
RunInitializer ==
  /\ Turn({"sget"})
  /\ NeedsInitializer
  /\ Len(frames) < MaxDepth
  /\ LET init == FieldOf[ins.to].clinit IN
     /\ frames' = Append(frames, [me EXCEPT !.mode = "running_init"])
     /\ instances' = WithConstant(ins.to)
     /\ Fetch([me EXCEPT !.pc = 0, !.code = init, !.method = init, !.mode = "static_init",
                 !.regs = [r \in 0 .. MethodOf[init].regs - 1 |-> "empty"]])
     /\ methodIdx' = init
  /\ UNCHANGED <<skip, clean, told, returned>>

\* Fields of platform types without a value get a pseudo reference.
Delivered(f) ==
  LET i == WithConstant(f) IN
  IF i[f] = "none" /\ FieldOf[f].platform THEN [i EXCEPT ![f] = "object"] ELSE i

\* The mode of a sget that is done: the initialiser has run, execution is direct.
AfterInit == IF cur.mode = "running_init" THEN "running" ELSE cur.mode

StaticGet ==
  /\ Turn({"sget"})
  /\ ~NeedsInitializer
  /\ LET i == Delivered(ins.to) IN
     /\ instances' = i
     /\ IF i[ins.to] # "none"
        THEN /\ Advance([me EXCEPT !.mode = AfterInit, !.regs[ins.reg] = i[ins.to]],
                        ins.size)
             /\ UNCHANGED clean
        ELSE Fails([me EXCEPT !.mode = AfterInit])
  /\ UNCHANGED <<frames, methodIdx, skip, told, returned>>

PutStops ==
  /\ Turn({"sput"})
  /\ ~skip /\ ins.to \in breaks
  /\ OnHeap(cur.regs[ins.reg]) \in StringKinds \cup {"array"}
  /\ cur' = me
  /\ result' = Breakpoint(cur.pc, cur.method, "field", ins.reg)
  /\ UNCHANGED <<frames, at, methodIdx, instances, skip, clean, told, returned>>

\* The field keeps the value without its name.
StaticPut ==
  /\ Turn({"sput"})
  /\ LET v == cur.regs[ins.reg] IN
     /\ v \in References
     /\ skip \/ ins.to \notin breaks \/ v = "object"
     /\ instances' = [instances EXCEPT ![ins.to] = OnHeap(v)]
  /\ skip' = FALSE
  /\ Advance(me, ins.size)
  /\ UNCHANGED <<frames, methodIdx, clean, told, returned>>

PutFails ==
  /\ Turn({"sput"})
  /\ cur.regs[ins.reg] \notin References
  /\ Fails(me)
  /\ UNCHANGED <<frames, methodIdx, instances, skip, told, returned>>

StaticPutInt ==
  /\ Turn({"sput_int"})
  /\ instances' = IF cur.regs[ins.reg] = "int" THEN [instances EXCEPT ![ins.to] = "int"]
                  ELSE instances
  /\ Advance(me, ins.size)
  /\ UNCHANGED <<frames, methodIdx, skip, clean, told, returned>>

-----------------------------------------------------------------------------
Step ==
  \/ TooManySteps
  \/ Data \/ DataFails \/ MoveResult \/ FilledNewArray \/ Nop
  \/ Goto \/ If \/ Switch \/ BranchFails \/ Throw
  \/ ReturnVoid \/ ReturnStops \/ Return
  \/ InvokeStops \/ InvokeTooDeep \/ InvokeCode \/ InvokeFails \/ InvokeBuiltin
  \/ BuiltinFails
  \/ RunInitializer \/ StaticGet \/ PutStops \/ StaticPut \/ PutFails
  \/ StaticPutInt
=============================================================================
