------------------------------ MODULE Discovery ------------------------------
(***************************************************************************)
(* Dynamic discovery: build_information_graph starts every method on a     *)
(* machine of its own and discover_dynamicnodes follows it from breakpoint *)
(* to breakpoint, noting the strings and arrays it sees.  A static         *)
(* initialiser is discovered twice on the same machine, the second time    *)
(* with breakpoints on the static fields of its class as well.             *)
(***************************************************************************)
EXTENDS DexVm

CONSTANTS
  MaxErrors,   \* errors after which discovery stops (10 in the code)
  OwnFields    \* the static fields of the class of the entry method

ASSUME DriverAssumption == MaxErrors \in Nat /\ OwnFields \subseteq Fields

VARIABLES
  phase,       \* "new", "first", "second", "done"
  errors,      \* of the discovery under way
  recorded,    \* what the discovery under way has noted
  firstFound   \* what the first discovery had noted (history)

driverVars == <<phase, errors, recorded, firstFound>>
vars == <<vmVars, driverVars>>

\* What is noted of a stop: where it was, and the value it was about.
Note(value) == [code |-> cur.code, pc |-> result.pc, of |-> result.of,
                context |-> result.context, value |-> value]

Init ==
  /\ prog \in Programs
  /\ NewMachine(UseBreaks)
  /\ phase = "new" /\ errors = 0 /\ recorded = {} /\ firstFound = {}

Discover(set) ==
  /\ breaks' = set
  /\ Start(prog.entry, prog.args)
  /\ errors' = 0
  /\ recorded' = {}

\* The class is one of those to be emulated.
First ==
  /\ phase = "new"
  /\ Discover(breaks)
  /\ phase' = "first"
  /\ UNCHANGED firstFound

\* Faulty variant of Second: no breakpoints are set on the fields.
SecondWithoutFields ==
  /\ phase \in {"new", "between"}
  /\ prog.static
  /\ Discover(breaks)
  /\ phase' = "second"
  /\ UNCHANGED firstFound

\* Neither the machine nor its pending skip is reset in between, and what the first
\* discovery has found is replaced.
Second ==
  /\ phase \in {"new", "between"}
  /\ prog.static
  /\ Discover(breaks \cup OwnFields)
  /\ phase' = "second"
  /\ UNCHANGED firstFound

\* The method is not emulated, or not a static initialiser: the next method is due.
NextMethod ==
  /\ phase \in {"new", "between"}
  /\ ~prog.static
  /\ phase' = "done"
  /\ UNCHANGED <<vmVars, errors, recorded, firstFound>>

-----------------------------------------------------------------------------
(* The loop of discover_dynamicnodes.                                      *)

Halted  == phase \in {"first", "second"} /\ result # Running
GaveUp  == errors > MaxErrors

\* Faulty variant of Findings: the method a stop names is not looked at.
FindingsOfAnyMethod ==
  LET v == OnHeap(IF result.of = "argument" THEN Argument(result.context)
                                            ELSE cur.regs[result.context])
  IN IF v \in {"array", "string"} THEN {Note(v)} ELSE {}

\* Faulty variant of Findings: by the type the register names, not by the value.
FindingsByName ==
  LET v == IF result.of = "argument" THEN Argument(result.context) ELSE cur.regs[result.context]
  IN CASE result.of = "argument" /\ v = "array" -> {Note(v)}
       [] result.of = "argument" /\ v = "string" /\ result.method = prog.entry -> {Note(v)}
       [] result.of = "return" /\ v = "string" -> {Note(v)}
       [] result.of = "field" /\ v \in StringKinds -> {Note(v)}
       [] OTHER -> {}

\* What a stop adds to the graph.  Strings passed to a method count only if the
\* stop names the method that is discovered; arrays always.
Findings ==
  LET v == OnHeap(IF result.of = "argument" THEN Argument(result.context)
                                            ELSE cur.regs[result.context])
  IN CASE result.of = "argument" /\ v = "array" -> {Note(v)}
       [] result.of = "argument" /\ v = "string" /\ result.method = prog.entry -> {Note(v)}
       [] result.of = "return" /\ v = "string" -> {Note(v)}
       [] result.of = "field" /\ v \in StringKinds -> {Note(v)}
       [] OTHER -> {}

OnBreakpoint ==
  /\ Halted /\ ~GaveUp
  /\ result.kind = "breakpoint"
  /\ recorded' = recorded \cup Findings
  /\ ContinueExecution(result.pc)
  /\ UNCHANGED <<clean, phase, errors, firstFound>>

\* Faulty variant of OnError: failures are not counted.
OnErrorUncounted ==
  /\ Halted /\ ~GaveUp
  /\ result = Error
  /\ ContinueExecution(cur.pc + cur.size)
  /\ UNCHANGED <<clean, phase, errors, recorded, firstFound>>

\* Goes on behind the instruction that failed; the program counter stays on it.
OnError ==
  /\ Halted /\ ~GaveUp
  /\ result = Error
  /\ ContinueExecution(cur.pc + cur.size)
  /\ errors' = errors + 1
  /\ UNCHANGED <<clean, phase, recorded, firstFound>>

\* The method has returned or left its code, or this was the last error's retry.
DiscoveryEnd ==
  /\ Halted
  /\ GaveUp \/ result \in {Ok, NoInstruction}
  /\ phase' = IF phase = "first" THEN "between" ELSE "done"
  /\ firstFound' = IF phase = "first" THEN recorded ELSE firstFound
  /\ UNCHANGED <<vmVars, errors, recorded>>

Emulate == phase \in {"first", "second"} /\ Step /\ UNCHANGED driverVars

Next ==
  \/ First \/ Second \/ NextMethod
  \/ OnBreakpoint \/ OnError \/ DiscoveryEnd
  \/ Emulate

Spec == Init /\ [][Next]_vars

\* One thread runs machine and driver: it is never done before it ends.
FairSpec == Spec /\ WF_vars(Next)
-----------------------------------------------------------------------------
(* Properties.                                                             *)

RegsOf(m) == IF m = NoMethod THEN {NoRegs} ELSE [0 .. MethodOf[m].regs - 1 -> Values]

State ==
  [pc : Int, code : Methods \cup {NoMethod}, method : Methods \cup {NoMethod},
   regs : UNION {RegsOf(m) : m \in Methods \cup {NoMethod}},
   ret : Values, mode : Modes, argReg : Nat, size : 0 .. 3]

Results ==
  {Running, Ok, Error, NoInstruction}
    \cup [kind : {"breakpoint"}, pc : Int, method : Methods \cup {NoMethod},
          of : {"argument", "return", "field"}, context : Nat]

MachineTypeOK ==
  /\ cur \in State /\ frames \in Seq(State)
  /\ cur.regs \in RegsOf(cur.code)
  /\ \A i \in DOMAIN frames : frames[i].regs \in RegsOf(frames[i].code)
  /\ at \in Int /\ steps \in 0 .. MaxSteps /\ methodIdx \in Methods \cup {NoMethod}
  /\ instances \in [Fields -> Values \cup {"none"}]
  /\ skip \in BOOLEAN /\ breaks \subseteq UseBreaks \cup Fields
  /\ result \in Results
  /\ clean \in BOOLEAN /\ returned \in BOOLEAN /\ told \subseteq Nat

DriverTypeOK ==
  /\ phase \in {"new", "first", "between", "second", "done"}
  /\ errors \in 0 .. MaxErrors + 1

\* Every variable has its type: a state's registers are those of the method whose code
\* is loaded, and while the machine runs there is an instruction to execute.
TypeOK ==
  /\ MachineTypeOK /\ DriverTypeOK
  /\ result = Running => at \in DOMAIN Loaded(cur)

\* A frame is the call of the one above it: of the method whose code it runs by an
\* invoke, or of an initialiser by the sget that will be executed again.
IsCallOf(f, c) ==
  /\ f.pc \in DOMAIN Loaded(f)
  /\ LET call == Loaded(f)[f.pc] IN
     \/ call.op \in Invokes /\ call.to = c.code /\ f.mode # "running_init"
     \/ call.op = "sget" /\ FieldOf[call.to].clinit = c.code /\ f.mode = "running_init"

\* Until the first error, the stack is a chain of calls, every state runs the code of
\* its own method, and only an sget is executed in the mode in which the end of a
\* turn does not move the program counter.
StackIsChainOfCalls ==
  clean =>
    /\ \A i \in DOMAIN frames :
         /\ frames[i].code = frames[i].method
         /\ IsCallOf(frames[i], IF i = Len(frames) THEN cur ELSE frames[i + 1])
    /\ cur.code = cur.method
    /\ result = Running =>
         /\ at = cur.pc
         /\ cur.mode = "running_init" => ins.op = "sget"

\* However often discovery goes on after a failure, invokes stop at the limit: only
\* static initialisers are found above it.
CallDepthBounded ==
  \A i \in DOMAIN frames : i > MaxFrames + 1 => frames[i].mode = "running_init"

\* Before the first error, a stop names the method that is executed, unless a return
\* left the local method_idx behind.
StopsNameTheirMethod ==
  clean /\ result.kind = "breakpoint" /\ ~returned => result.method = cur.method

\* A string noted as an argument was passed by the discovered method's own code, as
\* long as no code enters that method again: by an invoke, or by reading a field whose
\* initialiser it is.
EntersAgain(i) == \/ i.op \in Invokes /\ i.to = prog.entry
                  \/ i.op = "sget" /\ FieldOf[i.to].clinit = prog.entry
Recursive == \E m \in Methods : HasCode(m) /\ \E a \in DOMAIN Code(m) : EntersAgain(Code(m)[a])
NotedStringsAreOwn ==
  clean /\ ~Recursive =>
    \A n \in recorded : n.of = "argument" /\ n.value = "string" => n.code = prog.entry

InInitializer == \E i \in DOMAIN frames : frames[i].mode = "running_init"

\* In direct execution and before the first error, an invoke does not pass its
\* arguments on before every string and array among them was reported, and none is
\* reported twice.
ArgumentsReportedOnce ==
  [][clean /\ result = Running /\ ins.op \in Invokes =>
       /\ result'.kind = "breakpoint" => result'.context \notin told
       /\ result'.kind # "breakpoint" /\ clean' /\ ~InInitializer =>
            told = {i \in Positions : IsText(Argument(i)) \/ IsArray(Argument(i))}]_vars

\* "make sure we don't include breakpoints in non direct execution (e.g clinit from
\* staticget)": no stop at an argument while an initialiser runs.
NoArgumentStopsInInitializer ==
  result.kind = "breakpoint" /\ result.of = "argument" => ~InInitializer

\* In direct execution and before the first error, nothing the driver looks for is
\* passed on before it was noted: an array, whoever passes it, and a string that the
\* discovered method passes.  Of the arguments of a static invoke the first that is
\* reported is left out: its stop may name a method that has returned.
ArgumentNote(i) == [code |-> cur.code, pc |-> cur.pc, of |-> "argument", context |-> i,
                    value |-> OnHeap(Argument(i))]
IsNotedOf(i) ==
  \/ IsArray(Argument(i))
  \/ /\ OnHeap(Argument(i)) = "string" /\ cur.method = prog.entry
     /\ ins.op = "invoke_virtual" \/ \E j \in told : j < i
PassedIsNoted ==
  [][clean /\ result = Running /\ ins.op \in Invokes
     /\ result'.kind # "breakpoint" /\ clean' /\ ~InInitializer =>
       \A i \in Positions : IsNotedOf(i) => ArgumentNote(i) \in recorded]_vars

\* A method that does the same each time: it does not branch, takes nothing from the
\* library, from a callee or from an object, reads no static field that is ever put,
\* and is not entered again.
IsPut(f) == \E m \in Methods : HasCode(m) /\ \E a \in DOMAIN Code(m) :
              Code(m)[a].op = "sput" /\ Code(m)[a].to = f
DoesTheSame(i) == /\ i.op \notin {"if", "test", "switch", "move_result", "iget_object"}
                  /\ i.op = "sget" => ~IsPut(i.to)
RunsAlike == ~Recursive /\ \A a \in DOMAIN Code(prog.entry) : DoesTheSame(Code(prog.entry)[a])

\* Discovering such an initialiser again to its return, with breakpoints on its fields
\* and with every field and skip flag left as they were, finds again what its own code
\* passed on.
OwnArguments(notes) == {n \in notes : n.of = "argument" /\ n.code = prog.entry}
SecondFindsAgain ==
  phase = "done" /\ prog.static /\ clean /\ RunsAlike /\ result = Ok =>
    OwnArguments(firstFound) \subseteq recorded

\* In the second discovery and before the first error, a string or an array is put
\* into a field of the class only after the stop for it was noted.
OwnFieldsNoted ==
  [][phase = "second" /\ clean /\ instances' # instances /\ ins.op = "sput"
     /\ ins.to \in OwnFields /\ IsText(cur.regs[ins.reg]) =>
       \E n \in recorded : n.of = "field" /\ n.code = cur.code /\ n.pc = cur.pc]_vars

\* Discovery of a method comes to an end, or it stops at breakpoints for ever.
DiscoveryEnds == <>(phase = "done") \/ []<>(result.kind = "breakpoint")
=============================================================================
