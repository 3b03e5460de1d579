# A TLA+ model of coeus

coeus is a Rust workspace (with Python bindings) that takes Android packages apart:
it unpacks archives, parses dex files, builds graphs of what refers to what, tracks
values through instructions, emulates methods, and debugs a running app over JDWP.
This directory holds TLA+ modules for the parts of it that have behaviour worth model
checking, the TLC configurations that check them, and TLAPS proofs about them.

## 1. Inventory

Paths are relative to `src/coeus` unless they say otherwise.

| Component | Code | State | Operations and interactions |
|---|---|---|---|
| JDWP client | `coeus_debug/src/{jdwp,models}.rs` | two unbounded channels, a reader and a writer task, the TCP stream | every method sends a command and takes the next packet from the reader channel; `close` aborts both tasks |
| Debugger | `../coeus-python/src/debugging.rs` | `last_step_id`, `break_points` | `set_breakpoint`, `wait_for_package`, `step`, `resume`, frame and value accessors, each a series of client calls |
| Dex virtual machine | `coeus_emulation/src/vm/mod.rs` | current frame, stack of frames, heap, static instances, breakpoints, skip flag | `start`, `continue_execution`, `skip_over`, `reset`, `set_breakpoint`; an interpreter loop that re-enters itself for static initialisers |
| Built-in classes | `coeus_emulation/src/vm/{runtime,dynamic_runtime}.rs` | the global registry of dynamic classes, behind a mutex | called by the interpreter, the result goes to its register of results; a registered class is Python code and may call the interpreter back |
| Dynamic discovery | `coeus_parse/src/dex/graph/analysis/dynamic/mod.rs` | status and error count of one emulation | starts the machine, reacts to breakpoints, continues |
| Static flow | `coeus_parse/src/dex/graph/analysis/static/` | branches with register states, change sets | `next_instruction` until nothing is left or 80 rounds are made; runs calls of the method on a virtual machine to learn what they return |
| Information graph | `coeus_parse/src/dex/graph/information_graph.rs` | graph, key-to-node mapping, methods of interfaces | nodes for what the files name, inheritance with cancellation, parallel discovery, change sets applied in sequence |
| Call graph | `coeus_parse/src/dex/graph/{mod,callgraph}.rs` | none | walks over the information graph, down, back and up; an older graph of single methods |
| Instruction flow | `coeus_analysis/src/analysis/instruction_flow.rs` | branches, register lattice | symbolic execution with forks |
| Extraction, parsing | `coeus_parse/src/{extraction,dex/mod}.rs` | classes and tables of relatives of a file, each behind a mutex | a thread for every dex file, workers that share the class table; archives in archives one after the other |
| Multi-dex files | `coeus_models/src/models/{multidexfile,dexfile}.rs` | cache of loaded classes behind a lock | enumerations over all files; `load_class`, which is never reached |
| Encodings | `coeus_models/src/models/{encoding,instruction}.rs` | none | LEB128, instruction decoding |
| Query layer | `coeus_analysis/src/analysis/{dex,native,mod}.rs` | none | searches |
| Python bindings | `../coeus-python/src/{analysis,parse,vm}.rs` | virtual machines behind a mutex, shared by Python threads | run methods, fields and decisions on a machine; register classes; otherwise wrappers |
| Scripting, macros | `*/scripting*`, `coeus_macros` | none | glue |

What is hard, and what makes each part correct:

- *Debugger*: replies are told apart by position only, while events, timeouts and a closing
  client get in between. Correct if a round takes the answer to its own command, if the ids that
  are kept are the device's, and if calls return.
- *Machine and discovery*: a client goes on after every stop and failure, on a machine whose
  stack, flags and positions are what the failure left. Correct if stops are neither lost nor
  repeated nor put down to another method, if the stack stays a chain of calls, and if discovery
  ends.
- *Instruction flow, static flow*: many branches take turns on shared sets of addresses, with
  limits that drop some. Correct if what a branch holds is what an execution along its path
  holds, if nothing is missed that the limits allow, and if following ends.
- *Loading*: workers add classes to shared tables, in any order. Correct if the tables are
  complete whatever the order.
- *Graph*: many files name the same things, and change sets arrive in any order of kinds. Correct
  if everything said of a thing is at the one node its key leads to, and if walks over the graph
  are sound.
- *Bindings*: four kinds of locks and Python code that calls back in while some are held. Correct
  if nothing stays locked or borrowed, and if no circle of waiting arises without a callback.

`PROJECT.json` repeats this list with the status of each part, and lists the hazards at
the lines where they bite.

## 2. How the project is laid out

Order: what keeps state over many steps, and fails or interleaves, first.

1. **The debugger**: `JdwpRounds` (table of rounds), `JdwpDebugger` (client, tasks, device, on
   top of it), `PacketStream` (the abstract specification of channel and stream that
   `JdwpDebugger` implements).
2. **Virtual machine and dynamic discovery**: `RuntimeClasses` (values and library methods),
   `DexVm` (the interpreter, on top of it), `Discovery` (the client that follows the machine
   from stop to stop).
3. **Instruction flow**: `InstructionFlow`, and on top of it `FlowAnswers`, which sets the
   executions of the analysed method beside the analysis.
4. **Static flow**: `StaticFlow`, the older relative that `build_information_graph` runs over
   every method, and `StaticAnswers`, which sets the executions along the paths of its branches
   beside it.
5. **Loading and the information graph**: `DexFiles`, how the dex files of an archive are parsed;
   `InformationGraph`, on top of it, how the graph is built from what was loaded and from what
   was found in the methods; `GraphAnswers`, what the graph is asked and what it promises.
6. **Registered classes**: `RegisteredClasses`, the machines that Python threads share and the
   classes that Python registers with all of them.

The modules meet where the code's parts do. `StaticFlow` and `Discovery` say what is found in
one method, as change sets and as notes; `InformationGraph` begins with such findings, given
with the app, and says what becomes of them. `DexVm` calls the library by a table of outcomes,
and `RegisteredClasses` says who may stand behind a library call, with which locks held.
Composing them into one state space would multiply methods by interleavings without adding an
interaction: every method of an app has a flow and a machine of its own, and they meet only in
the lists of change sets.

One part that was planned turned out to have nothing to model: `load_class` of
`multidexfile.rs` writes a cache behind a lock, but is reached through `get_class_for_method`
alone, which nothing calls.

`Lists` holds the two operators on sequences that code in several parts shares (`Sublist`, the
code's `retain`; `Lasting`), and `Lists_proofs` what is known of them and of the library's folds
for every list, of whatever length, and that recursive functions exist. A component's theorems are in `<module>_proofs`, which extends its
last module.

Every invariant and every action property that a passing run checks is the statement of a theorem; what is
left to the runs is liveness.

Runs stay below five minutes on two workers. Where a bound is a constant of the code (10000
instructions, 50 frames, 10 errors, 200 branches, 80 rounds) it is a constant of the module,
made small in the configuration and left arbitrary in the proofs.

## 3. The debugger (`JdwpRounds`, `JdwpDebugger`, `PacketStream`, `MCJdwpDebugger`)

### What is modelled

Every method of `JdwpClient` is a series of *rounds*: send one command packet, take one
packet from the reader channel, look at it. The rounds of the whole client differ in
four things only: whether they wait with the ten-second `wait_for_package` or with a bare
`recv()`, what they do with an event, whether they read the data of the reply, and
whether their caller ignores their failure. `JdwpRounds` is the table of the rounds and
of the calls built from them; `JdwpDebugger` is the machine that runs them.

| Code | Model |
|---|---|
| `writer_tx` / `writer_rx`, the bytes to the device | `tx`, `out` |
| bytes from the device, `reader_tx` / `reader_rx` | `wire`, `rx` |
| `read_thread`, `write_thread`, `close()` | `reader`, `writer`, `closing`; `ReadTask`, `WriteTask`, `WriteToNobody`, `Close`, `WriterAborted`, `ReaderAborted` |
| a method under way | `op`, the rounds still to do `todo`, `phase`; for `get_values` the type tag tried, `tries` |
| `send_cmd`, and its failure when the writer is gone | `SendCommand`, `SendFails` |
| `wait_for_package` or `recv()` inside a round | `TakeReply`, `TakeEvent`, `RoundTimeout`, `ChannelClosed` |
| `Debugger::wait_for_package` | `WaitForPackage`, then one of `WaitGetsStop`, `WaitGetsOther`, `WaitGetsReply`, `WaitGetsNothing` |
| `last_step_id`, `break_points` | `lastStep`, `breakPoints` |
| the device | `suspended`, `bps`, `steps`, `nextRequest`; `DeviceAnswers`, `DeviceEvent`, `PeerGone` |

Packet ids are random in the code and never compared. The model numbers the commands in
the order they are sent, so that a property can say whose answer a round took; no guard
reads those numbers. The device is not part of the repository: it answers every command
once and in order, and reports a stop only while it runs.

### Runs

| Run | Question | Bounds |
|---|---|---|
| `jdwp_event_loop` | Which reply does a round take, and are the debugger's ids the device's, whatever arrives late, also through calls with data-dependent rounds, ignored failures and retries? | all calls; 9 commands, 2 events, 1 timeout: enough to set two breakpoints, miss an answer, stop, step, stop again and resume; 2 registers, 2 type tags |
| `jdwp_calls_return` | Is the path from the device an ordered stream, and which calls return, when the peer vanishes or the client is closed at any point? | 7 commands, 1 event |
| `jdwp_swallowed_stop` | Does a stop always reach `wait_for_package`, as the debugger example says? It does not. | as the first, without timeouts |

`NextReplyIsOwedOne` is the property the others hang on: replies are matched by position
only, and a round gets its own answer exactly when nothing is owed to earlier rounds
that gave up (`givenUp`) or took an event for their answer (`swallowed`).
`ListedBreakpointsExist` and `LastStepIsLive` say what this costs: the ids the debugger
holds are the device's as long as no stale reply was taken.

Deadlock checking is off in these runs: a client whose constructor failed, or one whose
peer is gone and that waits without a timeout, stops for good.

### Fairness

`jdwp_calls_return` assumes that the runtime polls its tasks and the blocked caller (weak
fairness of each task's steps, and of the caller's steps while a packet is there to take),
that a connected device answers, and that the timer fires for a round whose peer is gone and
for `wait_for_package`. It does not assume that a timer beats an answer, that the caller
makes another call, or that the device ever reports an event. The read task never ends by
itself: at the end of the stream it retries for ever, so only `close()` drops its sender.
That is why `TimedCallsReturn` is limited to calls made of rounds with a timeout, and why
`CallsReturn` excuses a lost peer.

## 4. The virtual machine and dynamic discovery (`RuntimeClasses`, `DexVm`, `Discovery`, `MCDiscovery`)

### What is modelled

`build_information_graph` gives every method a virtual machine of its own, sets breakpoints
on uses and returns of strings and arrays, and lets `discover_dynamicnodes` follow the
machine: at every stop it notes the value, and goes on; after a failure it goes on behind
the instruction that failed, eleven times. A static initialiser is discovered again on the
same machine with breakpoints on the fields of its class.

`DexVm` is the interpreter's loop. One step is one turn of the loop. All control is kept:
program counter and frames, the execution state, the local variables `method_idx` and
`steps` of `execute()`, the skip flag, the argument position, every early return and the
order of what was already changed when it happens. Data is reduced to what breakpoints tell
apart, and instructions that act alike are one instruction.

| Code | Model |
|---|---|
| `current_state`, `stack_frames` | `cur`, `frames`; `pc`, `vm_state`, `return_reg`, `current_instructions`, `current_method_index`, `current_stackframe`, `last_break_point_reg`, `current_instruction_size` are the fields `pc`, `mode`, `ret`, `code`, `method`, `regs`, `argReg`, `size` |
| locals of `execute()` | `at`, `methodIdx`, `steps` |
| `instances`, `skip_next_breakpoint`, the breakpoints | `instances`, `skip`, `breaks` |
| what `execute()` returned | `result`, `Running` meanwhile |
| `start`, `continue_execution`, `execute` | `Start`, `ContinueExecution`, `Execute` |
| the end of a turn; jumps, which leave it out | `Advance`; `Fetch` |
| an invoke | `InvokeStops`, `InvokeTooDeep`, `InvokeCode`, `InvokeFails`, `InvokeBuiltin`, `BuiltinFails` |
| the library (`vm/runtime.rs`) | `RuntimeClasses`: for a class and a method name, the outcomes of a call on these arguments |
| a return | `ReturnStops`, `Return`, `ReturnVoid`, with `Resume` or `Finish` |
| moves, arithmetic, arrays, instance fields, new objects | `Data`, `DataFails`, over the table `Outcomes`; `FilledNewArray`, `MoveResult`, `Nop` |
| jumps, tests, switches, `throw` | `Goto`, `If`, `Switch`, `BranchFails`, `Throw` |
| static fields | `RunInitializer`, `StaticGet`; `PutStops`, `StaticPut`, `PutFails`; `StaticPutInt` for numbers |
| `build_information_graph` for one method | `First`, `Second`, `NextMethod` |
| the loop of `discover_dynamicnodes` | `OnBreakpoint`, `OnError`, `DiscoveryEnd`, `Emulate` |

*Values.* A register of the code holds a reference with the name of a type, and the name need
not be that of the value on the heap: what comes from an instance field carries the name of the
class it was read from, an array other than of bytes that of its own type. Stops that look at
the name miss such a *masked* value, stops that look at the heap do not. The driver's strings
`"test"` are a kind of their own, since they are not noted. What depends on a number, on the
length of an array or on what an instance field holds is any of the values it may be.

*Instructions.* For one that writes a register, `Outcomes` says which values it may write,
whether it may leave the register as it was ("kept"), and whether it may fail, before or after a
zero was written ("fails", "zeroed"). A test reads its registers before it decides: if they are
not numbers (`"test"`) it fails and the jump is not made; a comparison with zero (`"if"`) decides
on anything. `"nop"` and `"throw"` stand for whatever changes nothing and goes on, or fails.

*The library.* A method leaves one of several results, leaves the register of results as it was -
then the result is that of an earlier call - or fails, before or after it has set a result.
Classes that define no constructor inherit one. A program of the model says which library method
its `lib` is (`prog.library`).

*Stops.* An argument stop is decided at once for the whole list of arguments (`Stops`): the loop
over the registers has no effect on the state but the skip flag, which it spends on the
first argument not yet reported, whatever that holds. That the registers an instruction names
exist is assumed (`WellFormed`), as the dex format demands.

`clean`, `told` and `returned` are history and guard nothing: most of what one would like
to say is true only before the first failure, because a failure inside an invoke leaves a
frame behind and execution goes on regardless.

### Runs

| Run | Question | Bounds |
|---|---|---|
| `discovery_bodies` | Are stops neither lost nor repeated nor attributed to the wrong method, is what is looked for noted before it is passed on, is the stack a chain of calls, is its depth bounded, are writes of an initialiser's fields reported, is what the first discovery of an initialiser found found again when it does the same each time? | `BodyPrograms`, below; 12 instructions per `execute()`, frames limited to 2, one failure |
| `discovery_ends` | Does discovery end? | all loops of up to 3 instructions out of 7, called with a string or with an argument missing; two failures |
| `discovery_nested_initializer` | Are there no argument stops in initialisers, as a comment says? There are. | the methods among `BodyPrograms` |

The bodies are enumerated, so the runs cover every program of that size, not chosen examples.
`BodyPrograms` is the union of: all methods of up to 3 instructions out of 7 and two returns,
with five callees (one recursive, one failing, one passing strings on) and three initialisers;
each of the other 14 instructions on operands of eight kinds, with its result passed on, stored
or returned; each of 42 library methods on arguments of ten kinds in four calling sequences; and
all initialisers of up to 4 instructions out of 6, with their second discovery. Two calls deep
is enough for an initialiser inside a call inside an initialiser, and a limit of two frames is
exceeded by a recursive callee; twelve instructions let every body without a loop finish in one
go and every loop reach the limit. `MaxDepth` bounds the frames of an initialiser that reads a
field of its own class and so runs itself again; the step limit ends that first, so the bound
is not reached.

`SecondFindsAgain` is about initialisers that do the same each time (`RunsAlike`). Without that it is
false: among the bodies is `<<"get","virt","new","put","void">>`, which passes on what it finds in its
field and then puts something else there, which is what it passes the second time. The code keeps the
second result only.

`DiscoveryEnds` has two parts, because the second happens: a loop that passes a string in
every turn stops in every turn, each stop restarts the step limit, and discovery never
ends. What is checked is that this is the only way. It is a run of its own because liveness on
a million states takes too long.

### Fairness

One thread runs machine and driver, so `FairSpec` is weak fairness of `Next`: it is
never idle before it is done. Deadlock checking is off since discovery does end.

## 5. The instruction flow (`InstructionFlow`, `FlowAnswers`, `MCInstructionFlow`)

### What is modelled

`InstructionFlow` interprets a method along several branches at once, each with its own
registers. A test of known numbers sends a branch one way; a test of anything else forks a
branch for the jump; a test that a branch meets again taints all branches that ever met a
test, and what was forked off them, and is passed by. Two searches call
`next_instruction` again and again and note what they see: one the tests that branches
stand at, from which `find_all_branch_decisions` tells dead branches, one the calls or reads
branches last made. The Python class `Flow` steps and resets instead.

| Code | Model |
|---|---|
| `branches`, `already_branched`, `conservative` | `branches`, `already`, `conservative`; `previous_pc`, `state.registers`, `last_instruction`, `loop_count` are the fields `prev`, `regs`, `last`, `loops` |
| `next_instruction`, the loop over the branches | `phase = "loop"`, the branch whose turn it is `at`; the locals `branches_to_taint` and `branches_to_add` are `toTaint` and `toAdd` |
| the match over instructions | `Goto`, `TestAgain`, `TestDecided`, `TestUndecided`, `Switch`, `Assign`, `StaticGet`, `Invoke`, `InvokeInterface`, `MoveResult`, `NotImpl`, `Ignored`; `Finish` for returns and for branches that cannot go on |
| the end of the loop's body; after the loop | `Passed`, `Forgets`; `EndLoop` |
| `get_all_branch_decisions`, and its filtering in the Python layer | `CollectDecisions`; `Answer`, `DeadBranches` |
| `find_all_instruction_with_op` | `CollectFound` |
| `Flow.reset`, `Flow.next_instruction` | `Reset`, `NextInstruction` |

One step is one branch's turn. Ids are random in the code and only compared; since no branch
is ever removed, positions serve as ids. A call or read is noted with its address, which the
code does not keep, so that a property can say which one was found. Numbers have no width
on either side of a comparison; literals have, because what the code makes of them depends on it.

An instruction has the literal of the method's text, signed, and the bits it is written in.
`Literal` is what is left of it when the analysis comes to use it, and `Result` what is computed with it;
both are the code's, and differ from the method in five ways:

| Instruction | The code | Model |
|---|---|---|
| arithmetic with a literal of 8 or 16 bits | widens it without its sign (`instruction_flow.rs:1188`, `1192` and those that follow), so that adding -1 adds 255; the repository's machine reads it as an `i8` (`vm/mod.rs:782`) | `Literal` |
| subtraction from a literal | subtracts the literal (`1208`, `1212`; opcodes 0xd1 and 0xd9 in `coeus_models/src/models/instruction.rs`) | `Result`, operation "sub" |
| `const/4`, `const` | the decoder takes three of four bits for the magnitude of a negative number (`instruction.rs:1437`), and puts 32 bits together with the halves swapped (`1446`, unlike `Goto32` in `1282`) | `Literal` |
| division of two known registers | multiplies them (`instruction_flow.rs:727`) | "div" in `Result` |
| one without an arm that writes a register: `new-array`, `const-wide`, a narrowing of what is unknown | leaves the register as it was (`1531`) | "keep", `Ignored` |

`FlowAnswers` adds `runs`, the configurations that executions of the method can be in after
as many instructions as the analysis made rounds, and `passed`, those of them from which the
execution has gone on by then. They guard nothing. In an execution a
register is known or not; what is not known may be anything, so a test on it goes
either way. This is an independent reading of the instructions, with the semantics of the
dex format, not of the analysis (`Written`, `Successors`): literals are signed and are what the text
says, the subtraction with a literal is one from the literal, a division divides, towards
zero, and by zero ends the execution; a switch has a default, an array that is made overwrites
its register, a result is unknown.

### Runs

| Run | Question | Bounds |
|---|---|---|
| `flow_small_methods` | Is what an untainted branch knows true, is a branch called dead dead, do searches find every call and read, are the branches bounded? | all methods of 4 instructions out of 9 and a return, and methods of 4 with one or two of 17 rarer ones, among them a division, a subtraction from a literal, a division by a literal, a literal -1 to add, constants -1 of 4 and 16 bits and a constant of 32, as far as a verifier accepts them; two registers; both values of the flag; all searches, and a stepping client with one reset; 10 iterations, 4 branches before forks are dropped |
| `flow_switch_loop` | Is a branch called dead dead in every method, as an example says of a test in a loop? Not if a switch closes the loop. | three such methods |

Ten iterations let a loop over two instructions be made three times over, which is past the
second visit of its test, where branches are tainted. Four branches are exceeded by two forks in one
round. Two registers are enough to compare a known with an unknown one.

The claims have conditions, each for a reason that was met as a counterexample:
`UntaintedIsExact` and `DeadBranchIsDeadHere` are about methods that the analysis reads as they are
written (`ReadAsWritten`): none of the five rows above applies to any of their instructions. A literal
that comes out as it was, such as a positive one of 8 bits or a negative constant of 16, is in.
`DeadBranchIsDeadHere` also excludes switches, whose forks are untainted and new
to every test, and a test that a branch was about to make when the analysis was cut off by
`MAX_ITERATIONS`: met for the second time it would have tainted the branch; `SearchIsComplete` excludes "keep", a division (the execution may end at
it, while the branch goes on with a product and takes its next test for known), switches (the
default is not followed, a second arrival forks nothing), interface calls that resolve to an inherited method (noted only when
nothing was noted before), dropped forks, and tests of known numbers (the second visit goes
on behind the test whatever it says), and speaks of the instructions executions have gone on from
in as many instructions as there were rounds: what the last round reached is not noted. The two
conditions on the cut-off were found by the attempts to prove the properties without them; TLC
violates those with 0 and with 2 iterations. Methods are as a verifier leaves them (`Verified`): in
particular a method is left by a return only, for which a throw also stands. The claims hold of all other methods, at whatever point of
whatever interleaving of the branches.

That the first of these conditions is needed is seen with the sets at the end of `MCInstructionFlow`.
Each has one method of a few instructions: `WidenedLiteral` (`if (1 + -1 == 0)`), `ReversedSubtraction`
(`if (1 - -2 < 0)`), `DecodedConstant` (`if (-8 == 0)`), `DividedRegisters` (`if (2 / 4 == 0)`) and
`KeptNumber` (a test of a register that was overwritten). Put in the place of `SwitchLoops` in
`flow_switch_loop.cfg`, each lets TLC violate `DeadBranchIsDead`: the branch that is always taken, or may
be, is called dead.

The analysis is deterministic and ends by its iteration counter; no fairness is assumed and
no liveness claimed. Deadlock checking is off because it does end.

## 6. The static flow (`StaticFlow`, `StaticAnswers`, `MCStaticFlow`)

### What is modelled

Before it emulates a method, `build_information_graph` follows it with an older analysis, which
knows less of numbers and more of origins: a register says by which call, literal, string or
field it came about, and every call and static write adds change sets with what its arguments
say. A test forks a branch the first time any branch comes to it, and never again
(`already_branched`); a test for zero also leaves a condition under which later arguments are
shown. If a boolean that is tested is the result of a method that can be run, it is run.

| Code | Model |
|---|---|
| `branches`, `total_branches`, `already_branched` | `branches` (a branch: `id`, `next`, `call`, `condition`, `regs`), `total`, `already` |
| locals `finished_branches`, `new_branches` of `next_instruction` | `finished`, `forks` |
| `StaticRegister`, `FunctionTransformation` | records made by `Register`; `Calls` |
| the match over instructions | `Goto`, `Switch`, `Test`, `TestAgain`, `TestZero`, `TestZeroDead`, `Invoke`, `InvokeRange`, `MoveResult`, `Move`, `Const`, `New`, `String`, `NewArray`, `ArrayPut`, `FillArray`, `ArrayData`, `Get`, `InstancePut`, `StaticPut`, `Ignored`; `Finish` |
| the end of `next_instruction`; the driver's loop | `EndRound`, `NothingLeft`, with `rounds` and `phase` |
| `nodes_to_add` | `changes` |
| running the calls of a transformation | `Runs`, `Outcome`: given with the callee |

One step is one branch's turn. Every instruction has size one. What running a method comes to
is a constant of the model, since the machine that runs it is new each time.

`StaticAnswers` adds what an execution along each branch's path would hold (`paths`), with the
semantics of the dex format: where the value of a register comes from. `reached` are the
addresses executions get to in as many instructions as rounds were made.

### Runs

| Run | Question | Bounds |
|---|---|---|
| `static_flow` | Is what a register says where its value comes from, is a condition that of the last test on the path, are the calls noted exactly those an execution reaches, are branches bounded, does following end? | all methods of 3 instructions out of 9, with a rare one of 18 in second place, and arrays copied in two ways, as far as a verifier accepts them; two registers, four callees; 4 branches before forks are dropped, 8 rounds, arrays of 2, switches of 2 targets |

The conditions of the claims are again what was met: an instruction without an arm leaves its
destination as it was, and a copy by `System.arraycopy` is noted in the register in which the
destination was made, not the one passed (`KnownIsReal` excludes both); at the limit on
branches the condition of the way not taken is set, and a test that a branch met before leaves the
condition of another (`ConditionIsTheLast`); a boolean known to be false at a test for equality
sends all branches the wrong way (`CallsAreExact` excludes computed tests).

### Fairness

`ASpec` is weak fairness of the next step: the driver calls `next_instruction` in a loop that
waits for nothing. Branches in a loop never finish; `FlowEnds` holds by the count of rounds
alone.

## 7. Loading and the information graph (`DexFiles`, `InformationGraph`, `GraphAnswers`, `MCInformationGraph`)

### What is modelled

`DexFiles`: a thread for every dex file, in which rayon's workers go through the class table. A
class is added to three tables in turn, each behind a mutex that is held for that one change,
so every change is an action and workers interleave between them. A class without members takes
a shorter way, on which its superclass and interfaces are not looked at, and which begins an empty
list of implementations if it is an interface. A file that cannot be parsed, or whose
thread panics, is left out.

The tables go by names. The names of a class, of its superclass and of its interfaces are looked
up in the strings of the file by an index that is cut, `types[idx] as u16` (`dex/mod.rs:121`, `417`, `514`,
`527`), while types, methods and the rest of the code use all 32 bits (`dexfile.rs:87-95`). In a file with
more than 65536 strings, a type whose name stands further back is therefore called by another string
(`Called`). `NameLimit` is the 65536 of the code; a file of the model has a list of strings, and its types
stand in it. So a class is listed, looked for, left out and given a node by what it is called, while its
methods and its type go by its name. Its own name is what a member of a list is shown
by, since the code keeps the class itself in it. What this comes to: a class's relatives are found under
what it is called by its file; under its name those of another file are not, and those of an unrelated
class may be. Left out are a string that is no UTF-8, for which the code puts a name of its own, and
a class called by a string that is also the key of a method or of another kind of node. Annotations are named
by a cut index, too; the other modules take names as they are.

`InformationGraph`: one step adds one type, field, method, string, class, finding or change set.
A node's weight is its kind and what it is named by; keys, strings made of the same in the code,
are weights in the model. What was found in a method is given with the app (`finds`), in the terms
in which `StaticFlow` and `Discovery` end, and turned into the change sets of the code.

| Code | Model |
|---|---|
| `ret_classes`, `s_table`, `v_table` | `classes`, `subclasses`, `implementers`; how far a class is: `stage` |
| the closure over `class_defs` | `ListSubclass`, `ListImplementation`, `ListClass`; `ListBare`, `BeginImplementations` |
| `extract_zip`, the threads joined; `MultiDexFile` | `Load`; `app` |
| `find_subclasses`, `find_implementations` | `GetSubclasses`, `GetImplementations` |
| `g`, `all_mappings` | `nodes`, `edges`, `mappings` |
| `prepare_mappings` | `AddType`, `AddField`, `AddMethod`, `AddString` |
| the names of classes | `StringIndex`, `Called`, `ClassName`; `called` |
| `build_inheritance` | `AddClass`, `SkipClass`, `Cancel`; `interfaces`; `Panic`: the look-up of a method that was left out, while its class, called otherwise, was not |
| the search for the method that a result came from | `Middle`, `EndsWith` |
| the parallel part | `Collect`: change sets in the order of the classes, whatever thread made them |
| `add_to_graph` | `AddEdge`, `AddNodeTo`, `AddNodeFrom`, `AddNodeFromTo`, with `Placed`, `Keep` |
| `callgraph_for_method`, `callgraph`, `get_method_arguments` | `CallgraphForMethod`, `CallgraphOf`, `MethodArguments` |

The edges of `AddNodeTo` and `AddNodeFrom` go the other way round than their documentation says
(`graph/mod.rs:265`, `271`); the model does as the code does. Every class has a
superclass in the model; `Object`, which has none, is not a class of an app. Of files the model
assumes what the format does (`ArchivesAssumption`, `FindsAssumption`): a file names the types, fields
and methods it uses in its own lists, and defines a class once.

`ArgumentsAreTheCalls` has an exception that the code has. For what is passed to a method outside
of the graph, `add_to_graph` takes an equal node behind the caller, if there is one, and links it to the
caller (`information_graph.rs:349`). If the caller passes the same to another method, there is, and then
the node lies between the caller and itself. Asked for the arguments with which a
method calls itself, `get_method_arguments` answers these, too.

A value that a method has as a result gets a node between this method and one that has the name it came
from, in whatever class. It is found by its key, any that has an arrow and ends with the name and
prototype (`dynamic/mod.rs:68-77`). A key ends so if it is that of a method of the same signature, of
one whose name merely ends with it, such as `data()` for `a()`, or of a string or a class that is called so.
`Endings` says which texts of the model end with which; the code takes any such key, since the
keys have no order. An equal node behind the latter is taken instead of a new one, so if that method
had the value from a third, all of them share a node. Upwards from one of
these `callgraph_for_method` then meets methods that the value was seen in whether they call it or not, and what
calls those. `CallgraphIsSound` says that this is all it adds to calls and implementations: `ReturnPairs`
are the pairs of methods that one value may join: one that it was seen in, and one that it was
seen in or whose signature ends with one it came from.

### Runs

| Run | Question | Bounds |
|---|---|---|
| `information_graph` | Do the tables of relatives know all of them? Is everything said of a thing at the node its key leads to, is what is written once one node, are the arguments between two methods those passed, are implementations linked, is a method's call graph sound? | one file or two with up to four classes each; an interface before or behind its implementations, a class defined in both files, an index that means two interfaces; up to two findings of fifteen kinds in one method and one in another, for both; a value handed on through three methods; values from methods with names that others' end with; classes whose own name, superclass or interface is out of reach, and called by a string that is another class's or one to be left out (6 strings are in reach); a class that is excluded; a cancel at any point |
| `lost_implementations` | Does `find_implementations` find all, as its documentation says? Not of an interface without members. | files whose classes two workers parse |

Two workers are used where their order can matter, on files with an interface without members and
classes that implement or extend it, with a file that cannot be parsed; the other apps, some
thousands, are loaded by one worker, class by class. More workers than classes of one file
change nothing, and two interleave every pair of changes. `ImplementationsAreLinked` speaks of
one file only, since interfaces are remembered by an index that is the file's own; and that all
are linked, only of a file with all names of types in reach (`InReach`), since a class that is called as
another gets no node and no links.

`RelativesAreAll` says first, of every archive, that the classes of a file that extend one of its
classes are found under what that is called, and then, of archives with all names in reach, that
nothing is missed and nothing else found. It excuses an interface without members, which forgets
the classes parsed before it; `lost_implementations` shows that case.

Deadlock checking is off: building ends. No fairness is assumed.

## 8. Registered classes (`RegisteredClasses`, `MCRegisteredClasses`)

### What is modelled

Python threads share virtual machines, and may register Python classes that answer library calls
of all machines. Four kinds of locks are involved, and panics that unwind through them.

| Code | Model |
|---|---|
| the GIL | `gil`; `Switch` between two steps of Python code, never in Rust code |
| `Arc<Mutex<VM>>` of a `DexVm`, poisoned or not | `owner`, `poisoned` |
| PyO3's borrow of the `DexVm` object | `borrowed` |
| `VM_DYNAMIC_BUILTINS` | `registry`, `broken`, `registered` |
| calls of Python into Rust and back | `stack`; `Begin`, `LockVm`, `Read`, `Invoke`, `Builtin`, `Callback`, `SetResult`, `Return`, `Raise`, `Answer`, `Fail`, `Panic`, `Refused` |
| `register_class` | `Register` |
| `DexField.try_get_value` | `ThenField`, `FieldRead`: the mutex is given back between the initialiser and the read |
| `find_all_branch_decisions_array` | `Spread`, `WorkerEnds`, `Join`: a copy of the machine for each worker |
| `return_reg` | `written`: by nobody, this call, or an earlier one |

A call is the sequence of library classes it invokes; the machine may fail after any of them. The
bound is `MaxCalls`.

### Runs

| Run | Question | Bounds |
|---|---|---|
| `registered_classes` | Do waiting agents form a circle only through a registered class? Are mutexes and borrows held by the calls that took them and nobody else, however they end? Does a poisoned registry leave a machine poisoned, too? Does a call answer with its own result, and does it return? | 2 threads, 1 worker, 2 machines, 3 calls, a class that may be registered and one that is not |

Three calls allow a thread in a callback that calls again, beside a second thread; two machines
are needed since one is refused while it is borrowed. What happens is that a call made from a
registered class waits for the registry that its own caller has locked, or for the GIL; the
properties say that this is the only way.

### Fairness

Rust code goes on when it can (weak fairness of `Rust` for every agent), Python's interpreter
hands the GIL round (weak fairness of `Switch`), and the method of a registered class ends if
it gets the GIL again and again (strong fairness of `Return` or `Raise`: it may lose the GIL any
number of times in between). That Python makes another call is not assumed. Deadlock
checking is off because of the bound on calls, and because the circles above happen.

## 9. Proofs

All theorems hold for every value of the constants that satisfies the named assumptions
of the modules (`SizesAssumption`, `BoundsAssumption`, `MethodsAssumption`,
`ProgramsAssumption`, `ArchivesAssumption`, `BodiesAssumption` and their like: bounds are natural numbers, tables
have the types the code gives them, code is well formed). TLC evaluates them in every run.

| Theorem | Module | Says |
|---|---|---|
| `TypeCorrect` | `JdwpDebugger_proofs` | `Spec => []TypeOK` |
| `OrderCorrect`, `NextReplyCorrect` | `JdwpDebugger_proofs` | `Spec => []OrderInv`, `Spec => []NextReplyIsOwedOne` |
| `ListedBreakpointsCorrect`, `LastStepCorrect` | `JdwpDebugger_proofs` | `Spec => []ListedBreakpointsExist`, `Spec => []LastStepIsLive` |
| `StreamImplemented` | `JdwpDebugger_proofs` | `Spec => StreamSpec`, the refinement of `PacketStream` |
| `UnseenStopCorrect` | `JdwpDebugger_proofs` | `Spec => []UnseenStopIsUnderway` |
| `TypeCorrect` | `Discovery_proofs` | `Spec => []TypeOK` |
| `CallDepthCorrect`, `ChainCorrect` | `DiscoveryCalls_proofs` | `Spec => []CallDepthBounded`, `Spec => []StackIsChainOfCalls` |
| `StopNamesCorrect`, `OwnStringsCorrect` | `DiscoveryCalls_proofs` | `Spec => []StopsNameTheirMethod`, `Spec => []NotedStringsAreOwn` |
| `ArgumentsCorrect`, `OwnFieldsCorrect` | `DiscoveryCalls_proofs` | `Spec => ArgumentsReportedOnce`, `Spec => OwnFieldsNoted` |
| `PassedCorrect`, `FoundAgainCorrect` | `DiscoveryCalls_proofs` | `Spec => PassedIsNoted`, `Spec => []SecondFindsAgain` |
| `TypeCorrect`, `BranchesCorrect` | `FlowAnswers_proofs` | `Spec => []TypeOK`, `Spec => []BranchesBounded` |
| `ExactCorrect` | `FlowAnswers_proofs` | `ASpec => []UntaintedIsExact` |
| `SearchCorrect` | `FlowAnswers_proofs` | `ASpec => []SearchIsComplete` |
| `DeadBranchCorrect` | `FlowAnswers_proofs` | `ASpec => []DeadBranchIsDeadHere` |
| `RelativesAreAllAlways` | `GraphAnswers_proofs` | `Spec => []RelativesAreAll` |
| `OnlyMappedAreLinkedAlways`, `WrittenOnceAlways` | `GraphAnswers_proofs` | `Spec => []OnlyMappedAreLinked`, `Spec => []WrittenOnce` |
| `ArgumentsAreTheCallsAlways` | `GraphAnswers_proofs` | `Spec => []ArgumentsAreTheCalls` |
| `ImplementationsAreLinkedAlways` | `GraphAnswers_proofs` | `Spec => []ImplementationsAreLinked` |
| `CallgraphIsSoundAlways` | `GraphAnswers_proofs` | `Spec => []CallgraphIsSound` |
| `HeldCorrect`, `PoisonedCorrect` | `RegisteredClasses_proofs` | `Spec => []HeldAsLongAsNeeded`, `Spec => []PoisonedTogether` |
| `AnswersCorrect`, `CirclesCorrect` | `RegisteredClasses_proofs` | `Spec => []CallsAnswerAnew`, `Spec => []CirclesNeedCallbacks` |
| `StaticInvariant`, `BranchesCorrect` | `StaticAnswers_proofs` | `ASpec => []Inv`, `ASpec => []BranchesBounded` |
| `KnownCorrect`, `ConditionCorrect` | `StaticAnswers_proofs` | `ASpec => []KnownIsReal`, `ASpec => []ConditionIsTheLast` |
| `CallsCorrect` | `StaticAnswers_proofs` | `ASpec => []CallsAreExact` |

**Debugger types.** `TypeOK` is inductive once it says that a call is under way exactly
while it has rounds left; there is a step per action.

**Order of replies.** `NextReplyIsOwedOne` speaks of the next reply in the reader channel
and is not inductive: that reply was bytes on the wire before, and a command the device had
not read before that. `OrderInv` adds these legs. On each, numbers ascend without a
gap, where one leg ends the next begins, and what was sent but not answered is owed or
awaited. It also is an invariant of `jdwp_calls_return`, where the peer and the channel may
go away, since a gap would show there first.

**Ids that are kept.** `ListedBreakpointsExist` and `LastStepIsLive` say what an answer did when it
was taken; `RequestsInv` follows it from the command on. A command or an answer with the number
`sent` is that of the round under way, so what a round takes without a stale reply answers its
own command. An answer that grants a request names one the device has, and keeps naming it:
breakpoints are never cleared, and a step is cleared by `clear_step` alone, which must have been
sent after it; but when the answer numbered `sent` is written, every command is answered. And
`clear_step` never clears the id that is remembered, as the call that sends it has given
`last_step_id` away before (`ClearsFirst`), and no other is on its way (`LastStepIsKept`).

**Stops on their way.** `UnseenStopIsUnderway` is a property of reader channel and wire taken
together: a stop is added at the end, and what is taken from the front is a stop that was seen or
swallowed, or none. It stands beside the refinement since both speak of the same stream.

**Refinement.** Reader channel and wire together are the ordered stream; the read task,
which moves a packet from one to the other, is a stutter. The initial states correspond, and
each action appends at the end, takes from the front, empties the stream, or leaves it alone.

**Machine types.** `TypeOK` of the machine is nearly inductive. What it lacks is `ArgsFit`:
`start()` clears the registers and then may fail on a wrong number of arguments, which would
leave code with the wrong registers, had code been loaded before. It never was, since
the arguments of one discovery do not change: code is loaded only if they fit. `IInv` says
so and that every state on the stack has code. The proof has a lemma for each way a turn
can end (going on, stopping, failing, resuming, entering a method) and one for each
instruction. `OutcomesType` and `LibraryType` say that whatever an instruction writes, and
whatever a library method leaves, is a value, whatever it was given.

**Chain of calls.** `StackIsChainOfCalls` becomes inductive (`CallInv`) when it also says
that a stop reports the program counter, where `continue_execution` then goes on, and that
after a failure nothing is clean any more. Of the frames only the code of the frame above
matters, so a turn that stays in a method keeps the chain (`ChainKept`), a return cuts it
(`ChainPop`), and an invoke or a static initialiser extends it (`ChainPush`).

**Whose stops.** A turn does one of four things to the names a stop may carry (`TurnNames`): it keeps
the local `method_idx` and the method executed, enters a method with both, reports one of them,
or returns, which leaves the local behind. `StopsNameTheirMethod` excuses what follows a return;
no run checks it, the theorem does.
`NotedStringsAreOwn` does not, and needs the chain of calls: a return can leave the name of the
discovered method behind only by returning from it to a frame below, which then stands at a call
of it (`CalledIsRecursive`); that an initialiser counts as such a call, when the discovered
method is one and reads a field of its own class, came to light in this proof.

**What was reported.** `ToldInv` says that nothing is noted of an instruction and no skip is
pending, except at a stop and at the instruction a stop is continued with, where the arguments
up to `argReg` were reported. A turn that leaves a method leaves nothing behind (`Quiet`), and
frames below the top remember no argument. That an invoke in direct execution does stop needs
`ModesInv`: only below an initialiser is anything but direct execution. `FieldInv` is the same
for fields: in the second discovery those of the class have breakpoints, a stop at a `sput` is
about the register that is put, and when it is continued the value was noted. The skip that
lets it pass is spent by that very instruction (`SkipIsSpent`).

**What was noted.** `PassedIsNoted` goes from reports to findings: the driver keeps a report only if
it names the discovered method or is about an array. `NotedInv` says that what was reported of the
invoke under way is noted, or is about to be by the stop at hand (`Found`); the name is
right because a pending skip is that of a stop in the method that is executed, or because an earlier
argument of the same invoke has set it. That exempts the first reported argument of a
static invoke.

**Discovering again.** `SecondFindsAgain` compares two discoveries, of which the second sees neither
the state nor the stops of the first: its fields have values, so initialisers no longer run, and
there are breakpoints on fields. What both have in common is the course of the method's own code
(`Course`), a function of the program alone: places with the registers there, and whether the local
`method_idx` names the method still in case no initialiser runs. Each of the two stands at a stage of
it (`Stands`), in its own state or in the frame at the bottom, and a turn of the own code comes to the
next (`OwnMoves`, `OwnGoes`), since the instruction has one outcome (`OutcomeIs`), a field that is never put
holds its constant (`Kept`), and a callee gives nothing back (`CalleeLeaves`). At an invoke the stage
says which notes are due (`DueAt`). The first discovery notes no other (`FirstAt`): where the local
names the method, the stage says so. The second notes all of them up to the stage the first came to
(`SecondAt`): there all fields read were given a value by the first (`Ready`), so the local names the
method where the stage says so. Beyond that stage the second may miss what is due, but then the first
has not found it. A second discovery that returns stands at the end of the course, where it stays
(`CourseStands`), and so has passed every stage. That the first discovery has no breakpoint on a field
is needed: going on after such a stop would set the local. Registers follow the same course only
under `RunsAlike`, and `AgainInv`, with the stages bounded, was checked on `discovery_bodies` before.

**Literals.** That registers hold numbers rests on `QuotientTyped` and `LiteralTyped`: what is left of a
literal is a number, and a divisor that is not zero before it is widened is not zero afterwards.

**Branches.** `Inv` adds to `TypeOK` that the forks collected so far in a round are at most
`MaxTargets` for every branch that had its turn (`ForksBounded`); the end of the round then
adds at most that many to fewer than `BranchLimit` branches. There is a lemma for a turn that
forks (`TurnTyped`), one for a turn that does not, one for the end of the round and one per
action.

**Untainted branches.** `UntaintedIsExact` speaks of the time between two rounds, `ExactInv` of
every moment. In the middle of a round the branches that had their turn are one step ahead of
the executions, and so are the forks that wait to be added; the others are still where they
were; and a branch that was forced past a test, or met an instruction without support, may be
wrong already but waits to be tainted. The invariant is also stronger on registers: what an
untainted branch does not know, the execution it follows does not know either (`Image`).
Otherwise a test the branch finds undecided, and forks at, could be decided in the execution,
and one of the two paths would be followed by no one. `ResultsInv` completes it: a branch that
stands at a move of a result has the call, so it writes what the execution writes. For this
the method must be verified: a move of a result stands behind a call and is no target of a
jump. All this is claimed of methods that are read as they are written: there, what a branch computes
(`Result`) is what the execution writes (`Written`), each in its own arithmetic. There is one lemma per instruction, on top of `TurnExact` (a turn whose branch, tainted
or not, is put a step ahead), and one for the end of a round. The proof uses that a round taints
at least the branches that waited for it; that taint also reaches what was forked off them is a
recursive function over the branches, of which it needs nothing. What an instruction that neither
tests nor switches does to its branch is said once (`Moves`), for this proof and the next two.

**Searches.** Where all tests are on unknown values every branch, tainted or not, follows some
execution (`FollowInv`): no test is decided for a branch that is not decided for an execution. `CoverInv`
has a set `D` of addresses at which branches have had turns. Executions are at addresses of `D` or where a
branch will have its turn in this round (`Due`); where an execution may go from an address of
`D` is in `D` again, unless a branch or a waiting fork is live there (`Awaited`). A sought instruction of `D`
has been found or is noted in a branch and not collected yet (`Pending`). Each turn moves one
address into `D`; at the end of a round the executions take a step, and what was awaited becomes due.
A branch that is not live any more has returned, or stands at an address it had its turn at. That
the conditions of the claim hold in a state implies that they held in the one before, as executions
and branches only grow in number.

**Dead branches.** In conservative mode a test that is not decided taints the branch and the
fork. So while the first branch is untainted it is the only one (`AloneInv`), and the method has had no
choice: the executions are the places this branch has been at (`Traced`), each with its successor,
and with one configuration at each test, unless the branch is about to have its turn at that test, the
second turn being what taints it. A decision noted for an untainted branch is of the first branch, and
the configuration it was made in is one of the executions' (`NotedInv`); if there is one only
of that test, all executions go the way the decision says. That an answer is taken from branches as
they are in the end, and not as they were when it was noted, is what makes the last step go through.

**Tables of relatives.** `RelativesAreAll` speaks of the loaded app only. `TablesInv` says what the
tables hold on the way: for every text that anything may be called by (`Texts`), those classes that are past the change which adds
them (`Extending`, `Implementing`), except that a list of implementations may have lost some if
what it calls is an interface without members. Each of a worker's five steps has a lemma; a step that
leaves a table alone also leaves the set of classes past its change (`SubclassesStay`,
`ImplementersStay`). That nothing is left to do once the app is there carries the property through
the building of the graph.

**Graph.** `GraphInv` begins with the files: what a file names is among its lists, so that once these
have been gone through (`PreparedInv`) every key a class or an access asks for is there.
Until then a key may still move to a later node of its name, but then no edge has been drawn
(`QuietInv`); afterwards nothing a file names gets another node. So every edge, every method of an
interface and every change set is made of nodes that keys lead to (`EdgesInv`, `InterfacesInv`,
`ChangesInv`), which is `OnlyMappedAreLinked`. Nodes that are placed are looked for behind one end of
their edges; `MergedInv` says of the edges that begin at that end what `WrittenOnce` says of
nodes. Types, classes and findings are lists of lists, flattened by a fold; what
such a list holds is in `FlattenHolds` of `Lists_proofs`, by the same induction over sets of numbers as
for `Sublist` below.

**Arguments.** `ArgumentsAreTheCalls` is followed in both directions (`ArgInv`). Forwards: a call
with something to pass has a change set once it was collected (`CollectedInv`), and that has its node
and two edges once it was added (`RealisedInv`). Back: a change set of a static argument, and each
of the two edges, has a call it comes from (`GivenInv`). The two edges of a node between two
methods may come from different calls. The node's weight names the caller, so both are calls of
one caller, who passes the same thing; the second names the callee, unless it is a call out of the
graph, whose edge leads back to the caller. Then caller and callee are one method. The first form
of the property left this case out: the proof failed on it, TLC found it at once in an app with
such a method, which the run has since, and the property says it now.

**Implementations.** While classes are gone through, what is remembered under an index of a type is
exactly what the interfaces met so far define (`KnownInv`, `MetInv`); in one file no two types have
an index in common, and a class is met once, as its key is not there before (`FreshInv`) if all names
are in reach: then two classes are not called alike. So behind
each class its interfaces' methods are linked (`LinkedInv`), and an edge between methods is there
for an implementation or for a call (`PairsInv`): of all change sets only a call's joins methods
(`FindingsCall`), and what is placed between methods is no method.

**Call graphs.** A walk and the pairs that `CallgraphIsSound` compares it with are recursive functions of
the number of steps. Each is given step by step (`WalkIs`, `TransitivelyIs`; that there are such
functions is `StepsExist`), and both take as many steps as there are nodes, so the two can be compared by
induction over a set of numbers. `WalkComesTo`: a walk keeps up with the pairs if their nodes are kept
and linked. `WalkIsLed`: the pairs keep up with a walk, since no two nodes that are no methods are
neighbours (`EndsFit`), so that a walk is at a method again after two steps at most. A returned value may point to anything
whose key ends so, a string or a class as well; and what is
said of methods at its ends is of the key's method, since keys of methods are what their nodes are named by
(`MethodKeysInv`). What such two steps
join is what has to be known of the graph (`HopIs`). An array belongs to one method (`ArraysInv`); from what
was passed no edge goes on; a static argument is `GivenInv` again; and for a returned value
`ReturnsInv` says who saw it and where it came from, and follows both from finding to change set to edge. For
the other direction, a call is asked for and linked (`LinksAskedInv`, `LinksMadeInv`). The first form of
the property took a value to lead from each method that saw it to the method this one had it from; here the proof
failed, and TLC found the counterexample in an app where a value is handed on through three methods, which
the run has since.

**Locks and calls.** A call holds a set of things (`Held`): a mutex, a borrow, the registry, and the
fact that its machine's return register holds nothing of an earlier call. `HeldInv` says that
no stack holds anything twice, that a mutex has the owner whose stack holds it, and that a borrow
is held once. A step of one agent changes the top of its stack; `HeldMoved` turns what the new
stack holds into the invariant, so that each action is a matter of what its frame held before and
holds after. Two facts keep agents apart: Rust code of a thread has the GIL, and workers are
busy only while the thread that has it waits for them (`GilInv`). Below the Python code of a
registered class there is an invoke, so what an exception releases and poisons is a machine.

**Circles.** `CirclesNeedCallbacks` is about who waits for whom through others. `Waits` says that
as the least set closed under waiting, so to show that someone does not wait for himself it is
enough to give one closed set without him. In a circle everyone waits for another one of it
(`CircleGoesOn`). Suppose nobody in it is in the method of a registered class. Then none is in
Python code and none waits for the registry, which only such a method holds. Who waits for a
mutex waits for its owner, a thread in Rust code, and as that has the GIL there is but one: the
thread would wait for itself, and holds a mutex it locks again only below a registered class. So all wait
for workers, and a worker waits for nobody but the registry.

**Paths of branches.** `KnownIsReal` and `ConditionIsTheLast` are inductive together (`PathInv`), with
the same said of the forks that wait for the end of the round. The end of the round is the
hard step: it drops the branches that finished and numbers the forks, so that a branch moves to
another position, and its path is found under its id. `IdInv` has the ids apart and at most
`total`. What `Sublist` (the code's `retain`) leaves, at whatever positions, needs induction:
`SetInduction` does it over a set of numbers, as the installed provers cannot instantiate the
library's theorem with its operator parameter; `UptoExists` gives the recursive function, and
`SublistPicks` says that its value is a selection, each kept element once. An array copy writes
to the register the array was made in, and only if that is the one passed is the path still
`plain`.

**Calls of executions.** `CallsAreExact` speaks of the time between rounds. In the middle of one
there is a set `D` of instructions that were met (`MetInv`): it starts as what executions reached in
one instruction less and grows to what they reach now. Every call noted is one of `D`, and every
branch and fork stands at a successor of an instruction in `D` or at one reached before. For the
other direction (`AllMet`), each address reached is in `D` or a branch that still has its turn stands
there. A test passed the second time forks nothing, as its jump was forked at the first: `already`
is within `D`.

Model-checked only: all liveness (`CallsReturn` of the debugger and of registered classes,
`TimedCallsReturn`, `CloseReleasesCalls`, `DiscoveryEnds`, `FlowEnds`), which rests on fairness.

## 10. Not modelled

- In the debugger: byte layouts of packets and values (a value is readable or not), the
  contents of classes beyond their methods' sizes, printing.
- In the virtual machine: panics (division by zero, text that is no Base64, slices out of bounds),
  identifiers of heap objects that collide, linking methods across dex files. `fill-array-data`
  changes no kind of value and is a `"nop"`. Its other clients (the Python `VM`, the static
  analysis, the script engine) use a subset of the calls discovery makes. `skip_over` has no
  caller.
- In the instruction flow: strings, bytes and characters; remainder, shifts and bit
  operators; division by a literal zero, at which the analysis panics; the width of what is computed,
  which is 128 bits in the code, and 32 or 64 in a method; wide registers as pairs; `try_get_value`, by which the Python layer runs a call
  in the virtual machine to learn an operand. The search for static writes is left out: it
  finds nothing, since stores set nothing. A reset to another address than 0 executes nothing
  (`Reset` is in the model); searches begin at 0.
- In the static flow: the names of types and the positions of parameters, which are only
  displayed; and the index of a method that is exactly the number of methods, which the checks of
  `flow.rs:212` and `326` (`method as usize > f.methods.len()`) let through to a panic. The dex
  format has no such index.
- Dynamic discovery notes values as kinds; how nodes are worded is left out. Every call of a
  built-in consults the registry of dynamic classes, which is empty during discovery unless
  Python code registered classes; `RegisteredClasses` models that on its own.
- Of the graph: the older graph over single methods (`build_graph`) and the Graphviz output.
- Extraction of archives in archives, which goes one after the other into the same lists; zip,
  resources, the manifest, and the decoding of dex files, instructions and LEB128, which are
  functions of bytes; of these the literals of constants and of arithmetic are in `InstructionFlow`, since its
  answers depend on them.
- The cache of loaded classes (section 2), which nothing reaches.
- Of the Python bindings: everything but machines and registered classes wraps searches over
  parsed files, without state that changes over steps. The same goes for the query layer, the data
  model, the scripting glue and the macros.
