-------------------------- MODULE RegisteredClasses --------------------------
(***************************************************************************)
(* Virtual machines that Python threads share, and the classes that Python *)
(* registers with all of them (vm.rs and analysis.rs of coeus-python,      *)
(* dynamic_runtime.rs of coeus_emulation).                                 *)
(*                                                                         *)
(* There are four locks.  Python's own, the GIL, is held by all Rust code  *)
(* that Python calls, since none of it gives the GIL up; Python code may   *)
(* lose it between any two of its steps.  A machine has a mutex, held for  *)
(* a call.  The registry of classes has one for all machines: an invoke of *)
(* a method that no dex file has takes it, and keeps it while the method   *)
(* of a registered class runs, which is Python code again.  A DexVm object *)
(* is borrowed by the methods that change it.  Mutexes that are held when  *)
(* a panic unwinds are poisoned.                                           *)
(*                                                                         *)
(* A call is what it invokes: a sequence of library classes.               *)
(***************************************************************************)
EXTENDS Integers, SequencesExt

CONSTANTS
  Threads,       \* Python's threads
  Workers,       \* rayon's
  Vms,           \* DexVm objects, a machine each
  Classes,       \* classes of the library
  Bodies,        \* what a call may invoke
  MaxCalls       \* calls that Python makes

VARIABLES
  gil,                        \* the thread that has the GIL
  stack,                      \* the calls under way: of Python into Rust, and back
  owner, poisoned,            \* the machines' mutexes
  borrowed,                   \* the DexVm objects that are borrowed for a change
  registry, broken,           \* the mutex of VM_DYNAMIC_BUILTINS, and whether it is poisoned
  registered,                 \* the classes in it
  written,                    \* who wrote a machine's return_reg
  answered,                   \* the last call answered
  calls                       \* counts calls, for the bound

vars == <<gil, stack, owner, poisoned, borrowed, registry, broken, registered, written, answered, calls>>

Free   == "free"
NoVm   == "none"
Agents == Threads \cup Workers
ASSUME Distinct == Threads \cap Workers = {} /\ Free \notin Agents /\ NoVm \notin Vms
ASSUME BodiesAssumption == Bodies \subseteq Seq(UNION {Range(b) : b \in Bodies})

(***************************************************************************)
(* Calls                                                                   *)
(***************************************************************************)
\* Run code: Method.__call__, FunctionCall.execute, DexField.try_get_value,
\* Method.find_all_branch_decisions.
Runners == {"call", "execute", "clinit", "decisions"}
\* Look at a machine: get_heap and its like; get_static_field; a DexClassObject's fields.
Readers == {"show", "field", "look"}
Mutating == Runners \cup {"array", "register"}

Frame(op, v, body, stage) == [op |-> op, vm |-> v, body |-> body, stage |-> stage]
Python(a)  == stack[a] # <<>> => Last(stack[a]).op = "python"
Runs(t)    == t = gil /\ Python(t)
At(a, stage) == ~Python(a) /\ Last(stack[a]).stage = stage
top(a)     == Last(stack[a])
Push(a, f) == stack' = [stack EXCEPT ![a] = Append(@, f)]
Pop(a)     == stack' = [stack EXCEPT ![a] = Front(@)]
Become(a, f) == stack' = [stack EXCEPT ![a] = Append(Front(@), f)]

Init ==
  /\ gil \in Threads
  /\ stack = [a \in Agents |-> <<>>]
  /\ owner = [v \in Vms |-> Free] /\ poisoned = [v \in Vms |-> FALSE]
  /\ borrowed = [v \in Vms |-> FALSE]
  /\ registry = Free /\ broken = FALSE /\ registered = {}
  /\ written = [v \in Vms |-> "nobody"]
  /\ answered = [op |-> "none", stale |-> FALSE]
  /\ calls = 0

Locks == <<owner, poisoned, registry, broken, registered>>
Calling == calls < MaxCalls /\ calls' = calls + 1

\* Python calls a method.  The DexVm object is borrowed if the method may change it; if it is
\* borrowed already the call is refused, by an exception or a panic that unwinds nothing yet.
Begin(t, op, v, body) ==
  /\ Runs(t) /\ Calling
  /\ IF borrowed[v] /\ op # "look" THEN UNCHANGED <<stack, borrowed>>
     ELSE /\ Push(t, Frame(op, v, body, IF op = "register" THEN "registry" ELSE "lock"))
          /\ borrowed' = IF op \in Mutating THEN [borrowed EXCEPT ![v] = TRUE] ELSE borrowed
  /\ UNCHANGED <<gil, Locks, written, answered>>

\* Between two steps of Python code another thread gets the GIL.
Switch(t) ==
  /\ Python(gil) /\ Python(t) /\ gil # t
  /\ gil' = t
  /\ UNCHANGED <<stack, borrowed, Locks, written, answered, calls>>

\* Faulty variant: any call ends the borrow.
GivenBackByAny(f) == [borrowed EXCEPT ![f.vm] = FALSE]
\* The borrow ends with the call.
GivenBack(f) == IF f.op \in Mutating THEN [borrowed EXCEPT ![f.vm] = FALSE] ELSE borrowed

(***************************************************************************)
(* A machine's mutex                                                       *)
(***************************************************************************)
\* A poisoned mutex is not waited for again: the call fails, with an error or a panic.
Refused(t) ==
  /\ At(t, "lock") /\ owner[top(t).vm] = Free /\ poisoned[top(t).vm]
  /\ Pop(t) /\ borrowed' = GivenBack(top(t))
  /\ UNCHANGED <<gil, Locks, written, answered, calls>>

\* A FunctionCall of a library method does not go through start() and finds what an earlier
\* call left in return_reg.
LeftOver(v) == IF written[v] = "nobody" THEN "nobody" ELSE "an earlier call"
\* Faulty variant: start() leaves return_reg as it is.
StartedOver(v) == LeftOver(v)
\* start() begins with an empty return_reg.
Started(v) == "nobody"
LockVm(t) ==
  /\ At(t, "lock") /\ top(t).op \in Runners
  /\ owner[top(t).vm] = Free /\ ~poisoned[top(t).vm]
  /\ owner' = [owner EXCEPT ![top(t).vm] = t]
  /\ Become(t, [top(t) EXCEPT !.stage = "run"])
  /\ \E started \in BOOLEAN :
       /\ top(t).op \in {"call", "clinit"} => started
       /\ ~started => Len(top(t).body) = 1
       /\ written' = [written EXCEPT ![top(t).vm] =
            IF started THEN Started(top(t).vm) ELSE LeftOver(top(t).vm)]
  /\ UNCHANGED <<gil, borrowed, poisoned, registry, broken, registered, answered, calls>>

\* The mutex is taken and given back in one step: a reader copies what it came for.
Read(t) ==
  /\ At(t, "lock") /\ top(t).op \in Readers
  /\ owner[top(t).vm] = Free /\ ~poisoned[top(t).vm]
  /\ Pop(t) /\ borrowed' = GivenBack(top(t))
  /\ UNCHANGED <<gil, Locks, written, answered, calls>>

(***************************************************************************)
(* Invokes of library methods                                              *)
(***************************************************************************)
Invoke(a) ==
  /\ At(a, "run") /\ top(a).body # <<>>
  /\ Become(a, [top(a) EXCEPT !.stage = "registry"])
  /\ UNCHANGED <<gil, borrowed, Locks, written, answered, calls>>

Writes(a) == IF top(a).vm = NoVm THEN written ELSE [written EXCEPT ![top(a).vm] = "this call"]
Onward(a) == [top(a) EXCEPT !.stage = "run", !.body = Tail(@)]

\* Faulty variant: a poisoned registry is tried again.
IsUnregistered(a) == ~broken /\ Head(top(a).body) \notin registered
\* The built-in class answers if the registry is poisoned or does not have the class.
IsBuiltin(a) == broken \/ Head(top(a).body) \notin registered
Builtin(a) ==
  /\ At(a, "registry") /\ top(a).op # "register" /\ registry = Free
  /\ IsBuiltin(a)
  /\ Become(a, Onward(a))
  /\ written' \in {written, Writes(a)}
  /\ UNCHANGED <<gil, borrowed, Locks, answered, calls>>

\* The registered class's method is called with the registry locked: a Python thread has the
\* GIL already; a worker waits for it, which the thread that waits for the workers holds.
Callback(a) ==
  /\ At(a, "registry") /\ top(a).op # "register" /\ registry = Free
  /\ ~broken /\ Head(top(a).body) \in registered
  /\ registry' = a
  /\ IF a \in Workers THEN Become(a, [top(a) EXCEPT !.stage = "gil"])
     ELSE Push(a, Frame("python", NoVm, <<>>, "python"))
  /\ UNCHANGED <<gil, borrowed, owner, poisoned, broken, registered, written, answered, calls>>

\* The call below the Python code at the top.
Caller(t) == stack[t][Len(stack[t]) - 1]
Below(t)  == SubSeq(stack[t], 1, Len(stack[t]) - 2)
InCallback(t) == Runs(t) /\ stack[t] # <<>>

\* UnsafeContext.set_result
SetResult(t) ==
  /\ InCallback(t)
  /\ written' = [written EXCEPT ![Caller(t).vm] = "this call"]
  /\ UNCHANGED <<gil, stack, borrowed, Locks, answered, calls>>

Return(t) ==
  /\ InCallback(t)
  /\ registry' = Free
  /\ stack' = [stack EXCEPT ![t] = Append(Below(t), [Caller(t) EXCEPT !.stage = "run", !.body = Tail(@)])]
  /\ UNCHANGED <<gil, borrowed, owner, poisoned, broken, registered, written, answered, calls>>

\* Faulty variant: the unwinding is caught before it leaves the machine.
UnwindsNoMachine(v) == poisoned
Unwinds(v) == [poisoned EXCEPT ![v] = TRUE]
\* An exception of the method is unwrapped: the panic goes through the registry and the
\* machine, and is an exception again in the Python code that called.
Raise(t) ==
  /\ InCallback(t)
  /\ registry' = Free /\ broken' = TRUE
  /\ owner' = [owner EXCEPT ![Caller(t).vm] = Free]
  /\ poisoned' = Unwinds(Caller(t).vm)
  /\ borrowed' = GivenBack(Caller(t))
  /\ stack' = [stack EXCEPT ![t] = Below(t)]
  /\ UNCHANGED <<gil, registered, written, answered, calls>>

\* register_class; on a poisoned registry it panics.
Register(t) ==
  /\ At(t, "registry") /\ top(t).op = "register" /\ registry = Free
  /\ registered' = IF broken THEN registered ELSE registered \cup Range(top(t).body)
  /\ Pop(t) /\ borrowed' = GivenBack(top(t))
  /\ UNCHANGED <<gil, owner, poisoned, registry, broken, written, answered, calls>>

(***************************************************************************)
(* The end of a call                                                       *)
(***************************************************************************)
Released(t) == owner' = [owner EXCEPT ![top(t).vm] = Free]
Ended(t) == At(t, "run") /\ t \in Threads /\ top(t).body = <<>>

\* Faulty variant: try_get_value has the mutex locked when it calls get_static_field.
KeepsLocked(t) == UNCHANGED owner
Dropped(t) == Released(t)
\* The initialiser has run: the mutex is given back, and taken again to read the field.
ThenField(t) ==
  /\ Ended(t) /\ top(t).op = "clinit"
  /\ Dropped(t)
  /\ stack' = [stack EXCEPT ![t] = Append(Append(Front(@), Frame("clinit_done", top(t).vm, <<>>, "result")),
                                          Frame("field", top(t).vm, <<>>, "lock"))]
  /\ UNCHANGED <<gil, borrowed, poisoned, registry, broken, registered, written, answered, calls>>
FieldRead(t) ==
  /\ At(t, "result")
  /\ Pop(t) /\ borrowed' = [borrowed EXCEPT ![top(t).vm] = FALSE]
  /\ UNCHANGED <<gil, Locks, written, answered, calls>>

Answer(t) ==
  /\ Ended(t) /\ top(t).op # "clinit"
  /\ Released(t) /\ Pop(t) /\ borrowed' = GivenBack(top(t))
  /\ answered' = [op |-> top(t).op, stale |-> written[top(t).vm] = "an earlier call"]
  /\ UNCHANGED <<gil, poisoned, registry, broken, registered, written, calls>>

\* The machine fails, here or after any invoke.
Failing(t) == At(t, "run") /\ t \in Threads
Fail(t) ==
  /\ Failing(t) /\ top(t).op # "execute"
  /\ Released(t) /\ Pop(t) /\ borrowed' = GivenBack(top(t))
  /\ UNCHANGED <<gil, poisoned, registry, broken, registered, written, answered, calls>>
\* execute unwraps the failure; __call__ reads a result that the heap does not have, as it
\* is for a method that returns its receiver.
Panic(t) ==
  /\ \/ Failing(t) /\ top(t).op = "execute"
     \/ Ended(t) /\ top(t).op = "call"
  /\ poisoned' = Unwinds(top(t).vm)
  /\ Released(t) /\ Pop(t) /\ borrowed' = GivenBack(top(t))
  /\ UNCHANGED <<gil, registry, broken, registered, written, answered, calls>>

(***************************************************************************)
(* find_all_branch_decisions_array                                         *)
(***************************************************************************)
\* The machine is copied, with its mutex held for that long, and each worker gets a copy.
Spread(t) ==
  /\ At(t, "lock") /\ top(t).op = "array"
  /\ owner[top(t).vm] = Free /\ ~poisoned[top(t).vm]
  /\ stack' = [a \in Agents |->
       IF a \in Workers THEN <<Frame("decisions", NoVm, top(t).body, "run")>>
       ELSE IF a = t THEN Append(Front(stack[a]), [top(t) EXCEPT !.stage = "join"]) ELSE stack[a]]
  /\ UNCHANGED <<gil, borrowed, Locks, written, answered, calls>>
WorkerEnds(w) ==
  /\ At(w, "run") /\ w \in Workers /\ top(w).body = <<>>
  /\ Pop(w)
  /\ UNCHANGED <<gil, borrowed, Locks, written, answered, calls>>
Join(t) ==
  /\ At(t, "join") /\ \A w \in Workers : stack[w] = <<>>
  /\ Pop(t) /\ borrowed' = GivenBack(top(t))
  /\ UNCHANGED <<gil, Locks, written, answered, calls>>

(***************************************************************************)
(* Next                                                                    *)
(***************************************************************************)
Rust(a) ==
  \/ Refused(a) \/ LockVm(a) \/ Read(a)
  \/ Invoke(a) \/ Builtin(a) \/ Callback(a) \/ Register(a)
  \/ ThenField(a) \/ FieldRead(a) \/ Answer(a) \/ Fail(a) \/ Panic(a)
  \/ Spread(a) \/ WorkerEnds(a) \/ Join(a)
Begins(t) ==
  \/ \E op \in Runners \cup {"array"}, v \in Vms, body \in Bodies : Begin(t, op, v, body)
  \/ \E op \in Readers, v \in Vms : Begin(t, op, v, <<>>)
  \/ \E v \in Vms, c \in Classes : Begin(t, "register", v, <<c>>)

Next ==
  \/ \E t \in Threads : Begins(t) \/ Switch(t) \/ SetResult(t) \/ Return(t) \/ Raise(t)
  \/ \E a \in Agents : Rust(a)

\* Rust code goes on; Python code returns sooner or later if it gets the GIL again and again,
\* and its interpreter hands the GIL round.
Fairness ==
  /\ \A a \in Agents : WF_vars(Rust(a))
  /\ \A t \in Threads : WF_vars(Switch(t)) /\ SF_vars(Return(t) \/ Raise(t))

Spec == Init /\ [][Next]_vars
FairSpec == Spec /\ Fairness

(***************************************************************************)
(* Properties                                                              *)
(***************************************************************************)
\* Whom an agent waits for.  Python code without the GIL waits for the thread that has it.
WaitsFor(a) ==
  IF Python(a) THEN IF a \in Threads /\ stack[a] # <<>> THEN {gil} \ {a} ELSE {}
  ELSE CASE top(a).stage = "lock"     -> {owner[top(a).vm]} \ {Free}
         [] top(a).stage = "registry" -> {registry} \ {Free}
         [] top(a).stage = "join"     -> {w \in Workers : stack[w] # <<>>}
         [] top(a).stage = "gil"      -> {gil}
         [] OTHER                     -> {}
\* The transitive closure: b is in every set that has those a waits for and whom they wait for.
Closed(S) == \A c \in S : WaitsFor(c) \subseteq S
Waits(a, b) == \A S \in SUBSET Agents : Closed(S) /\ WaitsFor(a) \subseteq S => b \in S
Deadlocked(a) == Waits(a, a)
InPythonMethod(a) == \E i \in DOMAIN stack[a] : stack[a][i].op = "python" \/ stack[a][i].stage = "gil"

\* The mutexes alone cannot deadlock: where agents wait in a circle, one of them is in the
\* method of a registered class, or about to run it.
CirclesNeedCallbacks ==
  \A a \in Agents : Deadlocked(a) => \E b \in Agents : Waits(a, b) /\ Waits(b, a) /\ InPythonMethod(b)

\* However calls end, mutexes and borrows are held by the calls under way that took them, and
\* by nothing else.
Holding(f, v) == f.vm = v /\ f.op \in Runners /\ f.stage \in {"run", "registry"}
Frames(a) == Range(stack[a])
HeldAsLongAsNeeded ==
  /\ \A v \in Vms, a \in Agents : owner[v] = a <=> \E f \in Frames(a) : Holding(f, v)
  /\ \A v \in Vms : borrowed[v] <=>
       \E a \in Agents : \E f \in Frames(a) : f.vm = v /\ f.op \in Mutating \cup {"clinit_done"}
  /\ \A a \in Agents : registry = a <=> InPythonMethod(a)

\* A registry that a failing class has poisoned leaves a poisoned machine behind, too: who
\* goes on with the machines that work gets the built-in classes instead.
PoisonedTogether == broken => \E v \in Vms : poisoned[v]

\* A method that is called answers with its own result.  Only a library method that is
\* executed by itself may answer with what an earlier call left, if it writes none.
CallsAnswerAnew == answered.stale => answered.op \in {"execute", "decisions"}

\* A call returns, unless it waits in a circle or for one that does.
Stuck(t) == \E a \in Agents : Deadlocked(a) /\ (a = t \/ Waits(t, a))
CallsReturn == \A t \in Threads : stack[t] # <<>> ~> (stack[t] = <<>> \/ Stuck(t))
=============================================================================
