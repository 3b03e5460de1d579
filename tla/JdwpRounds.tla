----------------------------- MODULE JdwpRounds -----------------------------
(***************************************************************************)
(* The conversation the JDWP client of coeus_debug holds with a device.    *)
(*                                                                         *)
(* Every method of JdwpClient is a series of rounds: one command packet is *)
(* sent, one packet is taken from the reader channel and looked at.  The   *)
(* rounds differ in four things only, and those are what a round is here:  *)
(*                                                                         *)
(*   timed    the packet is awaited with wait_for_package, which gives up  *)
(*            after ten seconds; otherwise with rx.recv(), which does not; *)
(*   onEvent  what the method does when the packet is not a reply: it      *)
(*            returns an error ("fail"), hits panic! ("panic"), or returns *)
(*            an empty result as if all were well ("empty");               *)
(*   reads    the data of the reply is parsed.  An error reply carries no  *)
(*            data, so such a round fails on it; a round that does not     *)
(*            read accepts every reply;                                    *)
(*   skip     the caller drops the failure of this round and goes on.      *)
(***************************************************************************)
EXTENDS Naturals, Sequences

CONSTANTS
  RegisterSize,  \* registers of the method whose frame is inspected
  TypeCount      \* type tags get_values tries for a register (11 in the code)

ASSUME SizesAssumption == RegisterSize \in Nat /\ TypeCount \in Nat \ {0}

Round(cmd, timed, onEvent, reads, skip) ==
  [cmd |-> cmd, timed |-> timed, onEvent |-> onEvent, reads |-> reads, skip |-> skip]

-----------------------------------------------------------------------------
(* The rounds of jdwp.rs and of the frame and thread types of models.rs.   *)

\* Faulty variants: a breakpoint's error code is not looked at; the top frame is
\* awaited without a timeout.
SetBreakpointUnchecked == Round("breakpoint", TRUE, "fail", FALSE, FALSE)
TopFrameUntimed        == Round("frames", FALSE, "fail", TRUE, FALSE)

IdSizes          == Round("id_sizes",      FALSE, "fail",  TRUE,  FALSE)
Version          == Round("version",       TRUE,  "fail",  TRUE,  FALSE)
ClassBySignature == Round("class",         TRUE,  "fail",  TRUE,  FALSE)
AllClasses       == Round("all_classes",   TRUE,  "fail",  TRUE,  FALSE)
Methods          == Round("methods",       FALSE, "fail",  TRUE,  FALSE)
VariableTable    == Round("var_table",     TRUE,  "panic", TRUE,  TRUE)
SetBreakpoint    == Round("breakpoint",    TRUE,  "fail",  TRUE,  FALSE)
Resume           == Round("resume",        TRUE,  "fail",  FALSE, FALSE)
Step             == Round("step",          TRUE,  "fail",  TRUE,  FALSE)
ClearStep        == Round("clear_step",    TRUE,  "fail",  FALSE, TRUE)
TopFrame         == Round("frames",        TRUE,  "fail",  TRUE,  FALSE)
FrameValue       == Round("values",        TRUE,  "fail",  TRUE,  FALSE)
SetFrameValue    == Round("set_value",     TRUE,  "fail",  FALSE, FALSE)
ReferenceType    == Round("ref_type",      TRUE,  "fail",  TRUE,  FALSE)
ObjectSignature  == Round("signature",     FALSE, "fail",  TRUE,  FALSE)
FieldIds         == Round("fields",        TRUE,  "panic", TRUE,  FALSE)
FieldValues      == Round("field_values",  TRUE,  "fail",  TRUE,  FALSE)
StringValue      == Round("string",        FALSE, "empty", TRUE,  FALSE)
CreateString     == Round("create_string", FALSE, "fail",  TRUE,  FALSE)
ArrayLength      == Round("array_length",  FALSE, "fail",  TRUE,  FALSE)
ArrayValues      == Round("array_values",  FALSE, "fail",  TRUE,  FALSE)

Rounds ==
  {IdSizes, Version, ClassBySignature, AllClasses, Methods, VariableTable,
   SetBreakpoint, Resume, Step, ClearStep, TopFrame, FrameValue, SetFrameValue,
   ReferenceType, ObjectSignature, FieldIds, FieldValues, StringValue,
   CreateString, ArrayLength, ArrayValues}

Commands == {r.cmd : r \in Rounds}

\* A reply to one of these carries no data even when it reports success.
NoDataCommands == {"resume", "clear_step", "set_value"}

-----------------------------------------------------------------------------
(* The rounds each call of the Python Debugger (or of the Rust client)     *)
(* starts with.  Rounds that depend on an answer are inserted when the     *)
(* answer arrives: see Inserted.  Debugger.wait_for_package starts with no *)
(* round at all, it first waits for an event.                              *)

NewClient      == <<IdSizes, Version>>
GetVersionInfo == <<Version>>
GetAllClasses  == <<AllClasses>>
BreakAt        == <<ClassBySignature, SetBreakpoint>>
ResumeVm       == <<Resume>>
StepOver       == <<Step>>
FrameValues    == [i \in 1 .. RegisterSize |-> FrameValue]
WriteRegister  == <<SetFrameValue>>
ObjectValue    == <<ReferenceType, ObjectSignature, FieldIds>>
StringOf       == <<StringValue>>
ArrayOf        == <<ArrayLength, ArrayValues>>
NewString      == <<CreateString>>
ClassName      == <<ObjectSignature>>
MethodName     == <<ObjectSignature, ClassBySignature>>
FrameCode      == <<ObjectSignature, ObjectSignature, ClassBySignature>>

CallRounds ==
  [new             |-> NewClient,      get_version_info |-> GetVersionInfo,
   get_all_classes |-> GetAllClasses,  set_breakpoint   |-> BreakAt,
   resume          |-> ResumeVm,       step             |-> StepOver,
   get_values      |-> FrameValues,    set_value        |-> WriteRegister,
   get_object      |-> ObjectValue,    get_string       |-> StringOf,
   get_array       |-> ArrayOf,        new_string       |-> NewString,
   get_class_name  |-> ClassName,      get_method_name  |-> MethodName,
   get_code        |-> FrameCode]

CallNames == DOMAIN CallRounds

\* These are methods of a stack frame or of a value read from one.
FrameCalls ==
  {"step", "get_values", "set_value", "get_object", "get_string", "get_array",
   "get_class_name", "get_method_name", "get_code"}

\* These fail with "Class not yet loaded" or "No class found" on an empty answer.
NeedsClass == {"set_breakpoint", "get_method_name", "get_code"}

\* Rounds an accepted answer adds in front of the remaining ones: the methods of
\* every class, the variable table of every method, the values of the fields.
Inserted(r, v) ==
  CASE r.cmd \in {"class", "all_classes"} -> [i \in 1 .. v |-> Methods]
    [] r.cmd = "methods"                  -> [i \in 1 .. v |-> VariableTable]
    [] r.cmd = "fields" /\ v > 0          -> <<FieldValues>>
    [] OTHER                              -> <<>>
=============================================================================
