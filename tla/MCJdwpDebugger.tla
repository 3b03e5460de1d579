--------------------------- MODULE MCJdwpDebugger ---------------------------
(***************************************************************************)
(* Call sets for model-checking JdwpDebugger.                              *)
(***************************************************************************)
EXTENDS JdwpDebugger

\* The event loop of examples/debugger_test: break, wait, look, step, resume.
EventLoopCalls == {"set_breakpoint", "resume", "step"}

\* Looking at a stopped frame: registers, and what they refer to.
InspectionCalls ==
  {"set_breakpoint", "get_values", "set_value", "get_object", "get_string", "get_array",
   "get_method_name"}
AllCalls == EventLoopCalls \cup InspectionCalls

\* A call of each kind: with a timeout only, without one, mixed.
ReturnCalls == {"set_breakpoint", "get_string"}
=============================================================================
