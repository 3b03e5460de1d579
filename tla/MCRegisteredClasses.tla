------------------------- MODULE MCRegisteredClasses -------------------------
(***************************************************************************)
(* Two threads, a worker and two machines for model-checking               *)
(* RegisteredClasses.  Class K may be registered, L may not.               *)
(***************************************************************************)
EXTENDS RegisteredClasses

SomeBodies == {<<>>, <<"K">>, <<"K", "L">>}
=============================================================================
