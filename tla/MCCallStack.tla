---------------------------- MODULE MCCallStack ----------------------------
(* A small machine for CallStack: one script function with a parameter and   *)
(* a variable, one C++ function without arguments and one global.            *)
EXTENDS CallStack

MCParams == [f \in Function |-> IF f \in ScriptFunction THEN 1 ELSE 0]
MCLocals == [f \in Script |-> 1]
=============================================================================
