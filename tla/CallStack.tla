----------------------------- MODULE CallStack -----------------------------
(***************************************************************************)
(* The stacks of the virtual machine (core/vm/CVirtualMachine.cpp) under   *)
(* calls: the value stack, the strings of a statement, the open scopes and *)
(* the call level idxCurrentStack, all shared by every activation.         *)
(*                                                                         *)
(* An activation is a run of execute_internal: of main, of a script        *)
(* function or of a C++ function.  A script function is entered by CALL or *)
(* as a metamethod; C++ code, the host's or a C++ function's that a script *)
(* called, enters one through execute, so that script and C++ alternate on *)
(* the C++ stack.  An error returns through the activations up to such an  *)
(* execute, which dumps the machine's stacks, whoever else still runs on   *)
(* them, and tells its C++ caller, which may ignore that, call execute     *)
(* again, or throw as the functions of bind_function do.                   *)
(*                                                                         *)
(* `dead`, `disturbed`, `clobbered`, `asked` and `outcome` are history.    *)
(***************************************************************************)
EXTENDS Integers, FiniteSets

CONSTANTS
    Main,            \* the main function,
    ScriptFunction,  \* the other functions of the script,
    NativeFunction,  \* and those registered from C++
    Params,          \* [function -> number of parameters]
    Locals,          \* [function -> number of variables]; main's are the globals
    MaxCalls,        \* MAX_FUNCTION_CALL
    MaxScopes,       \* VM_MAX_SCOPES
    StackSize,       \* VM_LOCAL_VAR_MAX_STACK
    StringSlots,     \* VM_MAX_AUX_STRINGS
    MaxDepth,        \* bound of the model: activations, the dumped ones included
    MaxOperands      \* bound of the model: operands of a statement

Function == {Main} \cup ScriptFunction \cup NativeFunction
Script   == {Main} \cup ScriptFunction

ASSUME FunctionAssumption ==
    Main \notin ScriptFunction /\ NativeFunction \cap Script = {}
ASSUME SizeAssumption ==
    /\ Params \in [Function -> Nat] /\ Locals \in [Script -> Nat]
    /\ Params[Main] = 0
ASSUME LimitAssumption ==
    /\ {MaxCalls, MaxScopes, StackSize, StringSlots, MaxDepth, MaxOperands} \subseteq Nat \ {0}
    /\ Locals[Main] < StackSize
VARIABLES
    mode,             \* "idle", "run", "fail" (RETURN_ERROR), "thrown" (a C++
                      \* exception) or "exited" (exit(EXIT_FAILURE))
    depth,            \* activations on the C++ stack
    frame,            \* the variables of each
    idxCurrentStack, ptrCurrentOp, ptrCurrentStr,
    scope_info, current_scope_info_ptr, cancel_execution,
    held,             \* the slots of stkString that a statement's operands hold
    dead,             \* the activations 1..dead lost their scopes in a dump
    disturbed,        \* those that a nested script run interrupted
    clobbered,        \* those that lost a string another one wrote over
    asked,            \* a C++ function that CALL runs asked to cancel
    outcome           \* of the host's last execute: "none", "ok" or "error"

stackVars   == <<idxCurrentStack, ptrCurrentOp, ptrCurrentStr,
                 scope_info, current_scope_info_ptr>>
historyVars == <<dead, disturbed, clobbered>>
hostVars    == <<cancel_execution, asked, outcome>>
vars == <<mode, depth, frame, stackVars, held, historyVars, hostVars>>

Depths == 1..MaxDepth

\* low..base-1 are the arguments, base..start-1 the variables, the operands
\* follow; a C++ function has neither, and start is what it found.  The cells
\* below kept are the caller's operands, and keeps its strings, after the call;
\* scopes is ptrStartScopeInfo, or where main and C++ found the top.
NoFrame == [fun |-> Main, by |-> "none", low |-> 0, base |-> 0, start |-> 0,
            kept |-> 0, strings |-> 0, keeps |-> {}, scopes |-> 0]

Init ==
    /\ mode = "idle"
    /\ depth = 0
    /\ frame = [i \in Depths |-> NoFrame]
    /\ idxCurrentStack = 0 /\ ptrCurrentOp = 0 /\ ptrCurrentStr = 0
    /\ scope_info = [k \in 0..MaxScopes - 1 |-> 0]
    /\ current_scope_info_ptr = 0
    /\ cancel_execution = FALSE
    /\ held = [i \in Depths |-> {}]
    /\ dead = 0 /\ disturbed = {} /\ clobbered = {}
    /\ asked = FALSE /\ outcome = "none"

-----------------------------------------------------------------------------
(* Entering a function.                                                     *)

top     == frame[depth]
Runs(F) == mode = "run" /\ depth > 0 /\ top.fun \in F

\* Mutant of ScopesAreFull: the last entry of scope_info is used as well.
ScopesFillUp  == current_scope_info_ptr >= MaxScopes
ScopesAreFull == current_scope_info_ptr >= MaxScopes - 1
PUSH_SCOPE(owner) ==
    /\ scope_info' = [scope_info EXCEPT ![current_scope_info_ptr] = owner]
    /\ current_scope_info_ptr' = current_scope_info_ptr + 1
\* The entries from the pointer on are never read; the model clears them.
PopScopes(left) ==
    /\ current_scope_info_ptr' = left
    /\ scope_info' = [k \in 0..MaxScopes - 1 |-> IF k < left THEN scope_info[k] ELSE 0]
scopeVars == <<scope_info, current_scope_info_ptr>>

\* Mutant of Activation: every function's strings start at the first slot.
FirstStrings(fun, by, base, n, kept, keeps, strings) ==
    [fun |-> fun, by |-> by, low |-> base - n, base |-> base,
     start |-> IF fun \in NativeFunction THEN ptrCurrentOp' ELSE base + Locals[fun],
     kept |-> kept, keeps |-> keeps, strings |-> 0,
     scopes |-> current_scope_info_ptr + IF fun \in ScriptFunction THEN 1 ELSE 0]

\* A function that gets n arguments with its base at a cell of the stack.  What
\* lies below kept, and the strings in keeps, are the caller's after the call.
Activation(fun, by, base, n, kept, keeps, strings) ==
    [fun |-> fun, by |-> by, low |-> base - n, base |-> base,
     start |-> IF fun \in NativeFunction THEN ptrCurrentOp' ELSE base + Locals[fun],
     kept |-> kept, keeps |-> keeps, strings |-> strings,
     scopes |-> current_scope_info_ptr + IF fun \in ScriptFunction THEN 1 ELSE 0]

Push(f) ==
    /\ depth < MaxDepth     \* bound of the model
    /\ depth' = depth + 1
    /\ frame' = [frame EXCEPT ![depth + 1] = f]

Exit == mode' = "exited" /\ UNCHANGED <<depth, frame, idxCurrentStack, scopeVars>>

\* call_C_function: the arguments convert, or the level is given back at once.
EnterNative(f) ==
    /\ \/ mode' = "run" /\ idxCurrentStack' = idxCurrentStack + 1
       \/ mode' = "fail" /\ UNCHANGED idxCurrentStack
    /\ Push(f)
    /\ UNCHANGED scopeVars

\* main has no scope of its own.  The limit of the scopes is an error of the
\* callee at its own level; the limit of the cells leaves the process.
EnterScript(f) ==
    LET scoped == f.fun # Main
        failed == scoped /\ ScopesAreFull
    IN  IF ~failed /\ f.base + (f.base - f.low) + Locals[f.fun] >= StackSize
        THEN Exit
        ELSE /\ mode' = IF failed THEN "fail" ELSE "run"
             /\ idxCurrentStack' = idxCurrentStack + 1
             /\ Push(f)
             /\ IF scoped /\ ~failed THEN PUSH_SCOPE(depth + 1) ELSE UNCHANGED scopeVars

execute_internal(f) ==
    /\ IF idxCurrentStack >= MaxCalls THEN Exit
       ELSE IF f.fun \in NativeFunction THEN EnterNative(f) ELSE EnterScript(f)
    /\ UNCHANGED <<ptrCurrentStr, held, dead, clobbered>>

-----------------------------------------------------------------------------
(* C++ calls a function of the script: the host, or a C++ function that a   *)
(* script called.  Only at level 0 are the stacks set up for a first call.  *)

FirstCell(fun) == IF fun = Main THEN 0 ELSE Locals[Main]

\* Mutant of Found: the stack is set up for each call.
AlwaysFirst(fun) == FirstCell(fun)
Found(fun)       == IF idxCurrentStack = 0 THEN FirstCell(fun) ELSE ptrCurrentOp

\* Mutant of StillCancelled: the request is forgotten for each call.
NeverCancelled == FALSE
StillCancelled == cancel_execution /\ idxCurrentStack > 0

Execute(fun) ==
    LET found == Found(fun)
        base  == found + Params[fun]
    IN  /\ mode = "idle" \/ Runs(NativeFunction)
        /\ base <= StackSize     \* bound of the model: arguments overrun the stack
        /\ ptrCurrentOp' = base
        /\ cancel_execution' = StillCancelled
        /\ execute_internal(Activation(fun, "execute", base, Params[fun], found, {}, 0))
        /\ disturbed' = IF fun \in Script THEN 1..depth ELSE disturbed
        /\ asked' = (asked /\ depth > 0)
        /\ outcome' = IF depth > 0 THEN outcome ELSE "none"

-----------------------------------------------------------------------------
(* Instructions of the script function on top.                              *)

Operands == ptrCurrentOp - top.start
runVars  == <<depth, frame, idxCurrentStack, dead, disturbed, hostVars>>

Statement ==
    /\ Runs(Script)
    /\ ptrCurrentOp' = top.start
    /\ ptrCurrentStr' = top.strings
    /\ held' = [held EXCEPT ![depth] = {}]
    /\ UNCHANGED <<mode, scopeVars, clobbered, runVars>>

PushOperand ==
    /\ Runs(Script) /\ Operands \in 0..MaxOperands - 1
    /\ ptrCurrentOp < StackSize     \* bound of the model: operands overrun the stack
    /\ ptrCurrentOp' = ptrCurrentOp + 1
    /\ UNCHANGED <<mode, ptrCurrentStr, scopeVars, held, clobbered, runVars>>

PUSH_STRING ==
    /\ Runs(Script) /\ Operands \in 0..MaxOperands - 1
    /\ ptrCurrentOp < StackSize     \* bound of the model: operands overrun the stack
    /\ IF ptrCurrentStr = StringSlots - 1
       THEN /\ mode' = "fail"
            /\ UNCHANGED <<ptrCurrentOp, ptrCurrentStr, held, clobbered>>
       ELSE /\ ptrCurrentOp' = ptrCurrentOp + 1
            /\ ptrCurrentStr' = ptrCurrentStr + 1
            /\ held' = [held EXCEPT ![depth] = @ \cup {ptrCurrentStr}]
            /\ clobbered' = clobbered \cup {i \in 1..depth : ptrCurrentStr \in held[i]}
            /\ UNCHANGED mode
    /\ UNCHANGED <<scopeVars, runVars>>

\* An instruction takes n operands, the strings in gone among them.
Takes(n, gone) ==
    /\ n <= Operands /\ gone \subseteq held[depth]
    /\ Cardinality(gone) <= n
    /\ Cardinality(held[depth] \ gone) <= Operands - n

Pop(gone) ==
    /\ Runs(Script) /\ Takes(1, gone)
    /\ ptrCurrentOp' = ptrCurrentOp - 1
    /\ held' = [held EXCEPT ![depth] = @ \ gone]
    /\ UNCHANGED <<mode, ptrCurrentStr, scopeVars, clobbered, runVars>>

OpenScope ==
    /\ Runs(Script)
    /\ IF ScopesAreFull THEN mode' = "fail" /\ UNCHANGED scopeVars
                        ELSE PUSH_SCOPE(depth) /\ UNCHANGED mode
    /\ UNCHANGED <<ptrCurrentOp, ptrCurrentStr, held, clobbered, runVars>>

\* The compiler closes the blocks that it opened.
POP_SCOPE ==
    /\ Runs(Script)
    /\ current_scope_info_ptr > top.scopes
    /\ PopScopes(current_scope_info_ptr - 1)
    /\ UNCHANGED <<mode, ptrCurrentOp, ptrCurrentStr, held, clobbered, runVars>>

\* CALL: the function's operand, below n arguments, is where the result goes.
\* A script function gets the arguments that are missing as undefined ones.
CALL(fun, n, gone) ==
    LET missing == IF fun \in Script THEN Params[fun] - n ELSE 0
    IN  /\ Runs(Script) /\ Takes(n + 1, gone)
        /\ n <= Params[fun] /\ (fun \in NativeFunction => n = Params[fun])
        /\ ptrCurrentOp + missing <= StackSize     \* bound of the model
        /\ ptrCurrentOp' = ptrCurrentOp + missing
        /\ execute_internal(Activation(fun, "CALL", ptrCurrentOp + missing, n + missing,
                                       ptrCurrentOp - n - 1, held[depth] \ gone, ptrCurrentStr))
        /\ UNCHANGED <<disturbed, hostVars>>

\* The operator has popped its operands, n of which are the arguments: one of
\* two for the assignment.
APPLY_METAMETHOD(fun, n, popped, gone) ==
    /\ Runs(Script) /\ Takes(popped, gone)
    /\ fun \in NativeFunction => n = Params[fun]
    /\ ptrCurrentOp' = ptrCurrentOp - popped
    /\ execute_internal(Activation(fun, "metamethod", ptrCurrentOp, n,
                                   ptrCurrentOp - popped, held[depth] \ gone, ptrCurrentStr))
    /\ UNCHANGED <<disturbed, hostVars>>

\* Any instruction may end with RETURN_ERROR.
Fail ==
    /\ Runs(Script)
    /\ mode' = "fail"
    /\ UNCHANGED <<stackVars, held, clobbered, runVars>>

-----------------------------------------------------------------------------
(* Leaving a function.                                                      *)

\* What an activation leaves above it on the C++ stack is never read again.
Drop ==
    /\ depth' = depth - 1
    /\ frame' = [frame EXCEPT ![depth] = NoFrame]
    /\ disturbed' = disturbed \ {depth}
    /\ clobbered' = clobbered \ {depth}

\* Back in the code that entered the activation, with a result or without one
\* (a constructor, the assignment) and the string slots that the result holds.
\* CALL looks for a cancellation, metamethods and C++ do not.
Resume(pushed, result) ==
    /\ Drop
    /\ IF top.by = "execute"
       THEN /\ mode' = IF depth = 1 THEN "idle" ELSE "run"
            /\ outcome' = IF depth = 1 THEN "ok" ELSE outcome
            /\ held' = [held EXCEPT ![depth] = {}]
            /\ UNCHANGED ptrCurrentOp
       ELSE /\ mode' = IF top.by = "CALL" /\ cancel_execution THEN "fail" ELSE "run"
            /\ ptrCurrentOp' = top.kept + pushed
            /\ held' = [held EXCEPT ![depth] = {}, ![depth - 1] = top.keeps \cup result]
            /\ UNCHANGED outcome
    /\ UNCHANGED <<ptrCurrentStr, dead, cancel_execution, asked>>

\* Mutant of OwnScopes: the root scope stays.
BlockScopes == top.scopes
OwnScopes   == top.scopes - 1

\* lbl_exit_function: a function pops its scopes, main has closed its own (a
\* return from inside a block of main is the matter of ControlFlow).
Return(pushed, result) ==
    /\ Runs(Script)
    /\ result \subseteq held[depth] /\ Cardinality(result) <= pushed
    /\ top.fun = Main => current_scope_info_ptr = top.scopes
    /\ IF top.fun = Main THEN UNCHANGED scopeVars ELSE PopScopes(OwnScopes)
    /\ idxCurrentStack' = idxCurrentStack - 1
    /\ Resume(pushed, result)

\* Mutant of ReturnNative: the level is not looked at.
LevelNotChecked(pushed) ==
    /\ Runs(NativeFunction)
    /\ idxCurrentStack' = IF idxCurrentStack > 0 THEN idxCurrentStack - 1 ELSE 0
    /\ Resume(pushed, {})
    /\ UNCHANGED scopeVars

\* The C++ function returns; if a dump took its level, an error follows.
ReturnNative(pushed) ==
    /\ Runs(NativeFunction)
    /\ IF idxCurrentStack > 0
       THEN /\ idxCurrentStack' = idxCurrentStack - 1
            /\ Resume(pushed, {})
            /\ UNCHANGED scopeVars
       ELSE /\ mode' = "fail"
            /\ UNCHANGED <<depth, frame, stackVars, held, historyVars, hostVars>>

\* cancelExecution, setError.
Cancel ==
    /\ Runs(NativeFunction)
    /\ cancel_execution' = TRUE
    /\ asked' = (asked \/ top.by = "CALL")
    /\ UNCHANGED <<mode, depth, frame, stackVars, held, historyVars, outcome>>

\* Mutant of DumpedLevel: stackDumped pops the scopes and no level.
LevelStays  == idxCurrentStack
DumpedLevel == 0

Least(a, b) == IF a < b THEN a ELSE b

\* The error reaches the code that entered the activation.  A script passes it
\* on; execute calls stackDumped and returns it to C++.
LeaveFailed ==
    /\ mode = "fail"
    /\ Drop
    /\ held' = [held EXCEPT ![depth] = {}]
    /\ IF top.by = "execute"
       THEN /\ PopScopes(0)
            /\ idxCurrentStack' = DumpedLevel
            /\ dead' = depth - 1
            /\ IF depth = 1 THEN mode' = "idle" ELSE mode' \in {"run", "thrown"}
            /\ outcome' = IF depth = 1 THEN "error" ELSE outcome
       ELSE /\ dead' = Least(dead, depth - 1)
            /\ UNCHANGED <<mode, scopeVars, idxCurrentStack, outcome>>
    /\ UNCHANGED <<ptrCurrentOp, ptrCurrentStr, cancel_execution, asked>>

\* A function of bind_function finds that the result of the script function
\* that it ran does not convert, and throws.
ThrowResult ==
    /\ Runs(NativeFunction)
    /\ mode' = "thrown"
    /\ UNCHANGED <<depth, frame, stackVars, held, historyVars, hostVars>>

\* The exception leaves an activation, and no code of the machine's runs; a C++
\* function or the host may catch it.
LeaveThrown ==
    /\ mode = "thrown"
    /\ Drop
    /\ held' = [held EXCEPT ![depth] = {}]
    /\ dead' = Least(dead, depth - 1)
    /\ IF depth = 1 THEN mode' = "idle"
       ELSE IF frame[depth - 1].fun \in NativeFunction THEN mode' \in {"run", "thrown"}
       ELSE UNCHANGED mode
    /\ outcome' = IF depth = 1 THEN "error" ELSE outcome
    /\ UNCHANGED <<stackVars, cancel_execution, asked>>

\* The process has ended.
Exited == mode = "exited" /\ UNCHANGED vars

Strings == SUBSET (0..StringSlots - 1)

Next ==
    \/ \E fun \in Function : Execute(fun)
    \/ Statement \/ PushOperand \/ PUSH_STRING \/ OpenScope \/ POP_SCOPE
    \/ \E gone \in Strings : Pop(gone)
    \/ \E gone \in Strings, fun \in ScriptFunction \cup NativeFunction :
          \/ \E n \in 0..Params[fun] : CALL(fun, n, gone)
          \/ \E args \in {<<1, 1>>, <<1, 2>>, <<2, 2>>} :
                APPLY_METAMETHOD(fun, args[1], args[2], gone)
    \/ \E pushed \in {0, 1} : ReturnNative(pushed)
    \/ \E pushed \in {0, 1}, result \in Strings : Return(pushed, result)
    \/ Fail \/ Cancel \/ LeaveFailed \/ LeaveThrown \/ Exited

\* C++ code throws only what an error of the machine makes it throw, or also
\* when a result does not convert.
Spec      == Init /\ [][Next]_vars
SpecThrow == Init /\ [][Next \/ ThrowResult]_vars

-----------------------------------------------------------------------------
(* Properties.                                                              *)

Activations ==
    [fun : Function, by : {"none", "execute", "CALL", "metamethod"}, low : Nat, base : Nat,
     start : Nat, kept : Nat, strings : Nat, keeps : SUBSET Nat, scopes : Nat]

\* The types of the variables.
TypeOK ==
    /\ mode \in {"idle", "run", "fail", "thrown", "exited"}
    /\ depth \in 0..MaxDepth /\ dead \in 0..depth
    /\ frame \in [Depths -> Activations]
    /\ idxCurrentStack \in 0..MaxCalls
    /\ ptrCurrentOp \in Nat /\ ptrCurrentStr \in Nat
    /\ scope_info \in [0..MaxScopes - 1 -> 0..MaxDepth]
    /\ current_scope_info_ptr \in 0..MaxScopes - 1
    /\ held \in [Depths -> SUBSET Nat]
    /\ disturbed \subseteq Depths /\ clobbered \subseteq Depths
    /\ cancel_execution \in BOOLEAN /\ asked \in BOOLEAN
    /\ outcome \in {"none", "ok", "error"}

Settled == mode \in {"idle", "run"}
Live(i) == dead < i /\ i <= depth

\* Between two errors idxCurrentStack counts the activations that no dump has
\* touched: the level that the pointer manager files objects under is theirs,
\* and the host's next execute finds 0, the sign of a first call.
LevelsMatchFrames == Settled => idxCurrentStack = depth - dead

\* Each open scope is a live script function's, which finds its variables in
\* its own frame, in the order of the calls, and each function has its root
\* scope: what Return and POP_SCOPE pop is the function's own.
ScopesBelongToFrames ==
    Settled =>
        /\ \A k \in 0..current_scope_info_ptr - 1 :
              /\ Live(scope_info[k])
              /\ frame[scope_info[k]].fun \in Script
              /\ k > 0 => scope_info[k - 1] <= scope_info[k]
        /\ \A i \in 1..depth : Live(i) /\ frame[i].fun \in ScriptFunction =>
              /\ frame[i].scopes \in 1..current_scope_info_ptr
              /\ scope_info[frame[i].scopes - 1] = i
              /\ \A k \in 0..frame[i].scopes - 2 : scope_info[k] < i

\* A script function whose variables a dump released executes no instruction
\* any more, whatever its C++ callee does after the error.
DumpedFunctionNeverRuns == Runs(Script) => depth > dead

\* The cells of the live activations do not meet: the operands that a caller
\* keeps, then the arguments, variables and operands of what it called, and
\* the globals below all of them.
FramesKeepApart ==
    Settled => \A i \in dead + 1..depth :
        /\ frame[i].low <= frame[i].base
        /\ frame[i].kept <= frame[i].low
        /\ frame[i].fun \in Script => frame[i].base <= frame[i].start
        /\ frame[i].fun # Main => frame[i].low >= Locals[Main]
        /\ i > dead + 1 => frame[i - 1].start <= frame[i].kept

\* A string that an operand holds stays as it is until its statement ends,
\* whatever the calls in the statement do, unless C++ runs a script function
\* in between, which takes the slots from the first one on.
StringsOutliveCalls == \A i \in clobbered : Live(i) => i \in disturbed

\* An execute of the host that ends well has not been cancelled by a C++
\* function that CALL ran, though a nested execute may take the request back.
CancelledRunFails == mode = "idle" /\ outcome = "ok" => ~asked
=============================================================================
