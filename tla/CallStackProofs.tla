-------------------------- MODULE CallStackProofs --------------------------
(***************************************************************************)
(* The properties of CallStack hold for every script and every size of the *)
(* stacks.  Most of them are not inductive by themselves: what a function  *)
(* finds on its return depends on who entered it and on what a dump left.  *)
(***************************************************************************)
EXTENDS CallStack, TLAPS

\* The host runs when nothing else does; an exception leaves a machine that was
\* dumped.
ModesAgree ==
    /\ mode = "idle" => depth = 0
    /\ mode \in {"run", "fail", "thrown"} => depth > 0
    /\ mode = "thrown" => dead = depth /\ idxCurrentStack = 0 /\ current_scope_info_ptr = 0

\* C++ enters by execute and scripts do not, and what execute_internal computes
\* from the function stays as it is.
FramesAreKnown ==
    \A i \in 1..depth :
        /\ frame[i].by \in {"execute", "CALL", "metamethod"}
        /\ frame[i].by = "execute" <=> (i = 1 \/ frame[i - 1].fun \in NativeFunction)
        /\ frame[i].fun \in ScriptFunction => frame[i].scopes \in 1..MaxScopes
        /\ frame[i].fun \in Script => frame[i].start = frame[i].base + Locals[frame[i].fun]

\* A dump ends at an execute, so that a C++ function stands above what it took.
DumpsEndInNative == mode = "run" /\ dead > 0 => frame[dead].fun \in NativeFunction

\* FramesKeepApart with what a call needs: operands above the variables, or at
\* least above what the caller keeps.
CellsAreOrdered ==
    mode = "run" =>
        /\ \A i \in dead + 1..depth :
              /\ frame[i].kept <= frame[i].low /\ frame[i].low <= frame[i].base
              /\ frame[i].kept <= frame[i].start
              /\ frame[i].start >= Locals[Main]
              /\ frame[i].fun # Main => frame[i].low >= Locals[Main]
              /\ i > dead + 1 => frame[i - 1].start <= frame[i].kept
        /\ depth > dead => /\ ptrCurrentOp >= top.kept
                           /\ top.fun \in NativeFunction => ptrCurrentOp >= top.start

\* The first entry of scope_info that is not of a caller of the activation.
Floor(r) == IF r.fun \in ScriptFunction THEN r.scopes - 1 ELSE r.scopes

\* The scopes of the live activations follow each other.
ScopesAreOrdered ==
    Settled =>
        /\ \A k \in 0..current_scope_info_ptr - 1 :
              /\ Live(scope_info[k])
              /\ frame[scope_info[k]].fun \in Script
              /\ Floor(frame[scope_info[k]]) <= k
        /\ \A i \in dead + 1..depth :
              /\ Floor(frame[i]) <= current_scope_info_ptr
              /\ \A k \in 0..current_scope_info_ptr - 1 : scope_info[k] < i <=> k < Floor(frame[i])
              /\ \A j \in i..depth : Floor(frame[i]) <= Floor(frame[j])
              /\ frame[i].fun \in ScriptFunction =>
                    /\ frame[i].scopes <= current_scope_info_ptr
                    /\ scope_info[frame[i].scopes - 1] = i

\* The activations that a nested script interrupted are the lowest ones.
DisturbedAreLowest ==
    \A i \in disturbed : i \in 1..depth /\ \A k \in 1..i : k \in disturbed

\* The strings of an undisturbed caller lie below those of its callees.
StringsAreOrdered ==
    /\ \A i \in Depths : i > depth => held[i] = {} /\ i \notin clobbered
    /\ mode = "run" => \A i \in dead + 1..depth : i \notin disturbed =>
          /\ \A s \in held[i] : s < ptrCurrentStr
          /\ \A j \in i + 1..depth :
                frame[j].fun \in Script => \A s \in held[i] : s < frame[j].strings
          /\ i < depth /\ frame[i + 1].by # "execute" => frame[i + 1].keeps \subseteq held[i]

\* A cancelled run has a call that will notice, unless it was dumped.
CancelsAreSeen ==
    /\ mode = "idle" /\ outcome = "ok" => ~asked
    /\ mode = "run" /\ asked =>
          \/ dead > 0
          \/ cancel_execution /\ \E i \in 1..depth :
                frame[i].fun \in NativeFunction /\ frame[i].by = "CALL"

Inv ==
    /\ TypeOK
    /\ ModesAgree
    /\ FramesAreKnown
    /\ DumpsEndInNative
    /\ LevelsMatchFrames
    /\ CellsAreOrdered
    /\ ScopesAreOrdered
    /\ DisturbedAreLowest
    /\ StringsAreOrdered
    /\ StringsOutliveCalls
    /\ CancelsAreSeen

-----------------------------------------------------------------------------
\* What execute_internal does is one of three things: the process ends, the
\* callee fails before its first instruction, or it runs.
Entered(f) ==
    /\ UNCHANGED <<ptrCurrentStr, held, dead, clobbered>>
    /\ \/ /\ mode' = "exited"
          /\ UNCHANGED <<depth, frame, idxCurrentStack, scope_info, current_scope_info_ptr>>
       \/ /\ depth < MaxDepth /\ depth' = depth + 1
          /\ frame' = [frame EXCEPT ![depth + 1] = f]
          /\ idxCurrentStack < MaxCalls
          /\ \/ /\ mode' = "fail"
                /\ idxCurrentStack' \in {idxCurrentStack, idxCurrentStack + 1}
                /\ UNCHANGED <<scope_info, current_scope_info_ptr>>
             \/ /\ mode' = "run"
                /\ idxCurrentStack' = idxCurrentStack + 1
                /\ IF f.fun \in ScriptFunction
                   THEN /\ current_scope_info_ptr < MaxScopes - 1
                        /\ scope_info' = [scope_info EXCEPT ![current_scope_info_ptr] = depth + 1]
                        /\ current_scope_info_ptr' = current_scope_info_ptr + 1
                   ELSE UNCHANGED <<scope_info, current_scope_info_ptr>>

LEMMA Bounds ==
    /\ MaxCalls \in Nat /\ MaxScopes \in Nat /\ StackSize \in Nat
    /\ StringSlots \in Nat /\ MaxDepth \in Nat /\ MaxOperands \in Nat
    /\ MaxScopes > 0 /\ MaxDepth > 0
    /\ Locals[Main] \in Nat
BY SizeAssumption, LimitAssumption DEF Script

LEMMA Sizes ==
    /\ \A fun \in Function : Params[fun] \in Nat
    /\ \A fun \in Script : Locals[fun] \in Nat
BY SizeAssumption

LEMMA Kinds ==
    /\ Main \in Script /\ Main \in Function /\ Main \notin ScriptFunction /\ Main \notin NativeFunction
    /\ \A fun \in ScriptFunction : fun \in Script
    /\ \A fun \in NativeFunction : fun \in Function /\ fun \notin Script
    /\ \A fun \in Script : fun \in Function /\ (fun = Main \/ fun \in ScriptFunction)
    /\ \A fun \in Function : fun \in Script \/ fun \in NativeFunction
BY FunctionAssumption DEF Function, Script

LEMMA EnteringCases ==
    ASSUME NEW f \in Activations, TypeOK, execute_internal(f)
    PROVE  Entered(f)
<1>. USE Bounds, Kinds
<1>1. UNCHANGED <<ptrCurrentStr, held, dead, clobbered>>
  BY DEF execute_internal
<1>2. CASE idxCurrentStack >= MaxCalls
  BY <1>1, <1>2 DEF execute_internal, Exit, scopeVars, Entered
<1>3. CASE ~(idxCurrentStack >= MaxCalls) /\ f.fun \in NativeFunction
  <2>1. EnterNative(f)
    BY <1>3 DEF execute_internal
  <2>2. f.fun \notin ScriptFunction /\ idxCurrentStack < MaxCalls
    BY <1>3 DEF TypeOK
  <2>. QED BY <1>1, <2>1, <2>2 DEF EnterNative, Push, scopeVars, Entered
<1>4. CASE ~(idxCurrentStack >= MaxCalls) /\ f.fun \notin NativeFunction
  <2>1. EnterScript(f)
    BY <1>4 DEF execute_internal
  <2>2. f.fun \in Script /\ idxCurrentStack < MaxCalls
    BY <1>4 DEF TypeOK, Activations
  <2>3. CASE mode' = "exited"
    BY <1>1, <2>1, <2>3 DEF EnterScript, Exit, scopeVars, Entered
  <2>4. CASE mode' # "exited"
    <3>1. Push(f) /\ idxCurrentStack' = idxCurrentStack + 1
      BY <2>1, <2>4 DEF EnterScript, Exit
    <3>2. f.fun # Main <=> f.fun \in ScriptFunction
      BY <2>2
    <3>3. CASE f.fun # Main /\ ScopesAreFull
      BY <1>1, <2>1, <2>2, <2>4, <3>1, <3>3 DEF EnterScript, Exit, Push, scopeVars, Entered
    <3>4. CASE f.fun # Main /\ ~ScopesAreFull
      <4>1. current_scope_info_ptr < MaxScopes - 1
        BY <3>4 DEF ScopesAreFull, TypeOK
      <4>. QED BY <1>1, <2>1, <2>2, <2>4, <3>1, <3>2, <3>4, <4>1
                  DEF EnterScript, Exit, Push, PUSH_SCOPE, Entered
    <3>5. CASE f.fun = Main
      BY <1>1, <2>1, <2>2, <2>4, <3>1, <3>2, <3>5 DEF EnterScript, Exit, Push, scopeVars, Entered
    <3>. QED BY <3>3, <3>4, <3>5
  <2>. QED BY <2>3, <2>4
<1>. QED BY <1>2, <1>3, <1>4

LEMMA InitInv == Init => Inv
<1>. SUFFICES ASSUME Init PROVE Inv
  OBVIOUS
<1>. USE Bounds, Kinds DEF Init
<1>1. TypeOK
  <2>1. NoFrame \in Activations
    BY DEF NoFrame, Activations
  <2>2. frame \in [Depths -> Activations] /\ held \in [Depths -> SUBSET Nat]
    BY <2>1
  <2>3. scope_info \in [0..MaxScopes - 1 -> 0..MaxDepth]
    OBVIOUS
  <2>4. /\ depth \in 0..MaxDepth /\ dead \in 0..depth
        /\ idxCurrentStack \in 0..MaxCalls /\ current_scope_info_ptr \in 0..MaxScopes - 1
    OBVIOUS
  <2>5. ptrCurrentOp \in Nat /\ ptrCurrentStr \in Nat
    OBVIOUS
  <2>6. disturbed \subseteq Depths /\ clobbered \subseteq Depths
    OBVIOUS
  <2>. QED BY <2>2, <2>3, <2>4, <2>5, <2>6 DEF TypeOK
<1>2. ModesAgree /\ FramesAreKnown /\ DumpsEndInNative /\ LevelsMatchFrames /\ CellsAreOrdered
  BY DEF ModesAgree, FramesAreKnown, DumpsEndInNative, LevelsMatchFrames, CellsAreOrdered
<1>3. ScopesAreOrdered
  BY DEF ScopesAreOrdered
<1>4. DisturbedAreLowest /\ StringsAreOrdered /\ StringsOutliveCalls /\ CancelsAreSeen
  BY DEF DisturbedAreLowest, StringsAreOrdered, StringsOutliveCalls, CancelsAreSeen, Depths
<1>. QED BY <1>1, <1>2, <1>3, <1>4 DEF Inv

-----------------------------------------------------------------------------
\* What the code that calls a function f passes to execute_internal.
Passes(f) ==
    /\ f \in Activations
    /\ f.by \in {"execute", "CALL", "metamethod"}
    /\ f.by = "execute" <=> (depth = 0 \/ top.fun \in NativeFunction)
    /\ f.scopes = current_scope_info_ptr + IF f.fun \in ScriptFunction THEN 1 ELSE 0
    /\ f.fun \in Script => f.start = f.base + Locals[f.fun]
    \* Its cells.
    /\ f.kept <= f.low /\ f.low <= f.base /\ f.kept <= f.start
    /\ f.start >= Locals[Main]
    /\ f.fun # Main => f.low >= Locals[Main]
    /\ depth > dead => top.start <= f.kept
    /\ ptrCurrentOp' \in Nat /\ ptrCurrentOp' >= f.kept
    /\ f.fun \in NativeFunction => ptrCurrentOp' >= f.start
    \* Its strings.
    /\ IF f.by = "execute" /\ f.fun \in Script THEN disturbed' = 1..depth
                                               ELSE disturbed' = disturbed
    /\ f.by # "execute" => f.strings = ptrCurrentStr /\ f.keeps \subseteq held[depth]
    \* A request to cancel.
    /\ cancel_execution' \in BOOLEAN /\ asked' \in BOOLEAN /\ outcome' \in {"none", "ok", "error"}
    /\ asked' => asked /\ depth > 0
    /\ idxCurrentStack > 0 => cancel_execution' = cancel_execution

\* Entering a function keeps the invariant.
LEMMA EnteringKeepsInv ==
    ASSUME Inv, mode = "idle" \/ mode = "run", NEW f, Passes(f), Entered(f)
    PROVE  Inv'
<1>. USE Bounds
<1>1. /\ TypeOK /\ Settled /\ f \in Activations
      /\ idxCurrentStack = depth - dead
      /\ UNCHANGED <<ptrCurrentStr, held, dead, clobbered>>
  BY DEF Inv, LevelsMatchFrames, Settled, Entered, Passes
<1>2. /\ depth \in 0..MaxDepth /\ dead \in 0..depth /\ idxCurrentStack \in 0..MaxCalls
      /\ current_scope_info_ptr \in 0..MaxScopes - 1 /\ ptrCurrentStr \in Nat
      /\ frame \in [Depths -> Activations] /\ f.fun \in Function
      /\ f.low \in Nat /\ f.base \in Nat /\ f.start \in Nat /\ f.kept \in Nat
      /\ f.strings \in Nat /\ f.scopes \in Nat
  BY <1>1 DEF TypeOK, Activations
<1>3. mode = "idle" => depth = 0
  BY DEF Inv, ModesAgree
<1>4. disturbed' \subseteq Depths
  <2>1. disturbed \subseteq Depths /\ 1..depth \subseteq Depths
    BY <1>1, <1>2 DEF TypeOK, Depths
  <2>2. disturbed' = disturbed \/ disturbed' = 1..depth
    BY DEF Passes
  <2>. QED BY <2>1, <2>2
<1>9. /\ disturbed' = disturbed \/ disturbed' = 1..depth
      /\ \A i \in disturbed : i \in disturbed' /\ i \in 1..depth
      /\ \A i \in disturbed' : i \in 1..depth /\ \A k \in 1..i : k \in disturbed'
  <2>1. \A i \in disturbed : i \in 1..depth /\ \A k \in 1..i : k \in disturbed
    BY DEF Inv, DisturbedAreLowest
  <2>2. disturbed' = disturbed \/ disturbed' = 1..depth
    BY DEF Passes
  <2>. QED BY <1>2, <2>1, <2>2
<1>10. \A i \in clobbered : i \in 1..depth
  BY <1>1, <1>2 DEF Inv, StringsAreOrdered, TypeOK, Depths
<1>11. \A i \in clobbered : dead < i => i \in disturbed'
  BY <1>2, <1>9, <1>10 DEF Inv, StringsOutliveCalls, Live
<1>5. CASE /\ mode' = "exited"
           /\ UNCHANGED <<depth, frame, idxCurrentStack, scope_info, current_scope_info_ptr>>
  <2>1. TypeOK'
    BY <1>1, <1>4, <1>5 DEF TypeOK, Passes
  <2>2. ModesAgree' /\ LevelsMatchFrames' /\ DumpsEndInNative' /\ CellsAreOrdered' /\ ScopesAreOrdered'
    BY <1>5 DEF ModesAgree, LevelsMatchFrames, DumpsEndInNative, CellsAreOrdered, ScopesAreOrdered, Settled
  <2>3. FramesAreKnown'
    BY <1>5 DEF Inv, FramesAreKnown
  <2>4. DisturbedAreLowest'
    BY <1>5, <1>9 DEF DisturbedAreLowest
  <2>5. StringsAreOrdered' /\ CancelsAreSeen'
    BY <1>1, <1>5 DEF Inv, StringsAreOrdered, CancelsAreSeen
  <2>6. StringsOutliveCalls'
    BY <1>1, <1>2, <1>11 DEF StringsOutliveCalls, Live
  <2>. QED BY <2>1, <2>2, <2>3, <2>4, <2>5, <2>6 DEF Inv
<1>6. CASE depth < MaxDepth /\ depth' = depth + 1 /\ frame' = [frame EXCEPT ![depth + 1] = f]
  <2>1. /\ frame' \in [Depths -> Activations] /\ frame'[depth + 1] = f
        /\ \A i \in 1..depth : frame'[i] = frame[i]
    <3>1. depth + 1 \in Depths /\ \A i \in 1..depth : i \in Depths /\ i # depth + 1
      BY <1>2, <1>6 DEF Depths
    <3>. QED BY <1>1, <1>2, <1>6, <3>1
  <2>2. /\ mode' \in {"fail", "run"}
        /\ mode' = "run" => idxCurrentStack' = idxCurrentStack + 1
        /\ idxCurrentStack' \in 0..MaxCalls
        /\ current_scope_info_ptr' \in 0..MaxScopes - 1
        /\ scope_info' \in [0..MaxScopes - 1 -> 0..MaxDepth]
    <3>1. scope_info \in [0..MaxScopes - 1 -> 0..MaxDepth]
      BY <1>1 DEF TypeOK
    <3>2. depth + 1 \in 0..MaxDepth /\ idxCurrentStack + 1 \in 0..MaxCalls
      BY <1>2, <1>6 DEF Entered
    <3>3. CASE mode' = "fail" /\ idxCurrentStack' \in {idxCurrentStack, idxCurrentStack + 1}
                /\ UNCHANGED <<scope_info, current_scope_info_ptr>>
      BY <1>2, <3>1, <3>2, <3>3
    <3>4. CASE mode' = "run" /\ idxCurrentStack' = idxCurrentStack + 1
                /\ UNCHANGED <<scope_info, current_scope_info_ptr>>
      BY <1>2, <3>1, <3>2, <3>4
    <3>5. CASE /\ mode' = "run" /\ idxCurrentStack' = idxCurrentStack + 1
               /\ current_scope_info_ptr < MaxScopes - 1
               /\ scope_info' = [scope_info EXCEPT ![current_scope_info_ptr] = depth + 1]
               /\ current_scope_info_ptr' = current_scope_info_ptr + 1
      BY <1>2, <3>1, <3>2, <3>5
    <3>6. depth' # depth
      BY <1>2, <1>6
    <3>. QED BY <3>3, <3>4, <3>5, <3>6 DEF Entered
  <2>3. TypeOK'
    <3>1. /\ ptrCurrentOp' \in Nat /\ cancel_execution' \in BOOLEAN /\ asked' \in BOOLEAN
          /\ outcome' \in {"none", "ok", "error"}
      BY DEF Passes
    <3>2. held' \in [Depths -> SUBSET Nat] /\ clobbered' \subseteq Depths
      BY <1>1 DEF TypeOK
    <3>3. depth' \in 0..MaxDepth /\ dead' \in 0..depth' /\ ptrCurrentStr' \in Nat
      BY <1>1, <1>2, <1>6
    <3>. QED BY <1>4, <2>1, <2>2, <3>1, <3>2, <3>3 DEF TypeOK
  <2>4. ModesAgree'
    BY <1>2, <1>6, <2>2 DEF ModesAgree
  <2>5. FramesAreKnown'
    <3>. SUFFICES ASSUME NEW i \in 1..depth + 1
                  PROVE  /\ frame'[i].by \in {"execute", "CALL", "metamethod"}
                         /\ frame'[i].by = "execute" <=> (i = 1 \/ frame'[i - 1].fun \in NativeFunction)
                         /\ frame'[i].fun \in ScriptFunction => frame'[i].scopes \in 1..MaxScopes
                         /\ frame'[i].fun \in Script => frame'[i].start = frame'[i].base + Locals[frame'[i].fun]
      BY <1>6 DEF FramesAreKnown
    <3>1. CASE i \in 1..depth
      <4>1. frame'[i] = frame[i] /\ (i > 1 => frame'[i - 1] = frame[i - 1])
        BY <1>2, <2>1, <3>1
      <4>. QED BY <1>2, <3>1, <4>1 DEF Inv, FramesAreKnown
    <3>2. CASE i = depth + 1
      <4>1. depth > 0 => frame'[depth] = frame[depth]
        BY <1>2, <2>1
      <4>2. f.scopes \in 1..MaxScopes \/ f.fun \notin ScriptFunction
        BY <1>2 DEF Passes
      <4>3. i - 1 = depth /\ frame'[i] = f /\ (i = 1 <=> depth = 0)
        BY <1>2, <2>1, <3>2
      <4>4. f.by = "execute" <=> (i = 1 \/ frame'[i - 1].fun \in NativeFunction)
        <5>1. f.by = "execute" <=> (depth = 0 \/ frame[depth].fun \in NativeFunction)
          BY DEF Passes, top
        <5>. QED BY <1>2, <4>1, <4>3, <5>1
      <4>. QED BY <4>2, <4>3, <4>4 DEF Passes
    <3>. QED BY <1>2, <3>1, <3>2
  <2>6. DumpsEndInNative'
    <3>. SUFFICES ASSUME mode' = "run", dead > 0 PROVE frame'[dead].fun \in NativeFunction
      BY <1>1 DEF DumpsEndInNative
    <3>1. mode = "run" /\ dead \in 1..depth
      BY <1>2, <1>3
    <3>. QED BY <2>1, <3>1 DEF Inv, DumpsEndInNative
  <2>7. LevelsMatchFrames'
    BY <1>1, <1>2, <1>6, <2>2 DEF LevelsMatchFrames, Settled
  <2>8. CellsAreOrdered'
    <3>. SUFFICES ASSUME mode' = "run" PROVE CellsAreOrdered'
      BY DEF CellsAreOrdered
    <3>1. ASSUME NEW i \in dead + 1..depth + 1
          PROVE  /\ frame'[i].kept <= frame'[i].low /\ frame'[i].low <= frame'[i].base
                 /\ frame'[i].kept <= frame'[i].start
                 /\ frame'[i].start >= Locals[Main]
                 /\ frame'[i].fun # Main => frame'[i].low >= Locals[Main]
                 /\ i > dead + 1 => frame'[i - 1].start <= frame'[i].kept
      <4>1. CASE i \in dead + 1..depth
        <5>1. mode = "run" /\ frame'[i] = frame[i] /\ (i > dead + 1 => frame'[i - 1] = frame[i - 1])
          BY <1>1, <1>2, <1>3, <2>1, <4>1 DEF Settled
        <5>. QED BY <4>1, <5>1 DEF Inv, CellsAreOrdered
      <4>2. CASE i = depth + 1
        <5>1. i > dead + 1 => depth > dead /\ frame'[i - 1] = top
          BY <1>2, <2>1, <4>2 DEF top
        <5>. QED BY <2>1, <4>2, <5>1 DEF Passes
      <4>. QED BY <1>2, <4>1, <4>2
    <3>2. ptrCurrentOp' >= f.kept /\ (f.fun \in NativeFunction => ptrCurrentOp' >= f.start)
      BY DEF Passes
    <3>3. top' = f
      BY <1>6, <2>1 DEF top
    <3>. QED BY <1>1, <1>6, <3>1, <3>2, <3>3 DEF CellsAreOrdered
  <2>9. ScopesAreOrdered'
    <3>. SUFFICES ASSUME mode' = "run" PROVE ScopesAreOrdered'
      BY <2>2 DEF ScopesAreOrdered, Settled
    <3>. DEFINE p == current_scope_info_ptr
                q == current_scope_info_ptr'
    <3>1. /\ \A k \in 0..p - 1 : /\ dead < scope_info[k] /\ scope_info[k] <= depth
                                 /\ frame[scope_info[k]].fun \in Script
                                 /\ Floor(frame[scope_info[k]]) <= k
          /\ \A i \in dead + 1..depth :
                /\ Floor(frame[i]) <= p
                /\ \A k \in 0..p - 1 : scope_info[k] < i <=> k < Floor(frame[i])
                /\ \A j \in i..depth : Floor(frame[i]) <= Floor(frame[j])
                /\ frame[i].fun \in ScriptFunction =>
                      frame[i].scopes <= p /\ scope_info[frame[i].scopes - 1] = i
      BY <1>1 DEF Inv, ScopesAreOrdered, Live
    <3>2. /\ scope_info \in [0..MaxScopes - 1 -> 0..MaxDepth]
          /\ \A i \in dead + 1..depth : i \in 1..depth
          /\ \A k \in 0..p - 1 : scope_info[k] \in 1..depth
      <4>1. scope_info \in [0..MaxScopes - 1 -> 0..MaxDepth]
        BY <1>1 DEF TypeOK
      <4>2. ASSUME NEW k \in 0..p - 1 PROVE scope_info[k] \in 1..depth
        <5>1. k \in 0..MaxScopes - 1
          BY <1>2
        <5>2. scope_info[k] \in 0..MaxDepth
          BY <4>1, <5>1
        <5>3. dead < scope_info[k] /\ scope_info[k] <= depth
          BY <3>1
        <5>. QED BY <1>2, <5>2, <5>3
      <4>3. \A i \in dead + 1..depth : i \in 1..depth
        BY <1>2
      <4>. QED BY <4>1, <4>2, <4>3
    <3>3. Floor(f) = p
      BY <1>2 DEF Floor, Passes
    <3>4. \A i \in 1..depth : Floor(frame[i]) \in Int
      <4>1. \A i \in 1..depth : i \in Depths /\ frame[i] \in Activations
        BY <1>2 DEF Depths
      <4>2. \A i \in 1..depth : frame[i].scopes \in Nat
        BY <4>1 DEF Activations
      <4>. QED BY <4>2 DEF Floor
    <3>0. p \in Nat /\ p \in 0..MaxScopes - 1
      BY <1>2
    <3>5. /\ q \in {p, p + 1}
          /\ \A k \in 0..p - 1 : scope_info'[k] = scope_info[k]
          /\ f.fun \in ScriptFunction => q = p + 1 /\ scope_info'[p] = depth + 1
          /\ f.fun \notin ScriptFunction => q = p
      <4>1. CASE UNCHANGED <<scope_info, current_scope_info_ptr>> /\ f.fun \notin ScriptFunction
        BY <3>0, <4>1
      <4>2. CASE /\ f.fun \in ScriptFunction
                 /\ scope_info' = [scope_info EXCEPT ![current_scope_info_ptr] = depth + 1]
                 /\ current_scope_info_ptr' = current_scope_info_ptr + 1
        BY <3>0, <3>2, <4>2
      <4>. QED BY <1>2, <1>6, <4>1, <4>2 DEF Entered
    <3>9. \A k \in 0..q - 1 : k \in 0..p - 1 \/ (k = p /\ f.fun \in ScriptFunction)
      <4>1. CASE q = p
        BY <4>1
      <4>2. CASE q = p + 1 /\ f.fun \in ScriptFunction
        BY <3>0, <4>2
      <4>. QED BY <3>5, <4>1, <4>2
    <3>6. ASSUME NEW k \in 0..q - 1
          PROVE  /\ dead < scope_info'[k] /\ scope_info'[k] <= depth + 1
                 /\ frame'[scope_info'[k]].fun \in Script
                 /\ Floor(frame'[scope_info'[k]]) <= k
      <4>1. CASE k \in 0..p - 1
        <5>1. scope_info'[k] = scope_info[k] /\ frame'[scope_info[k]] = frame[scope_info[k]]
          BY <2>1, <3>2, <3>5, <4>1
        <5>. QED BY <1>2, <3>1, <3>2, <4>1, <5>1
      <4>2. CASE k = p /\ f.fun \in ScriptFunction
        <5>1. scope_info'[k] = depth + 1 /\ frame'[scope_info'[k]] = f
          BY <2>1, <3>5, <4>2
        <5>. QED BY <1>2, <3>0, <3>3, <4>2, <5>1, Kinds
      <4>. QED BY <3>9, <4>1, <4>2
    <3>7. ASSUME NEW i \in dead + 1..depth + 1
          PROVE  /\ Floor(frame'[i]) <= q
                 /\ \A k \in 0..q - 1 : scope_info'[k] < i <=> k < Floor(frame'[i])
                 /\ \A j \in i..depth + 1 : Floor(frame'[i]) <= Floor(frame'[j])
                 /\ frame'[i].fun \in ScriptFunction =>
                       /\ frame'[i].scopes <= q
                       /\ scope_info'[frame'[i].scopes - 1] = i
      <4>1. CASE i \in dead + 1..depth
        <5>1. i \in 1..depth /\ frame'[i] = frame[i]
          BY <2>1, <3>2, <4>1
        <5>2. Floor(frame[i]) <= p /\ Floor(frame[i]) \in Int
          BY <3>1, <3>4, <4>1, <5>1
        <5>3. \A k \in 0..q - 1 : scope_info'[k] < i <=> k < Floor(frame'[i])
          <6>. SUFFICES ASSUME NEW k \in 0..q - 1
                        PROVE  scope_info'[k] < i <=> k < Floor(frame'[i])
            OBVIOUS
          <6>1. CASE k \in 0..p - 1
            BY <3>1, <3>5, <4>1, <5>1, <6>1
          <6>2. CASE k = p /\ f.fun \in ScriptFunction
            BY <1>2, <3>5, <4>1, <5>1, <5>2, <6>2
          <6>. QED BY <3>9, <6>1, <6>2
        <5>4. \A j \in i..depth + 1 : Floor(frame'[i]) <= Floor(frame'[j])
          <6>. SUFFICES ASSUME NEW j \in i..depth + 1
                        PROVE  Floor(frame'[i]) <= Floor(frame'[j])
            OBVIOUS
          <6>1. CASE j \in i..depth
            BY <2>1, <3>1, <4>1, <5>1, <6>1
          <6>2. CASE j = depth + 1
            BY <2>1, <3>3, <5>1, <5>2, <6>2
          <6>. QED BY <1>2, <5>1, <6>1, <6>2
        <5>5. ASSUME frame[i].fun \in ScriptFunction
              PROVE  frame[i].scopes <= q /\ scope_info'[frame[i].scopes - 1] = i
          <6>1. frame[i].scopes <= p /\ scope_info[frame[i].scopes - 1] = i
            BY <3>1, <4>1, <5>5
          <6>2. frame[i].scopes \in 1..MaxScopes
            BY <5>1, <5>5 DEF Inv, FramesAreKnown
          <6>. QED BY <3>0, <3>5, <6>1, <6>2
        <5>6. Floor(frame[i]) <= q
          BY <3>0, <3>5, <5>2
        <5>. QED BY <5>1, <5>3, <5>4, <5>5, <5>6
      <4>2. CASE i = depth + 1
        <5>1. frame'[i] = f /\ Floor(frame'[i]) = p
          BY <2>1, <3>3, <4>2
        <5>2. \A k \in 0..q - 1 : scope_info'[k] < i <=> k < p
          <6>. SUFFICES ASSUME NEW k \in 0..q - 1 PROVE scope_info'[k] < i <=> k < p
            OBVIOUS
          <6>1. CASE k \in 0..p - 1
            BY <1>2, <3>0, <3>2, <3>5, <4>2, <6>1
          <6>2. CASE k = p /\ f.fun \in ScriptFunction
            BY <1>2, <3>5, <4>2, <6>2
          <6>. QED BY <3>9, <6>1, <6>2
        <5>3. f.fun \in ScriptFunction => f.scopes = p + 1
          BY DEF Passes
        <5>4. \A j \in i..depth + 1 : Floor(frame'[i]) <= Floor(frame'[j])
          <6>1. \A j \in i..depth + 1 : j = i
            BY <1>2, <4>2
          <6>. QED BY <3>0, <5>1, <6>1
        <5>5. p <= q
          BY <3>0, <3>5
        <5>6. ASSUME f.fun \in ScriptFunction
              PROVE  f.scopes <= q /\ scope_info'[f.scopes - 1] = i
          BY <3>0, <3>5, <4>2, <5>3, <5>6
        <5>. QED BY <5>1, <5>2, <5>4, <5>5, <5>6
      <4>. QED BY <1>2, <4>1, <4>2
    <3>8. mode' \in {"idle", "run"} /\ dead' = dead /\ depth' = depth + 1
      BY <1>1, <1>6
    <3>. QED BY <3>6, <3>7, <3>8 DEF ScopesAreOrdered, Live
  <2>10. DisturbedAreLowest'
    BY <1>2, <1>6, <1>9 DEF DisturbedAreLowest
  <2>11. StringsOutliveCalls'
    BY <1>1, <1>2, <1>11 DEF StringsOutliveCalls, Live
  <2>12. CancelsAreSeen'
    <3>. SUFFICES ASSUME mode' = "run", asked'
                  PROVE  \/ dead' > 0
                         \/ cancel_execution' /\ \E i \in 1..depth' :
                               frame'[i].fun \in NativeFunction /\ frame'[i].by = "CALL"
      BY <2>2 DEF CancelsAreSeen
    <3>1. asked /\ mode = "run" /\ depth > 0
      BY <1>3 DEF Passes
    <3>2. CASE dead > 0
      BY <1>1, <3>2
    <3>3. CASE ~(dead > 0)
      <4>1. PICK i \in 1..depth : frame[i].fun \in NativeFunction /\ frame[i].by = "CALL"
        BY <3>1, <3>3 DEF Inv, CancelsAreSeen
      <4>2. cancel_execution /\ idxCurrentStack > 0
        BY <1>1, <1>2, <3>1, <3>3 DEF Inv, CancelsAreSeen
      <4>3. frame'[i] = frame[i] /\ i \in 1..depth'
        BY <1>2, <1>6, <2>1
      <4>. QED BY <4>1, <4>2, <4>3 DEF Passes
    <3>. QED BY <3>2, <3>3
  <2>13. StringsAreOrdered'
    <3>1. \A i \in Depths : i > depth' => held'[i] = {} /\ i \notin clobbered'
      BY <1>1, <1>2, <1>6 DEF Inv, StringsAreOrdered, Depths
    <3>2. ASSUME mode' = "run", NEW i \in dead + 1..depth + 1, i \notin disturbed'
          PROVE  /\ \A s \in held[i] : s < ptrCurrentStr
                 /\ \A j \in i + 1..depth + 1 :
                       frame'[j].fun \in Script => \A s \in held[i] : s < frame'[j].strings
                 /\ i < depth + 1 /\ frame'[i + 1].by # "execute" => frame'[i + 1].keeps \subseteq held[i]
      <4>1. CASE i = depth + 1
        <5>1. i \in Depths /\ i > depth
          BY <1>2, <1>6, <4>1 DEF Depths
        <5>2. held[i] = {}
          BY <5>1 DEF Inv, StringsAreOrdered
        <5>3. ~(\E j \in i + 1..depth + 1 : TRUE) /\ ~(i < depth + 1)
          BY <1>2, <4>1
        <5>. QED BY <5>2, <5>3
      <4>2. CASE i \in dead + 1..depth
        <5>1. i \in 1..depth /\ mode = "run" /\ i \notin disturbed
          BY <1>2, <1>3, <1>9, <3>2, <4>2
        <5>2. /\ \A s \in held[i] : s < ptrCurrentStr
              /\ \A j \in i + 1..depth :
                    frame[j].fun \in Script => \A s \in held[i] : s < frame[j].strings
              /\ i < depth /\ frame[i + 1].by # "execute" => frame[i + 1].keeps \subseteq held[i]
          BY <4>2, <5>1 DEF Inv, StringsAreOrdered
        <5>3. ~(f.by = "execute" /\ f.fun \in Script)
          BY <3>2, <5>1 DEF Passes
        <5>4. ASSUME NEW j \in i + 1..depth + 1, frame'[j].fun \in Script
              PROVE  \A s \in held[i] : s < frame'[j].strings
          <6>1. CASE j \in i + 1..depth
            BY <1>2, <2>1, <5>1, <5>2, <5>4, <6>1
          <6>2. CASE j = depth + 1
            BY <2>1, <5>2, <5>3, <5>4, <6>2 DEF Passes
          <6>. QED BY <1>2, <5>1, <6>1, <6>2
        <5>5. ASSUME i < depth + 1, frame'[i + 1].by # "execute"
              PROVE  frame'[i + 1].keeps \subseteq held[i]
          <6>1. CASE i = depth
            BY <2>1, <5>5, <6>1 DEF Passes
          <6>2. CASE i < depth
            <7>1. frame'[i + 1] = frame[i + 1]
              BY <1>2, <2>1, <5>1, <6>2
            <7>. QED BY <5>2, <5>5, <6>2, <7>1
          <6>. QED BY <1>2, <5>1, <5>5, <6>1, <6>2
        <5>. QED BY <5>2, <5>4, <5>5
      <4>. QED BY <1>2, <4>1, <4>2
    <3>. QED BY <1>1, <1>6, <3>1, <3>2 DEF StringsAreOrdered
  <2>. QED BY <2>3, <2>4, <2>5, <2>6, <2>7, <2>8, <2>9, <2>10, <2>11, <2>12, <2>13 DEF Inv
<1>. QED BY <1>5, <1>6 DEF Entered

\* What the calls pass.
LEMMA ActivationFields ==
    ASSUME NEW fun \in Function, NEW by \in {"execute", "CALL", "metamethod"},
           NEW base \in Nat, NEW n \in Nat, n <= base, NEW kept \in Nat,
           NEW keeps \in SUBSET Nat, NEW strings \in Nat,
           ptrCurrentOp' \in Nat, current_scope_info_ptr \in Nat
    PROVE  LET f == Activation(fun, by, base, n, kept, keeps, strings)
           IN  /\ f \in Activations
               /\ f.fun = fun /\ f.by = by /\ f.low = base - n /\ f.base = base
               /\ f.kept = kept /\ f.keeps = keeps /\ f.strings = strings
               /\ f.start = IF fun \in NativeFunction THEN ptrCurrentOp' ELSE base + Locals[fun]
               /\ f.scopes = current_scope_info_ptr + IF fun \in ScriptFunction THEN 1 ELSE 0
<1>1. fun \notin NativeFunction => Locals[fun] \in Nat
  BY Kinds, Sizes
<1>. QED BY <1>1 DEF Activation, Activations

\* A script function that runs has its variables, and its cells above the globals.
LEMMA ScriptOnTop ==
    ASSUME Inv, Runs(Script)
    PROVE  /\ mode = "run" /\ depth > dead /\ depth \in 1..MaxDepth /\ dead \in 0..depth
           /\ depth \in Depths /\ top.fun \in Script /\ top.fun \notin NativeFunction
           /\ top \in Activations /\ top.start \in Nat /\ top.kept \in Nat
           /\ top.start >= Locals[Main] /\ top.kept <= top.start
           /\ ptrCurrentOp \in Nat /\ ptrCurrentOp >= top.kept
           /\ idxCurrentStack = depth - dead
<1>1. /\ mode = "run" /\ depth > 0 /\ top.fun \in Script /\ top.fun \notin NativeFunction
      /\ depth \in 0..MaxDepth /\ dead \in 0..depth
      /\ frame \in [Depths -> Activations] /\ ptrCurrentOp \in Nat
  BY Kinds DEF Inv, TypeOK, Runs
<1>2. depth \in Depths /\ top \in Activations
  BY <1>1, Bounds DEF Depths, top
<1>3. depth > dead
  BY <1>1, Bounds DEF Inv, DumpsEndInNative, top
<1>4. depth \in dead + 1..depth
  BY <1>1, <1>3, Bounds
<1>5. top.start >= Locals[Main] /\ top.kept <= top.start /\ ptrCurrentOp >= top.kept
  BY <1>1, <1>3, <1>4 DEF Inv, CellsAreOrdered, top
<1>. QED BY <1>1, <1>2, <1>3, <1>5, Bounds DEF Activations, Inv, LevelsMatchFrames, Settled

LEMMA ExecuteKeepsInv ==
    ASSUME Inv, NEW fun \in Function, Execute(fun) PROVE Inv'
<1>. DEFINE found == Found(fun)
            base  == found + Params[fun]
            f     == Activation(fun, "execute", base, Params[fun], found, {}, 0)
<1>1. /\ ptrCurrentOp' = base
      /\ cancel_execution' = StillCancelled
      /\ execute_internal(f)
      /\ disturbed' = IF fun \in Script THEN 1..depth ELSE disturbed
      /\ asked' = (asked /\ depth > 0)
      /\ outcome' = IF depth > 0 THEN outcome ELSE "none"
  BY DEF Execute
<1>2. mode = "idle" \/ (mode = "run" /\ depth > 0 /\ top.fun \in NativeFunction)
  BY DEF Execute, Runs
<1>3. /\ TypeOK /\ depth \in 0..MaxDepth /\ dead \in 0..depth /\ ptrCurrentOp \in Nat
      /\ current_scope_info_ptr \in Nat /\ idxCurrentStack = depth - dead
      /\ mode = "idle" => depth = 0
  BY <1>2, Bounds DEF Inv, TypeOK, ModesAgree, LevelsMatchFrames, Settled
<1>4. Params[fun] \in Nat /\ Params[Main] = 0 /\ (fun \in Script => Locals[fun] \in Nat)
  BY Sizes, SizeAssumption
<1>5. depth > dead => ptrCurrentOp >= top.start /\ top.start >= Locals[Main] /\ top.start \in Nat
  <2>. SUFFICES ASSUME depth > dead
                PROVE  ptrCurrentOp >= top.start /\ top.start >= Locals[Main] /\ top.start \in Nat
    OBVIOUS
  <2>1. depth \in dead + 1..depth /\ mode = "run" /\ depth \in Depths
    BY <1>2, <1>3, Bounds DEF Depths
  <2>2. top \in Activations
    BY <1>3, <2>1 DEF TypeOK, top
  <2>. QED BY <1>2, <1>3, <2>1, <2>2 DEF Inv, CellsAreOrdered, top, Activations
<1>6. /\ found \in Nat
      /\ fun # Main \/ idxCurrentStack > 0 => found >= Locals[Main]
      /\ depth > dead => top.start <= found
  BY <1>3, <1>5, Bounds DEF Found, FirstCell
<1>7. /\ f \in Activations
      /\ f.fun = fun /\ f.by = "execute" /\ f.low = found /\ f.base = base
      /\ f.kept = found /\ f.keeps = {} /\ f.strings = 0
      /\ f.start = IF fun \in NativeFunction THEN base ELSE base + Locals[fun]
      /\ f.scopes = current_scope_info_ptr + IF fun \in ScriptFunction THEN 1 ELSE 0
  <2>1. base \in Nat /\ Params[fun] <= base /\ base - Params[fun] = found
    BY <1>4, <1>6
  <2>. HIDE DEF base, found
  <2>2. f \in Activations
    BY <1>1, <1>3, <1>4, <1>6, <2>1, ActivationFields
  <2>. QED BY <1>1, <1>3, <1>4, <1>6, <2>1, ActivationFields
<1>. HIDE DEF f
<1>8. Entered(f)
  BY <1>1, <1>3, <1>7, EnteringCases
<1>9. f.start >= Locals[Main] /\ f.start >= found
  <2>1. CASE fun \in NativeFunction
    BY <1>4, <1>6, <1>7, <2>1, Bounds, Kinds
  <2>2. CASE fun \in Script /\ fun # Main
    BY <1>4, <1>6, <1>7, <2>2, Bounds, Kinds
  <2>3. CASE fun = Main
    BY <1>4, <1>6, <1>7, <2>3, Bounds, Kinds
  <2>. QED BY <2>1, <2>2, <2>3, Kinds
<1>10. Passes(f)
  <2>1. fun \in Script => f.start = f.base + Locals[fun]
    BY <1>7, Kinds
  <2>2. ptrCurrentOp' \in Nat /\ ptrCurrentOp' >= found /\ found <= base
    BY <1>1, <1>4, <1>6
  <2>3. fun \in NativeFunction => ptrCurrentOp' >= f.start
    BY <1>1, <1>7, <2>2
  <2>4. /\ cancel_execution' \in BOOLEAN /\ asked' \in BOOLEAN
        /\ outcome' \in {"none", "ok", "error"}
        /\ idxCurrentStack > 0 => cancel_execution' = cancel_execution
    BY <1>1, <1>3 DEF TypeOK, StillCancelled
  <2>5. fun # Main => f.low >= Locals[Main]
    BY <1>6, <1>7
  <2>6. depth = 0 \/ top.fun \in NativeFunction
    BY <1>2, <1>3
  <2>7. f.kept <= f.low
    BY <1>6, <1>7
  <2>. QED BY <1>1, <1>6, <1>7, <1>9, <2>1, <2>2, <2>3, <2>4, <2>5, <2>6, <2>7 DEF Passes
<1>. QED BY <1>2, <1>8, <1>10, EnteringKeepsInv

\* A script function calls another one, n arguments of which lie at the cells
\* below base: what it keeps is its own.
LEMMA CallingKeepsInv ==
    ASSUME Inv, Runs(Script), NEW fun \in ScriptFunction \cup NativeFunction,
           NEW by \in {"CALL", "metamethod"}, NEW base \in Nat, NEW n \in Nat, NEW kept \in Nat,
           NEW keeps, keeps \subseteq held[depth],
           n <= base, top.start <= kept, kept <= base - n,
           ptrCurrentOp' \in Nat, ptrCurrentOp' >= kept,
           execute_internal(Activation(fun, by, base, n, kept, keeps, ptrCurrentStr)),
           UNCHANGED <<disturbed, hostVars>>
    PROVE  Inv'
<1>. DEFINE f == Activation(fun, by, base, n, kept, keeps, ptrCurrentStr)
<1>1. /\ TypeOK /\ ptrCurrentStr \in Nat /\ current_scope_info_ptr \in Nat
      /\ cancel_execution \in BOOLEAN /\ asked \in BOOLEAN /\ outcome \in {"none", "ok", "error"}
  BY Bounds DEF Inv, TypeOK
<1>2. /\ mode = "run" /\ depth > dead /\ depth \in Depths /\ depth > 0
      /\ top.fun \notin NativeFunction /\ top.start \in Nat /\ top.start >= Locals[Main]
  BY ScriptOnTop DEF Depths
<1>3. held[depth] \in SUBSET Nat /\ keeps \in SUBSET Nat
  BY <1>1, <1>2 DEF TypeOK
<1>4. fun \in Function /\ fun # Main /\ (fun \in Script => Locals[fun] \in Nat)
  BY Kinds, Sizes
<1>5. /\ f \in Activations
      /\ f.fun = fun /\ f.by = by /\ f.low = base - n /\ f.base = base
      /\ f.kept = kept /\ f.keeps = keeps /\ f.strings = ptrCurrentStr
      /\ f.start = IF fun \in NativeFunction THEN ptrCurrentOp' ELSE base + Locals[fun]
      /\ f.scopes = current_scope_info_ptr + IF fun \in ScriptFunction THEN 1 ELSE 0
  BY <1>1, <1>3, <1>4, ActivationFields
<1>6. execute_internal(f)
  OBVIOUS
<1>. HIDE DEF f
<1>7. Entered(f)
  BY <1>1, <1>5, <1>6, EnteringCases
<1>8. f.start >= kept /\ (fun \in Script => f.start = base + Locals[fun])
  BY <1>4, <1>5, Kinds
<1>9. Passes(f)
  <2>1. /\ f.kept <= f.low /\ f.low <= f.base /\ f.start >= Locals[Main] /\ f.low >= Locals[Main]
    <3>1. f.start \in Nat
      BY <1>5 DEF Activations
    <3>. QED BY <1>2, <1>5, <1>8, <3>1, Bounds
  <2>2. fun \in NativeFunction => ptrCurrentOp' >= f.start
    BY <1>5
  <2>3. by # "execute"
    OBVIOUS
  <2>4. UNCHANGED <<disturbed, cancel_execution, asked, outcome>>
    BY DEF hostVars
  <2>. QED BY <1>1, <1>2, <1>4, <1>5, <1>8, <2>1, <2>2, <2>3, <2>4 DEF Passes
<1>. QED BY <1>2, <1>7, <1>9, EnteringKeepsInv

LEMMA CallKeepsInv ==
    ASSUME Inv, NEW fun \in ScriptFunction \cup NativeFunction, NEW n \in 0..Params[fun],
           NEW gone, CALL(fun, n, gone)
    PROVE  Inv'
<1>. DEFINE missing == IF fun \in Script THEN Params[fun] - n ELSE 0
<1>1. /\ Runs(Script) /\ Takes(n + 1, gone) /\ ptrCurrentOp' = ptrCurrentOp + missing
      /\ execute_internal(Activation(fun, "CALL", ptrCurrentOp + missing, n + missing,
                                     ptrCurrentOp - n - 1, held[depth] \ gone, ptrCurrentStr))
      /\ UNCHANGED <<disturbed, hostVars>>
  BY DEF CALL
<1>2. ptrCurrentOp \in Nat /\ top.start \in Nat
  BY <1>1, ScriptOnTop
<1>3. n \in Nat /\ missing \in Nat
  BY Sizes, Kinds
<1>4. n + 1 <= ptrCurrentOp - top.start
  BY <1>1 DEF Takes, Operands
<1>. HIDE DEF missing
<1>5. /\ ptrCurrentOp + missing \in Nat /\ n + missing \in Nat /\ ptrCurrentOp - n - 1 \in Nat
      /\ n + missing <= ptrCurrentOp + missing /\ top.start <= ptrCurrentOp - n - 1
      /\ ptrCurrentOp - n - 1 <= (ptrCurrentOp + missing) - (n + missing)
      /\ ptrCurrentOp' \in Nat /\ ptrCurrentOp' >= ptrCurrentOp - n - 1
  BY <1>1, <1>2, <1>3, <1>4
<1>6. held[depth] \ gone \subseteq held[depth]
  OBVIOUS
<1>. QED BY <1>1, <1>5, <1>6, CallingKeepsInv

LEMMA MetamethodKeepsInv ==
    ASSUME Inv, NEW fun \in ScriptFunction \cup NativeFunction, NEW n \in Nat, NEW popped \in Nat,
           n <= popped, NEW gone, APPLY_METAMETHOD(fun, n, popped, gone)
    PROVE  Inv'
<1>1. /\ Runs(Script) /\ Takes(popped, gone) /\ ptrCurrentOp' = ptrCurrentOp - popped
      /\ execute_internal(Activation(fun, "metamethod", ptrCurrentOp, n,
                                     ptrCurrentOp - popped, held[depth] \ gone, ptrCurrentStr))
      /\ UNCHANGED <<disturbed, hostVars>>
  BY DEF APPLY_METAMETHOD
<1>2. ptrCurrentOp \in Nat /\ top.start \in Nat
  BY <1>1, ScriptOnTop
<1>3. popped <= ptrCurrentOp - top.start
  BY <1>1 DEF Takes, Operands
<1>4. /\ ptrCurrentOp - popped \in Nat /\ n <= ptrCurrentOp /\ top.start <= ptrCurrentOp - popped
      /\ ptrCurrentOp - popped <= ptrCurrentOp - n
      /\ ptrCurrentOp' \in Nat /\ ptrCurrentOp' >= ptrCurrentOp - popped
  BY <1>1, <1>2, <1>3
<1>5. held[depth] \ gone \subseteq held[depth]
  OBVIOUS
<1>. QED BY <1>1, <1>2, <1>4, <1>5, CallingKeepsInv

-----------------------------------------------------------------------------
\* What ScopesAreOrdered says of the live activations, with its types.
LEMMA ScopeFacts ==
    ASSUME Inv, Settled
    PROVE  /\ current_scope_info_ptr \in 0..MaxScopes - 1 /\ current_scope_info_ptr \in Nat
           /\ depth \in Nat /\ dead \in 0..depth /\ depth <= MaxDepth
           /\ scope_info \in [0..MaxScopes - 1 -> 0..MaxDepth]
           /\ \A k \in 0..current_scope_info_ptr - 1 :
                 /\ scope_info[k] \in dead + 1..depth
                 /\ frame[scope_info[k]].fun \in Script
                 /\ Floor(frame[scope_info[k]]) <= k
           /\ \A i \in dead + 1..depth :
                 /\ i \in Depths /\ frame[i] \in Activations
                 /\ Floor(frame[i]) \in 0..current_scope_info_ptr
                 /\ \A k \in 0..current_scope_info_ptr - 1 :
                       scope_info[k] < i <=> k < Floor(frame[i])
                 /\ \A j \in i..depth : Floor(frame[i]) <= Floor(frame[j])
                 /\ frame[i].fun \in ScriptFunction =>
                       /\ frame[i].scopes \in 1..current_scope_info_ptr
                       /\ Floor(frame[i]) = frame[i].scopes - 1
                       /\ scope_info[frame[i].scopes - 1] = i
                 /\ frame[i].fun \notin ScriptFunction => Floor(frame[i]) = frame[i].scopes
<1>. USE Bounds
<1>1. /\ current_scope_info_ptr \in 0..MaxScopes - 1 /\ current_scope_info_ptr \in Nat
      /\ depth \in Nat /\ dead \in 0..depth /\ depth <= MaxDepth
      /\ scope_info \in [0..MaxScopes - 1 -> 0..MaxDepth]
      /\ frame \in [Depths -> Activations]
  BY DEF Inv, TypeOK
<1>2. ASSUME NEW k \in 0..current_scope_info_ptr - 1
      PROVE  /\ scope_info[k] \in dead + 1..depth
             /\ frame[scope_info[k]].fun \in Script
             /\ Floor(frame[scope_info[k]]) <= k
  <2>1. /\ dead < scope_info[k] /\ scope_info[k] <= depth
        /\ frame[scope_info[k]].fun \in Script
        /\ Floor(frame[scope_info[k]]) <= k
    BY DEF Inv, ScopesAreOrdered, Live
  <2>2. scope_info[k] \in 0..MaxDepth
    BY <1>1
  <2>. QED BY <1>1, <2>1, <2>2
<1>3. ASSUME NEW i \in dead + 1..depth
      PROVE  /\ i \in Depths /\ frame[i] \in Activations
             /\ Floor(frame[i]) \in 0..current_scope_info_ptr
             /\ \A k \in 0..current_scope_info_ptr - 1 :
                   scope_info[k] < i <=> k < Floor(frame[i])
             /\ \A j \in i..depth : Floor(frame[i]) <= Floor(frame[j])
             /\ frame[i].fun \in ScriptFunction =>
                   /\ frame[i].scopes \in 1..current_scope_info_ptr
                   /\ Floor(frame[i]) = frame[i].scopes - 1
                   /\ scope_info[frame[i].scopes - 1] = i
             /\ frame[i].fun \notin ScriptFunction => Floor(frame[i]) = frame[i].scopes
  <2>1. i \in Depths /\ i \in 1..depth
    BY <1>1 DEF Depths
  <2>2. frame[i] \in Activations /\ frame[i].scopes \in Nat
    BY <1>1, <2>1 DEF Activations
  <2>3. frame[i].fun \in ScriptFunction => frame[i].scopes \in 1..MaxScopes
    BY <2>1 DEF Inv, FramesAreKnown
  <2>4. /\ Floor(frame[i]) <= current_scope_info_ptr
        /\ \A k \in 0..current_scope_info_ptr - 1 : scope_info[k] < i <=> k < Floor(frame[i])
        /\ \A j \in i..depth : Floor(frame[i]) <= Floor(frame[j])
        /\ frame[i].fun \in ScriptFunction =>
              /\ frame[i].scopes <= current_scope_info_ptr
              /\ scope_info[frame[i].scopes - 1] = i
    BY DEF Inv, ScopesAreOrdered
  <2>5. /\ Floor(frame[i]) \in Nat
        /\ frame[i].fun \in ScriptFunction => Floor(frame[i]) = frame[i].scopes - 1
        /\ frame[i].fun \notin ScriptFunction => Floor(frame[i]) = frame[i].scopes
    BY <2>2, <2>3 DEF Floor
  <2>. QED BY <1>1, <2>1, <2>2, <2>3, <2>4, <2>5
<1>. QED BY <1>1, <1>2, <1>3

\* An instruction of the script function on top, which calls nothing.
LEMMA InsideKeepsInv ==
    ASSUME Inv, Runs(Script), mode' \in {"run", "fail"}, UNCHANGED runVars,
           ptrCurrentOp' \in Nat, ptrCurrentOp' >= top.kept, ptrCurrentStr' \in Nat,
           scope_info' \in [0..MaxScopes - 1 -> 0..MaxDepth],
           current_scope_info_ptr' \in 0..MaxScopes - 1,
           ScopesAreOrdered',
           NEW h \in SUBSET Nat, held' = [held EXCEPT ![depth] = h],
           ptrCurrentStr' = top.strings \/ ptrCurrentStr' >= ptrCurrentStr,
           depth \notin disturbed => \A s \in h : s < ptrCurrentStr',
           \A i \in clobbered' : i \in 1..depth /\ (dead < i => i \in disturbed)
    PROVE  Inv'
<1>. USE Bounds DEF runVars, hostVars
<1>1. /\ mode = "run" /\ depth > dead /\ depth \in Depths /\ depth \in 0..MaxDepth
      /\ dead \in 0..depth /\ top.fun \in Script /\ top.fun \notin NativeFunction
      /\ top = frame[depth]
  <2>1. /\ mode = "run" /\ depth > dead /\ depth \in Depths /\ depth \in 1..MaxDepth
        /\ dead \in 0..depth /\ top.fun \in Script /\ top.fun \notin NativeFunction
    BY ScriptOnTop
  <2>2. depth \in 0..MaxDepth
    BY <2>1
  <2>3. top = frame[depth]
    BY DEF top
  <2>. QED BY <2>1, <2>2, <2>3
<1>2. /\ UNCHANGED <<depth, frame, idxCurrentStack, dead, disturbed>>
      /\ UNCHANGED <<cancel_execution, asked, outcome>>
  OBVIOUS
<1>3. held' \in [Depths -> SUBSET Nat] /\ ptrCurrentStr \in Nat /\ held \in [Depths -> SUBSET Nat]
  BY <1>1 DEF Inv, TypeOK
<1>4. TypeOK'
  <2>1. \A i \in 1..depth : i \in Depths
    BY <1>1 DEF Depths
  <2>. QED BY <1>2, <1>3, <2>1 DEF Inv, TypeOK
<1>5. ModesAgree' /\ LevelsMatchFrames' /\ DumpsEndInNative'
  BY <1>1, <1>2 DEF Inv, ModesAgree, LevelsMatchFrames, DumpsEndInNative, Settled
<1>6. FramesAreKnown' /\ DisturbedAreLowest'
  BY <1>2 DEF Inv, FramesAreKnown, DisturbedAreLowest
<1>7. CellsAreOrdered'
  BY <1>1, <1>2 DEF Inv, CellsAreOrdered, top
<1>8. StringsOutliveCalls'
  BY <1>2 DEF StringsOutliveCalls, Live
<1>9. CancelsAreSeen'
  BY <1>1, <1>2 DEF Inv, CancelsAreSeen
<1>10. StringsAreOrdered'
  <2>1. ASSUME NEW i \in Depths, i > depth PROVE held'[i] = {} /\ i \notin clobbered'
    <3>1. i # depth /\ i \notin 1..depth
      BY <1>1, <2>1 DEF Depths
    <3>. QED BY <1>1, <1>3, <2>1, <3>1 DEF Inv, StringsAreOrdered
  <2>2. ASSUME NEW i \in dead + 1..depth, i \notin disturbed
        PROVE  /\ \A s \in held'[i] : s < ptrCurrentStr'
               /\ \A j \in i + 1..depth :
                     frame[j].fun \in Script => \A s \in held'[i] : s < frame[j].strings
               /\ i < depth /\ frame[i + 1].by # "execute" => frame[i + 1].keeps \subseteq held'[i]
    <3>1. CASE i = depth
      <4>1. held'[i] = h
        BY <1>1, <1>3, <3>1
      <4>2. ~(i < depth) /\ ~(\E j \in i + 1..depth : TRUE)
        BY <1>1, <3>1
      <4>. QED BY <2>2, <3>1, <4>1, <4>2
    <3>2. CASE i # depth
      <4>1. i \in Depths /\ i < depth /\ depth \in i + 1..depth
        <5>1. i \in Nat /\ dead \in Nat /\ depth \in Nat /\ dead + 1 <= i /\ i <= depth
          BY <1>1
        <5>2. i \in Nat /\ 1 <= i /\ i < depth /\ depth <= MaxDepth
          BY <1>1, <3>2, <5>1
        <5>. QED BY <5>2, <1>1 DEF Depths
      <4>2. held'[i] = held[i] /\ held[i] \in SUBSET Nat
        BY <1>3, <3>2, <4>1
      <4>3. /\ \A s \in held[i] : s < ptrCurrentStr
            /\ \A j \in i + 1..depth :
                  frame[j].fun \in Script => \A s \in held[i] : s < frame[j].strings
            /\ i < depth /\ frame[i + 1].by # "execute" => frame[i + 1].keeps \subseteq held[i]
        BY <1>1, <2>2 DEF Inv, StringsAreOrdered
      <4>4. \A s \in held[i] : s < top.strings
        BY <1>1, <4>1, <4>3
      <4>5. ASSUME NEW s \in held[i] PROVE s < ptrCurrentStr'
        <5>1. s \in Nat /\ s < ptrCurrentStr /\ s < top.strings
          BY <4>2, <4>3, <4>4
        <5>. QED BY <1>3, <5>1
      <4>. QED BY <4>2, <4>3, <4>5
    <3>. QED BY <3>1, <3>2
  <2>. QED BY <1>2, <2>1, <2>2 DEF StringsAreOrdered
<1>. QED BY <1>4, <1>5, <1>6, <1>7, <1>8, <1>9, <1>10 DEF Inv

\* What an instruction that leaves its strings alone keeps of them.
LEMMA StringsStay ==
    ASSUME Inv, Runs(Script)
    PROVE  /\ ptrCurrentOp \in Nat /\ ptrCurrentStr \in Nat /\ held[depth] \in SUBSET Nat
           /\ held \in [Depths -> SUBSET Nat]
           /\ scope_info \in [0..MaxScopes - 1 -> 0..MaxDepth]
           /\ current_scope_info_ptr \in 0..MaxScopes - 1
           /\ depth \notin disturbed => \A s \in held[depth] : s < ptrCurrentStr
           /\ \A i \in clobbered : i \in 1..depth /\ (dead < i => i \in disturbed)
<1>1. /\ mode = "run" /\ depth > dead /\ depth \in Depths /\ depth \in Nat /\ dead \in Nat
  BY ScriptOnTop, Bounds DEF Depths
<1>2. depth \in dead + 1..depth
  BY <1>1
<1>3. \A i \in clobbered : i \in 1..depth
  BY <1>1 DEF Inv, StringsAreOrdered, TypeOK, Depths
<1>. QED BY <1>1, <1>2, <1>3 DEF Inv, TypeOK, StringsAreOrdered, StringsOutliveCalls, Live

LEMMA ScopesStay ==
    ASSUME Inv, Runs(Script), mode' \in {"run", "fail"}, UNCHANGED <<scopeVars, runVars>>
    PROVE  ScopesAreOrdered'
<1>1. CASE mode' = "fail"
  BY <1>1 DEF ScopesAreOrdered, Settled
<1>2. CASE mode' = "run"
  <2>1. mode = "run"
    BY DEF Runs
  <2>2. UNCHANGED <<depth, frame, dead, scope_info, current_scope_info_ptr>>
    BY DEF scopeVars, runVars
  <2>. QED BY <1>2, <2>1, <2>2 DEF Inv, ScopesAreOrdered, Settled, Live
<1>. QED BY <1>1, <1>2

\* The instructions that move the top of the value stack or of the strings.
LEMMA OperandsKeepInv ==
    ASSUME Inv, \/ Statement \/ PushOperand \/ PUSH_STRING \/ Fail
                \/ \E gone \in Strings : Pop(gone)
    PROVE  Inv'
<1>. USE Bounds
<1>1. Runs(Script) /\ UNCHANGED <<scopeVars, runVars>>
  BY DEF Statement, PushOperand, PUSH_STRING, Fail, Pop, stackVars, scopeVars, runVars
<1>2. /\ mode = "run" /\ depth \in Depths /\ top.kept \in Nat /\ top.start \in Nat
      /\ top.kept <= top.start /\ ptrCurrentOp \in Nat /\ ptrCurrentOp >= top.kept
      /\ top \in Activations /\ depth > dead /\ depth \in Nat /\ dead \in Nat
  BY <1>1, ScriptOnTop DEF Depths
<1>3. /\ ptrCurrentStr \in Nat /\ held[depth] \in SUBSET Nat
      /\ held \in [Depths -> SUBSET Nat]
      /\ scope_info' \in [0..MaxScopes - 1 -> 0..MaxDepth]
      /\ current_scope_info_ptr' \in 0..MaxScopes - 1
      /\ depth \notin disturbed => \A s \in held[depth] : s < ptrCurrentStr
      /\ \A i \in clobbered : i \in 1..depth /\ (dead < i => i \in disturbed)
  BY <1>1, StringsStay DEF scopeVars
<1>4. CASE Statement
  <2>1. /\ mode' = "run" /\ ptrCurrentOp' = top.start /\ ptrCurrentStr' = top.strings
        /\ held' = [held EXCEPT ![depth] = {}] /\ clobbered' = clobbered
    BY <1>2, <1>4 DEF Statement
  <2>2. top.strings \in Nat
    BY <1>2 DEF Activations
  <2>3. ScopesAreOrdered'
    BY <1>1, <2>1, ScopesStay
  <2>4. /\ {} \in SUBSET Nat /\ \A s \in {} : s < ptrCurrentStr'
        /\ ptrCurrentOp' \in Nat /\ ptrCurrentOp' >= top.kept /\ ptrCurrentStr' \in Nat
    BY <1>2, <2>1, <2>2
  <2>5. \A i \in clobbered' : i \in 1..depth /\ (dead < i => i \in disturbed)
    BY <1>3, <2>1
  <2>. QED BY <1>1, <1>3, <2>1, <2>3, <2>4, <2>5, InsideKeepsInv
<1>5. CASE PushOperand \/ Fail \/ (PUSH_STRING /\ ptrCurrentStr = StringSlots - 1)
  <2>1. /\ mode' \in {"run", "fail"} /\ ptrCurrentOp' \in {ptrCurrentOp, ptrCurrentOp + 1}
        /\ UNCHANGED <<ptrCurrentStr, held, clobbered>>
    BY <1>2, <1>5 DEF PushOperand, Fail, PUSH_STRING, stackVars
  <2>2. held' = [held EXCEPT ![depth] = held[depth]]
    BY <1>2, <1>3, <2>1
  <2>3. ptrCurrentOp' \in Nat /\ ptrCurrentOp' >= top.kept /\ ptrCurrentStr' >= ptrCurrentStr
    BY <1>2, <1>3, <2>1
  <2>4. ScopesAreOrdered'
    BY <1>1, <2>1, ScopesStay
  <2>. QED BY <1>1, <1>2, <1>3, <2>1, <2>2, <2>3, <2>4, InsideKeepsInv
<1>6. CASE PUSH_STRING /\ ptrCurrentStr # StringSlots - 1
  <2>1. /\ mode' = "run" /\ ptrCurrentOp' = ptrCurrentOp + 1 /\ ptrCurrentStr' = ptrCurrentStr + 1
        /\ held' = [held EXCEPT ![depth] = held[depth] \cup {ptrCurrentStr}]
        /\ clobbered' = clobbered \cup {i \in 1..depth : ptrCurrentStr \in held[i]}
    BY <1>2, <1>3, <1>6 DEF PUSH_STRING
  <2>2. ASSUME NEW i \in clobbered' PROVE i \in 1..depth /\ (dead < i => i \in disturbed)
    <3>1. CASE i \in clobbered
      BY <1>3, <3>1
    <3>2. CASE i \in 1..depth /\ ptrCurrentStr \in held[i]
      <4>. SUFFICES ASSUME dead < i, i \notin disturbed PROVE FALSE
        BY <3>2
      <4>1. i \in dead + 1..depth
        BY <1>2, <3>2
      <4>2. \A s \in held[i] : s < ptrCurrentStr
        BY <1>2, <4>1 DEF Inv, StringsAreOrdered
      <4>. QED BY <1>3, <3>2, <4>2
    <3>. QED BY <2>1, <3>1, <3>2
  <2>3. depth \notin disturbed => \A s \in held[depth] \cup {ptrCurrentStr} : s < ptrCurrentStr'
    <3>. SUFFICES ASSUME depth \notin disturbed, NEW s \in held[depth] \cup {ptrCurrentStr}
                  PROVE  s < ptrCurrentStr'
      OBVIOUS
    <3>1. s \in Nat /\ (s < ptrCurrentStr \/ s = ptrCurrentStr)
      BY <1>3
    <3>. QED BY <1>3, <2>1, <3>1
  <2>4. /\ held[depth] \cup {ptrCurrentStr} \in SUBSET Nat /\ ptrCurrentStr' >= ptrCurrentStr
        /\ ptrCurrentStr' \in Nat /\ ptrCurrentOp' \in Nat /\ ptrCurrentOp' >= top.kept
    BY <1>2, <1>3, <2>1
  <2>5. ScopesAreOrdered'
    BY <1>1, <2>1, ScopesStay
  <2>. QED BY <1>1, <1>3, <2>1, <2>2, <2>3, <2>4, <2>5, InsideKeepsInv
<1>7. ASSUME NEW gone \in Strings, Pop(gone) PROVE Inv'
  <2>1. /\ mode' = "run" /\ ptrCurrentOp' = ptrCurrentOp - 1
        /\ held' = [held EXCEPT ![depth] = held[depth] \ gone]
        /\ UNCHANGED <<ptrCurrentStr, clobbered>>
        /\ 1 <= ptrCurrentOp - top.start
    BY <1>2, <1>3, <1>7 DEF Pop, Takes, Operands
  <2>2. /\ ptrCurrentOp' \in Nat /\ ptrCurrentOp' >= top.kept /\ ptrCurrentStr' >= ptrCurrentStr
        /\ ptrCurrentStr' \in Nat
    BY <1>2, <1>3, <2>1
  <2>3. /\ held[depth] \ gone \in SUBSET Nat
        /\ depth \notin disturbed => \A s \in held[depth] \ gone : s < ptrCurrentStr'
    BY <1>3, <2>1
  <2>4. ScopesAreOrdered'
    BY <1>1, <2>1, ScopesStay
  <2>. QED BY <1>1, <1>3, <2>1, <2>2, <2>3, <2>4, InsideKeepsInv
<1>. QED BY <1>4, <1>5, <1>6, <1>7

\* A block opens or closes above the scopes that the function found.
LEMMA ScopesKeepInv ==
    ASSUME Inv, OpenScope \/ POP_SCOPE PROVE Inv'
<1>. USE Bounds
<1>. DEFINE p == current_scope_info_ptr
            q == current_scope_info_ptr'
<1>1. /\ Runs(Script) /\ UNCHANGED runVars
      /\ UNCHANGED <<ptrCurrentOp, ptrCurrentStr, held, clobbered>>
  BY DEF OpenScope, POP_SCOPE
<1>2. /\ mode = "run" /\ Settled /\ depth \in Depths /\ depth \in dead + 1..depth
      /\ top = frame[depth] /\ top.fun \in Script /\ top.kept \in Nat
      /\ ptrCurrentOp \in Nat /\ ptrCurrentOp >= top.kept
      /\ depth \in Nat /\ dead \in Nat /\ depth > dead
  BY <1>1, ScriptOnTop DEF Settled, top, Depths
<1>3. /\ p \in 0..MaxScopes - 1 /\ p \in Nat /\ depth \in 1..MaxDepth
      /\ scope_info \in [0..MaxScopes - 1 -> 0..MaxDepth]
      /\ \A k \in 0..p - 1 : /\ scope_info[k] \in dead + 1..depth
                             /\ frame[scope_info[k]].fun \in Script
                             /\ Floor(frame[scope_info[k]]) <= k
      /\ \A i \in dead + 1..depth :
            /\ Floor(frame[i]) \in 0..p
            /\ \A k \in 0..p - 1 : scope_info[k] < i <=> k < Floor(frame[i])
            /\ \A j \in i..depth : Floor(frame[i]) <= Floor(frame[j])
            /\ frame[i].fun \in ScriptFunction =>
                  /\ frame[i].scopes \in 1..p
                  /\ Floor(frame[i]) = frame[i].scopes - 1
                  /\ scope_info[frame[i].scopes - 1] = i
            /\ frame[i].fun \notin ScriptFunction => Floor(frame[i]) = frame[i].scopes
  BY <1>2, ScopeFacts
<1>4. p \in Nat
  BY <1>3
<1>5. UNCHANGED <<depth, dead, frame>>
  BY <1>1 DEF runVars
<1>6. /\ mode' \in {"run", "fail"} /\ q \in 0..MaxScopes - 1
      /\ scope_info' \in [0..MaxScopes - 1 -> 0..MaxDepth]
      /\ ScopesAreOrdered'
  <2>1. CASE mode' = "fail"
    <3>1. UNCHANGED scopeVars
      BY <1>2, <2>1 DEF OpenScope, POP_SCOPE, PUSH_SCOPE
    <3>. QED BY <1>3, <2>1, <3>1 DEF scopeVars, ScopesAreOrdered, Settled
  <2>2. CASE OpenScope /\ mode' # "fail"
    <3>1. /\ mode' = "run" /\ p < MaxScopes - 1 /\ q = p + 1
          /\ scope_info' = [scope_info EXCEPT ![p] = depth]
      BY <1>2, <1>3, <2>2 DEF OpenScope, ScopesAreFull, PUSH_SCOPE
    <3>2. /\ scope_info' \in [0..MaxScopes - 1 -> 0..MaxDepth] /\ q \in 0..MaxScopes - 1
          /\ scope_info'[p] = depth /\ \A k \in 0..p - 1 : scope_info'[k] = scope_info[k]
      BY <1>3, <3>1
    <3>3. \A k \in 0..q - 1 : k \in 0..p - 1 \/ k = p
      BY <1>3, <3>1
    <3>4. ASSUME NEW k \in 0..q - 1
          PROVE  /\ scope_info'[k] \in dead + 1..depth
                 /\ frame[scope_info'[k]].fun \in Script
                 /\ Floor(frame[scope_info'[k]]) <= k
      <4>1. CASE k \in 0..p - 1
        BY <1>3, <3>2, <4>1
      <4>2. CASE k = p
        <5>1. Floor(frame[depth]) <= p
          <6>1. Floor(frame[depth]) \in 0..p
            BY <1>2, <1>3
          <6>. QED BY <1>4, <6>1
        <5>. QED BY <1>2, <3>2, <4>2, <5>1
      <4>. QED BY <3>3, <4>1, <4>2
    <3>5. ASSUME NEW i \in dead + 1..depth
          PROVE  /\ Floor(frame[i]) <= q
                 /\ \A k \in 0..q - 1 : scope_info'[k] < i <=> k < Floor(frame[i])
                 /\ frame[i].fun \in ScriptFunction =>
                       /\ frame[i].scopes <= q
                       /\ scope_info'[frame[i].scopes - 1] = i
      <4>1. ASSUME NEW k \in 0..q - 1 PROVE scope_info'[k] < i <=> k < Floor(frame[i])
        <5>1. CASE k \in 0..p - 1
          BY <1>3, <3>2, <5>1
        <5>2. CASE k = p
          BY <1>2, <1>3, <3>2, <5>2
        <5>. QED BY <3>3, <5>1, <5>2
      <4>2. Floor(frame[i]) <= q
        BY <1>3, <3>1
      <4>3. frame[i].fun \in ScriptFunction =>
               frame[i].scopes <= q /\ scope_info'[frame[i].scopes - 1] = i
        <5>. SUFFICES ASSUME frame[i].fun \in ScriptFunction
                      PROVE  frame[i].scopes <= q /\ scope_info'[frame[i].scopes - 1] = i
          OBVIOUS
        <5>1. frame[i].scopes \in 1..p /\ scope_info[frame[i].scopes - 1] = i
          BY <1>3
        <5>2. frame[i].scopes - 1 \in 0..p - 1 /\ frame[i].scopes <= q
          BY <1>4, <3>1, <5>1
        <5>. QED BY <3>2, <5>1, <5>2
      <4>. QED BY <4>1, <4>2, <4>3
    <3>6. \A i \in dead + 1..depth : \A j \in i..depth : Floor(frame[i]) <= Floor(frame[j])
      BY <1>3
    <3>7. \A k \in 0..q - 1 : dead < scope_info'[k] /\ scope_info'[k] <= depth
      BY <1>2, <3>4
    <3>8. ScopesAreOrdered'
      BY <1>5, <3>4, <3>5, <3>6, <3>7 DEF ScopesAreOrdered, Live
    <3>. QED BY <3>1, <3>2, <3>8
  <2>3. CASE POP_SCOPE
    <3>1. /\ mode' = "run" /\ p > top.scopes /\ q = p - 1
          /\ scope_info' = [k \in 0..MaxScopes - 1 |-> IF k < q THEN scope_info[k] ELSE 0]
      BY <1>2, <2>3 DEF POP_SCOPE, PopScopes
    <3>2. Floor(top) <= q /\ (top.fun \in ScriptFunction => top.scopes <= q) /\ q \in 0..MaxScopes - 1
      <4>1. /\ Floor(top) \in 0..p
            /\ top.fun \in ScriptFunction => top.scopes \in 1..p /\ Floor(top) = top.scopes - 1
            /\ top.fun \notin ScriptFunction => Floor(top) = top.scopes
        BY <1>2, <1>3
      <4>2. Floor(top) \in Int /\ top.scopes \in Int /\ Floor(top) <= top.scopes
        BY <4>1
      <4>3. q \in Int /\ p \in Int /\ q = p - 1 /\ p > top.scopes
        BY <1>3, <3>1
      <4>4. Floor(top) <= q /\ top.scopes <= q
        BY <4>2, <4>3
      <4>5. q \in 0..MaxScopes - 1
        <5>1. p \in 0..MaxScopes - 1 /\ Floor(top) \in Nat
          BY <1>3, <4>1
        <5>. QED BY <4>3, <4>4, <5>1
      <4>. QED BY <4>4, <4>5
    <3>3. /\ scope_info' \in [0..MaxScopes - 1 -> 0..MaxDepth]
          /\ \A k \in 0..q - 1 : k \in 0..p - 1 /\ scope_info'[k] = scope_info[k]
      <4>1. scope_info \in [0..MaxScopes - 1 -> 0..MaxDepth] /\ depth \in Nat /\ 0 \in 0..MaxDepth
        BY <1>3
      <4>2. scope_info' \in [0..MaxScopes - 1 -> 0..MaxDepth]
        BY <3>1, <4>1
      <4>3. q \in Nat /\ q <= MaxScopes - 1
        BY <3>2
      <4>4. \A k \in 0..q - 1 : k \in 0..p - 1 /\ k \in 0..MaxScopes - 1 /\ k < q
        BY <1>4, <3>1, <4>3
      <4>. QED BY <3>1, <4>2, <4>4
    <3>5. ASSUME NEW i \in dead + 1..depth
          PROVE  /\ Floor(frame[i]) <= q
                 /\ frame[i].fun \in ScriptFunction =>
                       /\ frame[i].scopes <= q
                       /\ scope_info'[frame[i].scopes - 1] = i
      <4>1. Floor(frame[i]) <= Floor(top) /\ Floor(frame[i]) \in Nat /\ Floor(top) \in Nat
        BY <1>2, <1>3
      <4>2. ASSUME frame[i].fun \in ScriptFunction PROVE frame[i].scopes <= q
        <5>1. CASE i = depth
          BY <1>2, <3>2, <4>2, <5>1
        <5>2. CASE i < depth
          <6>1. /\ frame[i].scopes \in 1..p /\ scope_info[frame[i].scopes - 1] = i
                /\ Floor(frame[i]) = frame[i].scopes - 1
            BY <1>3, <4>2
          <6>2. frame[i].scopes - 1 \in 0..p - 1
            BY <1>3, <6>1
          <6>3. frame[i].scopes - 1 < Floor(top)
            BY <1>2, <1>3, <5>2, <6>1, <6>2
          <6>. QED BY <1>4, <3>2, <4>1, <6>1, <6>3
        <5>. QED BY <1>2, <5>1, <5>2
      <4>3. ASSUME frame[i].fun \in ScriptFunction PROVE scope_info'[frame[i].scopes - 1] = i
        <5>1. frame[i].scopes \in 1..p /\ scope_info[frame[i].scopes - 1] = i
          BY <1>3, <4>3
        <5>2. frame[i].scopes - 1 \in 0..q - 1
          BY <1>4, <3>2, <4>2, <4>3, <5>1
        <5>. QED BY <3>3, <5>1, <5>2
      <4>. QED BY <3>2, <4>1, <4>2, <4>3
    <3>6. \A i \in dead + 1..depth :
             /\ \A j \in i..depth : Floor(frame[i]) <= Floor(frame[j])
             /\ \A k \in 0..q - 1 : scope_info'[k] < i <=> k < Floor(frame[i])
      BY <1>3, <3>3
    <3>7. \A k \in 0..q - 1 : /\ dead < scope_info'[k] /\ scope_info'[k] <= depth
                               /\ frame[scope_info'[k]].fun \in Script
                               /\ Floor(frame[scope_info'[k]]) <= k
      <4>. SUFFICES ASSUME NEW k \in 0..q - 1
                    PROVE  /\ dead < scope_info'[k] /\ scope_info'[k] <= depth
                           /\ frame[scope_info'[k]].fun \in Script
                           /\ Floor(frame[scope_info'[k]]) <= k
        OBVIOUS
      <4>1. k \in 0..p - 1 /\ scope_info'[k] = scope_info[k]
        BY <3>3
      <4>2. /\ scope_info[k] \in dead + 1..depth
            /\ frame[scope_info[k]].fun \in Script
            /\ Floor(frame[scope_info[k]]) <= k
        BY <1>3, <4>1
      <4>. QED BY <1>2, <4>1, <4>2
    <3>8. ScopesAreOrdered'
      BY <1>5, <3>5, <3>6, <3>7 DEF ScopesAreOrdered, Live
    <3>. QED BY <3>1, <3>2, <3>3, <3>8
  <2>4. mode' \in {"run", "fail"}
    BY <1>2 DEF OpenScope, POP_SCOPE
  <2>. QED BY <2>1, <2>2, <2>3, <2>4
<1>7. /\ ptrCurrentStr \in Nat /\ held[depth] \in SUBSET Nat
      /\ held \in [Depths -> SUBSET Nat]
      /\ depth \notin disturbed => \A s \in held[depth] : s < ptrCurrentStr
      /\ \A i \in clobbered : i \in 1..depth /\ (dead < i => i \in disturbed)
  BY <1>1, StringsStay
<1>8. held' = [held EXCEPT ![depth] = held[depth]] /\ ptrCurrentStr' >= ptrCurrentStr
  BY <1>1, <1>2, <1>7
<1>. QED BY <1>1, <1>2, <1>6, <1>7, <1>8, InsideKeepsInv

-----------------------------------------------------------------------------
\* The activation on top leaves; those below stay as they are.
LEMMA DropFacts ==
    ASSUME Inv, Drop, depth > 0
    PROVE  /\ depth \in 1..MaxDepth /\ depth \in Depths /\ dead \in 0..depth
           /\ depth' = depth - 1 /\ depth' \in 0..MaxDepth
           /\ frame' \in [Depths -> Activations]
           /\ \A i \in 1..depth - 1 : i \in Depths /\ i # depth /\ frame'[i] = frame[i]
           /\ disturbed' \subseteq Depths /\ clobbered' \subseteq Depths
           /\ FramesAreKnown' /\ DisturbedAreLowest'
           /\ \A i \in Depths : i > depth' => i \notin clobbered'
           /\ \A i \in clobbered' : i \in clobbered
           /\ \A i \in 1..depth - 1 : i \in disturbed => i \in disturbed'
<1>. USE Bounds DEF Drop
<1>1. /\ depth \in 1..MaxDepth /\ depth \in Depths /\ dead \in 0..depth
      /\ depth' = depth - 1 /\ depth' \in 0..MaxDepth /\ depth \in Nat
  BY DEF Inv, TypeOK, Depths
<1>2. \A i \in 1..depth - 1 : i \in Depths /\ i # depth
  BY <1>1 DEF Depths
<1>3. NoFrame \in Activations
  BY Kinds DEF NoFrame, Activations
<1>4. frame \in [Depths -> Activations] /\ disturbed \subseteq Depths /\ clobbered \subseteq Depths
  BY DEF Inv, TypeOK
<1>5. /\ frame' \in [Depths -> Activations]
      /\ \A i \in 1..depth - 1 : frame'[i] = frame[i]
  BY <1>1, <1>2, <1>3, <1>4
<1>6. /\ disturbed' \subseteq Depths /\ clobbered' \subseteq Depths
      /\ \A i \in clobbered' : i \in clobbered /\ i # depth
      /\ \A i \in disturbed' : i \in disturbed /\ i # depth
      /\ \A i \in 1..depth - 1 : i \in disturbed => i \in disturbed'
  BY <1>2, <1>4
<1>7. FramesAreKnown'
  <2>. SUFFICES ASSUME NEW i \in 1..depth - 1
                PROVE  /\ frame'[i].by \in {"execute", "CALL", "metamethod"}
                       /\ frame'[i].by = "execute" <=> (i = 1 \/ frame'[i - 1].fun \in NativeFunction)
                       /\ frame'[i].fun \in ScriptFunction => frame'[i].scopes \in 1..MaxScopes
                       /\ frame'[i].fun \in Script => frame'[i].start = frame'[i].base + Locals[frame'[i].fun]
    BY <1>1 DEF FramesAreKnown
  <2>1. i \in 1..depth /\ frame'[i] = frame[i] /\ (i # 1 => frame'[i - 1] = frame[i - 1])
    BY <1>1, <1>5
  <2>. QED BY <2>1 DEF Inv, FramesAreKnown
<1>8. DisturbedAreLowest'
  <2>. SUFFICES ASSUME NEW i \in disturbed'
                PROVE  i \in 1..depth - 1 /\ \A k \in 1..i : k \in disturbed'
    BY <1>1 DEF DisturbedAreLowest
  <2>1. i \in 1..depth /\ i # depth /\ \A k \in 1..i : k \in disturbed
    BY <1>6 DEF Inv, DisturbedAreLowest
  <2>. QED BY <1>1, <1>6, <2>1
<1>9. \A i \in Depths : i > depth' => i \notin clobbered'
  <2>1. \A i \in Depths : i > depth => i \notin clobbered
    BY DEF Inv, StringsAreOrdered
  <2>. QED BY <1>1, <1>6, <2>1 DEF Depths
<1>. QED BY <1>1, <1>2, <1>5, <1>6, <1>7, <1>8, <1>9

\* A function that ends well gives the scopes, the level and the cells back as
\* its caller left them.
LEMMA ResumeKeepsInv ==
    ASSUME Inv, mode = "run", depth > dead, NEW pushed \in {0, 1},
           NEW result, result \subseteq held[depth], Resume(pushed, result),
           idxCurrentStack' = idxCurrentStack - 1,
           current_scope_info_ptr' = Floor(top),
           scope_info' \in [0..MaxScopes - 1 -> 0..MaxDepth],
           \A k \in 0..Floor(top) - 1 : scope_info'[k] = scope_info[k]
    PROVE  Inv'
<1>. USE Bounds
<1>. DEFINE p == current_scope_info_ptr
            q == current_scope_info_ptr'
<1>1. /\ Drop /\ depth > 0 /\ depth \in Nat /\ dead \in Nat /\ Settled
      /\ UNCHANGED <<ptrCurrentStr, dead, cancel_execution, asked>>
  BY DEF Resume, Inv, TypeOK, Settled
<1>2. /\ depth \in 1..MaxDepth /\ depth \in Depths /\ dead \in 0..depth
      /\ depth' = depth - 1 /\ depth' \in 0..MaxDepth
      /\ frame' \in [Depths -> Activations]
      /\ \A i \in 1..depth - 1 : i \in Depths /\ i # depth /\ frame'[i] = frame[i]
      /\ disturbed' \subseteq Depths /\ clobbered' \subseteq Depths
      /\ FramesAreKnown' /\ DisturbedAreLowest'
      /\ \A i \in Depths : i > depth' => i \notin clobbered'
      /\ \A i \in clobbered' : i \in clobbered
      /\ \A i \in 1..depth - 1 : i \in disturbed => i \in disturbed'
  BY <1>1, DropFacts
<1>3. /\ top = frame[depth] /\ top \in Activations /\ top.kept \in Nat /\ top.keeps \subseteq Nat
      /\ depth \in dead + 1..depth /\ dead \in 0..depth'
      /\ ptrCurrentOp \in Nat /\ ptrCurrentStr \in Nat
      /\ held \in [Depths -> SUBSET Nat] /\ result \subseteq Nat
      /\ outcome \in {"none", "ok", "error"}
      /\ cancel_execution \in BOOLEAN /\ asked \in BOOLEAN
  <2>1. /\ frame \in [Depths -> Activations] /\ held \in [Depths -> SUBSET Nat]
        /\ ptrCurrentOp \in Nat /\ ptrCurrentStr \in Nat
        /\ outcome \in {"none", "ok", "error"}
        /\ cancel_execution \in BOOLEAN /\ asked \in BOOLEAN
    BY DEF Inv, TypeOK
  <2>2. top = frame[depth] /\ top \in Activations /\ result \subseteq Nat
    BY <1>2, <2>1 DEF top
  <2>3. top.kept \in Nat /\ top.keeps \subseteq Nat
    BY <2>2 DEF Activations
  <2>4. depth \in dead + 1..depth /\ dead \in 0..depth'
    BY <1>1, <1>2
  <2>. QED BY <2>1, <2>2, <2>3, <2>4
<1>4. top.by = "execute" <=> (depth = 1 \/ frame[depth - 1].fun \in NativeFunction)
  BY <1>1, <1>3 DEF Inv, FramesAreKnown
\* What CALL and execute do differently.
<1>5. /\ mode' \in {"idle", "run", "fail"} /\ (mode' = "idle" <=> top.by = "execute" /\ depth = 1)
      /\ outcome' \in {"none", "ok", "error"}
      /\ ptrCurrentOp' \in Nat
      /\ held' \in [Depths -> SUBSET Nat] /\ held'[depth] = {}
      /\ \A i \in 1..depth - 2 : held'[i] = held[i]
      /\ top.by # "execute" => depth > 1 /\ ptrCurrentOp' >= top.kept
                               /\ held'[depth - 1] = top.keeps \cup result
      /\ top.by = "execute" => /\ ptrCurrentOp' = ptrCurrentOp
                               /\ depth > 1 => held'[depth - 1] = held[depth - 1]
      /\ mode' = "run" => ~(top.by = "CALL" /\ cancel_execution)
  <2>0. \A i \in 1..depth - 2 : i \in Depths /\ i # depth /\ i # depth - 1
    <3>1. \A i \in 1..depth - 2 : i \in 1..depth - 1 /\ i # depth - 1
      BY <1>1
    <3>. QED BY <1>2, <3>1
  <2>1. CASE top.by = "execute"
    <3>1. /\ mode' = IF depth = 1 THEN "idle" ELSE "run"
          /\ outcome' = IF depth = 1 THEN "ok" ELSE outcome
          /\ held' = [held EXCEPT ![depth] = {}]
          /\ ptrCurrentOp' = ptrCurrentOp
      BY <2>1 DEF Resume
    <3>2. depth > 1 => depth - 1 \in Depths /\ depth - 1 # depth
      <4>1. depth > 1 => depth - 1 \in 1..depth - 1
        BY <1>1
      <4>. QED BY <1>2, <4>1
    <3>3. /\ held' \in [Depths -> SUBSET Nat] /\ held'[depth] = {}
          /\ \A i \in 1..depth - 2 : held'[i] = held[i]
          /\ depth > 1 => held'[depth - 1] = held[depth - 1]
      BY <1>2, <1>3, <2>0, <3>1, <3>2
    <3>. QED BY <1>3, <2>1, <3>1, <3>3
  <2>2. CASE top.by # "execute"
    <3>1. /\ mode' = IF top.by = "CALL" /\ cancel_execution THEN "fail" ELSE "run"
          /\ ptrCurrentOp' = top.kept + pushed
          /\ held' = [held EXCEPT ![depth] = {}, ![depth - 1] = top.keeps \cup result]
          /\ UNCHANGED outcome
      BY <2>2 DEF Resume
    <3>2. depth > 1 /\ depth - 1 \in Depths /\ depth - 1 # depth
      BY <1>1, <1>2, <1>4, <2>2
    <3>3. top.keeps \cup result \in SUBSET Nat
      BY <1>3
    <3>4. /\ held' \in [Depths -> SUBSET Nat] /\ held'[depth] = {}
          /\ held'[depth - 1] = top.keeps \cup result
          /\ \A i \in 1..depth - 2 : held'[i] = held[i]
      BY <1>2, <1>3, <2>0, <3>1, <3>2, <3>3
    <3>5. ptrCurrentOp' \in Nat /\ ptrCurrentOp' >= top.kept
      <4>1. top.kept \in Nat /\ pushed \in Nat /\ ptrCurrentOp' = top.kept + pushed
        BY <1>3, <3>1
      <4>. QED BY <4>1
    <3>. QED BY <1>3, <2>2, <3>1, <3>2, <3>4, <3>5
  <2>. QED BY <2>1, <2>2
<1>6. /\ p \in Nat /\ p \in 0..MaxScopes - 1 /\ Floor(top) \in 0..p
      /\ \A k \in 0..p - 1 : /\ scope_info[k] \in dead + 1..depth
                             /\ frame[scope_info[k]].fun \in Script
                             /\ Floor(frame[scope_info[k]]) <= k
                             /\ scope_info[k] < depth <=> k < Floor(top)
      /\ \A i \in dead + 1..depth :
            /\ Floor(frame[i]) \in 0..p
            /\ \A k \in 0..p - 1 : scope_info[k] < i <=> k < Floor(frame[i])
            /\ \A j \in i..depth : Floor(frame[i]) <= Floor(frame[j])
            /\ frame[i].fun \in ScriptFunction =>
                  /\ frame[i].scopes \in 1..p
                  /\ Floor(frame[i]) = frame[i].scopes - 1
                  /\ scope_info[frame[i].scopes - 1] = i
  BY <1>1, <1>3, ScopeFacts
<1>7. p \in Nat /\ q \in Nat /\ Floor(top) = q /\ q <= p
  BY <1>6
<1>8. idxCurrentStack = depth - dead /\ idxCurrentStack \in 0..MaxCalls
  BY <1>1 DEF Inv, LevelsMatchFrames, TypeOK
<1>9. \A i \in dead + 1..depth - 1 : i \in 1..depth - 1 /\ i \in dead + 1..depth
  BY <1>1
<1>10. TypeOK'
  <2>1. q \in 0..MaxScopes - 1
    BY <1>6
  <2>2. idxCurrentStack' \in 0..MaxCalls
    <3>1. idxCurrentStack' = idxCurrentStack - 1 /\ idxCurrentStack > 0
      BY <1>1, <1>8
    <3>. QED BY <1>8, <3>1
  <2>. QED BY <1>1, <1>2, <1>3, <1>5, <2>1, <2>2 DEF TypeOK
<1>11. ModesAgree'
  <2>1. mode' = "idle" => depth' = 0
    BY <1>2, <1>5
  <2>2. mode' # "idle" => depth' > 0
    BY <1>1, <1>2, <1>4, <1>5
  <2>. QED BY <1>5, <2>1, <2>2 DEF ModesAgree
<1>12. DumpsEndInNative'
  <2>. SUFFICES ASSUME dead > 0 PROVE frame'[dead].fun \in NativeFunction
    BY <1>1 DEF DumpsEndInNative
  <2>1. dead \in 1..depth - 1
    BY <1>1
  <2>. QED BY <1>2, <2>1 DEF Inv, DumpsEndInNative
<1>13. LevelsMatchFrames'
  BY <1>1, <1>2, <1>8 DEF LevelsMatchFrames
<1>14. CellsAreOrdered'
  <2>1. \A i \in dead + 1..depth :
           /\ frame[i].kept <= frame[i].low /\ frame[i].low <= frame[i].base
           /\ frame[i].kept <= frame[i].start
           /\ frame[i].start >= Locals[Main]
           /\ frame[i].fun # Main => frame[i].low >= Locals[Main]
           /\ i > dead + 1 => frame[i - 1].start <= frame[i].kept
    BY DEF Inv, CellsAreOrdered
  <2>2. ptrCurrentOp >= top.kept
    BY DEF Inv, CellsAreOrdered
  <2>3. ASSUME NEW i \in dead + 1..depth - 1
        PROVE  /\ frame'[i].kept <= frame'[i].low /\ frame'[i].low <= frame'[i].base
               /\ frame'[i].kept <= frame'[i].start
               /\ frame'[i].start >= Locals[Main]
               /\ frame'[i].fun # Main => frame'[i].low >= Locals[Main]
               /\ i > dead + 1 => frame'[i - 1].start <= frame'[i].kept
    <3>1. i \in dead + 1..depth /\ frame'[i] = frame[i]
      BY <1>2, <1>9
    <3>2. i > dead + 1 => frame'[i - 1] = frame[i - 1]
      BY <1>1, <1>2
    <3>. QED BY <2>1, <3>1, <3>2
  <2>4. ASSUME depth' > dead
        PROVE  ptrCurrentOp' >= frame'[depth'].start /\ frame'[depth'].kept <= frame'[depth'].start
               /\ frame'[depth'].start \in Nat /\ frame'[depth'].kept \in Nat
    <3>1. depth - 1 \in dead + 1..depth - 1 /\ depth > dead + 1
      BY <1>1, <1>2, <2>4
    <3>2. frame'[depth - 1] = frame[depth - 1] /\ frame'[depth - 1] \in Activations
      BY <1>2, <1>9, <3>1
    <3>3. frame[depth - 1].start <= top.kept /\ frame[depth - 1].kept <= frame[depth - 1].start
      BY <1>3, <1>9, <2>1, <3>1
    <3>4. ptrCurrentOp' >= top.kept
      BY <1>5, <2>2
    <3>5. frame'[depth - 1].start \in Nat /\ frame'[depth - 1].kept \in Nat
      BY <3>2 DEF Activations
    <3>. QED BY <1>2, <1>3, <1>5, <3>2, <3>3, <3>4, <3>5
  <2>5. ASSUME depth' > dead PROVE ptrCurrentOp' >= frame'[depth'].kept
    BY <1>5, <2>4, <2>5
  <2>. QED BY <1>1, <1>2, <2>3, <2>4, <2>5 DEF CellsAreOrdered, top
<1>15. ScopesAreOrdered'
  <2>1. ASSUME NEW k \in 0..q - 1
        PROVE  /\ dead < scope_info'[k] /\ scope_info'[k] <= depth - 1
               /\ frame'[scope_info'[k]].fun \in Script
               /\ Floor(frame'[scope_info'[k]]) <= k
    <3>1. k \in 0..Floor(top) - 1 /\ k \in 0..p - 1 /\ k < Floor(top)
      BY <1>7
    <3>2. scope_info'[k] = scope_info[k] /\ scope_info[k] \in dead + 1..depth - 1
      <4>1. scope_info[k] \in dead + 1..depth /\ scope_info[k] < depth
        BY <1>6, <3>1
      <4>2. scope_info[k] \in dead + 1..depth - 1
        BY <1>1, <4>1
      <4>. QED BY <3>1, <4>2
    <3>3. frame'[scope_info[k]] = frame[scope_info[k]]
      BY <1>2, <1>9, <3>2
    <3>4. frame[scope_info[k]].fun \in Script /\ Floor(frame[scope_info[k]]) <= k
      BY <1>6, <3>1
    <3>. QED BY <1>1, <3>2, <3>3, <3>4
  <2>2. ASSUME NEW i \in dead + 1..depth - 1
        PROVE  /\ Floor(frame'[i]) <= q
               /\ \A k \in 0..q - 1 : scope_info'[k] < i <=> k < Floor(frame'[i])
               /\ \A j \in i..depth - 1 : Floor(frame'[i]) <= Floor(frame'[j])
               /\ frame'[i].fun \in ScriptFunction =>
                     /\ frame'[i].scopes <= q
                     /\ scope_info'[frame'[i].scopes - 1] = i
    <3>1. i \in dead + 1..depth /\ frame'[i] = frame[i] /\ depth \in i..depth
      BY <1>1, <1>2, <1>9
    <3>2. Floor(frame[i]) <= Floor(top)
      BY <1>3, <1>6, <3>1
    <3>3. ASSUME NEW k \in 0..q - 1 PROVE scope_info'[k] < i <=> k < Floor(frame'[i])
      <4>1. k \in 0..Floor(top) - 1 /\ k \in 0..p - 1
        BY <1>6
      <4>. QED BY <1>6, <3>1, <4>1
    <3>4. ASSUME NEW j \in i..depth - 1 PROVE Floor(frame'[i]) <= Floor(frame'[j])
      <4>1. j \in i..depth /\ j \in 1..depth - 1
        BY <1>1
      <4>. QED BY <1>2, <1>6, <3>1, <4>1
    <3>5. ASSUME frame[i].fun \in ScriptFunction
          PROVE  frame[i].scopes <= q /\ scope_info'[frame[i].scopes - 1] = i
      <4>. DEFINE n == frame[i].scopes
      <4>1. n \in 1..p /\ scope_info[n - 1] = i
        BY <1>6, <3>1, <3>5
      <4>. HIDE DEF n
      <4>2. p \in Nat /\ q \in Nat
        BY <1>7
      <4>. HIDE DEF p, q
      <4>3. n - 1 \in 0..p - 1
        BY <4>1, <4>2
      <4>4. scope_info[n - 1] < depth
        BY <1>1, <4>1
      <4>5. n - 1 < q
        <5>1. n - 1 < Floor(top)
          BY <1>6, <4>3, <4>4 DEF p
        <5>. QED BY <1>7, <5>1 DEF q
      <4>6. n <= q /\ n - 1 \in 0..q - 1
        BY <4>1, <4>2, <4>5
      <4>7. n - 1 \in 0..Floor(top) - 1
        BY <1>7, <4>6 DEF q
      <4>8. scope_info'[n - 1] = i
        BY <4>1, <4>7
      <4>. QED BY <4>6, <4>8 DEF n, q
    <3>. QED BY <3>1, <3>2, <3>3, <3>4, <3>5
  <2>. QED BY <1>1, <1>2, <2>1, <2>2 DEF ScopesAreOrdered, Live
<1>16. StringsAreOrdered'
  <2>1. \A i \in Depths : i > depth' => held'[i] = {} /\ i \notin clobbered'
    <3>. SUFFICES ASSUME NEW i \in Depths, i > depth' PROVE held'[i] = {}
      BY <1>2
    <3>1. CASE i = depth
      BY <1>5, <3>1
    <3>2. CASE i > depth
      <4>1. held[i] = {} /\ i # depth /\ i # depth - 1
        BY <1>1, <3>2 DEF Inv, StringsAreOrdered
      <4>. QED BY <1>2, <1>3, <3>2, <4>1 DEF Resume
    <3>. QED BY <1>1, <1>2, <3>1, <3>2 DEF Depths
  <2>2. ASSUME NEW i \in dead + 1..depth - 1, i \notin disturbed'
        PROVE  /\ \A s \in held'[i] : s < ptrCurrentStr
               /\ \A j \in i + 1..depth - 1 :
                     frame'[j].fun \in Script => \A s \in held'[i] : s < frame'[j].strings
               /\ i < depth - 1 /\ frame'[i + 1].by # "execute" => frame'[i + 1].keeps \subseteq held'[i]
    <3>1. i \in dead + 1..depth /\ i \in 1..depth - 1 /\ i \notin disturbed
      BY <1>2, <1>9, <2>2
    <3>2. /\ \A s \in held[i] : s < ptrCurrentStr
          /\ \A j \in i + 1..depth :
                frame[j].fun \in Script => \A s \in held[i] : s < frame[j].strings
          /\ i < depth /\ frame[i + 1].by # "execute" => frame[i + 1].keeps \subseteq held[i]
      BY <3>1 DEF Inv, StringsAreOrdered
    <3>3. CASE i < depth - 1
      <4>1. i \in 1..depth - 2 /\ i + 1 \in 1..depth - 1 /\ i < depth
        BY <1>1, <3>1, <3>3
      <4>2. held'[i] = held[i] /\ frame'[i + 1] = frame[i + 1]
        BY <1>2, <1>5, <4>1
      <4>3. \A j \in i + 1..depth - 1 : j \in 1..depth - 1 /\ j \in i + 1..depth
        BY <1>1, <4>1
      <4>. QED BY <1>2, <3>2, <4>1, <4>2, <4>3
    <3>4. CASE i = depth - 1
      <4>1. ~(i < depth - 1) /\ ~(\E j \in i + 1..depth - 1 : TRUE) /\ i + 1 = depth /\ i < depth
        BY <1>1, <3>4
      <4>2. CASE top.by = "execute"
        <5>1. held'[i] = held[i]
          BY <1>1, <1>5, <3>1, <3>4, <4>2
        <5>. QED BY <3>2, <4>1, <5>1
      <4>3. CASE top.by # "execute"
        <5>1. held'[i] = top.keeps \cup result
          BY <1>5, <3>4, <4>3
        <5>2. top.keeps \subseteq held[i]
          BY <1>3, <3>2, <4>1, <4>3
        <5>3. depth \notin disturbed
          BY <1>1, <3>1 DEF Inv, DisturbedAreLowest
        <5>4. \A s \in held[depth] : s < ptrCurrentStr
          BY <1>3, <5>3 DEF Inv, StringsAreOrdered
        <5>. QED BY <3>2, <4>1, <5>1, <5>2, <5>4
      <4>. QED BY <4>2, <4>3
    <3>. QED BY <1>1, <3>1, <3>3, <3>4
  <2>. QED BY <1>1, <1>2, <2>1, <2>2 DEF StringsAreOrdered
<1>17. StringsOutliveCalls'
  <2>. SUFFICES ASSUME NEW i \in clobbered', dead < i, i <= depth - 1 PROVE i \in disturbed'
    BY <1>1, <1>2 DEF StringsOutliveCalls, Live
  <2>1. i \in clobbered /\ i \in Nat
    BY <1>2 DEF Depths
  <2>2. i \in 1..depth - 1 /\ i <= depth
    BY <1>1, <2>1
  <2>. QED BY <1>2, <2>1, <2>2 DEF Inv, StringsOutliveCalls, Live
<1>18. CancelsAreSeen'
  <2>1. ASSUME mode' = "idle" PROVE ~asked
    <3>1. depth = 1 /\ dead = 0 /\ top.by = "execute"
      BY <1>1, <1>5, <2>1
    <3>2. ~(\E i \in 1..depth : frame[i].fun \in NativeFunction /\ frame[i].by = "CALL")
      BY <1>3, <3>1
    <3>. QED BY <3>1, <3>2 DEF Inv, CancelsAreSeen
  <2>2. ASSUME mode' = "run", asked, dead = 0
        PROVE  cancel_execution /\ \E i \in 1..depth - 1 :
                   frame'[i].fun \in NativeFunction /\ frame'[i].by = "CALL"
    <3>1. cancel_execution /\ \E i \in 1..depth :
             frame[i].fun \in NativeFunction /\ frame[i].by = "CALL"
      BY <2>2 DEF Inv, CancelsAreSeen
    <3>2. PICK i \in 1..depth : frame[i].fun \in NativeFunction /\ frame[i].by = "CALL"
      BY <3>1
    <3>3. i # depth
      BY <1>3, <1>5, <2>2, <3>1, <3>2
    <3>4. i \in 1..depth - 1 /\ frame'[i] = frame[i]
      BY <1>1, <1>2, <3>3
    <3>. QED BY <3>1, <3>2, <3>4
  <2>. QED BY <1>1, <1>2, <2>1, <2>2 DEF CancelsAreSeen
<1>. QED BY <1>2, <1>10, <1>11, <1>12, <1>13, <1>14, <1>15, <1>16, <1>17, <1>18 DEF Inv

\* A function of the script returns: main has closed its blocks, another pops
\* its root scope and what is above it.
LEMMA ReturnKeepsInv ==
    ASSUME Inv, NEW pushed \in {0, 1}, NEW result, Return(pushed, result)
    PROVE  Inv'
<1>. USE Bounds
<1>1. /\ Runs(Script) /\ result \subseteq held[depth] /\ Resume(pushed, result)
      /\ idxCurrentStack' = idxCurrentStack - 1
      /\ top.fun = Main => current_scope_info_ptr = top.scopes
      /\ IF top.fun = Main THEN UNCHANGED scopeVars ELSE PopScopes(OwnScopes)
  BY DEF Return
<1>2. /\ mode = "run" /\ depth > dead /\ Settled /\ top = frame[depth] /\ top.fun \in Script
      /\ depth \in dead + 1..depth
  BY <1>1, ScriptOnTop DEF Settled, top
<1>3. /\ current_scope_info_ptr \in 0..MaxScopes - 1
      /\ scope_info \in [0..MaxScopes - 1 -> 0..MaxDepth]
      /\ Floor(top) \in 0..current_scope_info_ptr
      /\ top.fun \in ScriptFunction => Floor(top) = top.scopes - 1
      /\ top.fun \notin ScriptFunction => Floor(top) = top.scopes
  BY <1>2, ScopeFacts
<1>4. /\ current_scope_info_ptr' = Floor(top)
      /\ scope_info' \in [0..MaxScopes - 1 -> 0..MaxDepth]
      /\ \A k \in 0..Floor(top) - 1 : scope_info'[k] = scope_info[k]
  <2>1. CASE top.fun = Main
    BY <1>1, <1>3, <2>1, Kinds DEF scopeVars
  <2>2. CASE top.fun # Main
    <3>1. top.fun \in ScriptFunction /\ Floor(top) = OwnScopes
      BY <1>2, <1>3, <2>2, Kinds DEF OwnScopes
    <3>2. /\ current_scope_info_ptr' = OwnScopes
          /\ scope_info' = [k \in 0..MaxScopes - 1 |-> IF k < OwnScopes THEN scope_info[k] ELSE 0]
      BY <1>1, <2>2 DEF PopScopes
    <3>3. scope_info' = [k \in 0..MaxScopes - 1 |-> IF k < Floor(top) THEN scope_info[k] ELSE 0]
      BY <3>1, <3>2
    <3>4. \A k \in 0..Floor(top) - 1 : k \in 0..MaxScopes - 1 /\ k < Floor(top)
      BY <1>3
    <3>. QED BY <1>3, <3>1, <3>2, <3>3, <3>4
  <2>. QED BY <2>1, <2>2
<1>. QED BY <1>1, <1>2, <1>4, ResumeKeepsInv

\* A C++ function returns: it opened no scope, and its level is still there if
\* there is one at all.
LEMMA ReturnNativeKeepsInv ==
    ASSUME Inv, NEW pushed \in {0, 1}, ReturnNative(pushed)
    PROVE  Inv'
<1>. USE Bounds
<1>1. /\ mode = "run" /\ depth > 0 /\ top.fun \in NativeFunction /\ Settled
      /\ depth \in Nat /\ dead \in Nat /\ dead <= depth /\ idxCurrentStack = depth - dead
  BY DEF ReturnNative, Runs, Settled, Inv, TypeOK, LevelsMatchFrames
<1>2. CASE idxCurrentStack > 0
  <2>1. /\ idxCurrentStack' = idxCurrentStack - 1 /\ Resume(pushed, {})
        /\ UNCHANGED scopeVars
    BY <1>2 DEF ReturnNative
  <2>2. depth > dead /\ depth \in dead + 1..depth /\ top = frame[depth]
    BY <1>1, <1>2 DEF top
  <2>3. /\ current_scope_info_ptr \in Nat
        /\ scope_info \in [0..MaxScopes - 1 -> 0..MaxDepth]
        /\ Floor(top) \in 0..current_scope_info_ptr
        /\ \A k \in 0..current_scope_info_ptr - 1 :
              /\ scope_info[k] \in dead + 1..depth
              /\ frame[scope_info[k]].fun \in Script
              /\ scope_info[k] < depth <=> k < Floor(top)
    BY <1>1, <2>2, ScopeFacts
  <2>4. current_scope_info_ptr = Floor(top)
    <3>. SUFFICES ASSUME Floor(top) < current_scope_info_ptr PROVE FALSE
      BY <2>3
    <3>. DEFINE k == Floor(top)
    <3>1. k \in 0..current_scope_info_ptr - 1
      BY <2>3
    <3>2. scope_info[k] \in dead + 1..depth /\ frame[scope_info[k]].fun \in Script
          /\ ~(scope_info[k] < depth)
      BY <2>3, <3>1
    <3>3. scope_info[k] = depth
      BY <1>1, <3>2
    <3>. QED BY <1>1, <2>2, <3>2, <3>3, Kinds
  <2>5. /\ current_scope_info_ptr' = Floor(top)
        /\ scope_info' \in [0..MaxScopes - 1 -> 0..MaxDepth]
        /\ \A k \in 0..Floor(top) - 1 : scope_info'[k] = scope_info[k]
    BY <2>1, <2>3, <2>4 DEF scopeVars
  <2>6. {} \subseteq held[depth]
    OBVIOUS
  <2>. QED BY <1>1, <2>1, <2>2, <2>5, <2>6, ResumeKeepsInv
<1>3. CASE ~(idxCurrentStack > 0)
  <2>1. /\ mode' = "fail"
        /\ UNCHANGED <<depth, frame, stackVars, held, historyVars, hostVars>>
    BY <1>3 DEF ReturnNative
  <2>2. UNCHANGED <<depth, frame, idxCurrentStack, ptrCurrentOp, ptrCurrentStr, scope_info,
                    current_scope_info_ptr, held, dead, disturbed, clobbered,
                    cancel_execution, asked, outcome>>
    BY <2>1 DEF stackVars, historyVars, hostVars
  <2>3. TypeOK'
    BY <2>1, <2>2 DEF Inv, TypeOK
  <2>4. ModesAgree' /\ DumpsEndInNative' /\ LevelsMatchFrames' /\ CellsAreOrdered'
    BY <1>1, <2>1, <2>2 DEF ModesAgree, DumpsEndInNative, LevelsMatchFrames, CellsAreOrdered, Settled
  <2>5. FramesAreKnown' /\ DisturbedAreLowest'
    BY <2>2 DEF Inv, FramesAreKnown, DisturbedAreLowest
  <2>6. ScopesAreOrdered'
    BY <2>1 DEF ScopesAreOrdered, Settled
  <2>7. StringsAreOrdered' /\ CancelsAreSeen'
    BY <2>1, <2>2 DEF Inv, StringsAreOrdered, CancelsAreSeen
  <2>8. StringsOutliveCalls'
    BY <2>2 DEF Inv, StringsOutliveCalls, Live
  <2>. QED BY <2>3, <2>4, <2>5, <2>6, <2>7, <2>8 DEF Inv
<1>. QED BY <1>2, <1>3

LEMMA CancelKeepsInv == ASSUME Inv, Cancel PROVE Inv'
<1>1. /\ mode = "run" /\ depth > 0 /\ top.fun \in NativeFunction /\ depth \in Nat
      /\ cancel_execution' = TRUE /\ asked' = (asked \/ top.by = "CALL")
      /\ asked \in BOOLEAN
  BY Bounds DEF Cancel, Runs, Inv, TypeOK
<1>2. UNCHANGED <<mode, depth, frame, idxCurrentStack, ptrCurrentOp, ptrCurrentStr, scope_info,
                  current_scope_info_ptr, held, dead, disturbed, clobbered, outcome>>
  BY DEF Cancel, stackVars, historyVars
<1>3. TypeOK'
  BY <1>1, <1>2 DEF Inv, TypeOK
<1>4. ModesAgree' /\ DumpsEndInNative' /\ LevelsMatchFrames'
  BY <1>2 DEF Inv, ModesAgree, DumpsEndInNative, LevelsMatchFrames, Settled
<1>5. FramesAreKnown' /\ DisturbedAreLowest' /\ CellsAreOrdered'
  BY <1>2 DEF Inv, FramesAreKnown, DisturbedAreLowest, CellsAreOrdered, top
<1>6. ScopesAreOrdered'
  BY <1>2 DEF Inv, ScopesAreOrdered, Settled, Live
<1>7. StringsAreOrdered' /\ StringsOutliveCalls'
  BY <1>2 DEF Inv, StringsAreOrdered, StringsOutliveCalls, Live
<1>8. CancelsAreSeen'
  <2>. SUFFICES ASSUME asked'
                PROVE  dead > 0 \/ \E i \in 1..depth :
                          frame[i].fun \in NativeFunction /\ frame[i].by = "CALL"
    BY <1>1, <1>2 DEF CancelsAreSeen
  <2>1. CASE asked
    BY <1>1, <2>1 DEF Inv, CancelsAreSeen
  <2>2. CASE top.by = "CALL"
    <3>1. depth \in 1..depth
      BY <1>1
    <3>. QED BY <1>1, <2>2, <3>1 DEF top
  <2>. QED BY <1>1, <2>1, <2>2
<1>. QED BY <1>3, <1>4, <1>5, <1>6, <1>7, <1>8 DEF Inv

-----------------------------------------------------------------------------
\* An activation leaves by an error.  Nothing is said of the stacks until an
\* execute has dumped them, and then no activation on them is live.
LEMMA AbandonKeepsInv ==
    ASSUME Inv, Drop, depth > 0, held' = [held EXCEPT ![depth] = {}],
           dead' \in 0..depth - 1,
           mode' \in {"idle", "run", "fail", "thrown"},
           mode' = "idle" <=> depth = 1,
           mode' = "run" => frame[depth - 1].fun \in NativeFunction,
           outcome' \in {"none", "ok", "error"}, mode' = "idle" => outcome' = "error",
           mode' # "fail" => dead' = depth - 1 /\ idxCurrentStack' = 0 /\ current_scope_info_ptr' = 0,
           idxCurrentStack' \in 0..MaxCalls, current_scope_info_ptr' \in 0..MaxScopes - 1,
           scope_info' \in [0..MaxScopes - 1 -> 0..MaxDepth],
           dead' <= dead \/ dead' = depth - 1,
           mode' = "fail" => dead' = IF dead < depth - 1 THEN dead ELSE depth - 1,
           UNCHANGED <<ptrCurrentOp, ptrCurrentStr, cancel_execution, asked>>
    PROVE  Inv'
<1>. USE Bounds
<1>1. /\ depth \in 1..MaxDepth /\ depth \in Depths /\ dead \in 0..depth
      /\ depth' = depth - 1 /\ depth' \in 0..MaxDepth
      /\ frame' \in [Depths -> Activations]
      /\ \A i \in 1..depth - 1 : i \in Depths /\ i # depth /\ frame'[i] = frame[i]
      /\ disturbed' \subseteq Depths /\ clobbered' \subseteq Depths
      /\ FramesAreKnown' /\ DisturbedAreLowest'
      /\ \A i \in Depths : i > depth' => i \notin clobbered'
      /\ \A i \in clobbered' : i \in clobbered
      /\ \A i \in 1..depth - 1 : i \in disturbed => i \in disturbed'
  BY DropFacts
<1>2. /\ ptrCurrentOp \in Nat /\ ptrCurrentStr \in Nat /\ held \in [Depths -> SUBSET Nat]
      /\ cancel_execution \in BOOLEAN /\ asked \in BOOLEAN
  BY DEF Inv, TypeOK
<1>3. TypeOK'
  <2>1. held' \in [Depths -> SUBSET Nat]
    BY <1>1, <1>2
  <2>2. dead' \in 0..depth'
    BY <1>1
  <2>. QED BY <1>1, <1>2, <2>1, <2>2 DEF TypeOK
<1>4. ModesAgree' /\ LevelsMatchFrames'
  <2>1. mode' = "idle" => depth' = 0
    BY <1>1
  <2>2. mode' # "idle" => depth' > 0
    BY <1>1
  <2>3. mode' # "fail" => dead' = depth' /\ idxCurrentStack' = 0 /\ current_scope_info_ptr' = 0
    BY <1>1
  <2>4. ModesAgree'
    BY <2>1, <2>2, <2>3 DEF ModesAgree
  <2>5. mode' # "fail" => idxCurrentStack' = depth' - dead'
    BY <1>1, <2>3
  <2>6. LevelsMatchFrames'
    BY <2>5 DEF LevelsMatchFrames, Settled
  <2>. QED BY <2>4, <2>6
<1>5. DumpsEndInNative'
  <2>. SUFFICES ASSUME mode' = "run", dead' > 0 PROVE frame'[dead'].fun \in NativeFunction
    BY DEF DumpsEndInNative
  <2>1. dead' = depth - 1 /\ depth - 1 \in 1..depth - 1
    BY <1>1
  <2>. QED BY <1>1, <2>1
<1>6. CellsAreOrdered' /\ ScopesAreOrdered'
  <2>1. mode' # "fail" => /\ ~(\E i \in dead' + 1..depth' : TRUE) /\ ~(depth' > dead')
                          /\ ~(\E k \in 0..current_scope_info_ptr' - 1 : TRUE)
    BY <1>1
  <2>2. CellsAreOrdered'
    BY <2>1 DEF CellsAreOrdered
  <2>3. ScopesAreOrdered'
    BY <2>1 DEF ScopesAreOrdered, Settled
  <2>. QED BY <2>2, <2>3
<1>7. StringsAreOrdered'
  <2>1. mode' = "run" => ~(\E i \in dead' + 1..depth' : TRUE)
    BY <1>1
  <2>2. \A i \in Depths : i > depth' => held'[i] = {}
    <3>. SUFFICES ASSUME NEW i \in Depths, i > depth' PROVE held'[i] = {}
      OBVIOUS
    <3>1. CASE i = depth
      BY <1>1, <1>2, <3>1
    <3>2. CASE i # depth
      <4>1. i > depth
        BY <1>1, <3>2 DEF Depths
      <4>2. held[i] = {}
        BY <4>1 DEF Inv, StringsAreOrdered
      <4>. QED BY <1>2, <3>2, <4>2
    <3>. QED BY <3>1, <3>2
  <2>. QED BY <1>1, <2>1, <2>2 DEF StringsAreOrdered
<1>8. StringsOutliveCalls'
  <2>. SUFFICES ASSUME NEW i \in clobbered', dead' < i, i <= depth - 1 PROVE i \in disturbed'
    BY <1>1 DEF StringsOutliveCalls, Live
  <2>1. i \in clobbered /\ i \in Nat /\ dead < i /\ i <= depth
    BY <1>1 DEF Depths
  <2>2. i \in 1..depth - 1
    BY <1>1, <2>1
  <2>. QED BY <1>1, <2>1, <2>2 DEF Inv, StringsOutliveCalls, Live
<1>9. CancelsAreSeen'
  BY <1>1 DEF CancelsAreSeen
<1>. QED BY <1>1, <1>3, <1>4, <1>5, <1>6, <1>7, <1>8, <1>9 DEF Inv

LEMMA LeaveFailedKeepsInv == ASSUME Inv, LeaveFailed PROVE Inv'
<1>. USE Bounds
<1>1. /\ mode = "fail" /\ Drop /\ held' = [held EXCEPT ![depth] = {}]
      /\ UNCHANGED <<ptrCurrentOp, ptrCurrentStr, cancel_execution, asked>>
  BY DEF LeaveFailed
<1>2. /\ depth > 0 /\ depth \in Nat /\ dead \in 0..depth
      /\ idxCurrentStack \in 0..MaxCalls /\ current_scope_info_ptr \in 0..MaxScopes - 1
      /\ scope_info \in [0..MaxScopes - 1 -> 0..MaxDepth]
      /\ outcome \in {"none", "ok", "error"} /\ depth <= MaxDepth
  BY <1>1 DEF Inv, TypeOK, ModesAgree
<1>3. top.by = "execute" <=> (depth = 1 \/ frame[depth - 1].fun \in NativeFunction)
  BY <1>2 DEF Inv, FramesAreKnown, top
<1>4. CASE top.by = "execute"
  <2>1. /\ PopScopes(0) /\ idxCurrentStack' = 0 /\ dead' = depth - 1
        /\ IF depth = 1 THEN mode' = "idle" ELSE mode' \in {"run", "thrown"}
        /\ outcome' = IF depth = 1 THEN "error" ELSE outcome
    BY <1>4 DEF LeaveFailed, DumpedLevel
  <2>2. /\ current_scope_info_ptr' = 0
        /\ scope_info' \in [0..MaxScopes - 1 -> 0..MaxDepth]
    <3>1. /\ current_scope_info_ptr' = 0
          /\ scope_info' = [k \in 0..MaxScopes - 1 |-> IF k < 0 THEN scope_info[k] ELSE 0]
      BY <2>1 DEF PopScopes
    <3>2. \A k \in 0..MaxScopes - 1 : (IF k < 0 THEN scope_info[k] ELSE 0) \in 0..MaxDepth
      OBVIOUS
    <3>. QED BY <3>1, <3>2
  <2>3. /\ mode' \in {"idle", "run", "thrown"} /\ (mode' = "idle" <=> depth = 1)
        /\ mode' = "run" => frame[depth - 1].fun \in NativeFunction
        /\ outcome' \in {"none", "ok", "error"} /\ (mode' = "idle" => outcome' = "error")
        /\ dead' \in 0..depth - 1 /\ 0 \in 0..MaxCalls /\ 0 \in 0..MaxScopes - 1
    BY <1>2, <1>3, <1>4, <2>1
  <2>. QED BY <1>1, <1>2, <2>1, <2>2, <2>3, AbandonKeepsInv
<1>5. CASE top.by # "execute"
  <2>1. /\ dead' = Least(dead, depth - 1) /\ mode' = "fail" /\ UNCHANGED <<idxCurrentStack, outcome>>
        /\ UNCHANGED scopeVars
    BY <1>1, <1>5 DEF LeaveFailed
  <2>2. /\ dead' = IF dead < depth - 1 THEN dead ELSE depth - 1
        /\ dead' \in 0..depth - 1 /\ depth # 1
        /\ dead' <= dead \/ dead' = depth - 1
    BY <1>2, <1>3, <1>5, <2>1 DEF Least
  <2>. QED BY <1>1, <1>2, <2>1, <2>2, AbandonKeepsInv DEF scopeVars
<1>. QED BY <1>4, <1>5

LEMMA LeaveThrownKeepsInv == ASSUME Inv, LeaveThrown PROVE Inv'
<1>. USE Bounds
<1>1. /\ mode = "thrown" /\ Drop /\ held' = [held EXCEPT ![depth] = {}]
      /\ dead' = Least(dead, depth - 1)
      /\ IF depth = 1 THEN mode' = "idle"
         ELSE IF frame[depth - 1].fun \in NativeFunction THEN mode' \in {"run", "thrown"}
         ELSE UNCHANGED mode
      /\ outcome' = IF depth = 1 THEN "error" ELSE outcome
      /\ UNCHANGED <<ptrCurrentOp, ptrCurrentStr, idxCurrentStack, scope_info,
                     current_scope_info_ptr, cancel_execution, asked>>
  BY DEF LeaveThrown, stackVars
<1>2. /\ depth > 0 /\ depth \in Nat /\ dead = depth
      /\ idxCurrentStack = 0 /\ current_scope_info_ptr = 0
      /\ scope_info \in [0..MaxScopes - 1 -> 0..MaxDepth]
      /\ outcome \in {"none", "ok", "error"}
  BY <1>1 DEF Inv, TypeOK, ModesAgree
<1>3. dead' = depth - 1 /\ dead' \in 0..depth - 1
  BY <1>1, <1>2 DEF Least
<1>4. /\ mode' \in {"idle", "run", "thrown"} /\ (mode' = "idle" <=> depth = 1)
      /\ mode' = "run" => frame[depth - 1].fun \in NativeFunction
      /\ outcome' \in {"none", "ok", "error"} /\ (mode' = "idle" => outcome' = "error")
      /\ idxCurrentStack' \in 0..MaxCalls /\ current_scope_info_ptr' \in 0..MaxScopes - 1
  BY <1>1, <1>2
<1>. QED BY <1>1, <1>2, <1>3, <1>4, AbandonKeepsInv

LEMMA StutterKeepsInv == ASSUME Inv, UNCHANGED vars PROVE Inv'
<1>1. UNCHANGED <<mode, depth, frame, idxCurrentStack, ptrCurrentOp, ptrCurrentStr, scope_info,
                  current_scope_info_ptr, held, dead, disturbed, clobbered,
                  cancel_execution, asked, outcome>>
  BY DEF vars, stackVars, historyVars, hostVars
<1>2. (TypeOK /\ ModesAgree /\ FramesAreKnown)'
  BY <1>1 DEF Inv, TypeOK, ModesAgree, FramesAreKnown
<1>3. (DumpsEndInNative /\ LevelsMatchFrames /\ CellsAreOrdered)'
  BY <1>1 DEF Inv, DumpsEndInNative, LevelsMatchFrames, CellsAreOrdered, Settled, top
<1>4. (ScopesAreOrdered /\ DisturbedAreLowest)'
  BY <1>1 DEF Inv, ScopesAreOrdered, DisturbedAreLowest, Settled, Live
<1>5. (StringsAreOrdered /\ StringsOutliveCalls /\ CancelsAreSeen)'
  BY <1>1 DEF Inv, StringsAreOrdered, StringsOutliveCalls, CancelsAreSeen, Live
<1>. QED BY <1>2, <1>3, <1>4, <1>5 DEF Inv

-----------------------------------------------------------------------------
\* The stacks agree with the activations in every reachable state, for every
\* script, every limit and every nesting of scripts and C++ functions.
THEOREM InvHolds == Spec => []Inv
<1>1. Init => Inv
  BY InitInv
<1>2. Inv /\ [Next]_vars => Inv'
  <2>. SUFFICES ASSUME Inv, [Next]_vars PROVE Inv'
    OBVIOUS
  <2>1. CASE UNCHANGED vars
    BY <2>1, StutterKeepsInv
  <2>2. ASSUME NEW fun \in Function, Execute(fun) PROVE Inv'
    BY <2>2, ExecuteKeepsInv
  <2>3. CASE Statement \/ PushOperand \/ PUSH_STRING \/ Fail
    BY <2>3, OperandsKeepInv
  <2>4. ASSUME NEW gone \in Strings, Pop(gone) PROVE Inv'
    BY <2>4, OperandsKeepInv
  <2>5. CASE OpenScope \/ POP_SCOPE
    BY <2>5, ScopesKeepInv
  <2>6. ASSUME NEW gone \in Strings, NEW fun \in ScriptFunction \cup NativeFunction,
               NEW n \in 0..Params[fun], CALL(fun, n, gone)
        PROVE  Inv'
    BY <2>6, CallKeepsInv
  <2>7. ASSUME NEW gone \in Strings, NEW fun \in ScriptFunction \cup NativeFunction,
               NEW args \in {<<1, 1>>, <<1, 2>>, <<2, 2>>},
               APPLY_METAMETHOD(fun, args[1], args[2], gone)
        PROVE  Inv'
    <3>1. args[1] \in Nat /\ args[2] \in Nat /\ args[1] <= args[2]
      BY <2>7
    <3>. QED BY <2>7, <3>1, MetamethodKeepsInv
  <2>8. ASSUME NEW pushed \in {0, 1}, ReturnNative(pushed) PROVE Inv'
    BY <2>8, ReturnNativeKeepsInv
  <2>9. ASSUME NEW pushed \in {0, 1}, NEW result \in Strings, Return(pushed, result) PROVE Inv'
    BY <2>9, ReturnKeepsInv
  <2>10. CASE Cancel
    BY <2>10, CancelKeepsInv
  <2>11. CASE LeaveFailed
    BY <2>11, LeaveFailedKeepsInv
  <2>12. CASE LeaveThrown
    BY <2>12, LeaveThrownKeepsInv
  <2>13. CASE Exited
    BY <2>13, StutterKeepsInv DEF Exited
  <2>. QED BY <2>1, <2>2, <2>3, <2>4, <2>5, <2>6, <2>7, <2>8, <2>9, <2>10, <2>11, <2>12, <2>13
           DEF Next
<1>. QED BY <1>1, <1>2, PTL DEF Spec

\* The types of the variables.
THEOREM TypesHold == Spec => []TypeOK
<1>1. Inv => TypeOK
  BY DEF Inv
<1>. QED BY <1>1, InvHolds, PTL

\* Between two errors idxCurrentStack is the number of the activations that no
\* dump has touched.  Functions end by RET, by an error of the machine, by
\* cancelling or by an exception after a dump; an exception that no dump precedes
\* (SpecThrow) leaves levels behind and is not covered.
THEOREM LevelsHold == Spec => []LevelsMatchFrames
<1>1. Inv => LevelsMatchFrames
  BY DEF Inv
<1>. QED BY <1>1, InvHolds, PTL

\* No script function goes on after an error has taken its variables.
THEOREM NoDumpedFunctionRuns == Spec => []DumpedFunctionNeverRuns
<1>1. Inv => DumpedFunctionNeverRuns
  BY ScriptOnTop DEF DumpedFunctionNeverRuns
<1>. QED BY <1>1, InvHolds, PTL

\* Every open scope belongs to a live script function, in the order of the calls.
THEOREM ScopesHold == Spec => []ScopesBelongToFrames
<1>1. Inv => ScopesBelongToFrames
  <2>. SUFFICES ASSUME Inv, Settled
                PROVE  /\ \A k \in 0..current_scope_info_ptr - 1 :
                             /\ Live(scope_info[k])
                             /\ frame[scope_info[k]].fun \in Script
                             /\ k > 0 => scope_info[k - 1] <= scope_info[k]
                       /\ \A i \in 1..depth : Live(i) /\ frame[i].fun \in ScriptFunction =>
                             /\ frame[i].scopes \in 1..current_scope_info_ptr
                             /\ scope_info[frame[i].scopes - 1] = i
                             /\ \A k \in 0..frame[i].scopes - 2 : scope_info[k] < i
    BY DEF ScopesBelongToFrames
  <2>. DEFINE p == current_scope_info_ptr
  <2>1. /\ p \in Nat /\ depth \in Nat /\ dead \in 0..depth
        /\ \A k \in 0..p - 1 : /\ scope_info[k] \in dead + 1..depth
                               /\ frame[scope_info[k]].fun \in Script
                               /\ Floor(frame[scope_info[k]]) <= k
        /\ \A i \in dead + 1..depth :
              /\ Floor(frame[i]) \in 0..p
              /\ \A k \in 0..p - 1 : scope_info[k] < i <=> k < Floor(frame[i])
              /\ frame[i].fun \in ScriptFunction =>
                    /\ frame[i].scopes \in 1..p
                    /\ Floor(frame[i]) = frame[i].scopes - 1
                    /\ scope_info[frame[i].scopes - 1] = i
    BY ScopeFacts
  <2>2. ASSUME NEW k \in 0..p - 1
        PROVE  /\ Live(scope_info[k])
               /\ frame[scope_info[k]].fun \in Script
               /\ k > 0 => scope_info[k - 1] <= scope_info[k]
    <3>1. scope_info[k] \in dead + 1..depth /\ frame[scope_info[k]].fun \in Script
      BY <2>1
    <3>2. Live(scope_info[k])
      BY <2>1, <3>1 DEF Live
    <3>3. ASSUME k > 0 PROVE scope_info[k - 1] <= scope_info[k]
      <4>1. k - 1 \in 0..p - 1 /\ k \in Nat
        BY <2>1, <3>3
      <4>. DEFINE i == scope_info[k - 1]
                  j == scope_info[k]
      <4>2. i \in dead + 1..depth /\ j \in dead + 1..depth /\ Floor(frame[i]) <= k - 1
        BY <2>1, <4>1
      <4>3. ~(j < i)
        <5>1. Floor(frame[i]) \in 0..p /\ (j < i <=> k < Floor(frame[i]))
          BY <2>1, <4>2
        <5>. QED BY <2>1, <4>1, <4>2, <5>1
      <4>. QED BY <2>1, <4>2, <4>3
    <3>. QED BY <3>1, <3>2, <3>3
  <2>3. ASSUME NEW i \in 1..depth, Live(i), frame[i].fun \in ScriptFunction
        PROVE  /\ frame[i].scopes \in 1..p
               /\ scope_info[frame[i].scopes - 1] = i
               /\ \A k \in 0..frame[i].scopes - 2 : scope_info[k] < i
    <3>1. i \in dead + 1..depth
      BY <2>1, <2>3 DEF Live
    <3>2. /\ frame[i].scopes \in 1..p /\ scope_info[frame[i].scopes - 1] = i
          /\ Floor(frame[i]) = frame[i].scopes - 1
      BY <2>1, <2>3, <3>1
    <3>3. ASSUME NEW k \in 0..frame[i].scopes - 2 PROVE scope_info[k] < i
      <4>1. k \in 0..p - 1 /\ k < Floor(frame[i])
        BY <2>1, <3>2
      <4>. QED BY <2>1, <3>1, <4>1
    <3>. QED BY <3>2, <3>3
  <2>. QED BY <2>2, <2>3
<1>. QED BY <1>1, InvHolds, PTL

\* The cells of the live activations do not meet.
THEOREM CellsHold == Spec => []FramesKeepApart
<1>1. Inv => FramesKeepApart
  <2>. SUFFICES ASSUME Inv, Settled, NEW i \in dead + 1..depth
                PROVE  /\ frame[i].low <= frame[i].base
                       /\ frame[i].kept <= frame[i].low
                       /\ frame[i].fun \in Script => frame[i].base <= frame[i].start
                       /\ frame[i].fun # Main => frame[i].low >= Locals[Main]
                       /\ i > dead + 1 => frame[i - 1].start <= frame[i].kept
    BY DEF FramesKeepApart
  <2>1. depth \in Nat /\ dead \in 0..depth /\ i \in Depths /\ i \in 1..depth /\ frame[i] \in Activations
    BY ScopeFacts
  <2>2. mode = "run"
    BY <2>1 DEF Inv, ModesAgree, Settled
  <2>3. frame[i].fun \in Script => frame[i].base <= frame[i].start
    <3>. SUFFICES ASSUME frame[i].fun \in Script PROVE frame[i].base <= frame[i].start
      OBVIOUS
    <3>1. frame[i].start = frame[i].base + Locals[frame[i].fun]
      BY <2>1 DEF Inv, FramesAreKnown
    <3>2. Locals[frame[i].fun] \in Nat /\ frame[i].base \in Nat
      BY <2>1, Sizes DEF Activations
    <3>. QED BY <3>1, <3>2
  <2>. QED BY <2>2, <2>3 DEF Inv, CellsAreOrdered
<1>. QED BY <1>1, InvHolds, PTL

\* A string that an operand of a live activation holds is written over only
\* when a script function that C++ ran came in between.
THEOREM StringsHold == Spec => []StringsOutliveCalls
<1>1. Inv => StringsOutliveCalls
  BY DEF Inv
<1>. QED BY <1>1, InvHolds, PTL

\* An execute of the host does not end well when a function that CALL ran asked
\* to cancel it.
THEOREM CancelsHold == Spec => []CancelledRunFails
<1>1. Inv => CancelledRunFails
  BY DEF Inv, CancelsAreSeen, CancelledRunFails
<1>. QED BY <1>1, InvHolds, PTL
=============================================================================
