--------------------------- MODULE ObjectLifetime ---------------------------
(***************************************************************************)
(* The life of script objects: how the instructions of the virtual machine *)
(* (core/vm/CVirtualMachine.cpp) create objects, keep them in variables    *)
(* and members, hand them from function to function and destroy them, on   *)
(* top of the reference counts of ShareManager.                            *)
(*                                                                         *)
(* A script is an arbitrary sequence of the instructions below.  The       *)
(* machine runs one thread; what makes it hard is that one instruction is  *)
(* a chain of calls: leaving a block releases its variables, each release  *)
(* may cascade through a container, the sweep deletes objects, and each    *)
(* deletion releases members into the list that is being swept.  Those     *)
(* chains are the actions of the modes "pop", "sweep" and "result".        *)
(*                                                                         *)
(* Script values: an object reference, a primitive (null, numbers,         *)
(* booleans), or undefined.  varRef survives an assignment of a primitive, *)
(* as it does in ASSIGN_STACK_VAR.                                         *)
(***************************************************************************)
EXTENDS ShareManager, Sequences

CONSTANTS
    Var,        \* the variables of a function, the same names for every one
    BlockVar,   \* those declared in a block inside it
    MaxBlocks,  \* bound on the blocks of a function that are open at once, 0 or 1
    Member,     \* the members of an object: attributes, elements, properties
    Kinds,      \* the kinds of objects scripts create
    Features,   \* what else scripts do, see the guards that name it
    MaxCascade  \* bound on the releases pending in one cascade

ASSUME VarAssumption == BlockVar \subseteq Var
ASSUME BlockAssumption == MaxBlocks \in {0, 1}
ASSUME KindAssumption == Kinds \subseteq {"class", "vector", "struct"}
ASSUME FeatureAssumption ==
    /\ Features \subseteq {"overwrite", "escape", "operandArgument", "callFromC", "error",
                          "single", "noMain", "leftovers"}
    \* Without "leftovers" C++ calls one function, always with as many arguments,
    \* and main only declares: no cell that one call leaves an operand or an
    \* argument in is a variable of the next one.
    /\ "callFromC" \in Features => Features \cap {"noMain", "leftovers"} # {}

\* Frame 0 is the main function, whose variables are the globals; a function
\* at level l has frame l.  Level 1 is main's unless C++ called a function.
Frames     == 0..MaxLevel
FrameSlot  == Frames \X Var
MemberSlot == Object \X Member
Slot       == FrameSlot \cup MemberSlot

\* Memory is finite, and a variable is no member.
ASSUME FiniteAssumption == IsFiniteSet(Slot)
ASSUME DistinctAssumption == FrameSlot \cap MemberSlot = {}

Value     == [type : {"undefined", "primitive", "object"}, ref : Object \cup {Null}]
Undefined == [type |-> "undefined", ref |-> Null]
Literal   == [type |-> "primitive", ref |-> Null]

VARIABLES
    state,     \* [Object -> "unused", "alive" or "deleted"]
    kind,      \* [Object -> its kind]
    nodeOf,    \* [Object -> ptr_shared_pointer_node]
    value,     \* [Slot -> Value]
    depth,     \* [Frames -> how many scopes of the frame are in scope_info]
    temps,     \* [Levels -> objects the operands of its statement hold]
    cells,     \* the objects that operands which are gone still name, see Dropped
    entry,     \* what C++ executes: "none", "main" or "C" (one function)
    mode,      \* "idle", "run" a script, "pop" a scope, "sweep", "result"
    why,       \* what the popping and the sweep are part of
    popping,   \* the variables of the top scope that POP_SCOPE has yet to visit
    pending,   \* the members of the object under deletion yet to be released
    cascade,   \* the slots unrefSharedPtr of containers has yet to release
    ret        \* the object RET returns, protected from the sweep

objectVars == <<state, kind, nodeOf, value, depth, temps, cells, entry>>
controlVars == <<mode, why, popping, pending, cascade, ret>>
vars == <<managerVars, objectVars, controlVars>>

Init ==
    /\ ManagerInit
    /\ state = [o \in Object |-> "unused"]
    /\ kind = [o \in Object |-> "class"]
    /\ nodeOf = [o \in Object |-> Null]
    /\ value = [s \in Slot |-> Undefined]
    /\ depth = [f \in Frames |-> 0]
    /\ temps = [l \in Levels |-> {}]
    /\ cells = {}
    /\ entry = "none"
    /\ mode = "idle"
    /\ why = "none"
    /\ popping = {}
    /\ pending = {}
    /\ cascade = <<>>
    /\ ret = Null

-----------------------------------------------------------------------------
(* Frames, scopes and references.                                           *)

\* The frame of the running function.
frame == IF entry = "main" /\ idxCurrentStack = 1 THEN 0 ELSE idxCurrentStack

\* The scope of a variable: in a function the body is scope 1 and a block
\* scope 2; main's body is no scope, so that its variables outlive it.
BodyDepth(f) == IF f = 0 THEN 0 ELSE 1
ScopeOf(f, v) == BodyDepth(f) + (IF v \in BlockVar THEN 1 ELSE 0)
ScopeVars(f, d) == {v \in Var : ScopeOf(f, v) = d}

\* The slots a script can name now, or hold by reference as an argument.
LiveSlots ==
    {s \in FrameSlot : depth[s[1]] >= ScopeOf(s[1], s[2])}
        \cup {s \in MemberSlot : state[s[1]] = "alive"}

Refs(o) == {s \in LiveSlots : value[s].type = "object" /\ value[s].ref = o}

\* The slots an instruction can store to: variables of the active frames, and
\* members of objects that a variable, a member or an operand still reaches.
Targets ==
    {s \in LiveSlots :
        s \in FrameSlot \/ (\/ Refs(s[1]) # {}
                            \/ \E l \in 0..idxCurrentStack : s[1] \in temps[l])}

\* The objects an instruction can load.  An object that is an argument and no
\* variable holds it is an operand of the caller, which the callee reads.
Loadable ==
    temps[idxCurrentStack]
        \cup {value[s].ref : s \in {t \in LiveSlots : value[t].type = "object"}}
        \cup IF "operandArgument" \in Features
             THEN UNION {temps[l] : l \in 0..idxCurrentStack}
             ELSE {}

-----------------------------------------------------------------------------
(* Releasing.                                                               *)

MemberOrder == CHOOSE q \in [1..Cardinality(Member) -> Member] :
                  \A i, j \in 1..Cardinality(Member) : q[i] = q[j] => i = j
MemberSlots(o) == [i \in 1..Cardinality(Member) |-> <<o, MemberOrder[i]>>]

HoldsObject(s) == value[s].type = "object" /\ value[s].ref # Null

\* unrefSharedPtr of o, the slots in rest being released afterwards.  Every
\* release of a container releases its elements too.  Without a node there is
\* nothing to release, and an enclosing container gives up (failing).
unrefSharedPtr(o, rest, failing) ==
    IF nodeOf[o] = Null
    THEN /\ cascade' = IF failing THEN <<>> ELSE rest
         /\ UNCHANGED nodeVars
    ELSE /\ unrefSharedScriptVar(nodeOf[o])
         /\ cascade' = IF kind[o] = "class" THEN rest ELSE MemberSlots(o) \o rest

\* The loop over the elements of a container: a vector looks at varRef alone,
\* a struct at the type as well.
UnrefElement ==
    /\ cascade # <<>>
    /\ Len(cascade) <= MaxCascade
    /\ LET s == Head(cascade)
           held == IF kind[s[1]] = "vector" THEN value[s].ref # Null ELSE HoldsObject(s)
       IN  IF held
           THEN unrefSharedPtr(value[s].ref, Tail(cascade), TRUE)
           ELSE cascade' = Tail(cascade) /\ UNCHANGED nodeVars
    /\ UNCHANGED <<idxCurrentStack, sweepVars, objectVars, mode, why, popping, pending, ret>>

-----------------------------------------------------------------------------
(* The instructions of a running script.                                    *)

Running == mode = "run"

\* NEW, DECL_VEC, DECL_STRUCT: the object is an operand, without shares.
NewObject == \E o \in Object, nd \in Node, k \in Kinds :
    /\ Running
    /\ state[o] = "unused"
    /\ newSharedPointer(nd, o)
    /\ state' = [state EXCEPT ![o] = "alive"]
    /\ kind' = [kind EXCEPT ![o] = k]
    /\ nodeOf' = [nodeOf EXCEPT ![o] = nd]
    /\ temps' = [temps EXCEPT ![idxCurrentStack] = @ \cup {o}]
    /\ UNCHANGED <<idxCurrentStack, sweepVars, value, depth, cells, entry, controlVars>>

\* Mutant of StoreObject: the new reference is not counted.
StoreWithoutShare == \E dst \in Targets, o \in Loadable :
    /\ Running
    /\ "overwrite" \in Features \/ value[dst].type # "object"
    /\ value' = [value EXCEPT ![dst] = [type |-> "object", ref |-> o]]
    /\ temps' = [temps EXCEPT ![idxCurrentStack] = @ \cup {o}]
    /\ UNCHANGED <<managerVars, state, kind, nodeOf, depth, cells, entry, controlVars>>

\* Mutant of StoreObject: what replaces an object is released in its place.
StoreReleasesNew == \E dst \in Targets, o \in Loadable :
    /\ Running
    /\ "overwrite" \in Features \/ value[dst].type # "object"
    /\ nodeOf[o] # Null
    /\ IF value[dst].type = "object" THEN UNCHANGED nodeVars ELSE sharePointer(nodeOf[o])
    /\ value' = [value EXCEPT ![dst] = [type |-> "object", ref |-> o]]
    /\ temps' = [temps EXCEPT ![idxCurrentStack] = @ \cup {o}]
    /\ UNCHANGED <<idxCurrentStack, sweepVars, state, kind, nodeOf, depth, cells, entry,
                   controlVars>>

\* In the scripts of "single" an object is stored once, and not in itself, and
\* stays there until the slot goes out of use.
\* STORE of an object, VPUSH and PUSH_ATTR of one that is an operand, and the
\* add of a vector: the slot gets the reference and shares it, and the source
\* stays an operand.  The object the slot held before keeps its share: the
\* release under "unref pointer because new pointer has been attached" compares
\* src_ins->varRef with what has just been assigned from it.
StoreObject == \E dst \in Targets, o \in Loadable :
    /\ Running
    /\ "overwrite" \in Features \/ value[dst].type # "object"
    /\ "single" \in Features => Refs(o) = {} /\ dst[1] # o
    /\ nodeOf[o] # Null
    /\ sharePointer(nodeOf[o])
    /\ value' = [value EXCEPT ![dst] = [type |-> "object", ref |-> o]]
    /\ temps' = [temps EXCEPT ![idxCurrentStack] = @ \cup {o}]
    /\ UNCHANGED <<idxCurrentStack, sweepVars, state, kind, nodeOf, depth, cells, entry,
                   controlVars>>

\* STORE of a primitive: the type changes, varRef stays, and the object the
\* slot held is released unless the source has the same, stale, varRef.
StorePrimitive == \E dst \in Targets :
    \E src \in {Literal} \cup {value[s] : s \in {t \in LiveSlots : value[t].type = "primitive"}} :
    /\ Running
    /\ value[dst].type # "undefined"
    /\ "overwrite" \in Features \/ value[dst].type # "object" \/ src = Literal
    /\ "single" \in Features => value[dst].type # "object"
    /\ value' = [value EXCEPT ![dst].type = "primitive"]
    /\ LET old == value[dst]
       IN  IF HoldsObject(dst) /\ src.ref # old.ref /\ nodeOf[old.ref] # Null
           THEN unrefSharedScriptVar(nodeOf[old.ref])
           ELSE UNCHANGED nodeVars
    /\ UNCHANGED <<idxCurrentStack, sweepVars, state, kind, nodeOf, depth, temps, cells,
                   entry, controlVars>>

\* Operands and arguments that are dropped stay in their cells of the stack,
\* uncounted.  ptrCurrentOp starts over whenever C++ calls (at the first cell
\* after the globals), so those cells are variables of a function called later.
Dropped(objs) == cells' = IF "leftovers" \in Features THEN cells \cup objs ELSE cells

\* The end of a statement drops its operands.
EndStatement ==
    /\ Running
    /\ temps[idxCurrentStack] # {}
    /\ temps' = [temps EXCEPT ![idxCurrentStack] = {}]
    /\ Dropped(temps[idxCurrentStack])
    /\ UNCHANGED <<managerVars, state, kind, nodeOf, value, depth, entry, controlVars>>

\* CALL of a script function: its body is a scope and its variables start
\* undefined.  What the caller's operands hold (the object under construction,
\* arguments) has no share yet unless scripts use stored values as operands.
Call ==
    /\ Running
    /\ idxCurrentStack < MaxLevel
    /\ \/ "operandArgument" \in Features
       \/ \A o \in temps[idxCurrentStack] : nodeOf[o] = Null \/ n_shares[nodeOf[o]] = 0
    /\ idxCurrentStack' = idxCurrentStack + 1
    /\ depth' = [depth EXCEPT ![idxCurrentStack + 1] = 1]
    /\ value' = [s \in Slot |-> IF s \in {idxCurrentStack + 1} \X Var
                                THEN Undefined ELSE value[s]]
    /\ UNCHANGED <<nodeVars, sweepVars, state, kind, nodeOf, temps, cells, entry, controlVars>>

\* PUSH_SCOPE: the variables of the block are not touched.
PushScope ==
    /\ Running
    /\ temps[idxCurrentStack] = {}
    /\ depth[frame] < BodyDepth(frame) + MaxBlocks
    /\ depth' = [depth EXCEPT ![frame] = @ + 1]
    /\ UNCHANGED <<managerVars, state, kind, nodeOf, value, temps, cells, entry, controlVars>>

\* POP_SCOPE
PopScope ==
    /\ Running
    /\ temps[idxCurrentStack] = {}
    /\ depth[frame] = BodyDepth(frame) + 1
    /\ mode' = "pop"
    /\ why' = "block"
    /\ popping' = ScopeVars(frame, depth[frame])
    /\ UNCHANGED <<managerVars, objectVars, pending, cascade, ret>>

-----------------------------------------------------------------------------
(* Leaving a function, and the machine.                                     *)

\* RET, or the end of the body: all scopes of the frame are popped.
Return ==
    /\ Running
    /\ frame # 0
    /\ temps' = [temps EXCEPT ![idxCurrentStack] = {}]
    /\ Dropped(temps[idxCurrentStack])
    /\ mode' = "pop"
    /\ why' = "return"
    /\ popping' = ScopeVars(frame, depth[frame])
    /\ UNCHANGED <<managerVars, state, kind, nodeOf, value, depth, entry, pending, cascade, ret>>

\* RET of an object takes its node away, so that the scopes do not release it;
\* the caller gives it a new one.  Unless "escape", scripts return only what
\* nothing outside the returning function refers to, and the new node needs
\* memory (the bound on Node).
ReturnObject == \E o \in Loadable :
    /\ Running
    /\ frame # 0
    /\ nodes # Node
    /\ "escape" \in Features \/ Refs(o) \subseteq {frame} \X Var
    /\ ret' = o
    /\ nodeOf' = [nodeOf EXCEPT ![o] = Null]
    /\ temps' = [temps EXCEPT ![idxCurrentStack] = {}]
    /\ Dropped(temps[idxCurrentStack])
    /\ mode' = "pop"
    /\ why' = "return"
    /\ popping' = ScopeVars(frame, depth[frame])
    /\ UNCHANGED <<managerVars, state, kind, value, depth, entry, pending, cascade>>

\* RET of an object from main takes its node away too, but the sweep that
\* follows protects nothing (it is called with NULL): an object that only main's
\* operands hold is deleted on its way to C++, and never is ret.  The globals
\* are no scope that is left, so that returning what one of them holds is
\* "escape".
MainReturnsObject == \E o \in Loadable :
    /\ Running
    /\ frame = 0
    /\ depth[0] = 0
    /\ "escape" \in Features \/ Refs(o) = {}
    /\ nodeOf' = [nodeOf EXCEPT ![o] = Null]
    /\ temps' = [temps EXCEPT ![idxCurrentStack] = {}]
    /\ Dropped(temps[idxCurrentStack])
    /\ mode' = "sweep"
    /\ why' = "main"
    /\ UNCHANGED <<managerVars, state, kind, value, depth, entry, popping, pending, cascade, ret>>

\* CALL takes the result: a new node at the caller's level.  The result of a
\* constructor is dropped, any other is an operand.
TakeResult == \E nd \in Node :
    /\ mode = "result"
    /\ newSharedPointer(nd, ret)
    /\ nodeOf' = [nodeOf EXCEPT ![ret] = nd]
    /\ temps' \in {temps, [temps EXCEPT ![idxCurrentStack] = @ \cup {ret}]}
    /\ ret' = Null
    /\ mode' = "run"
    /\ why' = "none"
    /\ UNCHANGED <<idxCurrentStack, sweepVars, state, kind, value, depth, cells, entry,
                   popping, pending, cascade>>

\* The end of main: the sweep alone, the globals stay.
MainExit ==
    /\ Running
    /\ frame = 0
    /\ depth[0] = 0
    /\ temps[idxCurrentStack] = {}
    /\ mode' = "sweep"
    /\ why' = "main"
    /\ UNCHANGED <<managerVars, objectVars, popping, pending, cascade, ret>>

\* An error: execute calls stackDumped, which pops every scope of every frame
\* while idxCurrentStack stays at the level that failed.
OpenFrames == {f \in Frames : depth[f] > 0}
TopFrame == CHOOSE f \in OpenFrames : \A g \in OpenFrames : g <= f

stackDumped ==
    /\ "error" \in Features
    /\ Running
    /\ temps' = [l \in Levels |-> {}]
    /\ Dropped(UNION {temps[l] : l \in Levels})
    /\ IF OpenFrames = {}
       THEN /\ idxCurrentStack' = 0
            /\ entry' = "none"
            /\ mode' = "idle"
            /\ UNCHANGED <<why, popping>>
       ELSE /\ mode' = "pop"
            /\ why' = "error"
            /\ popping' = ScopeVars(TopFrame, depth[TopFrame])
            /\ UNCHANGED <<idxCurrentStack, entry>>
    /\ UNCHANGED <<nodeVars, sweepVars, state, kind, nodeOf, value, depth, pending, cascade, ret>>

\* execute, for the main function and for one that C++ calls.  The variables
\* are initialised only when idxCurrentStack > 1, so not here: with "leftovers"
\* each may begin with what an operand left in its cell.  The main of a script
\* of "noMain" only declares: running it changes nothing.
Execute ==
    /\ mode = "idle"
    /\ idxCurrentStack' = 1
    /\ mode' = "run"
    /\ \/ /\ "noMain" \notin Features
          /\ entry' = "main"
          /\ UNCHANGED <<depth, value>>
       \/ /\ "callFromC" \in Features
          /\ entry' = "C"
          /\ depth' = [depth EXCEPT ![1] = 1]
          /\ \E left \in [Var -> cells \cup {Null}] :
                value' = [s \in Slot |->
                            IF s \in {1} \X Var /\ left[s[2]] # Null
                            THEN [type |-> "object", ref |-> left[s[2]]] ELSE value[s]]
    /\ UNCHANGED <<nodeVars, sweepVars, state, kind, nodeOf, temps, cells, why, popping,
                   pending, cascade, ret>>

\* clearGlobals: all variables of main are released, at level 0.
clearGlobals ==
    /\ mode = "idle"
    /\ \E s \in {0} \X Var : value[s] # Undefined
    /\ mode' = "pop"
    /\ why' = "clear"
    /\ popping' = Var
    /\ UNCHANGED <<managerVars, objectVars, pending, cascade, ret>>

-----------------------------------------------------------------------------
(* Popping a scope and sweeping the candidates of the level.                *)

PoppedFrame == CASE why = "clear" -> 0
                 [] why = "error" -> TopFrame
                 [] OTHER -> frame

\* Mutant of PopLocal: a popped variable keeps its share.
PopLocalKeepsShare == \E v \in popping :
    /\ mode = "pop"
    /\ cascade = <<>>
    /\ value' = [value EXCEPT ![<<PoppedFrame, v>>] = Undefined]
    /\ popping' = popping \ {v}
    /\ UNCHANGED <<managerVars, state, kind, nodeOf, depth, temps, cells, entry,
                   mode, why, pending, cascade, ret>>

\* Mutant of PopLocal: a popped variable is not set to undefined.
PopLocalKeepsValue == \E v \in popping :
    LET s == <<PoppedFrame, v>>
    IN  /\ mode = "pop"
        /\ cascade = <<>>
        /\ IF HoldsObject(s)
           THEN unrefSharedPtr(value[s].ref, <<>>, FALSE)
           ELSE UNCHANGED <<nodeVars, cascade>>
        /\ popping' = popping \ {v}
        /\ UNCHANGED <<idxCurrentStack, sweepVars, state, kind, nodeOf, value, depth, temps,
                       cells, entry, mode, why, pending, ret>>

\* Each variable of the scope releases its object and becomes undefined.
PopLocal == \E v \in popping :
    LET s == <<PoppedFrame, v>>
    IN  /\ mode = "pop"
        /\ cascade = <<>>
        /\ IF HoldsObject(s)
           THEN unrefSharedPtr(value[s].ref, <<>>, FALSE)
           ELSE UNCHANGED <<nodeVars, cascade>>
        /\ value' = [value EXCEPT ![s] = Undefined]
        /\ popping' = popping \ {v}
        /\ UNCHANGED <<idxCurrentStack, sweepVars, state, kind, nodeOf, depth, temps, cells,
                       entry, mode, why, pending, ret>>

BeginSweep ==
    /\ mode = "pop"
    /\ popping = {}
    /\ cascade = <<>>
    /\ mode' = "sweep"
    /\ UNCHANGED <<managerVars, objectVars, why, popping, pending, cascade, ret>>

\* The next candidate: its object is deleted unless it is being returned.  The
\* destructor of a vector does not release the elements.
SweepVisit == \E nd \in Node :
    /\ mode = "sweep"
    /\ RemoveVisit(nd)
    /\ pending' = IF shared_ptr[nd] = ret \/ kind[shared_ptr[nd]] = "vector"
                  THEN {} ELSE Member
    /\ UNCHANGED <<objectVars, mode, why, popping, cascade, ret>>

\* Mutant of ReleaseMember: the loop of the destructor stays at its member.
ReleaseMemberAgain == \E m \in pending :
    LET s == <<shared_ptr[current], m>>
    IN  /\ mode = "sweep"
        /\ current # Null
        /\ cascade = <<>>
        /\ IF HoldsObject(s)
           THEN unrefSharedPtr(value[s].ref, <<>>, FALSE)
           ELSE UNCHANGED <<nodeVars, cascade>>
        /\ UNCHANGED <<idxCurrentStack, sweepVars, objectVars, mode, why, popping, pending, ret>>

\* The destructor releases a member (removeVariableSymbolByIndex).
ReleaseMember == \E m \in pending :
    LET s == <<shared_ptr[current], m>>
    IN  /\ mode = "sweep"
        /\ current # Null
        /\ cascade = <<>>
        /\ IF HoldsObject(s)
           THEN unrefSharedPtr(value[s].ref, <<>>, FALSE)
           ELSE UNCHANGED <<nodeVars, cascade>>
        /\ value' = [value EXCEPT ![s] = Undefined]
        /\ pending' = pending \ {m}
        /\ UNCHANGED <<idxCurrentStack, sweepVars, state, kind, nodeOf, depth, temps, cells,
                       entry, mode, why, popping, ret>>

\* Mutant of SweepFree: the object that is being returned is not protected.
SweepFreeReturned ==
    /\ mode = "sweep"
    /\ pending = {}
    /\ cascade = <<>>
    /\ RemoveFree
    /\ LET o == shared_ptr[current]
       IN  /\ state' = [state EXCEPT ![o] = "deleted"]
           /\ nodeOf' = [nodeOf EXCEPT ![o] = Null]
           /\ value' = [s \in Slot |-> IF s \in {o} \X Member THEN Undefined ELSE value[s]]
    /\ UNCHANGED <<kind, depth, temps, cells, entry, controlVars>>

\* The deletion ends and the node is freed.
SweepFree ==
    /\ mode = "sweep"
    /\ pending = {}
    /\ cascade = <<>>
    /\ RemoveFree
    /\ LET o == shared_ptr[current]
       IN  IF o = ret
           THEN UNCHANGED <<state, nodeOf, value>>
           ELSE /\ state' = [state EXCEPT ![o] = "deleted"]
                /\ nodeOf' = [nodeOf EXCEPT ![o] = Null]
                /\ value' = [s \in Slot |-> IF s \in {o} \X Member
                                            THEN Undefined ELSE value[s]]
    /\ UNCHANGED <<kind, depth, temps, cells, entry, controlVars>>

\* Mutant of Swept: a scope can be left with candidates in its list.
SweptEarly ==
    /\ mode = "sweep"
    /\ current = Null
    /\ ~sweeping

\* What follows the sweep, by what it is part of.
Swept ==
    /\ mode = "sweep"
    /\ current = Null
    /\ zero_shares[idxCurrentStack] = {}

EndBlock ==
    /\ Swept
    /\ why = "block"
    /\ depth' = [depth EXCEPT ![frame] = @ - 1]
    /\ mode' = "run"
    /\ why' = "none"
    /\ UNCHANGED <<managerVars, state, kind, nodeOf, value, temps, cells, entry,
                   popping, pending, cascade, ret>>

\* Mutant of EndScope: the scope stays in scope_info.
EndScopeKeepsScope ==
    /\ Swept
    /\ \/ why = "return" /\ depth[frame] > 1
       \/ why = "error" /\ (Cardinality(OpenFrames) > 1 \/ depth[TopFrame] > 1)
    /\ mode' = "pop"
    /\ popping' = ScopeVars(PoppedFrame, depth[PoppedFrame])
    /\ UNCHANGED <<managerVars, state, kind, nodeOf, value, depth, temps, cells, entry,
                   why, pending, cascade, ret>>

\* Another scope of the returning frame, or of the frames under an error.
EndScope ==
    /\ Swept
    /\ \/ why = "return" /\ depth[frame] > 1
       \/ why = "error" /\ (Cardinality(OpenFrames) > 1 \/ depth[TopFrame] > 1)
    /\ depth' = [depth EXCEPT ![PoppedFrame] = @ - 1]
    /\ mode' = "pop"
    /\ LET f == IF depth[PoppedFrame] > 1 THEN PoppedFrame
                ELSE CHOOSE g \in OpenFrames \ {PoppedFrame} :
                        \A h \in OpenFrames \ {PoppedFrame} : h <= g
       IN  popping' = ScopeVars(f, IF f = PoppedFrame THEN depth[f] - 1 ELSE depth[f])
    /\ UNCHANGED <<managerVars, state, kind, nodeOf, value, temps, cells, entry,
                   why, pending, cascade, ret>>

\* The frame is left; a result goes to the calling function, or to C++.
LeaveFunction ==
    /\ Swept
    /\ why = "return"
    /\ depth[frame] = 1
    /\ depth' = [depth EXCEPT ![frame] = 0]
    /\ idxCurrentStack' = idxCurrentStack - 1
    /\ IF idxCurrentStack = 1
       THEN mode' = "idle" /\ entry' = "none" /\ ret' = Null /\ why' = "none"
       ELSE IF ret = Null
       THEN mode' = "run" /\ why' = "none" /\ UNCHANGED <<entry, ret>>
       ELSE mode' = "result" /\ UNCHANGED <<entry, ret, why>>
    /\ UNCHANGED <<nodeVars, sweepVars, state, kind, nodeOf, value, temps, cells,
                   popping, pending, cascade>>

\* The last scope under an error, the end of main, and of clearGlobals, which
\* empties the whole stack.
LeaveMachine ==
    /\ Swept
    /\ \/ why = "error" /\ Cardinality(OpenFrames) = 1 /\ depth[TopFrame] = 1
       \/ why \in {"main", "clear"}
    /\ depth' = [f \in Frames |-> 0]
    /\ idxCurrentStack' = 0
    /\ entry' = "none"
    /\ mode' = "idle"
    /\ why' = "none"
    /\ value' = [s \in Slot |-> IF why = "clear" /\ s \in FrameSlot
                                THEN Undefined ELSE value[s]]
    /\ cells' = IF why = "clear" THEN {} ELSE cells
    /\ UNCHANGED <<nodeVars, sweepVars, state, kind, nodeOf, temps,
                   popping, pending, cascade, ret>>

-----------------------------------------------------------------------------
\* What the script and C++ decide.
Script ==
    \/ NewObject
    \/ StoreObject
    \/ StorePrimitive
    \/ EndStatement
    \/ Call
    \/ PushScope
    \/ PopScope
    \/ Return
    \/ ReturnObject
    \/ MainReturnsObject
    \/ MainExit
    \/ stackDumped
    \/ Execute
    \/ clearGlobals

\* What the machine does by itself.
Machine ==
    \/ TakeResult
    \/ UnrefElement
    \/ PopLocal
    \/ BeginSweep
    \/ SweepVisit
    \/ ReleaseMember
    \/ SweepFree
    \/ EndBlock
    \/ EndScope
    \/ LeaveFunction
    \/ LeaveMachine

Next == Script \/ Machine

\* The machine's loops run on the thread that called it.
Spec == Init /\ [][Next]_vars
FairSpec == Spec /\ WF_vars(Machine)

-----------------------------------------------------------------------------
(* Properties.                                                              *)

ObjectTypeOK ==
    /\ state \in [Object -> {"unused", "alive", "deleted"}]
    /\ kind \in [Object -> {"class", "vector", "struct"}]
    /\ nodeOf \in [Object -> Node \cup {Null}]
    /\ value \in [Slot -> Value]
    /\ depth \in [Frames -> 0..2]
    /\ temps \in [Levels -> SUBSET Object]
    /\ cells \in SUBSET Object
    /\ entry \in {"none", "main", "C"}
    /\ mode \in {"idle", "run", "pop", "sweep", "result"}
    /\ why \in {"none", "block", "return", "main", "error", "clear"}
    /\ popping \in SUBSET Var
    /\ pending \in SUBSET Member
    /\ cascade \in Seq(MemberSlot)
    /\ ret \in Object \cup {Null}

TypeOK == ManagerTypeOK /\ ObjectTypeOK

\* No variable in scope, and no member of an object that exists, refers to an
\* object that has been deleted: what every LOAD of the machine relies on.
NoDanglingReference ==
    \A s \in LiveSlots : value[s].type = "object" =>
        value[s].ref # Null /\ state[value[s].ref] = "alive"

\* The same between the instructions, where a script could follow one: while a
\* vector is swept it may refer for a moment to an element that has gone first.
ScriptSeesNoDeletedObject ==
    mode = "run" => \A s \in LiveSlots : value[s].type = "object" =>
        state[value[s].ref] = "alive"

\* The count of an object never falls below the number of its references,
\* except for the one that is being returned, which has no node.
CountCoversReferences ==
    \A o \in Object : nodeOf[o] # Null => n_shares[nodeOf[o]] >= Cardinality(Refs(o))

\* Nor does it exceed it, for scripts that assign no object over another one.
CountIsExact ==
    \A o \in Object : nodeOf[o] # Null => n_shares[nodeOf[o]] = Cardinality(Refs(o))

\* The operands of all active statements and the result on its way to the
\* calling function, or from a function to C++, exist: no sweep of a callee
\* takes them.  The result of main is not among them, see MainReturnsObject.
OperandsAlive ==
    /\ \A l \in Levels : \A o \in temps[l] : state[o] = "alive"
    /\ ret # Null => state[ret] = "alive"

\* Every candidate stands for an object that exists and is a candidate once,
\* also while RET has taken its node away: no object is deleted twice.
CandidatesAreDistinctObjects ==
    \A l, m \in Levels : \A nd \in zero_shares[l], other \in zero_shares[m] :
        /\ state[shared_ptr[nd]] = "alive"
        /\ nodeOf[shared_ptr[nd]] \in {nd, Null}
        /\ shared_ptr[nd] = shared_ptr[other] => nd = other

\* When the main function has ended nothing exists that nothing refers to.
NoGarbageAfterMain ==
    mode = "idle" => \A o \in Object : state[o] = "alive" => Refs(o) # {}

\* Every chain of releases and deletions ends, and the script or C++ goes on.
UnwindingEnds ==
    mode \notin {"idle", "run"} ~> mode \in {"idle", "run"}

\* No function begins with what a variable of an earlier call held: each of its
\* variables is undefined or, in the frame of a function that C++ calls, names
\* what an operand has left in its cell.
NoVariableOutlivesItsCall ==
    [][\A f \in Frames \ {0} :
          depth[f] = 0 /\ depth'[f] = 1 =>
              \A v \in Var : \/ value'[<<f, v>>].type = "undefined"
                             \/ f = 1 /\ value'[<<f, v>>].ref \in cells]_vars

\* What the comments in execute_internal say ("is not main function, so we
\* have to initialize vars", "starts undefined").  It fails with "leftovers".
VariablesStartUndefined ==
    [][\A f \in Frames \ {0} :
          depth[f] = 0 /\ depth'[f] = 1 =>
              \A v \in Var : value'[<<f, v>>].type = "undefined"]_vars
=============================================================================
